----------------------------- MODULE DriveProofs -----------------------------
(***************************************************************************)
(* The sweep's shared draft cache, for every trace, gate and sweep: a      *)
(* draft taken from it is the one the call's own knobs order.              *)
(*                                                                         *)
(* The argument: what lies under a key was costed with that key's knobs    *)
(* (CacheSound), a call looks under its own key, and it fills the cache in *)
(* step order, so an entry's place is the step it was costed for.          *)
(*                                                                         *)
(* Then what the calls record (ReplayInv): for every step of its trace a   *)
(* call leaves what its own knobs order of that step, whatever ran before  *)
(* it, and an LP-Spec call has learnt the measured steps so far (Learnt),  *)
(* which no knob of its own enters.  The properties are then facts about   *)
(* one step under two thresholds, two keep-counts or two contexts.         *)
(* Replaying a trace at its own keep-count keeps it whole as a step never  *)
(* holds more nodes than that: the order is total, so the first L are L.   *)
(*                                                                         *)
(* Last the analysis of the ungated trace (AnalysisInv: it is a function   *)
(* of the trace).  What it reports are totals over the steps, so a fact    *)
(* about one step (CountStep to LooserLeavesMore) becomes one about the    *)
(* trace term by term (TermByTerm, SumOfParts); its curve is a sequence    *)
(* that ascends (Curve), and a point lies before, behind or on a segment.  *)
(***************************************************************************)
EXTENDS Analysis, DTPProofs, SequenceTheorems

\* The draft that a call with this configuration orders for step i.
DraftOf(cfg, i) == DraftCost(eagle[i], cfg.sigma_th, DraftOnNpu(cfg))

\* Every call of the sweep was given the same flags.
SameFlags(cfg) == cfg.driver = "capim" => cfg.all_npu = flags.all_npu

\* What lies in the cache was costed with its key's knobs, step by step.
CacheSound ==
  \A key \in DOMAIN draft_cache_by_key :
    /\ \E S : draft_cache_by_key[key] \in Seq(S)
    /\ \A i \in 1..Len(draft_cache_by_key[key]) :
         draft_cache_by_key[key][i] =
           DraftCost(eagle[i], key[1], flags.all_npu \/ key[2] = "npu")

\* The running call charged the drafts its knobs order, and left them in the cache.
ResultSound ==
  /\ \E S : result \in Seq(S)
  /\ queue # <<>> /\ Cfg.driver = "capim" =>
       /\ Len(result) <= Len(Cache)
       /\ \A i \in 1..Len(result) : result[i].draft = DraftOf(Cfg, i)

\* So did every call that returned.
RecordsSound ==
  /\ \E S : records \in Seq(S)
  /\ \A c \in 1..Len(records) : records[c].cfg.driver = "capim" =>
       \A i \in DOMAIN eagle : records[c].steps[i].draft = DraftOf(records[c].cfg, i)

\* The calls to come carry the sweep's flags.
QueueSound == \E S : queue \in Seq(S) /\ \A cfg \in S : SameFlags(cfg)

\* The invariant of the cache.
DriveInv ==
  /\ Len(drafted) \in Nat /\ DOMAIN drafted = 1..Len(drafted)
  /\ QueueSound /\ CacheSound /\ ResultSound /\ RecordsSound

-----------------------------------------------------------------------------
\* The gated EAGLE trace has a step for every drafted tree.
LEMMA EagleLen ==
  ASSUME Len(drafted) \in Nat, DOMAIN drafted = 1..Len(drafted)
  PROVE  DOMAIN eagle = 1..Len(drafted) /\ Len(eagle) = Len(drafted)
<1>. DEFINE n == Len(drafted)
            f == [i \in 1..n |-> Gated(drafted[i], gate)]
<1>1. n \in Nat /\ eagle = f
  BY DEF eagle
<1>. HIDE DEF n
<1>2. Len(f) = n /\ DOMAIN f = 1..n
  BY <1>1
<1>. QED  BY <1>1, <1>2 DEF n

\* The calls of a sweep carry its flags.
LEMMA CallsFlagged ==
  \E S : Calls \in Seq(S) /\ \A cfg \in S : SameFlags(cfg)
<1>. DEFINE ar == <<[driver |-> "ar", source |-> "eagle"], [driver |-> "ar", source |-> "medusa"]>>
            n == Len(SigmaThs) * Len(DraftDevices) * Len(MuThs)
            S == {[driver |-> "ar", source |-> "eagle"], [driver |-> "ar", source |-> "medusa"]}
                   \cup {CapimConfigs[c] : c \in 1..n}
                   \cup {LpSpecConfigs[c] : c \in 1..Len(LSpecs)}
<1>1. /\ Len(SigmaThs) \in Nat /\ Len(DraftDevices) \in Nat /\ Len(MuThs) \in Nat
      /\ Len(LSpecs) \in Nat /\ DOMAIN LSpecs = 1..Len(LSpecs)
  BY DriveAssumption
<1>2. n \in Nat
  BY <1>1
<1>3. \A c \in 1..n : SameFlags(CapimConfigs[c])
  BY DEF CapimConfigs, SameFlags
<1>4. \A c \in 1..Len(LSpecs) : SameFlags(LpSpecConfigs[c])
  BY <1>1 DEF LpSpecConfigs, SameFlags
<1>5. \A cfg \in S : SameFlags(cfg)
  BY <1>3, <1>4 DEF SameFlags
<1>6. ar \in Seq(S)
  OBVIOUS
<1>7. CapimConfigs = [c \in 1..n |-> CapimConfigs[c]]
      /\ LpSpecConfigs = [c \in 1..Len(LSpecs) |-> LpSpecConfigs[c]]
  BY <1>1 DEF CapimConfigs, LpSpecConfigs
<1>8. CapimConfigs \in Seq(S) /\ LpSpecConfigs \in Seq(S)
  <2>1. \A c \in 1..n : CapimConfigs[c] \in S
    OBVIOUS
  <2>2. \A c \in 1..Len(LSpecs) : LpSpecConfigs[c] \in S
    OBVIOUS
  <2>. HIDE DEF S, n
  <2>. QED  BY <1>1, <1>2, <1>7, <2>1, <2>2
<1>9. Calls = ar \o CapimConfigs \o LpSpecConfigs
  BY DEF Calls
<1>. HIDE DEF S, ar
<1>10. Calls \in Seq(S)
  BY <1>6, <1>8, <1>9
<1>. QED  BY <1>5, <1>10

\* A sweep starts with no record and an empty cache.
LEMMA DriveInvInit == Init => DriveInv
<1>. SUFFICES ASSUME Init PROVE DriveInv
  OBVIOUS
<1>1. Len(drafted) \in Nat /\ DOMAIN drafted = 1..Len(drafted)
  BY DriveAssumption DEF Init
<1>2. QueueSound
  BY CallsFlagged DEF Init, QueueSound
<1>3. result = <<>> /\ records = <<>> /\ DOMAIN draft_cache_by_key = {}
  BY DEF Init
<1>4. <<>> \in Seq({}) /\ Len(<<>>) = 0
  OBVIOUS
<1>5. 0 <= Len(Cache)
  BY <1>3, <1>4 DEF Cache
<1>6. CacheSound
  BY <1>3 DEF CacheSound
<1>7. ResultSound /\ RecordsSound
  BY <1>3, <1>4, <1>5 DEF ResultSound, RecordsSound
<1>. QED  BY <1>1, <1>2, <1>6, <1>7 DEF DriveInv

\* What a call finds under its key.
LEMMA CacheTyped ==
  ASSUME DriveInv, queue # <<>>, Cfg.driver = "capim"
  PROVE  /\ \E S : Cache \in Seq(S)
         /\ Len(Cache) \in Nat
         /\ \A i \in 1..Len(Cache) : Cache[i] = DraftOf(Cfg, i)
<1>1. PICK S : queue \in Seq(S) /\ \A cfg \in S : SameFlags(cfg)
  BY DEF DriveInv, QueueSound
<1>2. Cfg.all_npu = flags.all_npu
  BY <1>1, HeadTailProperties DEF Cfg, SameFlags
<1>3. DraftOnNpu(Cfg) <=> flags.all_npu \/ CacheKey(Cfg)[2] = "npu"
  BY <1>2 DEF DraftOnNpu, CacheKey
<1>4. CASE CacheKey(Cfg) \in DOMAIN draft_cache_by_key
  <2>. DEFINE key == CacheKey(Cfg)
  <2>1. /\ \E T : draft_cache_by_key[key] \in Seq(T)
        /\ \A i \in 1..Len(draft_cache_by_key[key]) :
             draft_cache_by_key[key][i] =
               DraftCost(eagle[i], key[1], flags.all_npu \/ key[2] = "npu")
    BY <1>4 DEF DriveInv, CacheSound
  <2>2. Cache = draft_cache_by_key[key] /\ key[1] = Cfg.sigma_th
    BY <1>4 DEF Cache, CacheKey
  <2>3. \A i : DraftCost(eagle[i], key[1], flags.all_npu \/ key[2] = "npu") = DraftOf(Cfg, i)
    BY <1>3, <2>2 DEF DraftCost, DraftOf
  <2>. QED  BY <2>1, <2>2, <2>3
<1>5. CASE CacheKey(Cfg) \notin DOMAIN draft_cache_by_key
  <2>1. Cache = <<>> /\ <<>> \in Seq({}) /\ Len(<<>>) = 0
    BY <1>5 DEF Cache
  <2>. QED  BY <2>1
<1>. QED  BY <1>4, <1>5

\* A CAPIM step uses or fills the cache under its own key.
LEMMA CapimStepSound == DriveInv /\ CapimStep => DriveInv'
<1>. SUFFICES ASSUME DriveInv, CapimStep PROVE DriveInv'
  OBVIOUS
<1>. DEFINE i == Len(result) + 1
            draft == IF i \in DOMAIN Cache THEN Cache[i]
                     ELSE DraftCost(Step, Cfg.sigma_th, DraftOnNpu(Cfg))
            cache == IF i \in DOMAIN Cache THEN Cache ELSE Append(Cache, draft)
            key == CacheKey(Cfg)
<1>1. /\ queue # <<>> /\ Cfg.driver = "capim" /\ Len(result) < Len(TraceOf(Cfg))
      /\ draft_cache_by_key' =
           [k \in DOMAIN draft_cache_by_key \cup {key} |->
              IF k = key THEN cache ELSE draft_cache_by_key[k]]
      /\ result' = Append(result,
              [prompt_id |-> Step.prompt_id, tokens |-> Tokens(Step, Cfg),
               draft |-> draft, verify |-> Verify(Step, Cfg)])
      /\ UNCHANGED <<drafted, gate, flags, queue, records>>
  BY DEF CapimStep, Running, input
<1>2. eagle' = eagle
  BY <1>1 DEF eagle
<1>3. Len(result) \in Nat /\ Len(result) <= Len(Cache) /\ (\E S : result \in Seq(S))
      /\ \A j \in 1..Len(result) : result[j].draft = DraftOf(Cfg, j)
  BY <1>1 DEF DriveInv, ResultSound
<1>4. PICK S : Cache \in Seq(S)
  BY <1>1, CacheTyped
<1>5. Len(Cache) \in Nat /\ DOMAIN Cache = 1..Len(Cache)
      /\ \A j \in 1..Len(Cache) : Cache[j] = DraftOf(Cfg, j)
  BY <1>1, <1>4, CacheTyped
<1>6. draft = DraftOf(Cfg, i)
  <2>1. Step = eagle[i]
    BY <1>1 DEF Step, TraceOf
  <2>. QED  BY <1>5, <2>1 DEF DraftOf
<1>. HIDE DEF draft
<1>7. /\ \E T : cache \in Seq(T)
      /\ Len(cache) \in Nat /\ i <= Len(cache)
      /\ \A j \in 1..Len(cache) : cache[j] = DraftOf(Cfg, j)
  <2>1. CASE i \in DOMAIN Cache
    BY <1>4, <1>5, <2>1
  <2>2. CASE i \notin DOMAIN Cache
    <3>1. Len(Cache) = Len(result)
      BY <1>3, <1>5, <2>2
    <3>2. Cache \in Seq(S \cup {draft})
      BY <1>4, <1>5
    <3>3. /\ Append(Cache, draft) \in Seq(S \cup {draft})
          /\ Len(Append(Cache, draft)) = Len(Cache) + 1
          /\ Append(Cache, draft)[Len(Cache) + 1] = draft
          /\ \A j \in 1..Len(Cache) : Append(Cache, draft)[j] = Cache[j]
      BY <3>2
    <3>4. cache = Append(Cache, draft)
      BY <2>2
    <3>. HIDE DEF cache
    <3>5. Len(cache) = i /\ cache[i] = draft /\ \A j \in 1..Len(Cache) : cache[j] = Cache[j]
      BY <3>1, <3>3, <3>4
    <3>6. ASSUME NEW j \in 1..Len(cache) PROVE cache[j] = DraftOf(Cfg, j)
      <4>1. j \in 1..Len(Cache) \/ j = i
        BY <1>3, <3>1, <3>5
      <4>. QED  BY <1>5, <1>6, <3>5, <4>1
    <3>. QED  BY <1>3, <3>3, <3>4, <3>5, <3>6
  <2>. QED  BY <2>1, <2>2
<1>. HIDE DEF cache
<1>8. CacheSound'
  <2>. SUFFICES ASSUME NEW k \in DOMAIN draft_cache_by_key'
                PROVE  /\ \E T : draft_cache_by_key'[k] \in Seq(T)
                       /\ \A j \in 1..Len(draft_cache_by_key'[k]) :
                            draft_cache_by_key'[k][j] =
                              DraftCost(eagle[j], k[1], flags.all_npu \/ k[2] = "npu")
    BY <1>1, <1>2 DEF CacheSound
  <2>1. CASE k = key
    <3>1. draft_cache_by_key'[k] = cache
      BY <1>1, <2>1
    <3>2. \A j : DraftCost(eagle[j], k[1], flags.all_npu \/ k[2] = "npu") = DraftOf(Cfg, j)
      <4>1. PICK Q : queue \in Seq(Q) /\ \A cfg \in Q : SameFlags(cfg)
        BY DEF DriveInv, QueueSound
      <4>2. Cfg.all_npu = flags.all_npu
        BY <1>1, <4>1, HeadTailProperties DEF Cfg, SameFlags
      <4>. QED  BY <2>1, <4>2 DEF DraftOnNpu, CacheKey, DraftCost, DraftOf
    <3>. QED  BY <1>7, <3>1, <3>2
  <2>2. CASE k # key
    <3>1. k \in DOMAIN draft_cache_by_key /\ draft_cache_by_key'[k] = draft_cache_by_key[k]
      BY <1>1, <2>2
    <3>. QED  BY <3>1 DEF DriveInv, CacheSound
  <2>. QED  BY <2>1, <2>2
<1>9. ResultSound'
  <2>. DEFINE new == [prompt_id |-> Step.prompt_id, tokens |-> Tokens(Step, Cfg),
                      draft |-> draft, verify |-> Verify(Step, Cfg)]
  <2>1. PICK R : result \in Seq(R)
    BY <1>3
  <2>2. new.draft = draft /\ result' = Append(result, new)
    BY <1>1
  <2>. HIDE DEF new
  <2>3. result \in Seq(R \cup {new})
    BY <2>1
  <2>4. /\ result' \in Seq(R \cup {new}) /\ Len(result') = i /\ result'[i] = new
        /\ \A j \in 1..Len(result) : result'[j] = result[j]
    BY <2>2, <2>3
  <2>5. Cfg' = Cfg /\ queue' = queue
    BY <1>1 DEF Cfg
  <2>6. Cache' = cache
    <3>1. CacheKey(Cfg)' = key
      BY <2>5 DEF CacheKey
    <3>2. key \in DOMAIN draft_cache_by_key' /\ draft_cache_by_key'[key] = cache
      BY <1>1
    <3>. QED  BY <3>1, <3>2 DEF Cache
  <2>7. \A j : DraftOf(Cfg, j)' = DraftOf(Cfg, j)
    BY <1>2, <2>5 DEF DraftOf
  <2>8. ASSUME NEW j \in 1..Len(result') PROVE result'[j].draft = DraftOf(Cfg, j)
    <3>1. j \in 1..Len(result) \/ j = i
      BY <1>3, <2>4
    <3>. QED  BY <1>3, <1>6, <2>2, <2>4, <3>1
  <2>9. Len(result') <= Len(Cache') /\ \A j \in 1..Len(result') : result'[j].draft = DraftOf(Cfg, j)'
    BY <1>7, <2>4, <2>6, <2>7, <2>8
  <2>. HIDE DEF i
  <2>. QED  BY <2>4, <2>9 DEF ResultSound
<1>10. \A cfg, j : DraftOf(cfg, j)' = DraftOf(cfg, j)
  BY <1>2 DEF DraftOf
<1>11. RecordsSound'
  BY <1>1, <1>2, <1>10 DEF DriveInv, RecordsSound
<1>12. QueueSound'
  BY <1>1 DEF DriveInv, QueueSound, SameFlags
<1>. QED  BY <1>1, <1>8, <1>9, <1>11, <1>12 DEF DriveInv

\* A call that returns leaves its records, and the next starts with none.
LEMMA EndCallSound == DriveInv /\ EndCall => DriveInv'
<1>. SUFFICES ASSUME DriveInv, EndCall PROVE DriveInv'
  OBVIOUS
<1>. DEFINE new == [cfg |-> Cfg, steps |-> result]
<1>1. /\ queue # <<>> /\ Len(result) = Len(TraceOf(Cfg))
      /\ records' = Append(records, new) /\ queue' = Tail(queue) /\ result' = <<>>
      /\ UNCHANGED <<drafted, gate, flags, draft_cache_by_key>>
  BY DEF EndCall, input
<1>2. eagle' = eagle /\ DOMAIN eagle = 1..Len(drafted) /\ Len(eagle) = Len(drafted)
  BY <1>1, EagleLen DEF eagle, DriveInv
<1>3. \A cfg, j : DraftOf(cfg, j)' = DraftOf(cfg, j)
  BY <1>2 DEF DraftOf
<1>4. QueueSound'
  <2>1. PICK S : queue \in Seq(S) /\ \A cfg \in S : SameFlags(cfg)
    BY DEF DriveInv, QueueSound
  <2>2. queue' \in Seq(S)
    BY <1>1, <2>1, HeadTailProperties
  <2>. QED  BY <1>1, <2>1, <2>2 DEF QueueSound, SameFlags
<1>5. CacheSound'
  BY <1>1, <1>2 DEF DriveInv, CacheSound
<1>6. new.cfg.driver = "capim" => \A j \in DOMAIN eagle : new.steps[j].draft = DraftOf(new.cfg, j)
  <2>. SUFFICES ASSUME Cfg.driver = "capim", NEW j \in DOMAIN eagle
                PROVE  result[j].draft = DraftOf(Cfg, j)
    OBVIOUS
  <2>1. TraceOf(Cfg) = eagle
    BY DEF TraceOf
  <2>. QED  BY <1>1, <1>2, <2>1 DEF DriveInv, ResultSound
<1>. HIDE DEF new
<1>7. RecordsSound'
  <2>1. PICK S : records \in Seq(S)
    BY DEF DriveInv, RecordsSound
  <2>2. records \in Seq(S \cup {new})
    BY <2>1
  <2>3. /\ records' \in Seq(S \cup {new}) /\ Len(records') = Len(records) + 1
        /\ Len(records) \in Nat /\ records'[Len(records) + 1] = new
        /\ \A c \in 1..Len(records) : records'[c] = records[c]
    BY <1>1, <2>2
  <2>4. ASSUME NEW c \in 1..Len(records'), records'[c].cfg.driver = "capim",
               NEW j \in DOMAIN eagle
        PROVE  records'[c].steps[j].draft = DraftOf(records'[c].cfg, j)
    <3>1. c \in 1..Len(records) \/ c = Len(records) + 1
      BY <2>3
    <3>2. CASE c \in 1..Len(records)
      BY <2>3, <2>4, <3>2 DEF DriveInv, RecordsSound
    <3>3. CASE c = Len(records) + 1
      BY <1>6, <2>3, <2>4, <3>3
    <3>. QED  BY <3>1, <3>2, <3>3
  <2>5. \A c, j : DraftOf(records[c].cfg, j)' = DraftOf(records'[c].cfg, j)
    BY <1>2 DEF DraftOf
  <2>. QED  BY <1>2, <2>3, <2>4, <2>5 DEF RecordsSound
<1>8. ResultSound'
  <2>1. <<>> \in Seq({}) /\ Len(<<>>) = 0
    OBVIOUS
  <2>2. queue' # <<>> /\ (Cfg.driver)' = "capim" => Len(Cache') \in Nat
    <3>. SUFFICES ASSUME queue' # <<>> PROVE Len(Cache') \in Nat
      OBVIOUS
    <3>1. CASE CacheKey(Cfg)' \in DOMAIN draft_cache_by_key
      <4>1. Cache' = draft_cache_by_key[CacheKey(Cfg)']
        BY <1>1, <3>1 DEF Cache
      <4>2. \E T : draft_cache_by_key[CacheKey(Cfg)'] \in Seq(T)
        BY <3>1 DEF DriveInv, CacheSound
      <4>. QED  BY <4>1, <4>2, LenProperties
    <3>2. CASE CacheKey(Cfg)' \notin DOMAIN draft_cache_by_key
      <4>1. Cache' = <<>>
        BY <1>1, <3>2 DEF Cache
      <4>. QED  BY <2>1, <4>1
    <3>. QED  BY <3>1, <3>2
  <2>. QED  BY <1>1, <2>1, <2>2 DEF ResultSound
<1>. QED  BY <1>1, <1>4, <1>5, <1>7, <1>8 DEF DriveInv

\* The other drivers leave the cache and the records alone.
LEMMA OtherStepsSound == DriveInv /\ (ArStep \/ LpSpecStep \/ Written \/ UNCHANGED vars) => DriveInv'
<1>. SUFFICES ASSUME DriveInv, ArStep \/ LpSpecStep \/ Written \/ UNCHANGED vars
              PROVE  DriveInv'
  OBVIOUS
<1>1. UNCHANGED <<drafted, gate, flags, queue, draft_cache_by_key, records>>
  BY DEF ArStep, LpSpecStep, Written, vars, input
<1>2. eagle' = eagle
  BY <1>1 DEF eagle
<1>3. (QueueSound /\ CacheSound /\ RecordsSound)'
  BY <1>1, <1>2 DEF DriveInv, QueueSound, CacheSound, RecordsSound, SameFlags, DraftOf
<1>4. ResultSound'
  <2>1. CASE ArStep \/ LpSpecStep
    <3>1. Cfg.driver # "capim" /\ \E new : result' = Append(result, new)
      BY <2>1 DEF ArStep, LpSpecStep, Running
    <3>2. PICK new : result' = Append(result, new)
      BY <3>1
    <3>3. PICK S : result \in Seq(S)
      BY DEF DriveInv, ResultSound
    <3>4. result \in Seq(S \cup {new})
      BY <3>3
    <3>5. result' \in Seq(S \cup {new})
      BY <3>2, <3>4
    <3>6. Cfg' = Cfg
      BY <1>1 DEF Cfg
    <3>. QED  BY <3>1, <3>5, <3>6 DEF ResultSound
  <2>2. CASE Written \/ UNCHANGED vars
    <3>1. UNCHANGED <<result, queue, draft_cache_by_key, drafted, gate>>
      BY <2>2 DEF Written, vars, input
    <3>. QED  BY <1>2, <3>1 DEF DriveInv, ResultSound, DraftOf, Cfg, Cache, CacheKey
  <2>. QED  BY <2>1, <2>2
<1>. QED  BY <1>1, <1>3, <1>4 DEF DriveInv

\* Whatever the traces, the gates and the order of the sweep, a draft that a
\* call takes from the shared cache is the one its own threshold and device
\* order (driver.py: "the caller must use a fresh cache per distinct
\* (sigma_th, draft_device)").
THEOREM CacheNeverStale == Spec => []DraftsAreFresh
<1>1. DriveInv /\ [Next]_vars => DriveInv'
  BY CapimStepSound, EndCallSound, OtherStepsSound DEF Next
<1>2. DriveInv => DraftsAreFresh
  <2>. SUFFICES ASSUME DriveInv, NEW c \in CallsOf("capim"), NEW i \in DOMAIN eagle
                PROVE  records[c].steps[i].draft = DraftOf(records[c].cfg, i)
    BY DEF DraftsAreFresh, DraftOf
  <2>1. c \in 1..Len(records) /\ records[c].cfg.driver = "capim"
    BY DEF CallsOf, DriveInv, RecordsSound
  <2>. QED  BY <2>1 DEF DriveInv, RecordsSound
<1>. QED  BY <1>1, <1>2, DriveInvInit, PTL DEF Spec

-----------------------------------------------------------------------------
(* What a collector records: the kept nodes, renumbered.                   *)

\* The place of a kept node in the recorded list, and the node at a place.
Place(kept, k) == Cardinality({j \in kept : j < k})
NodeAt(kept, i) == CHOOSE k \in kept : Place(kept, k) = i - 1

\* A set of places is finite, and larger than its proper subsets.
LEMMA PlacesFinite ==
  ASSUME NEW n \in Nat, NEW kept \in SUBSET (1..n)
  PROVE  /\ IsFiniteSet(kept) /\ Cardinality(kept) \in 0..n
         /\ \A T \in SUBSET kept :
              /\ IsFiniteSet(T) /\ Cardinality(T) \in Nat
              /\ Cardinality(T) <= Cardinality(kept)
              /\ T # kept => Cardinality(T) < Cardinality(kept)
<1>1. IsFiniteSet(1..n) /\ Cardinality(1..n) = n
  <2>1. IsFiniteSet(1..n) /\ Cardinality(1..n) = IF 1 > n THEN 0 ELSE n - 1 + 1
    BY FS_Interval
  <2>. QED  BY <2>1
<1>2. IsFiniteSet(kept) /\ Cardinality(kept) <= Cardinality(1..n)
  BY <1>1, FS_Subset
<1>3. Cardinality(kept) \in Nat
  BY <1>2, FS_CardinalityType
<1>4. ASSUME NEW T \in SUBSET kept
      PROVE  /\ IsFiniteSet(T) /\ Cardinality(T) \in Nat
             /\ Cardinality(T) <= Cardinality(kept)
             /\ T # kept => Cardinality(T) < Cardinality(kept)
  <2>1. IsFiniteSet(T) /\ Cardinality(T) <= Cardinality(kept)
        /\ (Cardinality(kept) = Cardinality(T) => kept = T)
    BY <1>2, FS_Subset
  <2>2. Cardinality(T) \in Nat
    BY <2>1, FS_CardinalityType
  <2>. QED  BY <1>3, <2>1, <2>2
<1>. QED  BY <1>1, <1>2, <1>3, <1>4

\* Renumbering keeps the order, so it is one-to-one, and stays in range.
LEMMA PlaceOrdered ==
  ASSUME NEW n \in Nat, NEW kept \in SUBSET (1..n)
  PROVE  /\ \A v \in kept : Place(kept, v) \in 0..(Cardinality(kept) - 1)
         /\ \A u, v \in kept : u < v => Place(kept, u) < Place(kept, v)
         /\ \A u, v \in kept : Place(kept, u) = Place(kept, v) => u = v
<1>. DEFINE Below(v) == {u \in kept : u < v}
<1>1. \A v : Place(kept, v) = Cardinality(Below(v))
  BY DEF Place
<1>2. \A v \in kept : v \in Int
  OBVIOUS
<1>3. ASSUME NEW v \in kept PROVE Place(kept, v) \in 0..(Cardinality(kept) - 1)
  <2>1. Below(v) \in SUBSET kept /\ Below(v) # kept
    BY <1>2
  <2>2. Cardinality(Below(v)) \in Nat /\ Cardinality(Below(v)) < Cardinality(kept)
        /\ Cardinality(kept) \in Nat
    <3>. HIDE DEF Below
    <3>. QED  BY <2>1, PlacesFinite
  <2>. QED  BY <1>1, <2>2
<1>4. ASSUME NEW u \in kept, NEW v \in kept, u < v PROVE Place(kept, u) < Place(kept, v)
  <2>1. Below(u) \in SUBSET Below(v) /\ u \in Below(v) /\ u \notin Below(u)
    <3>1. ~(u < u) /\ \A w \in kept : w < u => w < v
      BY <1>2, <1>4
    <3>. QED  BY <1>4, <3>1
  <2>2. Below(u) # Below(v) /\ Below(v) \in SUBSET (1..n)
    BY <2>1
  <2>3. Cardinality(Below(u)) < Cardinality(Below(v))
    <3>. HIDE DEF Below
    <3>. QED  BY <2>1, <2>2, PlacesFinite
  <2>. QED  BY <1>1, <2>3
<1>5. ASSUME NEW u \in kept, NEW v \in kept, Place(kept, u) = Place(kept, v) PROVE u = v
  <2>1. Place(kept, u) \in Int /\ u \in Int /\ v \in Int
    BY <1>2, <1>3
  <2>2. ~(u < v) /\ ~(v < u)
    BY <1>4, <1>5, <2>1
  <2>. QED  BY <2>1, <2>2
<1>. QED  BY <1>3, <1>4, <1>5

\* Every place of the recorded list is some kept node's, and conversely.
LEMMA NodeAtExists ==
  ASSUME NEW n \in Nat, NEW kept \in SUBSET (1..n)
  PROVE  /\ \A k \in 1..Cardinality(kept) :
              NodeAt(kept, k) \in kept /\ Place(kept, NodeAt(kept, k)) = k - 1
         /\ \A v \in kept :
              /\ Place(kept, v) + 1 \in 1..Cardinality(kept)
              /\ NodeAt(kept, Place(kept, v) + 1) = v
<1>. DEFINE T == 0..(Cardinality(kept) - 1)
            f == [v \in kept |-> Place(kept, v)]
<1>1. /\ \A v \in kept : f[v] \in T
      /\ \A u, v \in kept : f[u] = f[v] => u = v
  BY PlaceOrdered
<1>2. Cardinality(kept) \in Nat /\ IsFiniteSet(kept)
  BY PlacesFinite
<1>3. IsFiniteSet(T) /\ Cardinality(T) = Cardinality(kept)
  <2>1. 0 \in Int /\ Cardinality(kept) - 1 \in Int
    BY <1>2
  <2>2. /\ IsFiniteSet(0..(Cardinality(kept) - 1))
        /\ Cardinality(0..(Cardinality(kept) - 1)) =
             IF 0 > Cardinality(kept) - 1 THEN 0 ELSE Cardinality(kept) - 1 - 0 + 1
    BY <2>1, FS_Interval
  <2>. QED  BY <1>2, <2>2
<1>4. f \in [kept -> T]
  BY <1>1
<1>5. f \in Injection(kept, T)
  <2>. HIDE DEF f, T
  <2>. QED  BY <1>1, <1>4 DEF Injection, IsInjective
<1>6. f \in Surjection(kept, T)
  <2>. HIDE DEF f, T
  <2>. QED  BY <1>3, <1>5, FS_Injection
<1>7. ASSUME NEW k \in 1..Cardinality(kept)
      PROVE  NodeAt(kept, k) \in kept /\ Place(kept, NodeAt(kept, k)) = k - 1
  <2>1. k - 1 \in T
    BY <1>2
  <2>2. \E v \in kept : f[v] = k - 1
    <3>. HIDE DEF f, T
    <3>. QED  BY <1>6, <2>1 DEF Surjection
  <2>. QED  BY <2>2 DEF NodeAt
<1>8. ASSUME NEW v \in kept
      PROVE  Place(kept, v) + 1 \in 1..Cardinality(kept) /\ NodeAt(kept, Place(kept, v) + 1) = v
  <2>1. Place(kept, v) \in T
    BY <1>1
  <2>2. Place(kept, v) + 1 \in 1..Cardinality(kept) /\ (Place(kept, v) + 1) - 1 = Place(kept, v)
    BY <1>2, <2>1
  <2>. QED  BY <1>1, <1>7, <2>2
<1>. QED  BY <1>7, <1>8

\* What holds of some kept nodes holds of as many recorded ones.
LEMMA CountCarried ==
  ASSUME NEW n \in Nat, NEW kept \in SUBSET (1..n), NEW A \in SUBSET kept
  PROVE  Cardinality({i \in 1..Cardinality(kept) : NodeAt(kept, i) \in A}) = Cardinality(A)
<1>. DEFINE B == {i \in 1..Cardinality(kept) : NodeAt(kept, i) \in A}
            f == [v \in A |-> Place(kept, v) + 1]
<1>1. /\ \A v \in A : Place(kept, v) + 1 \in 1..Cardinality(kept)
                      /\ NodeAt(kept, Place(kept, v) + 1) = v
      /\ \A k \in 1..Cardinality(kept) :
           NodeAt(kept, k) \in kept /\ Place(kept, NodeAt(kept, k)) = k - 1
  BY NodeAtExists
<1>2. \A v \in A : f[v] \in B
  BY <1>1
<1>3. f \in [A -> B]
  BY <1>2
<1>4. \A u, v \in A : f[u] = f[v] => u = v
  BY <1>1
<1>5. ASSUME NEW i \in B PROVE \E v \in A : f[v] = i
  <2>1. NodeAt(kept, i) \in A /\ Place(kept, NodeAt(kept, i)) = i - 1
    BY <1>1
  <2>2. Cardinality(kept) \in Nat
    BY PlacesFinite
  <2>3. (i - 1) + 1 = i
    BY <2>2
  <2>. QED  BY <2>1, <2>3
<1>6. IsFiniteSet(A)
  BY PlacesFinite
<1>. HIDE DEF f, B
<1>7. f \in Bijection(A, B)
  BY <1>3, <1>4, <1>5 DEF Bijection, Injection, Surjection, IsInjective
<1>8. Cardinality(A) = Cardinality(B)
  BY <1>6, <1>7, FS_Bijection DEF ExistsBijection
<1>. QED  BY <1>8 DEF B

\* A recorded node is the kept one but for its parent's number.
LEMMA RecordedNodes ==
  ASSUME NEW nodes \in Seq(Node), NEW kept \in SUBSET (DOMAIN nodes)
  PROVE  /\ DOMAIN Recorded(nodes, kept) = 1..Cardinality(kept)
         /\ \A i \in 1..Cardinality(kept) :
              LET a == Recorded(nodes, kept)[i]
                  b == nodes[NodeAt(kept, i)]
              IN  /\ a \in Node
                  /\ a.depth = b.depth /\ a.layer_idx = b.layer_idx
                  /\ a.cumulative_log_prob = b.cumulative_log_prob
                  /\ a.accepted = b.accepted
                  /\ a.parent_idx = IF b.parent_idx = -1 THEN -1 ELSE Place(kept, b.parent_idx + 1)
<1>. DEFINE R == [i \in 1..Cardinality(kept) |->
                   [nodes[NodeAt(kept, i)] EXCEPT !.parent_idx =
                      IF @ = -1 THEN -1 ELSE Place(kept, @ + 1)]]
<1>1. Recorded(nodes, kept) = R
  BY DEF Recorded, Place, NodeAt
<1>2. Len(nodes) \in Nat /\ DOMAIN nodes = 1..Len(nodes)
  BY LenProperties
<1>3. ASSUME NEW i \in 1..Cardinality(kept)
      PROVE  LET a == R[i]
                 b == nodes[NodeAt(kept, i)]
             IN  /\ a \in Node
                 /\ a.depth = b.depth /\ a.layer_idx = b.layer_idx
                 /\ a.cumulative_log_prob = b.cumulative_log_prob
                 /\ a.accepted = b.accepted
                 /\ a.parent_idx = IF b.parent_idx = -1 THEN -1 ELSE Place(kept, b.parent_idx + 1)
  <2>. DEFINE b == nodes[NodeAt(kept, i)]
              q == IF b.parent_idx = -1 THEN -1 ELSE Place(kept, b.parent_idx + 1)
  <2>1. NodeAt(kept, i) \in kept
    BY <1>2, NodeAtExists
  <2>2. b \in Node
    BY <2>1
  <2>3. q \in Int
    <3>1. {j \in kept : j < b.parent_idx + 1} \in SUBSET kept
      OBVIOUS
    <3>2. Place(kept, b.parent_idx + 1) \in Nat
      <4>. HIDE DEF b
      <4>. QED  BY <1>2, <3>1, PlacesFinite DEF Place
    <3>. QED  BY <3>2
  <2>4. R[i] = [b EXCEPT !.parent_idx = q]
    OBVIOUS
  <2>. HIDE DEF b, q, R
  <2>5. /\ [b EXCEPT !.parent_idx = q].depth = b.depth
        /\ [b EXCEPT !.parent_idx = q].layer_idx = b.layer_idx
        /\ [b EXCEPT !.parent_idx = q].cumulative_log_prob = b.cumulative_log_prob
        /\ [b EXCEPT !.parent_idx = q].accepted = b.accepted
        /\ [b EXCEPT !.parent_idx = q].parent_idx = q
        /\ [b EXCEPT !.parent_idx = q] \in Node
    BY <2>2, <2>3 DEF Node
  <2>. QED  BY <2>4, <2>5 DEF b, q
<1>. HIDE DEF R
<1>4. DOMAIN R = 1..Cardinality(kept)
  BY DEF R
<1>. QED  BY <1>1, <1>3, <1>4

-----------------------------------------------------------------------------
(* Gating once, and twice.                                                 *)

\* The thresholds a gate can have.
Gate == Int \cup {NegInf}

\* The gated step: the surviving nodes, with their depths, scores and flags.
LEMMA GatedStep ==
  ASSUME NEW step \in DraftedStep, NEW g
  PROVE  LET kept == PruneTree(step, g)
             e == Gated(step, g)
         IN  /\ kept \in SUBSET (1..Len(step.nodes)) /\ Len(step.nodes) \in Nat
             /\ e.prompt_id = step.prompt_id /\ e.context_length = step.context_length
             /\ e.accepted_length = MeasuredAccept(step, g)
             /\ DOMAIN e.nodes = 1..Cardinality(kept)
             /\ \A i \in 1..Cardinality(kept) :
                  LET b == step.nodes[NodeAt(kept, i)]
                  IN  /\ NodeAt(kept, i) \in kept /\ b \in Node
                      /\ e.nodes[i].depth = b.depth /\ e.nodes[i].accepted = b.accepted
                      /\ e.nodes[i].cumulative_log_prob = b.cumulative_log_prob
<1>. DEFINE kept == PruneTree(step, g)
            nodes == Recorded(step.nodes, kept)
            count(i) == Cardinality({j \in 1..(i - 1) : nodes[j].depth = nodes[i].depth})
            regated == [i \in DOMAIN nodes |-> [nodes[i] EXCEPT !.layer_idx = count(i)]]
<1>1. step.nodes \in Seq(Node)
  BY DEF DraftedStep
<1>2. Len(step.nodes) \in Nat /\ DOMAIN step.nodes = 1..Len(step.nodes)
  BY <1>1, LenProperties
<1>3. kept \in SUBSET (1..Len(step.nodes))
  BY <1>2 DEF PruneTree
<1>4. Gated(step, g) = [step EXCEPT !.nodes = regated, !.accepted_length = MeasuredAccept(step, g)]
  BY DEF Gated
<1>5. /\ DOMAIN nodes = 1..Cardinality(kept)
      /\ \A i \in 1..Cardinality(kept) :
           LET b == step.nodes[NodeAt(kept, i)]
           IN  /\ nodes[i] \in Node /\ nodes[i].depth = b.depth /\ nodes[i].accepted = b.accepted
               /\ nodes[i].cumulative_log_prob = b.cumulative_log_prob
  <2>1. kept \in SUBSET (DOMAIN step.nodes)
    BY <1>2, <1>3
  <2>. HIDE DEF kept
  <2>. QED  BY <1>1, <2>1, RecordedNodes
<1>6. \A i \in 1..Cardinality(kept) : NodeAt(kept, i) \in kept
  <2>. HIDE DEF kept
  <2>. QED  BY <1>2, <1>3, NodeAtExists
<1>. HIDE DEF kept, nodes
<1>7. /\ DOMAIN regated = 1..Cardinality(kept)
      /\ \A i \in 1..Cardinality(kept) :
           /\ regated[i].depth = nodes[i].depth /\ regated[i].accepted = nodes[i].accepted
           /\ regated[i].cumulative_log_prob = nodes[i].cumulative_log_prob
  <2>1. DOMAIN regated = 1..Cardinality(kept)
    BY <1>5
  <2>2. ASSUME NEW i \in 1..Cardinality(kept)
        PROVE  /\ regated[i].depth = nodes[i].depth /\ regated[i].accepted = nodes[i].accepted
               /\ regated[i].cumulative_log_prob = nodes[i].cumulative_log_prob
    <3>1. nodes[i] \in Node
      BY <1>5
    <3>2. regated[i] = [nodes[i] EXCEPT !.layer_idx = count(i)]
      BY <1>5
    <3>. HIDE DEF regated, count
    <3>. QED  BY <3>1, <3>2 DEF Node
  <2>. QED  BY <2>1, <2>2
<1>. HIDE DEF regated
<1>8. LET e == Gated(step, g)
      IN  /\ e.prompt_id = step.prompt_id /\ e.context_length = step.context_length
          /\ e.accepted_length = MeasuredAccept(step, g) /\ e.nodes = regated
  BY <1>4 DEF DraftedStep
<1>9. \A i \in 1..Cardinality(kept) : step.nodes[NodeAt(kept, i)] \in Node
  <2>1. \A k \in 1..Len(step.nodes) : step.nodes[k] \in Node
    BY <1>1
  <2>. QED  BY <1>3, <1>6, <2>1
<1>. QED  BY <1>2, <1>3, <1>5, <1>6, <1>7, <1>8, <1>9 DEF kept

\* To survive both gates is to survive the stricter one.
LEMMA StricterIsBoth ==
  ASSUME NEW node \in Node, NEW a \in Gate, NEW b \in Gate
  PROVE  Survives(node, a) /\ Survives(node, b) <=> Survives(node, Stricter(a, b))
<1>1. node.cumulative_log_prob \in Int
  BY DEF Node
<1>2. CASE a = NegInf \/ b = NegInf
  BY <1>1, <1>2 DEF Survives, Stricter
<1>3. CASE a # NegInf /\ b # NegInf
  <2>1. a \in Int /\ b \in Int
    BY <1>3 DEF Gate
  <2>. QED  BY <1>1, <1>3, <2>1 DEF Survives, Stricter
<1>. QED  BY <1>2, <1>3

\* The nodes of a gated step that survive a second gate, and the accepted ones
\* among them, are as many as those of the drafted step under the stricter gate.
LEMMA GatedTwice ==
  ASSUME NEW step \in DraftedStep, NEW a \in Gate, NEW b \in Gate
  PROVE  LET e == Gated(step, a)
             once == PruneTree(step, Stricter(a, b))
         IN  /\ Cardinality(PruneTree(e, b)) = Cardinality(once)
             /\ Cardinality({i \in PruneTree(e, b) : e.nodes[i].accepted}) =
                  Cardinality({k \in once : step.nodes[k].accepted})
<1>. DEFINE kept == PruneTree(step, a)
            e == Gated(step, a)
            once == PruneTree(step, Stricter(a, b))
            flagged == {k \in once : step.nodes[k].accepted}
            m == Cardinality(kept)
<1>1. /\ kept \in SUBSET (1..Len(step.nodes)) /\ Len(step.nodes) \in Nat
      /\ DOMAIN e.nodes = 1..m
      /\ \A i \in 1..m : /\ NodeAt(kept, i) \in kept /\ step.nodes[NodeAt(kept, i)] \in Node
                         /\ e.nodes[i].accepted = step.nodes[NodeAt(kept, i)].accepted
                         /\ e.nodes[i].cumulative_log_prob =
                              step.nodes[NodeAt(kept, i)].cumulative_log_prob
  BY GatedStep
<1>2. \A k \in DOMAIN step.nodes : step.nodes[k] \in Node
  BY DEF DraftedStep
<1>3. \A k : k \in once <=> k \in kept /\ Survives(step.nodes[k], b)
  BY <1>2, StricterIsBoth DEF PruneTree
<1>4. \A i \in 1..m : Survives(e.nodes[i], b) <=> Survives(step.nodes[NodeAt(kept, i)], b)
  BY <1>1 DEF Survives
<1>5. PruneTree(e, b) = {i \in 1..m : NodeAt(kept, i) \in once}
  <2>1. PruneTree(e, b) = {i \in 1..m : Survives(e.nodes[i], b)}
    BY <1>1 DEF PruneTree
  <2>. HIDE DEF kept, e, once, m
  <2>. QED  BY <1>1, <1>3, <1>4, <2>1
<1>. HIDE DEF kept, e, once
<1>6. {i \in PruneTree(e, b) : e.nodes[i].accepted} = {i \in 1..m : NodeAt(kept, i) \in flagged}
  BY <1>1, <1>5
<1>7. once \in SUBSET kept /\ flagged \in SUBSET kept
  BY <1>3
<1>. HIDE DEF flagged
<1>8. /\ Cardinality({i \in 1..m : NodeAt(kept, i) \in once}) = Cardinality(once)
      /\ Cardinality({i \in 1..m : NodeAt(kept, i) \in flagged}) = Cardinality(flagged)
  BY <1>1, <1>7, CountCarried
<1>. QED  BY <1>5, <1>6, <1>8 DEF e, once, flagged

\* The accepted chain's scores fall, so the accepts a gate leaves are those up
\* to the first it cuts: the target measures as many as survive.
Measurable(step) ==
  LET accepted == {k \in DOMAIN step.nodes : step.nodes[k].accepted}
  IN  /\ step.accepted_length = Cardinality(accepted)
      /\ \A j, k \in accepted : step.nodes[j].depth <= step.nodes[k].depth =>
           step.nodes[k].cumulative_log_prob <= step.nodes[j].cumulative_log_prob

\* As scores fall along the accepted chain, what a gate leaves of it is a prefix:
\* the accept measured under the gate counts the accepted nodes that survive.
LEMMA MeasuredIsSurviving ==
  ASSUME NEW step \in DraftedStep, Measurable(step), NEW g \in Gate
  PROVE  LET S == {k \in PruneTree(step, g) : step.nodes[k].accepted}
         IN  /\ MeasuredAccept(step, g) = Cardinality(S)
             /\ Cardinality(S) \in Nat /\ Cardinality(S) <= step.accepted_length
<1>. DEFINE S == {k \in PruneTree(step, g) : step.nodes[k].accepted}
            A == {k \in DOMAIN step.nodes : step.nodes[k].accepted}
            M == {k \in DOMAIN step.nodes :
                    /\ step.nodes[k].accepted
                    /\ \A j \in DOMAIN step.nodes :
                         step.nodes[j].accepted /\ step.nodes[j].depth <= step.nodes[k].depth
                           => Survives(step.nodes[j], g)}
<1>1. step.nodes \in Seq(Node)
  BY DEF DraftedStep
<1>2. /\ Len(step.nodes) \in Nat /\ DOMAIN step.nodes = 1..Len(step.nodes)
      /\ \A k \in DOMAIN step.nodes : step.nodes[k] \in Node
  BY <1>1, LenProperties
<1>3. ASSUME NEW k \in A PROVE k \in M <=> Survives(step.nodes[k], g)
  <2>1. step.nodes[k].depth <= step.nodes[k].depth
    BY <1>2 DEF Node
  <2>2. ASSUME Survives(step.nodes[k], g), NEW j \in A, step.nodes[j].depth <= step.nodes[k].depth
        PROVE  Survives(step.nodes[j], g)
    <3>1. step.nodes[k].cumulative_log_prob <= step.nodes[j].cumulative_log_prob
      BY <2>2 DEF Measurable
    <3>2. step.nodes[k].cumulative_log_prob \in Int /\ step.nodes[j].cumulative_log_prob \in Int
      BY <1>2 DEF Node
    <3>. QED  BY <2>2, <3>1, <3>2 DEF Survives, Gate
  <2>. QED  BY <2>1, <2>2
<1>4. M = S
  BY <1>3 DEF PruneTree
<1>5. S \in SUBSET A /\ A \in SUBSET (1..Len(step.nodes))
  BY <1>2 DEF PruneTree
<1>6. Cardinality(S) \in Nat /\ Cardinality(S) <= Cardinality(A)
  <2>. HIDE DEF S, A
  <2>. QED  BY <1>2, <1>5, PlacesFinite
<1>. QED  BY <1>4, <1>6 DEF MeasuredAccept, Measurable

\* One step: what is verified and emitted after two gates is what is verified
\* and emitted after the stricter of them.
LEMMA StepsCompose ==
  ASSUME NEW step \in DraftedStep, Measurable(step), NEW a \in Gate, NEW cfg,
         cfg.sigma_th \in Gate, NEW once,
         once.sigma_th = Stricter(a, cfg.sigma_th), once.all_npu = cfg.all_npu,
         once.mu_th = cfg.mu_th, once.concurrent_verify = cfg.concurrent_verify
  PROVE  /\ Verify(Gated(step, a), cfg) = Verify(step, once)
         /\ Tokens(Gated(step, a), cfg) = Tokens(step, once)
<1>. DEFINE e == Gated(step, a)
            b == cfg.sigma_th
            s == once.sigma_th
            S == {k \in PruneTree(step, s) : step.nodes[k].accepted}
<1>1. /\ Cardinality(PruneTree(e, b)) = Cardinality(PruneTree(step, s))
      /\ Cardinality({i \in PruneTree(e, b) : e.nodes[i].accepted}) = Cardinality(S)
  <2>1. b \in Gate /\ s = Stricter(a, b)
    OBVIOUS
  <2>. HIDE DEF b, s
  <2>. QED  BY <2>1, GatedTwice
<1>2. e.context_length = step.context_length /\ e.accepted_length = MeasuredAccept(step, a)
  BY GatedStep
<1>3. Verify(e, cfg) = Verify(step, once)
  <2>1. Mu(e, b) = Mu(step, s)
    BY <1>1 DEF Mu
  <2>. HIDE DEF e, b, s
  <2>. QED  BY <1>2, <2>1 DEF Verify, b, s
<1>4. s \in Gate
  BY DEF Stricter, Gate
<1>5. Cardinality(S) \in Nat /\ Cardinality(S) <= step.accepted_length
  BY <1>4, MeasuredIsSurviving
<1>. DEFINE G == {k \in PruneTree(step, a) : step.nodes[k].accepted}
<1>6. S \in SUBSET G
  <2>1. \A k \in DOMAIN step.nodes : step.nodes[k] \in Node
    BY DEF DraftedStep
  <2>. QED  BY <2>1, StricterIsBoth DEF PruneTree
<1>7. Cardinality(S) <= MeasuredAccept(step, a)
  <2>1. MeasuredAccept(step, a) = Cardinality(G)
    BY MeasuredIsSurviving
  <2>2. Len(step.nodes) \in Nat /\ G \in SUBSET (1..Len(step.nodes))
    BY GatedStep
  <2>. HIDE DEF S, G
  <2>. QED  BY <1>6, <2>1, <2>2, PlacesFinite
<1>8. MeasuredAccept(step, a) \in Nat /\ step.accepted_length \in Nat
  BY MeasuredIsSurviving DEF DraftedStep
<1>9. GatedAccept(e, b) = Cardinality(S)
  <2>. HIDE DEF e, b, S
  <2>. QED  BY <1>1, <1>2, <1>5, <1>7, <1>8 DEF GatedAccept
<1>10. GatedAccept(step, s) = Cardinality(S)
  BY <1>5, <1>8 DEF GatedAccept
<1>. QED  BY <1>3, <1>9, <1>10 DEF Tokens

-----------------------------------------------------------------------------
(* The MEDUSA trace, step by step.                                         *)

\* What a call has learnt when it comes to a step: the measured steps before.
Fold(h, step) ==
  Update(h, step.nodes, KPredMap(step.nodes), ParentPosMap(step.nodes), "headk")

\* h is the history along the trace.
LearntIs(trace, h) ==
  h[0] = EmptyHist /\ \A i \in 1..Len(trace) : h[i] = Fold(h[i - 1], trace[i])

Learnt(trace) == CHOOSE h : LearntIs(trace, h)

\* There is such a history for every finite trace.
LEMMA LearntExists ==
  ASSUME NEW trace, Len(trace) \in Nat
  PROVE  LearntIs(trace, Learnt(trace))
<1>. DEFINE Upto(h, n) == h[0] = EmptyHist /\ \A i \in 1..n : h[i] = Fold(h[i - 1], trace[i])
            T == {n \in Nat : \E h : Upto(h, n)}
<1>1. 0 \in T
  <2>. DEFINE h == [k \in {0} |-> EmptyHist]
  <2>1. Upto(h, 0)
    OBVIOUS
  <2>. HIDE DEF Upto, h
  <2>. QED  BY <2>1
<1>2. ASSUME NEW n \in Nat, n \in T PROVE n + 1 \in T
  <2>1. PICK h : Upto(h, n)
    BY <1>2
  <2>. DEFINE g == [k \in 0..(n + 1) |-> IF k = n + 1 THEN Fold(h[n], trace[n + 1]) ELSE h[k]]
  <2>2. ASSUME NEW i \in 1..(n + 1) PROVE g[i] = Fold(g[i - 1], trace[i])
    <3>1. i - 1 \in 0..(n + 1) /\ i - 1 # n + 1 /\ g[i - 1] = h[i - 1]
      OBVIOUS
    <3>2. CASE i = n + 1
      BY <3>1, <3>2
    <3>3. CASE i # n + 1
      <4>1. i \in 1..n /\ g[i] = h[i]
        BY <3>3
      <4>. HIDE DEF g
      <4>. QED  BY <2>1, <3>1, <4>1
    <3>. QED  BY <3>2, <3>3
  <2>3. g[0] = EmptyHist
    BY <2>1
  <2>. HIDE DEF g
  <2>4. Upto(g, n + 1)
    BY <2>2, <2>3
  <2>. HIDE DEF Upto
  <2>. QED  BY <2>4
<1>3. Nat \subseteq T
  <2>. HIDE DEF T
  <2>. QED  BY <1>1, <1>2, Induction
<1>4. \E h : Upto(h, Len(trace))
  BY <1>3
<1>. QED  BY <1>4 DEF LearntIs, Learnt

\* One step of a collection at keep-count keep, after what came before.
SelectedAt(steps, keep, h, t) ==
  SelectKept(steps[t].nodes, t - 1, keep, "greedy_headk", h,
             KPredMap(steps[1].nodes), ParentPosMap(steps[1].nodes))

ContextAt(steps, trace, t) ==
  IF t > 1 /\ trace[t - 1].prompt_id = steps[t].prompt_id
  THEN trace[t - 1].context_length + trace[t - 1].accepted_length + 1
  ELSE steps[t].prompt_len

StepAt(steps, keep, before, t) ==
  RecordKept(steps[t], SelectedAt(steps, keep, before.hist, t), ContextAt(steps, before.trace, t))

CollectOne(steps, keep, before, t) ==
  [hist |-> Update(before.hist, StepAt(steps, keep, before, t).nodes,
                   KPredMap(steps[1].nodes), ParentPosMap(steps[1].nodes), "headk"),
   trace |-> Append(before.trace, StepAt(steps, keep, before, t))]

Nothing == [hist |-> EmptyHist, trace |-> <<>>]

\* run is a solution of the collection's recursion.
RunIs(steps, keep, run) ==
  run = [t \in 0..Len(steps) |->
           IF t = 0 THEN Nothing ELSE CollectOne(steps, keep, run[t - 1], t)]

\* A recursive function is the solution of its equation, if there is one.
LEMMA RunUnfold ==
  ASSUME NEW steps, NEW keep, \E g : RunIs(steps, keep, g)
  PROVE  \E run : RunIs(steps, keep, run) /\ Collected(steps, keep) = run[Len(steps)].trace
BY DEF Collected, RunIs, Nothing, CollectOne, StepAt, SelectedAt, ContextAt

-----------------------------------------------------------------------------
(* The collection run, unfolded.                                           *)

\* The collection's recursion has a solution, so the run is it.
LEMMA RunExists ==
  ASSUME NEW steps, NEW keep, Len(steps) \in Nat
  PROVE  \E run : RunIs(steps, keep, run)
<1>. DEFINE n == Len(steps)
            Upto(g, m) == g[0] = Nothing /\ \A t \in 1..m : g[t] = CollectOne(steps, keep, g[t - 1], t)
            T == {m \in Nat : \E g : Upto(g, m)}
<1>1. 0 \in T
  <2>. DEFINE g == [k \in {0} |-> Nothing]
  <2>1. Upto(g, 0)
    OBVIOUS
  <2>. HIDE DEF Upto, g
  <2>. QED  BY <2>1
<1>2. ASSUME NEW m \in Nat, m \in T PROVE m + 1 \in T
  <2>1. PICK h : Upto(h, m)
    BY <1>2
  <2>. DEFINE g == [k \in 0..(m + 1) |->
                     IF k = m + 1 THEN CollectOne(steps, keep, h[m], m + 1) ELSE h[k]]
  <2>2. ASSUME NEW i \in 1..(m + 1) PROVE g[i] = CollectOne(steps, keep, g[i - 1], i)
    <3>1. i - 1 \in 0..(m + 1) /\ i - 1 # m + 1 /\ g[i - 1] = h[i - 1]
      OBVIOUS
    <3>2. CASE i = m + 1
      BY <3>1, <3>2
    <3>3. CASE i # m + 1
      <4>1. i \in 1..m /\ g[i] = h[i]
        BY <3>3
      <4>. HIDE DEF g
      <4>. QED  BY <2>1, <3>1, <4>1
    <3>. QED  BY <3>2, <3>3
  <2>3. g[0] = Nothing
    BY <2>1
  <2>. HIDE DEF g
  <2>4. Upto(g, m + 1)
    BY <2>2, <2>3
  <2>. HIDE DEF Upto
  <2>. QED  BY <2>4
<1>3. Nat \subseteq T
  <2>. HIDE DEF T
  <2>. QED  BY <1>1, <1>2, Induction
<1>4. PICK g : Upto(g, n)
  BY <1>3
<1>. DEFINE run == [t \in 0..n |-> g[t]]
<1>5. ASSUME NEW t \in 0..n
      PROVE  run[t] = IF t = 0 THEN Nothing ELSE CollectOne(steps, keep, run[t - 1], t)
  <2>1. CASE t = 0
    BY <1>4, <2>1
  <2>2. CASE t # 0
    <3>1. t \in 1..n /\ t - 1 \in 0..n /\ run[t] = g[t] /\ run[t - 1] = g[t - 1]
      BY <2>2
    <3>. HIDE DEF run
    <3>. QED  BY <1>4, <2>2, <3>1
  <2>. QED  BY <2>1, <2>2
<1>6. run = [t \in 0..n |-> run[t]]
  OBVIOUS
<1>. HIDE DEF run
<1>7. RunIs(steps, keep, run)
  BY <1>5, <1>6 DEF RunIs
<1>. QED  BY <1>7

\* What a collection run leaves: for every step of the static run its selected
\* nodes, by a history that folds in the recorded steps before it.
TraceFrom(steps, keep, trace, hs) ==
  /\ \E S : trace \in Seq(S)
  /\ Len(trace) = Len(steps) /\ hs[1] = EmptyHist
  /\ \A i \in 1..Len(steps) :
       /\ trace[i] = RecordKept(steps[i], SelectedAt(steps, keep, hs[i], i),
                                ContextAt(steps, trace, i))
       /\ hs[i + 1] = Update(hs[i], trace[i].nodes, KPredMap(steps[1].nodes),
                             ParentPosMap(steps[1].nodes), "headk")

\* A collected trace, step by step, with the history before each step.
LEMMA CollectedSteps ==
  ASSUME NEW steps, NEW keep, Len(steps) \in Nat
  PROVE  \E hs : TraceFrom(steps, keep, Collected(steps, keep), hs)
<1>. DEFINE n == Len(steps)
<1>1. PICK run : RunIs(steps, keep, run) /\ Collected(steps, keep) = run[n].trace
  BY RunExists, RunUnfold
<1>2. run[0] = Nothing /\ \A t \in 1..n : run[t] = CollectOne(steps, keep, run[t - 1], t)
  BY <1>1 DEF RunIs
<1>. DEFINE Grown(t) ==
              /\ \E S : run[t].trace \in Seq(S)
              /\ Len(run[t].trace) = t
              /\ \A i \in 1..t :
                   /\ run[t].trace[i] =
                        RecordKept(steps[i], SelectedAt(steps, keep, run[i - 1].hist, i),
                                   ContextAt(steps, run[t].trace, i))
                   /\ run[i].hist =
                        Update(run[i - 1].hist, run[t].trace[i].nodes, KPredMap(steps[1].nodes),
                               ParentPosMap(steps[1].nodes), "headk")
            T == {t \in Nat : t <= n => Grown(t)}
<1>3. 0 \in T
  <2>1. <<>> \in Seq({}) /\ Len(<<>>) = 0 /\ run[0].trace = <<>>
    BY <1>2 DEF Nothing
  <2>2. Grown(0)
    BY <2>1
  <2>. HIDE DEF Grown
  <2>. QED  BY <2>2
<1>4. ASSUME NEW t \in Nat, t \in T PROVE t + 1 \in T
  <2>. SUFFICES ASSUME t + 1 <= n PROVE Grown(t + 1)
    <3>. HIDE DEF Grown
    <3>. QED  OBVIOUS
  <2>1. Grown(t)
    <3>. HIDE DEF Grown
    <3>. QED  BY <1>4
  <2>. DEFINE old == run[t].trace
              step == StepAt(steps, keep, run[t], t + 1)
              new == run[t + 1].trace
  <2>2. run[t + 1] = CollectOne(steps, keep, run[t], t + 1)
    <3>1. t + 1 \in 1..n /\ (t + 1) - 1 = t
      OBVIOUS
    <3>. QED  BY <1>2, <3>1
  <2>3. /\ new = Append(old, step)
        /\ run[t + 1].hist = Update(run[t].hist, step.nodes, KPredMap(steps[1].nodes),
                                    ParentPosMap(steps[1].nodes), "headk")
    <3>. HIDE DEF step
    <3>. QED  BY <2>2 DEF CollectOne, step
  <2>4. PICK S : old \in Seq(S)
    BY <2>1
  <2>5. old \in Seq(S \cup {step}) /\ Len(old) = t
    <3>. HIDE DEF step
    <3>. QED  BY <2>1, <2>4
  <2>6. /\ new \in Seq(S \cup {step}) /\ Len(new) = t + 1 /\ new[t + 1] = step
        /\ \A i \in 1..t : new[i] = old[i]
    <3>. HIDE DEF step, old, new
    <3>. QED  BY <2>3, <2>5
  <2>7. \A i \in 1..(t + 1) : ContextAt(steps, new, i) = ContextAt(steps, old, i)
    <3>1. \A i \in 1..(t + 1) : i > 1 => i - 1 \in 1..t
      OBVIOUS
    <3>. HIDE DEF step, old, new
    <3>. QED  BY <2>6, <3>1 DEF ContextAt
  <2>8. ASSUME NEW i \in 1..(t + 1)
        PROVE  /\ new[i] = RecordKept(steps[i], SelectedAt(steps, keep, run[i - 1].hist, i),
                                      ContextAt(steps, new, i))
               /\ run[i].hist = Update(run[i - 1].hist, new[i].nodes, KPredMap(steps[1].nodes),
                                       ParentPosMap(steps[1].nodes), "headk")
    <3>1. CASE i \in 1..t
      <4>1. new[i] = old[i] /\ ContextAt(steps, new, i) = ContextAt(steps, old, i)
        BY <2>6, <2>7, <3>1
      <4>. QED  BY <2>1, <3>1, <4>1
    <3>2. CASE i = t + 1
      <4>1. i - 1 = t
        BY <3>2
      <4>2. step = RecordKept(steps[i], SelectedAt(steps, keep, run[i - 1].hist, i),
                              ContextAt(steps, new, i))
        BY <2>7, <3>2, <4>1 DEF StepAt
      <4>. QED  BY <2>3, <2>6, <3>2, <4>1, <4>2
    <3>. QED  BY <3>1, <3>2
  <2>. QED  BY <2>6, <2>8
<1>5. Nat \subseteq T
  <2>. HIDE DEF T
  <2>. QED  BY <1>3, <1>4, Induction
<1>6. Grown(n)
  <2>. HIDE DEF Grown
  <2>. QED  BY <1>5
<1>. DEFINE hs == [i \in 1..(n + 1) |-> run[i - 1].hist]
<1>7. hs[1] = EmptyHist
  BY <1>2 DEF Nothing
<1>8. \A i \in 1..n : hs[i] = run[i - 1].hist /\ hs[i + 1] = run[i].hist
  OBVIOUS
<1>. HIDE DEF hs
<1>9. TraceFrom(steps, keep, run[n].trace, hs)
  BY <1>6, <1>7, <1>8 DEF TraceFrom
<1>. QED  BY <1>1, <1>9

-----------------------------------------------------------------------------
(* A larger keep-count keeps more.                                         *)

\* The positions sorted before one.
Forerunners(nodes, h, q) ==
  {r \in Positions(nodes) :
     ByScore(Scores(nodes, h, KPredMap(nodes), ParentPosMap(nodes), "headk"), r, q)}

\* LP-Spec's selection of a step at replay.
Replayed(nodes, t, keep, h) ==
  SelectKept(nodes, t, keep, "greedy_headk", h, KPredMap(nodes), ParentPosMap(nodes))

\* At replay a position is kept if fewer than keep are sorted before it.
LEMMA ReplayedIs ==
  ASSUME NEW nodes, NEW t, NEW keep, NEW h
  PROVE  Replayed(nodes, t, keep, h) =
           IF t = 0 THEN Positions(nodes)
           ELSE {q \in Positions(nodes) : Cardinality(Forerunners(nodes, h, q)) < keep}
BY DEF Replayed, SelectKept, TopL, Granularity, Forerunners

\* A list of nodes has finitely many positions, as many as it has nodes at most.
LEMMA PositionsFinite ==
  ASSUME NEW nodes \in Seq(Node)
  PROVE  /\ IsFiniteSet(Positions(nodes)) /\ Cardinality(Positions(nodes)) <= Len(nodes)
         /\ \A T \in SUBSET Positions(nodes) :
              /\ IsFiniteSet(T) /\ Cardinality(T) \in Nat
              /\ Cardinality(T) <= Cardinality(Positions(nodes))
              /\ T # Positions(nodes) => Cardinality(T) < Cardinality(Positions(nodes))
<1>. DEFINE n == Len(nodes)
            P == Positions(nodes)
            f == [i \in 1..n |-> Pos(nodes[i])]
<1>1. n \in Nat /\ DOMAIN nodes = 1..n
  BY LenProperties
<1>2. IsFiniteSet(1..n) /\ Cardinality(1..n) = n
  <2>. HIDE DEF n
  <2>1. IsFiniteSet(1..n) /\ Cardinality(1..n) = IF 1 > n THEN 0 ELSE n - 1 + 1
    BY <1>1, FS_Interval
  <2>. QED  BY <1>1, <2>1
<1>3. P = {Pos(nodes[i]) : i \in 1..n}
  BY <1>1 DEF Positions
<1>4. f \in Surjection(1..n, P)
  <2>1. \A i \in 1..n : f[i] \in P
    BY <1>3
  <2>2. \A q \in P : \E i \in 1..n : f[i] = q
    BY <1>3
  <2>. QED  BY <2>1, <2>2 DEF Surjection
<1>. HIDE DEF f, n, P
<1>5. IsFiniteSet(P) /\ Cardinality(P) <= n
  BY <1>2, <1>4, FS_Surjection
<1>6. Cardinality(P) \in Nat
  BY <1>5, FS_CardinalityType
<1>7. ASSUME NEW T \in SUBSET P
      PROVE  /\ IsFiniteSet(T) /\ Cardinality(T) \in Nat
             /\ Cardinality(T) <= Cardinality(P)
             /\ T # P => Cardinality(T) < Cardinality(P)
  <2>1. IsFiniteSet(T) /\ Cardinality(T) <= Cardinality(P)
        /\ (Cardinality(P) = Cardinality(T) => P = T)
    BY <1>5, FS_Subset
  <2>2. Cardinality(T) \in Nat
    BY <2>1, FS_CardinalityType
  <2>. QED  BY <1>6, <2>1, <2>2
<1>. QED  BY <1>5, <1>7 DEF P, n

\* A larger budget selects no fewer nodes, by the same history.
LEMMA SelectionGrows ==
  ASSUME NEW nodes \in Seq(Node), NEW t, NEW h, NEW a \in Nat, NEW b \in Nat, a <= b
  PROVE  Replayed(nodes, t, a, h) \subseteq Replayed(nodes, t, b, h)
<1>1. CASE t = 0
  BY <1>1, ReplayedIs
<1>2. CASE t # 0
  <2>1. \A q : Cardinality(Forerunners(nodes, h, q)) \in Nat
    <3>1. \A q : Forerunners(nodes, h, q) \in SUBSET Positions(nodes)
      BY DEF Forerunners
    <3>. QED  BY <3>1, PositionsFinite
  <2>2. \A q : Cardinality(Forerunners(nodes, h, q)) < a => Cardinality(Forerunners(nodes, h, q)) < b
    BY <2>1
  <2>. QED  BY <1>2, <2>2, ReplayedIs
<1>. QED  BY <1>1, <1>2

\* More verified, more accepted; never more than the tree's accepted nodes.
LEMMA AcceptGrows ==
  ASSUME NEW nodes \in Seq(Node), NEW kept, NEW more, kept \subseteq more
  PROVE  /\ EffectiveAccept(nodes, kept) \in Nat
         /\ EffectiveAccept(nodes, kept) <= EffectiveAccept(nodes, more)
         /\ EffectiveAccept(nodes, kept) <=
              Cardinality({i \in DOMAIN nodes : nodes[i].accepted})
<1>. DEFINE Up(K) == {i \in DOMAIN nodes :
                        /\ nodes[i].accepted
                        /\ \A j \in DOMAIN nodes :
                             nodes[j].accepted /\ nodes[j].depth <= nodes[i].depth
                               => Pos(nodes[j]) \in K}
            A == {i \in DOMAIN nodes : nodes[i].accepted}
<1>1. Len(nodes) \in Nat /\ DOMAIN nodes = 1..Len(nodes)
  BY LenProperties
<1>2. \A K : EffectiveAccept(nodes, K) = Cardinality(Up(K))
  BY DEF EffectiveAccept
<1>3. Up(kept) \in SUBSET Up(more) /\ Up(kept) \in SUBSET A
      /\ Up(more) \in SUBSET (1..Len(nodes)) /\ A \in SUBSET (1..Len(nodes))
  BY <1>1
<1>. HIDE DEF Up, A
<1>4. /\ Cardinality(Up(kept)) \in Nat
      /\ Cardinality(Up(kept)) <= Cardinality(Up(more)) /\ Cardinality(Up(kept)) <= Cardinality(A)
  BY <1>1, <1>3, PlacesFinite
<1>. QED  BY <1>2, <1>4 DEF A

-----------------------------------------------------------------------------
(* What a MEDUSA step keeps, and what a gate leaves to measure.            *)

\* The static nodes a collector keeps.
KeptNodes(nodes, kept) == {k \in DOMAIN nodes : Pos(nodes[k]) \in kept}

\* A recorded MEDUSA step: the kept nodes at their static positions, the
\* accepts those of the chain that was verified.
KeptAs(step, ctx, K, m, a) ==
  /\ m.prompt_id = step.prompt_id /\ m.context_length = ctx
  /\ m.accepted_length = a /\ a \in Nat
  /\ K \in SUBSET (1..Len(step.nodes)) /\ Len(step.nodes) \in Nat
  /\ m.nodes \in Seq(Node) /\ Len(m.nodes) = Cardinality(K)
  /\ DOMAIN m.nodes = 1..Cardinality(K)
  /\ \A i \in 1..Cardinality(K) :
       LET b == step.nodes[NodeAt(K, i)]
       IN  /\ NodeAt(K, i) \in K /\ b \in Node
           /\ m.nodes[i].depth = b.depth /\ m.nodes[i].layer_idx = b.layer_idx
           /\ m.nodes[i].accepted = (b.accepted /\ b.depth < a)
           /\ m.nodes[i].parent_idx =
                IF b.parent_idx = -1 THEN -1 ELSE Place(K, b.parent_idx + 1)

\* That is what record_kept makes of a step.
LEMMA KeptStep ==
  ASSUME NEW step \in StaticStep, NEW kept, NEW ctx
  PROVE  KeptAs(step, ctx, KeptNodes(step.nodes, kept), RecordKept(step, kept, ctx),
                EffectiveAccept(step.nodes, kept))
<1>. DEFINE K == KeptNodes(step.nodes, kept)
            a == EffectiveAccept(step.nodes, kept)
            c == Cardinality(K)
            nodes == Recorded(step.nodes, K)
            marked == [i \in DOMAIN nodes |-> [nodes[i] EXCEPT !.accepted = @ /\ nodes[i].depth < a]]
            m == RecordKept(step, kept, ctx)
<1>1. step.nodes \in Seq(Node)
  BY DEF StaticStep
<1>2. Len(step.nodes) \in Nat /\ DOMAIN step.nodes = 1..Len(step.nodes)
      /\ \A k \in 1..Len(step.nodes) : step.nodes[k] \in Node
  BY <1>1, LenProperties
<1>3. K \in SUBSET (1..Len(step.nodes)) /\ a \in Nat
  BY <1>1, <1>2, AcceptGrows DEF KeptNodes
<1>4. m = [prompt_id |-> step.prompt_id, context_length |-> ctx, nodes |-> marked,
           accepted_length |-> a]
  BY DEF RecordKept, KeptNodes
<1>. HIDE DEF K
<1>5. c \in Nat /\ \A i \in 1..c : NodeAt(K, i) \in K
  BY <1>2, <1>3, PlacesFinite, NodeAtExists
<1>6. /\ DOMAIN nodes = 1..c
      /\ \A i \in 1..c :
           LET b == step.nodes[NodeAt(K, i)]
           IN  /\ nodes[i] \in Node
               /\ nodes[i].depth = b.depth /\ nodes[i].layer_idx = b.layer_idx
               /\ nodes[i].accepted = b.accepted
               /\ nodes[i].parent_idx =
                    IF b.parent_idx = -1 THEN -1 ELSE Place(K, b.parent_idx + 1)
  <2>1. K \in SUBSET (DOMAIN step.nodes)
    BY <1>2, <1>3
  <2>. QED  BY ONLY <1>1, <2>1, RecordedNodes
<1>. HIDE DEF a, nodes
<1>7. /\ DOMAIN marked = 1..c
      /\ \A i \in 1..c :
           /\ marked[i] \in Node
           /\ marked[i].depth = nodes[i].depth /\ marked[i].layer_idx = nodes[i].layer_idx
           /\ marked[i].accepted = (nodes[i].accepted /\ nodes[i].depth < a)
           /\ marked[i].parent_idx = nodes[i].parent_idx
  <2>. HIDE DEF c
  <2>1. DOMAIN marked = 1..c
    BY <1>6
  <2>2. ASSUME NEW i \in 1..c
        PROVE  /\ marked[i] \in Node
               /\ marked[i].depth = nodes[i].depth /\ marked[i].layer_idx = nodes[i].layer_idx
               /\ marked[i].accepted = (nodes[i].accepted /\ nodes[i].depth < a)
               /\ marked[i].parent_idx = nodes[i].parent_idx
    <3>. DEFINE flag == nodes[i].accepted /\ nodes[i].depth < a
    <3>1. nodes[i] \in Node
      BY <1>6
    <3>2. marked[i] = [nodes[i] EXCEPT !.accepted = flag]
      BY <1>6
    <3>3. flag \in BOOLEAN
      OBVIOUS
    <3>. HIDE DEF marked, flag
    <3>4. /\ marked[i] \in Node
          /\ marked[i].depth = nodes[i].depth /\ marked[i].layer_idx = nodes[i].layer_idx
          /\ marked[i].accepted = flag
          /\ marked[i].parent_idx = nodes[i].parent_idx
      BY <3>1, <3>2, <3>3 DEF Node
    <3>. QED  BY <3>4 DEF flag
  <2>. QED  BY <2>1, <2>2
<1>8. marked = [i \in 1..c |-> marked[i]]
  BY <1>7
<1>. HIDE DEF marked
<1>9. marked \in [1..c -> Node]
  BY <1>7, <1>8
<1>10. marked \in Seq(Node) /\ Len(marked) = c
  <2>. HIDE DEF c
  <2>1. marked \in Seq(Node)
    BY <1>5, <1>9
  <2>. QED  BY <1>5, <1>7, <2>1, LenProperties
<1>11. \A i \in 1..c : step.nodes[NodeAt(K, i)] \in Node
  BY <1>2, <1>3, <1>5
<1>12. m.prompt_id = step.prompt_id /\ m.context_length = ctx /\ m.nodes = marked
       /\ m.accepted_length = a
  BY <1>4
<1>. HIDE DEF m
<1>. QED  BY <1>2, <1>3, <1>5, <1>6, <1>7, <1>10, <1>11, <1>12 DEF KeptAs, K, a, c, m

\* The accepted nodes lie at different depths below the accepted length, so
\* there are at most as many.
LEMMA ChainBounded ==
  ASSUME NEW nodes \in Seq(Node), OneChain(nodes), NEW a \in Nat,
         NEW A \in SUBSET (DOMAIN nodes),
         \A k \in A : nodes[k].accepted /\ nodes[k].depth < a
  PROVE  Cardinality(A) <= a
<1>. DEFINE f == [k \in A |-> nodes[k].depth]
            T == 0..(a - 1)
<1>1. Len(nodes) \in Nat /\ DOMAIN nodes = 1..Len(nodes)
      /\ \A k \in 1..Len(nodes) : nodes[k] \in Node
  BY LenProperties
<1>2. IsFiniteSet(A) /\ Cardinality(A) \in Nat
  BY <1>1, PlacesFinite
<1>3. IsFiniteSet(T) /\ Cardinality(T) = a
  <2>1. 0 \in Int /\ a - 1 \in Int
    OBVIOUS
  <2>2. IsFiniteSet(0..(a - 1)) /\ Cardinality(0..(a - 1)) = IF 0 > a - 1 THEN 0 ELSE a - 1 - 0 + 1
    BY <2>1, FS_Interval
  <2>. QED  BY <2>2
<1>4. f \in [A -> T]
  BY <1>1 DEF Node
<1>5. \A j, k \in A : f[j] = f[k] => j = k
  BY DEF OneChain
<1>. HIDE DEF f, T
<1>. QED  BY <1>2, <1>3, <1>4, <1>5, FS_PigeonHole

\* What a step measured bounds what any replay of it emits.
LEMMA MeasuredBounds ==
  ASSUME NEW step \in StaticStep, OneChain(step.nodes), NEW kept, NEW ctx, NEW any
  PROVE  LET m == RecordKept(step, kept, ctx)
         IN  EffectiveAccept(m.nodes, any) <= m.accepted_length
<1>. DEFINE K == KeptNodes(step.nodes, kept)
            a == EffectiveAccept(step.nodes, kept)
            m == RecordKept(step, kept, ctx)
            A == {k \in K : step.nodes[k].accepted /\ step.nodes[k].depth < a}
            M == {i \in DOMAIN m.nodes : m.nodes[i].accepted}
<1>0. KeptAs(step, ctx, K, m, a)
  BY KeptStep
<1>. HIDE DEF K, a, m
<1>1. /\ m.accepted_length = a /\ a \in Nat
      /\ K \in SUBSET (1..Len(step.nodes)) /\ Len(step.nodes) \in Nat
      /\ m.nodes \in Seq(Node) /\ DOMAIN m.nodes = 1..Cardinality(K)
      /\ \A i \in 1..Cardinality(K) :
           /\ NodeAt(K, i) \in K
           /\ m.nodes[i].accepted <=>
                step.nodes[NodeAt(K, i)].accepted /\ step.nodes[NodeAt(K, i)].depth < a
  BY <1>0 DEF KeptAs
<1>2. M = {i \in 1..Cardinality(K) : NodeAt(K, i) \in A}
  BY <1>1
<1>3. A \in SUBSET K
  OBVIOUS
<1>4. Cardinality(M) = Cardinality(A)
  <2>. HIDE DEF A, M
  <2>. QED  BY <1>1, <1>2, <1>3, CountCarried
<1>5. Cardinality(A) <= a
  <2>1. step.nodes \in Seq(Node) /\ DOMAIN step.nodes = 1..Len(step.nodes)
    BY LenProperties DEF StaticStep
  <2>2. \A k \in A : step.nodes[k].accepted /\ step.nodes[k].depth < a
    OBVIOUS
  <2>3. A \in SUBSET (DOMAIN step.nodes)
    BY <1>1, <2>1
  <2>. HIDE DEF A
  <2>. QED  BY <1>1, <2>1, <2>2, <2>3, ChainBounded
<1>6. EffectiveAccept(m.nodes, any) \in Nat /\ EffectiveAccept(m.nodes, any) <= Cardinality(M)
  BY <1>1, AcceptGrows
<1>. HIDE DEF A, M
<1>7. Cardinality(A) \in Nat
  BY <1>1, PlacesFinite DEF A
<1>8. EffectiveAccept(m.nodes, any) <= a
  BY <1>1, <1>4, <1>5, <1>6, <1>7
<1>. QED  BY <1>1, <1>8 DEF m

-----------------------------------------------------------------------------
(* What every call leaves for every step.                                  *)

\* The accepted nodes are one chain, from the root down.
FromRoot(step) ==
  /\ OneChain(step.nodes)
  /\ \A k \in DOMAIN step.nodes :
       step.nodes[k].accepted => step.nodes[k].depth < step.accepted_length

\* The two runs are as TraceAssumption says; the MEDUSA trace is collected.
InputSound ==
  /\ drafted \in Seq(DraftedStep) /\ gate \in Gate
  /\ \A i \in 1..Len(drafted) : Measurable(drafted[i]) /\ FromRoot(drafted[i])
  /\ static \in Seq(StaticStep) /\ L \in Nat \ {0} /\ medusa = Collected(static, L)
  /\ \A i \in 1..Len(static) :
       LET nodes == static[i].nodes
       IN  OneChain(nodes) /\ IsTree(nodes) /\ SameTree(nodes, static[1].nodes)
  /\ Grouped(drafted) /\ Grouped(static)
  /\ \A i \in 2..Len(drafted) : drafted[i - 1].prompt_id = drafted[i].prompt_id =>
       drafted[i].context_length =
         drafted[i - 1].context_length + MeasuredAccept(drafted[i - 1], gate) + 1

\* A call's knobs come from the sweep.
Configured(cfg) ==
  /\ cfg.driver = "capim" =>
       \E sigma_th \in Gate : \E device, mu_th :
         cfg = [driver |-> "capim", sigma_th |-> sigma_th, draft_device |-> device,
                mu_th |-> mu_th, all_npu |-> flags.all_npu,
                concurrent_verify |-> flags.concurrent_verify]
  /\ cfg.driver = "lp_spec" => cfg.L_spec \in Nat

\* What a call with these knobs records for the i-th step of its trace.
StepDone(cfg, i, r) ==
  /\ cfg.driver = "ar" =>
       LET step == TraceOf(cfg)[i]
       IN  /\ r.tokens = ArTokens(step)
           /\ r.contexts = {step.context_length + j : j \in 0..(ArTokens(step) - 1)}
  /\ cfg.driver = "capim" =>
       r.verify = Verify(eagle[i], cfg) /\ r.tokens = Tokens(eagle[i], cfg)
  /\ cfg.driver = "lp_spec" =>
       /\ r.kept = Replayed(medusa[i].nodes, i - 1, cfg.L_spec, Learnt(medusa)[i - 1])
       /\ r.tokens = EffectiveAccept(medusa[i].nodes, r.kept) + 1

\* The running call, and the history it has learnt.
RunningSound ==
  queue # <<>> =>
    /\ Len(result) <= Len(TraceOf(Cfg))
    /\ \A i \in 1..Len(result) : StepDone(Cfg, i, result[i])
    /\ Cfg.driver = "lp_spec" => hist = Learnt(medusa)[Len(result)]

\* The calls that returned.
Finished ==
  /\ \E S : records \in Seq(S)
  /\ \A c \in 1..Len(records) :
       /\ Configured(records[c].cfg)
       /\ DOMAIN records[c].steps = 1..Len(TraceOf(records[c].cfg))
       /\ \A i \in 1..Len(TraceOf(records[c].cfg)) :
            StepDone(records[c].cfg, i, records[c].steps[i])

\* The invariant of the replays.
ReplayInv ==
  /\ InputSound
  /\ \E S : queue \in Seq(S) /\ \A cfg \in S : Configured(cfg)
  /\ \E S : result \in Seq(S)
  /\ RunningSound /\ Finished

\* Both traces are as long as the runs they were collected from.
LEMMA TracesLong ==
  ASSUME InputSound
  PROVE  /\ Len(drafted) \in Nat /\ DOMAIN drafted = 1..Len(drafted)
         /\ Len(eagle) = Len(drafted) /\ DOMAIN eagle = 1..Len(drafted)
         /\ Len(medusa) = Len(static) /\ Len(medusa) \in Nat /\ DOMAIN medusa = 1..Len(medusa)
<1>1. Len(drafted) \in Nat /\ DOMAIN drafted = 1..Len(drafted) /\ Len(static) \in Nat
  BY LenProperties DEF InputSound
<1>2. PICK hs : TraceFrom(static, L, medusa, hs)
  BY <1>1, CollectedSteps DEF InputSound
<1>. QED  BY <1>1, <1>2, EagleLen, LenProperties DEF TraceFrom

\* A trace is as its run, whichever it is.
LEMMA TraceOfLong ==
  ASSUME InputSound, NEW cfg
  PROVE  Len(TraceOf(cfg)) \in Nat /\ DOMAIN TraceOf(cfg) = 1..Len(TraceOf(cfg))
BY TracesLong DEF TraceOf

\* The quotient of a number below a product.
LEMMA QuotientBelow ==
  ASSUME NEW s \in Nat, NEW m \in Nat, NEW c \in 1..(s * m)
  PROVE  (c - 1) \div m \in 0..(s - 1)
<1>1. m # 0 /\ m > 0
  BY Z3
<1>. DEFINE q == (c - 1) \div m
            r == (c - 1) % m
<1>2. q \in Int /\ r \in 0..(m - 1) /\ c - 1 = m * q + r
  BY <1>1, Z3
<1>. HIDE DEF q, r
<1>3. q >= 0
  <2>. SUFFICES ASSUME q <= -1 PROVE FALSE
    BY <1>2
  <2>1. m * q <= m * (-1)
    BY <1>1, <1>2
  <2>. QED  BY <1>2, <2>1
<1>4. q < s
  <2>. SUFFICES ASSUME s <= q PROVE FALSE
    BY <1>2
  <2>1. m * s <= m * q
    BY <1>1, <1>2
  <2>2. m * s = s * m /\ s * m \in Int
    OBVIOUS
  <2>. QED  BY <1>2, <2>1, <2>2
<1>. QED  BY <1>2, <1>3, <1>4 DEF q

\* The calls of main.py's sweep are configured by it.
LEMMA CallsConfigured ==
  \E S : Calls \in Seq(S) /\ \A cfg \in S : Configured(cfg)
<1>. DEFINE ar == <<[driver |-> "ar", source |-> "eagle"], [driver |-> "ar", source |-> "medusa"]>>
            n == Len(SigmaThs) * Len(DraftDevices) * Len(MuThs)
            S == {[driver |-> "ar", source |-> "eagle"], [driver |-> "ar", source |-> "medusa"]}
                   \cup {CapimConfigs[c] : c \in 1..n}
                   \cup {LpSpecConfigs[c] : c \in 1..Len(LSpecs)}
<1>1. /\ Len(SigmaThs) \in Nat /\ Len(DraftDevices) \in Nat /\ Len(MuThs) \in Nat
      /\ Len(LSpecs) \in Nat /\ DOMAIN LSpecs = 1..Len(LSpecs)
      /\ \A k \in 1..Len(SigmaThs) : SigmaThs[k] \in Gate
      /\ \A k \in 1..Len(LSpecs) : LSpecs[k] \in Nat
  BY DriveAssumption DEF Gate
<1>2. n \in Nat
  BY <1>1
<1>3. ASSUME NEW c \in 1..n PROVE Configured(CapimConfigs[c])
  <2>. DEFINE s == Len(SigmaThs)
              m == Len(MuThs) * Len(DraftDevices)
              sig == (c - 1) \div m
              mu == (c - 1) % Len(MuThs)
              dev == ((c - 1) \div Len(MuThs)) % Len(DraftDevices)
  <2>1. s \in Nat /\ m \in Nat /\ n = s * m
    <3>1. \A x, y, z \in Nat : x * y * z = x * (z * y) /\ z * y \in Nat
      OBVIOUS
    <3>. QED  BY <1>1, <3>1
  <2>2. sig \in 0..(s - 1)
    <3>. HIDE DEF s, m
    <3>1. c \in 1..(s * m)
      BY <2>1
    <3>. QED  BY <2>1, <3>1, QuotientBelow
  <2>. HIDE DEF sig, mu, dev
  <2>3. SigmaThs[sig + 1] \in Gate
    <3>1. sig + 1 \in 1..Len(SigmaThs)
      BY <1>1, <2>2
    <3>. QED  BY <1>1, <3>1
  <2>4. CapimConfigs[c] =
          [driver |-> "capim", sigma_th |-> SigmaThs[sig + 1],
           draft_device |-> DraftDevices[dev + 1], mu_th |-> MuThs[mu + 1],
           all_npu |-> flags.all_npu, concurrent_verify |-> flags.concurrent_verify]
    BY DEF CapimConfigs, sig, mu, dev
  <2>. DEFINE cfg == CapimConfigs[c]
              x == SigmaThs[sig + 1]
              d == DraftDevices[dev + 1]
              u == MuThs[mu + 1]
  <2>5. x \in Gate
        /\ cfg = [driver |-> "capim", sigma_th |-> x, draft_device |-> d, mu_th |-> u,
                  all_npu |-> flags.all_npu, concurrent_verify |-> flags.concurrent_verify]
    BY <2>3, <2>4
  <2>. HIDE DEF cfg, x, d, u
  <2>6. cfg.driver = "capim"
    BY <2>5
  <2>7. Configured(cfg)
    BY <2>5, <2>6 DEF Configured
  <2>. QED  BY <2>7 DEF cfg
<1>4. \A c \in 1..Len(LSpecs) : Configured(LpSpecConfigs[c])
  BY <1>1 DEF LpSpecConfigs, Configured
<1>5. \A cfg \in S : Configured(cfg)
  <2>1. /\ Configured([driver |-> "ar", source |-> "eagle"])
        /\ Configured([driver |-> "ar", source |-> "medusa"])
    BY DEF Configured
  <2>. HIDE DEF n
  <2>. QED  BY <1>3, <1>4, <2>1
<1>6. ar \in Seq(S)
  OBVIOUS
<1>7. CapimConfigs \in Seq(S) /\ LpSpecConfigs \in Seq(S)
  <2>. HIDE DEF n
  <2>1. CapimConfigs = [c \in 1..n |-> CapimConfigs[c]]
    BY DEF CapimConfigs, n
  <2>2. LpSpecConfigs = [c \in 1..Len(LSpecs) |-> LpSpecConfigs[c]]
    BY <1>1 DEF LpSpecConfigs
  <2>3. CapimConfigs \in [1..n -> S] /\ LpSpecConfigs \in [1..Len(LSpecs) -> S]
    BY <2>1, <2>2
  <2>. HIDE DEF S
  <2>. QED  BY <1>1, <1>2, <2>3
<1>8. Calls = (ar \o CapimConfigs) \o LpSpecConfigs
  BY DEF Calls
<1>. HIDE DEF S, ar
<1>9. Calls \in Seq(S)
  BY <1>6, <1>7, <1>8
<1>. QED  BY <1>5, <1>9

\* Main.py's two runs are sound.
LEMMA InputInit == Init => InputSound
<1>. SUFFICES ASSUME Init PROVE InputSound
  OBVIOUS
<1>1. PICK in \in Inputs : /\ drafted = in.drafted /\ gate = in.gate
                           /\ static = in.static /\ L = in.L
                           /\ medusa = Collected(in.static, in.L)
  BY DEF Init
<1>2. gate \in Gate /\ L \in Nat \ {0}
  BY <1>1, DriveAssumption DEF Gate
<1>3. drafted \in Seq(DraftedStep) /\ static \in Seq(StaticStep)
  BY <1>1, TraceAssumption
<1>4. \A i \in DOMAIN drafted : Measurable(drafted[i]) /\ FromRoot(drafted[i])
  BY <1>1, TraceAssumption DEF Measurable, FromRoot
<1>5. \A i \in DOMAIN static :
        LET nodes == static[i].nodes
        IN  OneChain(nodes) /\ IsTree(nodes) /\ SameTree(nodes, static[1].nodes)
  BY <1>1, TraceAssumption
<1>6. DOMAIN drafted = 1..Len(drafted) /\ DOMAIN static = 1..Len(static)
  BY <1>3, LenProperties
<1>7. medusa = Collected(static, L)
  BY <1>1
<1>8. Grouped(drafted) /\ Grouped(static)
  BY <1>1, TraceAssumption
<1>9. ASSUME NEW i \in 2..Len(drafted), drafted[i - 1].prompt_id = drafted[i].prompt_id
      PROVE  drafted[i].context_length =
               drafted[i - 1].context_length + MeasuredAccept(drafted[i - 1], gate) + 1
  <2>1. Len(drafted) \in Nat
    BY <1>3, LenProperties
  <2>2. i \in DOMAIN drafted /\ i > 1
    BY <1>6, <2>1
  <2>. QED  BY <1>1, <1>9, <2>2, TraceAssumption
<1>. QED  BY <1>2, <1>3, <1>4, <1>5, <1>6, <1>7, <1>8, <1>9 DEF InputSound

\* No step of a drive() call changes the traces.
LEMMA InputFrame ==
  ASSUME UNCHANGED input
  PROVE  /\ InputSound => InputSound'
         /\ \A cfg : Configured(cfg)' <=> Configured(cfg)
         /\ \A cfg : TraceOf(cfg)' = TraceOf(cfg)
         /\ \A cfg, i, r : StepDone(cfg, i, r)' <=> StepDone(cfg, i, r)
         /\ eagle' = eagle /\ medusa' = medusa
<1>1. /\ drafted' = drafted /\ gate' = gate /\ static' = static /\ L' = L
      /\ medusa' = medusa /\ flags' = flags
  BY DEF input
<1>2. eagle' = eagle
  BY <1>1 DEF eagle
<1>3. InputSound => InputSound'
  BY <1>1 DEF InputSound
<1>4. \A cfg : Configured(cfg)' <=> Configured(cfg)
  BY <1>1 DEF Configured
<1>5. \A cfg : TraceOf(cfg)' = TraceOf(cfg)
  BY <1>1, <1>2 DEF TraceOf
<1>6. \A cfg, i, r : StepDone(cfg, i, r)' <=> StepDone(cfg, i, r)
  BY <1>1, <1>2, <1>5 DEF StepDone
<1>. QED  BY <1>1, <1>2, <1>3, <1>4, <1>5, <1>6

\* Before the first call nothing is recorded.
LEMMA ReplayInit == Init => ReplayInv
<1>. SUFFICES ASSUME Init PROVE ReplayInv
  OBVIOUS
<1>1. InputSound
  BY InputInit
<1>2. queue = Calls /\ result = <<>> /\ records = <<>> /\ hist = EmptyHist
  BY DEF Init
<1>3. <<>> \in Seq({}) /\ Len(<<>>) = 0
  OBVIOUS
<1>4. Learnt(medusa)[0] = EmptyHist
  BY <1>1, TracesLong, LearntExists DEF LearntIs
<1>5. RunningSound
  <2>1. Len(TraceOf(Cfg)) \in Nat
    BY <1>1, TraceOfLong
  <2>. QED  BY <1>2, <1>3, <1>4, <2>1 DEF RunningSound
<1>6. Finished
  BY <1>2, <1>3 DEF Finished
<1>. QED  BY <1>1, <1>2, <1>3, <1>5, <1>6, CallsConfigured DEF ReplayInv

\* A call records for its next step what its knobs order, and LP-Spec learns
\* the step.
LEMMA ReplayStep == ReplayInv /\ (ArStep \/ CapimStep \/ LpSpecStep) => ReplayInv'
<1>. SUFFICES ASSUME ReplayInv, ArStep \/ CapimStep \/ LpSpecStep PROVE ReplayInv'
  OBVIOUS
<1>. DEFINE n == Len(result)
<1>1. PICK S : result \in Seq(S)
  BY DEF ReplayInv
<1>2. n \in Nat
  BY <1>1, LenProperties
<1>3. /\ queue # <<>> /\ n < Len(TraceOf(Cfg)) /\ UNCHANGED <<input, queue, records>>
  BY DEF ArStep, CapimStep, LpSpecStep, Running
<1>4. Step = TraceOf(Cfg)[n + 1]
  BY DEF Step
<1>5. \E new : result' = Append(result, new) /\ StepDone(Cfg, n + 1, new)
  <2>1. CASE ArStep
    <3>. DEFINE new == [prompt_id |-> Step.prompt_id, tokens |-> ArTokens(Step),
                        contexts |-> {Step.context_length + j : j \in 0..(ArTokens(Step) - 1)}]
    <3>1. Cfg.driver = "ar" /\ result' = Append(result, new)
      BY <2>1 DEF ArStep, Running
    <3>2. StepDone(Cfg, n + 1, new)
      BY <1>4, <3>1 DEF StepDone
    <3>. HIDE DEF new
    <3>. QED  BY <3>1, <3>2
  <2>2. CASE CapimStep
    <3>1. Cfg.driver = "capim" /\ TraceOf(Cfg) = eagle
      BY <2>2 DEF CapimStep, Running, TraceOf
    <3>2. \E draft : result' = Append(result,
              [prompt_id |-> Step.prompt_id, tokens |-> Tokens(Step, Cfg),
               draft |-> draft, verify |-> Verify(Step, Cfg)])
      BY <2>2 DEF CapimStep
    <3>3. PICK draft : result' = Append(result,
              [prompt_id |-> Step.prompt_id, tokens |-> Tokens(Step, Cfg),
               draft |-> draft, verify |-> Verify(Step, Cfg)])
      BY <3>2
    <3>. DEFINE new == [prompt_id |-> Step.prompt_id, tokens |-> Tokens(Step, Cfg),
                        draft |-> draft, verify |-> Verify(Step, Cfg)]
    <3>4. StepDone(Cfg, n + 1, new)
      BY <1>4, <3>1 DEF StepDone
    <3>. HIDE DEF new
    <3>. QED  BY <3>3, <3>4 DEF new
  <2>3. CASE LpSpecStep
    <3>1. Cfg.driver = "lp_spec" /\ TraceOf(Cfg) = medusa
      BY <2>3 DEF LpSpecStep, Running, TraceOf
    <3>2. hist = Learnt(medusa)[n]
      BY <1>3, <3>1 DEF ReplayInv, RunningSound
    <3>. DEFINE kept == Replayed(Step.nodes, n, Cfg.L_spec, hist)
                new == [prompt_id |-> Step.prompt_id,
                        tokens |-> EffectiveAccept(Step.nodes, kept) + 1, kept |-> kept,
                        verify |-> [m |-> AtLeastOne(Cardinality(kept)),
                                    ctx |-> Step.context_length]]
    <3>3. result' = Append(result, new)
      BY <2>3 DEF LpSpecStep, StepIndex, Replayed
    <3>4. (n + 1) - 1 = n
      BY <1>2
    <3>5. StepDone(Cfg, n + 1, new)
      BY <1>4, <3>1, <3>2, <3>4 DEF StepDone
    <3>. HIDE DEF new
    <3>. QED  BY <3>3, <3>5
  <2>. QED  BY <2>1, <2>2, <2>3
<1>6. PICK new : result' = Append(result, new) /\ StepDone(Cfg, n + 1, new)
  BY <1>5
<1>7. result \in Seq(S \cup {new})
  BY <1>1
<1>8. /\ result' \in Seq(S \cup {new}) /\ Len(result') = n + 1 /\ result'[n + 1] = new
      /\ \A i \in 1..n : result'[i] = result[i]
  BY <1>6, <1>7
<1>9. Cfg' = Cfg
  BY <1>3 DEF Cfg
<1>10. Cfg.driver = "lp_spec" => hist' = Learnt(medusa)[n + 1]
  <2>. SUFFICES ASSUME Cfg.driver = "lp_spec" PROVE hist' = Learnt(medusa)[n + 1]
    OBVIOUS
  <2>1. LpSpecStep /\ TraceOf(Cfg) = medusa /\ hist = Learnt(medusa)[n]
    BY <1>3 DEF ArStep, CapimStep, Running, TraceOf, ReplayInv, RunningSound
  <2>2. hist' = Fold(hist, Step)
    BY <2>1 DEF LpSpecStep, FoldStep, Fold
  <2>3. LearntIs(medusa, Learnt(medusa)) /\ Len(medusa) \in Nat
    BY TracesLong, LearntExists DEF ReplayInv
  <2>4. n + 1 \in 1..Len(medusa) /\ (n + 1) - 1 = n
    BY <1>2, <1>3, <2>1, <2>3
  <2>. QED  BY <1>4, <2>1, <2>2, <2>3, <2>4 DEF LearntIs
<1>11. RunningSound'
  <2>1. Len(TraceOf(Cfg)) \in Nat
    BY TraceOfLong DEF ReplayInv
  <2>2. \A i \in 1..(n + 1) : StepDone(Cfg, i, result'[i])
    <3>1. \A i \in 1..n : StepDone(Cfg, i, result[i])
      BY <1>3 DEF ReplayInv, RunningSound
    <3>2. \A i \in 1..(n + 1) : i \in 1..n \/ i = n + 1
      BY <1>2
    <3>. QED  BY <1>6, <1>8, <3>1, <3>2
  <2>3. TraceOf(Cfg)' = TraceOf(Cfg) /\ medusa' = medusa
        /\ \A i \in 1..(n + 1) : StepDone(Cfg, i, result[i])'
    <3>1. PICK c : c = Cfg
      OBVIOUS
    <3>2. TraceOf(c)' = TraceOf(c) /\ medusa' = medusa
          /\ \A i, r : StepDone(c, i, r)' <=> StepDone(c, i, r)
      BY <1>3, InputFrame
    <3>3. PICK res : res = result'
      OBVIOUS
    <3>4. \A i \in 1..(n + 1) : StepDone(c, i, res[i])'
      BY <2>2, <3>1, <3>2, <3>3
    <3>. QED  BY <1>9, <3>1, <3>2, <3>3, <3>4
  <2>4. n + 1 <= Len(TraceOf(Cfg))
    BY <1>2, <1>3, <2>1
  <2>. QED  BY <1>8, <1>9, <1>10, <2>3, <2>4 DEF RunningSound
<1>12. Finished'
  BY <1>3, InputFrame DEF ReplayInv, Finished
<1>13. InputSound' /\ (\E Q : queue \in Seq(Q) /\ \A cfg \in Q : Configured(cfg))'
  BY <1>3, InputFrame DEF ReplayInv
<1>. QED  BY <1>8, <1>11, <1>12, <1>13 DEF ReplayInv

\* A call that returns leaves a record for every step of its trace.
LEMMA ReplayEnd == ReplayInv /\ EndCall => ReplayInv'
<1>. SUFFICES ASSUME ReplayInv, EndCall PROVE ReplayInv'
  OBVIOUS
<1>1. /\ queue # <<>> /\ Len(result) = Len(TraceOf(Cfg))
      /\ records' = Append(records, [cfg |-> Cfg, steps |-> result])
      /\ queue' = Tail(queue) /\ result' = <<>> /\ hist' = EmptyHist /\ UNCHANGED input
  BY DEF EndCall
<1>2. PICK cfg, done : cfg = Cfg /\ done = [cfg |-> Cfg, steps |-> result]
  OBVIOUS
<1>3. done.cfg = cfg /\ done.steps = result
  BY <1>2
<1>4. PICK Q : queue \in Seq(Q) /\ \A c \in Q : Configured(c)
  BY DEF ReplayInv
<1>5. Configured(cfg) /\ queue' \in Seq(Q)
  BY <1>1, <1>2, <1>4, HeadTailProperties DEF Cfg
<1>6. /\ \A c : Configured(c)' <=> Configured(c)
      /\ \A c : TraceOf(c)' = TraceOf(c)
      /\ \A c, i, r : StepDone(c, i, r)' <=> StepDone(c, i, r)
      /\ InputSound' /\ medusa' = medusa
  BY <1>1, InputFrame DEF ReplayInv
<1>7. Finished'
  <2>1. PICK S : records \in Seq(S)
    BY DEF ReplayInv, Finished
  <2>2. records \in Seq(S \cup {done})
    BY <2>1
  <2>3. /\ records' \in Seq(S \cup {done}) /\ Len(records') = Len(records) + 1
        /\ Len(records) \in Nat /\ records'[Len(records) + 1] = done
        /\ \A c \in 1..Len(records) : records'[c] = records[c]
    BY <1>1, <1>2, <2>2
  <2>4. ASSUME NEW c \in 1..Len(records')
        PROVE  /\ Configured(records'[c].cfg)
               /\ DOMAIN records'[c].steps = 1..Len(TraceOf(records'[c].cfg))
               /\ \A i \in 1..Len(TraceOf(records'[c].cfg)) :
                    StepDone(records'[c].cfg, i, records'[c].steps[i])
    <3>1. CASE c \in 1..Len(records)
      BY <2>3, <3>1 DEF ReplayInv, Finished
    <3>2. CASE c = Len(records) + 1
      <4>1. records'[c] = done
        BY <2>3, <3>2
      <4>2. \A i \in 1..Len(TraceOf(cfg)) : StepDone(cfg, i, result[i])
        BY <1>1, <1>2 DEF ReplayInv, RunningSound
      <4>3. DOMAIN result = 1..Len(TraceOf(cfg))
        BY <1>1, <1>2, LenProperties DEF ReplayInv
      <4>. QED  BY <1>3, <1>5, <4>1, <4>2, <4>3
    <3>. QED  BY <2>3, <3>1, <3>2
  <2>5. PICK recs : recs = records'
    OBVIOUS
  <2>6. ASSUME NEW c \in 1..Len(recs)
        PROVE  /\ Configured(recs[c].cfg)'
               /\ DOMAIN recs[c].steps = 1..Len(TraceOf(recs[c].cfg)')
               /\ \A i \in 1..Len(TraceOf(recs[c].cfg)') :
                    StepDone(recs[c].cfg, i, recs[c].steps[i])'
    BY <1>6, <2>4, <2>5
  <2>. QED  BY <2>3, <2>5, <2>6 DEF Finished
<1>8. RunningSound'
  <2>1. Len(<<>>) = 0
    OBVIOUS
  <2>2. Learnt(medusa)[0] = EmptyHist
    BY TracesLong, LearntExists DEF LearntIs, ReplayInv
  <2>3. (Len(TraceOf(Cfg)) \in Nat)'
    <3>1. eagle' = eagle /\ medusa' = medusa
      BY <1>1, InputFrame
    <3>2. Len(eagle) \in Nat /\ Len(medusa) \in Nat
      BY TracesLong DEF ReplayInv
    <3>. QED  BY <3>1, <3>2 DEF TraceOf
  <2>. QED  BY <1>1, <1>6, <2>1, <2>2, <2>3 DEF RunningSound
<1>9. <<>> \in Seq({})
  OBVIOUS
<1>. QED  BY <1>1, <1>4, <1>5, <1>6, <1>7, <1>8, <1>9 DEF ReplayInv

\* Writing the records out changes nothing.
LEMMA ReplayStutter == ReplayInv /\ (Written \/ UNCHANGED vars) => ReplayInv'
<1>. SUFFICES ASSUME ReplayInv, UNCHANGED vars PROVE ReplayInv'
  BY DEF Written
<1>1. UNCHANGED <<input, queue, result, hist, records>>
  BY DEF vars
<1>2. /\ InputSound' /\ medusa' = medusa /\ eagle' = eagle
      /\ \A c : Configured(c)' <=> Configured(c)
      /\ \A c : TraceOf(c)' = TraceOf(c)
      /\ \A c, i, r : StepDone(c, i, r)' <=> StepDone(c, i, r)
  BY <1>1, InputFrame DEF ReplayInv
<1>3. Finished'
  BY <1>1, <1>2 DEF ReplayInv, Finished
<1>4. RunningSound'
  <2>1. PICK c : c = Cfg
    OBVIOUS
  <2>2. Cfg' = c
    BY <1>1, <2>1 DEF Cfg
  <2>3. TraceOf(Cfg)' = TraceOf(c)
    BY <1>2, <2>2 DEF TraceOf
  <2>4. queue # <<>> =>
          /\ Len(result) <= Len(TraceOf(c))
          /\ \A i \in 1..Len(result) : StepDone(c, i, result[i])
          /\ c.driver = "lp_spec" => hist = Learnt(medusa)[Len(result)]
    BY <2>1 DEF ReplayInv, RunningSound
  <2>5. PICK res : res = result
    OBVIOUS
  <2>6. queue # <<>> => \A i \in 1..Len(res) : StepDone(c, i, res[i])'
    BY <1>2, <2>4, <2>5
  <2>. QED  BY <1>1, <1>2, <2>2, <2>3, <2>4, <2>5, <2>6 DEF RunningSound
<1>. QED  BY <1>1, <1>2, <1>3, <1>4 DEF ReplayInv

\* Every reachable state has all of this.
LEMMA ReplaySafe == Spec => []ReplayInv
<1>1. ReplayInv /\ [Next]_vars => ReplayInv'
  BY ReplayStep, ReplayEnd, ReplayStutter DEF Next
<1>. QED  BY <1>1, ReplayInit, PTL DEF Spec

-----------------------------------------------------------------------------
\* Gating a trace when it is collected and again when it is replayed charges
\* and emits what gating once with the stricter threshold does.
THEOREM GatingComposes == Spec => []GatesCompose
<1>1. ReplayInv => GatesCompose
  <2>. SUFFICES ASSUME ReplayInv, NEW c \in CallsOf("capim"), NEW i \in DOMAIN drafted,
                       NEW once, once = [records[c].cfg EXCEPT !.sigma_th = Stricter(gate, @)]
                PROVE  /\ records[c].steps[i].verify = Verify(drafted[i], once)
                       /\ records[c].steps[i].tokens = Tokens(drafted[i], once)
    BY DEF GatesCompose
  <2>. DEFINE cfg == records[c].cfg
  <2>1. c \in 1..Len(records) /\ cfg.driver = "capim"
    BY LenProperties DEF CallsOf, ReplayInv, Finished
  <2>2. InputSound /\ i \in 1..Len(drafted) /\ Len(TraceOf(cfg)) = Len(drafted)
        /\ eagle[i] = Gated(drafted[i], gate)
    BY <2>1, TracesLong DEF ReplayInv, TraceOf, eagle
  <2>3. drafted[i] \in DraftedStep /\ Measurable(drafted[i]) /\ gate \in Gate
    BY <2>2 DEF InputSound
  <2>4. Configured(cfg) /\ StepDone(cfg, i, records[c].steps[i])
    BY <2>1, <2>2 DEF ReplayInv, Finished
  <2>5. /\ cfg.sigma_th \in Gate /\ once.sigma_th = Stricter(gate, cfg.sigma_th)
        /\ once.all_npu = cfg.all_npu /\ once.mu_th = cfg.mu_th
        /\ once.concurrent_verify = cfg.concurrent_verify
    <3>1. \E sigma_th \in Gate : \E device, mu_th :
            cfg = [driver |-> "capim", sigma_th |-> sigma_th, draft_device |-> device,
                   mu_th |-> mu_th, all_npu |-> flags.all_npu,
                   concurrent_verify |-> flags.concurrent_verify]
      BY <2>1, <2>4 DEF Configured
    <3>2. once = [cfg EXCEPT !.sigma_th = Stricter(gate, cfg.sigma_th)]
      OBVIOUS
    <3>. HIDE DEF cfg
    <3>. QED  BY <3>1, <3>2
  <2>. HIDE DEF cfg
  <2>6. /\ Verify(Gated(drafted[i], gate), cfg) = Verify(drafted[i], once)
        /\ Tokens(Gated(drafted[i], gate), cfg) = Tokens(drafted[i], once)
    BY ONLY <2>3, <2>5, StepsCompose
  <2>. QED  BY <2>1, <2>2, <2>4, <2>6 DEF StepDone
<1>. QED  BY <1>1, ReplaySafe, PTL

\* A larger L_spec verifies no fewer nodes and emits no fewer tokens, at every
\* step of the trace, and no more than were measured.
THEOREM BudgetsNest == Spec => []NestedInL
<1>1. ReplayInv => NestedInL
  <2>. SUFFICES ASSUME ReplayInv, NEW a \in CallsOf("lp_spec"), NEW b \in CallsOf("lp_spec"),
                       NEW i \in DOMAIN medusa, records[a].cfg.L_spec <= records[b].cfg.L_spec
                PROVE  /\ records[a].steps[i].kept \subseteq records[b].steps[i].kept
                       /\ records[a].steps[i].tokens <= records[b].steps[i].tokens
                       /\ records[b].steps[i].tokens <= medusa[i].accepted_length + 1
    BY DEF NestedInL
  <2>. DEFINE A == records[a].steps[i]
              B == records[b].steps[i]
              nodes == medusa[i].nodes
              h == Learnt(medusa)[i - 1]
              la == records[a].cfg.L_spec
              lb == records[b].cfg.L_spec
  <2>1. /\ a \in 1..Len(records) /\ b \in 1..Len(records)
        /\ records[a].cfg.driver = "lp_spec" /\ records[b].cfg.driver = "lp_spec"
    BY LenProperties DEF CallsOf, ReplayInv, Finished
  <2>2. /\ InputSound /\ i \in 1..Len(medusa) /\ Len(medusa) = Len(static)
        /\ TraceOf(records[a].cfg) = medusa /\ TraceOf(records[b].cfg) = medusa
    BY <2>1, TracesLong DEF ReplayInv, TraceOf
  <2>3. /\ la \in Nat /\ A.kept = Replayed(nodes, i - 1, la, h)
        /\ A.tokens = EffectiveAccept(nodes, A.kept) + 1
        /\ lb \in Nat /\ B.kept = Replayed(nodes, i - 1, lb, h)
        /\ B.tokens = EffectiveAccept(nodes, B.kept) + 1
    BY <2>1, <2>2 DEF ReplayInv, Finished, Configured, StepDone
  <2>4. \E kept, ctx : medusa[i] = RecordKept(static[i], kept, ctx)
    BY <2>2, CollectedSteps, LenProperties DEF InputSound, TraceFrom
  <2>5. PICK kept, ctx : medusa[i] = RecordKept(static[i], kept, ctx)
    BY <2>4
  <2>6. static[i] \in StaticStep /\ OneChain(static[i].nodes)
    BY <2>2 DEF InputSound
  <2>7. nodes \in Seq(Node) /\ medusa[i].accepted_length \in Nat
    BY <2>5, <2>6, KeptStep DEF KeptAs
  <2>8. EffectiveAccept(nodes, B.kept) <= medusa[i].accepted_length
    BY <2>5, <2>6, MeasuredBounds
  <2>. HIDE DEF A, B, nodes, h, la, lb
  <2>9. A.kept \subseteq B.kept
    <3>1. la <= lb
      BY DEF la, lb
    <3>. QED  BY <2>3, <2>7, <3>1, SelectionGrows
  <2>10. /\ EffectiveAccept(nodes, A.kept) \in Nat /\ EffectiveAccept(nodes, B.kept) \in Nat
         /\ EffectiveAccept(nodes, A.kept) <= EffectiveAccept(nodes, B.kept)
    BY <2>7, <2>9, AcceptGrows
  <2>11. A.tokens <= B.tokens /\ B.tokens <= medusa[i].accepted_length + 1
    BY <2>3, <2>7, <2>8, <2>10
  <2>. QED  BY <2>9, <2>11 DEF A, B
<1>. QED  BY <1>1, ReplaySafe, PTL

-----------------------------------------------------------------------------
(* The contexts of a trace.                                                *)

\* A trace whose contexts follow from its accepts, prompt by prompt.
Follows(trace) ==
  /\ Len(trace) \in Nat /\ DOMAIN trace = 1..Len(trace) /\ Grouped(trace)
  /\ \A i \in 1..Len(trace) :
       trace[i].context_length \in Nat /\ trace[i].accepted_length \in Nat
  /\ \A i \in 2..Len(trace) : trace[i - 1].prompt_id = trace[i].prompt_id =>
       trace[i].context_length = trace[i - 1].context_length + trace[i - 1].accepted_length + 1

\* The contexts a step's tokens were committed at.
Span(step) == step.context_length..(step.context_length + step.accepted_length)

\* Up to a step, the spans of its prompt fill an interval.
Filled(trace, i, f) ==
  /\ f \in UpTo(trace, i) /\ \A k \in UpTo(trace, i) : f <= k
  /\ UNION {Span(trace[j]) : j \in UpTo(trace, i)} =
       trace[f].context_length..(trace[i].context_length + trace[i].accepted_length)
  /\ trace[f].context_length <= trace[i].context_length

\* From a step to the next of its prompt the interval grows by a span that
\* begins where it ended.
LEMMA FilledNext ==
  ASSUME NEW trace, Follows(trace), NEW i \in 2..Len(trace),
         trace[i - 1].prompt_id = trace[i].prompt_id, NEW f, Filled(trace, i - 1, f)
  PROVE  /\ UpTo(trace, i) = UpTo(trace, i - 1) \cup {i} /\ i \notin UpTo(trace, i - 1)
         /\ Filled(trace, i, f)
         /\ \A j \in UpTo(trace, i - 1) : Span(trace[i]) \cap Span(trace[j]) = {}
<1>1. /\ Len(trace) \in Nat /\ DOMAIN trace = 1..Len(trace)
      /\ \A k \in 1..Len(trace) :
           trace[k].context_length \in Nat /\ trace[k].accepted_length \in Nat
      /\ trace[i].context_length = trace[i - 1].context_length + trace[i - 1].accepted_length + 1
  BY DEF Follows
<1>2. i \in 1..Len(trace) /\ i - 1 \in 1..Len(trace)
  BY <1>1
<1>3. UpTo(trace, i) = UpTo(trace, i - 1) \cup {i} /\ i \notin UpTo(trace, i - 1)
  <2>1. \A j \in 1..Len(trace) : j <= i <=> j <= i - 1 \/ j = i
    BY <1>1, <1>2
  <2>2. ~(i <= i - 1)
    BY <1>2
  <2>. QED  BY <1>1, <1>2, <2>1, <2>2 DEF UpTo, OfPrompt
<1>. DEFINE c == trace[f].context_length
            a == trace[i - 1].context_length
            b == trace[i - 1].accepted_length
            U == UNION {Span(trace[j]) : j \in UpTo(trace, i - 1)}
<1>4. f \in UpTo(trace, i - 1) /\ U = c..(a + b) /\ c <= a
  BY DEF Filled
<1>5. f \in 1..Len(trace) /\ f <= i
  BY <1>1, <1>2, <1>4 DEF UpTo, OfPrompt
<1>6. c \in Nat /\ a \in Nat /\ b \in Nat /\ trace[i].accepted_length \in Nat
  BY <1>1, <1>2, <1>5
<1>7. Span(trace[i]) = (a + b + 1)..(a + b + 1 + trace[i].accepted_length)
  BY <1>1 DEF Span
<1>8. UNION {Span(trace[j]) : j \in UpTo(trace, i)} = U \cup Span(trace[i])
  BY <1>3
<1>. HIDE DEF U
<1>9. U \cup Span(trace[i]) = c..(trace[i].context_length + trace[i].accepted_length)
  <2>. DEFINE e == trace[i].accepted_length
  <2>1. trace[i].context_length + e = a + b + 1 + e
    BY <1>1
  <2>. HIDE DEF a, b, c, e
  <2>2. (c..(a + b)) \cup ((a + b + 1)..(a + b + 1 + e)) = c..(a + b + 1 + e)
    BY <1>4, <1>6 DEF e
  <2>. QED  BY <1>4, <1>7, <2>1, <2>2 DEF e
<1>10. c <= trace[i].context_length
  BY <1>1, <1>4, <1>6
<1>11. \A k \in UpTo(trace, i) : f <= k
  BY <1>3, <1>5 DEF Filled
<1>12. ASSUME NEW j \in UpTo(trace, i - 1) PROVE Span(trace[i]) \cap Span(trace[j]) = {}
  <2>1. Span(trace[j]) \subseteq c..(a + b)
    BY <1>4 DEF U
  <2>2. (c..(a + b)) \cap ((a + b + 1)..(a + b + 1 + trace[i].accepted_length)) = {}
    <3>. HIDE DEF a, b, c
    <3>. QED  BY <1>6
  <2>. QED  BY <1>7, <2>1, <2>2
<1>13. Filled(trace, i, f)
  BY <1>3, <1>4, <1>8, <1>9, <1>10, <1>11 DEF Filled
<1>. QED  BY <1>3, <1>12, <1>13

\* A prompt's first step begins its interval.
LEMMA FilledFirst ==
  ASSUME NEW trace, Follows(trace), NEW i \in 1..Len(trace),
         i > 1 => trace[i - 1].prompt_id # trace[i].prompt_id
  PROVE  UpTo(trace, i) = {i} /\ Filled(trace, i, i)
<1>1. /\ Len(trace) \in Nat /\ DOMAIN trace = 1..Len(trace) /\ Grouped(trace)
      /\ trace[i].context_length \in Nat
  BY DEF Follows
<1>2. ASSUME NEW j \in 1..Len(trace), j < i PROVE trace[j].prompt_id # trace[i].prompt_id
  <2>1. i > 1 /\ j \in DOMAIN trace /\ i \in DOMAIN trace
    BY <1>1, <1>2
  <2>. QED  BY <1>1, <1>2, <2>1 DEF Grouped
<1>3. \A j \in 1..Len(trace) : j <= i <=> j < i \/ j = i
  BY <1>1
<1>4. UpTo(trace, i) = {i}
  BY <1>1, <1>2, <1>3 DEF UpTo, OfPrompt
<1>5. UNION {Span(trace[j]) : j \in {i}} = Span(trace[i])
  OBVIOUS
<1>6. i <= i /\ trace[i].context_length <= trace[i].context_length
  BY <1>1
<1>. QED  BY <1>4, <1>5, <1>6 DEF Filled, Span

\* So the spans fill an interval up to every step.
LEMMA AlwaysFilled ==
  ASSUME NEW trace, Follows(trace)
  PROVE  \A i \in 1..Len(trace) : \E f : Filled(trace, i, f)
<1>. DEFINE T == {n \in Nat : \A i \in 1..Len(trace) : i <= n => \E f : Filled(trace, i, f)}
<1>0. Len(trace) \in Nat
  BY DEF Follows
<1>1. 0 \in T
  BY <1>0
<1>2. ASSUME NEW n \in Nat, n \in T PROVE n + 1 \in T
  <2>. SUFFICES ASSUME NEW i \in 1..Len(trace), i = n + 1 PROVE \E f : Filled(trace, i, f)
    <3>1. \A i \in 1..Len(trace) : i <= n + 1 => i <= n \/ i = n + 1
      BY <1>0
    <3>. QED  BY <1>2, <3>1
  <2>1. CASE i > 1 /\ trace[i - 1].prompt_id = trace[i].prompt_id
    <3>1. i \in 2..Len(trace) /\ i - 1 \in 1..Len(trace) /\ i - 1 <= n
      BY <1>0, <2>1
    <3>2. PICK f : Filled(trace, i - 1, f)
      BY <1>2, <3>1
    <3>. QED  BY <2>1, <3>1, <3>2, FilledNext
  <2>2. CASE ~(i > 1 /\ trace[i - 1].prompt_id = trace[i].prompt_id)
    BY <2>2, FilledFirst
  <2>. QED  BY <2>1, <2>2
<1>3. Nat \subseteq T
  <2>. HIDE DEF T
  <2>. QED  BY <1>1, <1>2, Induction
<1>. QED  BY <1>0, <1>3

\* A step's span is apart from those of its prompt before it.
LEMMA SpansApart ==
  ASSUME NEW trace, Follows(trace), NEW i \in 1..Len(trace)
  PROVE  \A j \in UpTo(trace, i) \ {i} : Span(trace[i]) \cap Span(trace[j]) = {}
<1>0. Len(trace) \in Nat
  BY DEF Follows
<1>1. CASE i > 1 /\ trace[i - 1].prompt_id = trace[i].prompt_id
  <2>1. i \in 2..Len(trace) /\ i - 1 \in 1..Len(trace)
    BY <1>0, <1>1
  <2>2. PICK f : Filled(trace, i - 1, f)
    BY <2>1, AlwaysFilled
  <2>3. /\ UpTo(trace, i) = UpTo(trace, i - 1) \cup {i}
        /\ \A j \in UpTo(trace, i - 1) : Span(trace[i]) \cap Span(trace[j]) = {}
    BY ONLY Follows(trace), <1>1, <2>1, <2>2, FilledNext
  <2>. QED  BY <2>3
<1>2. CASE ~(i > 1 /\ trace[i - 1].prompt_id = trace[i].prompt_id)
  <2>1. UpTo(trace, i) = {i}
    BY <1>2, FilledFirst
  <2>. QED  BY <2>1
<1>. QED  BY <1>1, <1>2

\* The gated EAGLE trace is such a trace.
LEMMA EagleFollows ==
  ASSUME InputSound
  PROVE  Follows(eagle)
<1>1. /\ Len(drafted) \in Nat /\ Len(eagle) = Len(drafted) /\ DOMAIN eagle = 1..Len(drafted)
      /\ DOMAIN drafted = 1..Len(drafted)
  BY TracesLong
<1>2. ASSUME NEW i \in 1..Len(drafted)
      PROVE  /\ drafted[i] \in DraftedStep /\ Measurable(drafted[i])
             /\ eagle[i].prompt_id = drafted[i].prompt_id
             /\ eagle[i].context_length = drafted[i].context_length
             /\ eagle[i].accepted_length = MeasuredAccept(drafted[i], gate)
             /\ eagle[i].context_length \in Nat /\ eagle[i].accepted_length \in Nat
  <2>1. drafted[i] \in DraftedStep /\ Measurable(drafted[i]) /\ gate \in Gate
    BY DEF InputSound
  <2>2. eagle[i] = Gated(drafted[i], gate)
    BY <1>1 DEF eagle
  <2>3. /\ eagle[i].prompt_id = drafted[i].prompt_id
        /\ eagle[i].context_length = drafted[i].context_length
        /\ eagle[i].accepted_length = MeasuredAccept(drafted[i], gate)
    BY <2>1, <2>2, GatedStep
  <2>4. MeasuredAccept(drafted[i], gate) \in Nat
    BY ONLY <2>1, MeasuredIsSurviving
  <2>. QED  BY <2>1, <2>3, <2>4 DEF DraftedStep
<1>3. Grouped(eagle)
  <2>1. Grouped(drafted)
    BY DEF InputSound
  <2>2. \A i, j \in 1..Len(drafted) : i < j => j - 1 \in 1..Len(drafted)
    BY <1>1
  <2>. QED  BY <1>1, <1>2, <2>1, <2>2 DEF Grouped
<1>4. ASSUME NEW i \in 2..Len(eagle), eagle[i - 1].prompt_id = eagle[i].prompt_id
      PROVE  eagle[i].context_length = eagle[i - 1].context_length + eagle[i - 1].accepted_length + 1
  <2>1. i \in 1..Len(drafted) /\ i - 1 \in 1..Len(drafted) /\ i \in 2..Len(drafted)
    BY <1>1
  <2>. QED  BY <1>2, <1>4, <2>1 DEF InputSound
<1>. QED  BY <1>1, <1>2, <1>3, <1>4 DEF Follows

\* And so is the MEDUSA trace, whose contexts the collector counted.
LEMMA MedusaFollows ==
  ASSUME InputSound
  PROVE  Follows(medusa)
<1>1. /\ Len(static) \in Nat /\ Len(medusa) = Len(static) /\ DOMAIN medusa = 1..Len(static)
      /\ DOMAIN static = 1..Len(static)
  BY TracesLong, LenProperties DEF InputSound
<1>2. PICK hs : TraceFrom(static, L, medusa, hs)
  BY <1>1, CollectedSteps DEF InputSound
<1>3. ASSUME NEW i \in 1..Len(static)
      PROVE  /\ static[i] \in StaticStep
             /\ medusa[i].prompt_id = static[i].prompt_id
             /\ medusa[i].context_length = ContextAt(static, medusa, i)
             /\ medusa[i].accepted_length \in Nat
  <2>1. static[i] \in StaticStep
    BY DEF InputSound
  <2>2. \E kept : medusa[i] = RecordKept(static[i], kept, ContextAt(static, medusa, i))
    BY <1>2 DEF TraceFrom
  <2>3. PICK kept : medusa[i] = RecordKept(static[i], kept, ContextAt(static, medusa, i))
    BY <2>2
  <2>. QED  BY <2>1, <2>3, KeptStep DEF KeptAs
<1>4. ASSUME NEW i \in 2..Len(medusa), medusa[i - 1].prompt_id = medusa[i].prompt_id
      PROVE  medusa[i].context_length = medusa[i - 1].context_length + medusa[i - 1].accepted_length + 1
  <2>1. i \in 1..Len(static) /\ i > 1
    BY <1>1
  <2>. QED  BY <1>3, <1>4, <2>1 DEF ContextAt
<1>5. \A i \in 1..Len(static) : medusa[i].context_length \in Nat
  <2>. DEFINE T == {n \in Nat : \A i \in 1..Len(static) : i <= n => medusa[i].context_length \in Nat}
  <2>1. 0 \in T
    BY <1>1
  <2>2. ASSUME NEW n \in Nat, n \in T PROVE n + 1 \in T
    <3>. SUFFICES ASSUME NEW i \in 1..Len(static), i = n + 1
                  PROVE  medusa[i].context_length \in Nat
      <4>1. \A i \in 1..Len(static) : i <= n + 1 => i <= n \/ i = n + 1
        BY <1>1
      <4>. QED  BY <2>2, <4>1
    <3>1. CASE i > 1 /\ medusa[i - 1].prompt_id = static[i].prompt_id
      <4>1. i - 1 \in 1..Len(static) /\ i - 1 <= n
        BY <1>1, <3>1
      <4>2. medusa[i - 1].context_length \in Nat /\ medusa[i - 1].accepted_length \in Nat
        BY <1>3, <2>2, <4>1
      <4>. QED  BY <1>3, <3>1, <4>2 DEF ContextAt
    <3>2. CASE ~(i > 1 /\ medusa[i - 1].prompt_id = static[i].prompt_id)
      <4>1. static[i].prompt_len \in Nat
        BY <1>3 DEF StaticStep
      <4>. QED  BY <1>3, <3>2, <4>1 DEF ContextAt
    <3>. QED  BY <3>1, <3>2
  <2>3. Nat \subseteq T
    <3>. HIDE DEF T
    <3>. QED  BY <2>1, <2>2, Induction
  <2>. QED  BY <1>1, <2>3
<1>6. Grouped(medusa)
  <2>1. Grouped(static)
    BY DEF InputSound
  <2>2. \A i, j \in 1..Len(static) : i < j => j - 1 \in 1..Len(static)
    BY <1>1
  <2>. QED  BY <1>1, <1>3, <2>1, <2>2 DEF Grouped
<1>. QED  BY <1>1, <1>3, <1>4, <1>5, <1>6 DEF Follows

\* Replaying a gated trace without a gate emits what was measured.
LEMMA UngatedReplay ==
  ASSUME InputSound, NEW i \in 1..Len(drafted), NEW cfg, cfg.sigma_th = NegInf
  PROVE  Tokens(eagle[i], cfg) = ArTokens(eagle[i])
<1>. DEFINE step == drafted[i]
            G == {k \in PruneTree(step, gate) : step.nodes[k].accepted}
            e == eagle[i]
<1>1. step \in DraftedStep /\ Measurable(step) /\ gate \in Gate /\ NegInf \in Gate
  BY DEF InputSound, Gate
<1>2. e = Gated(step, gate)
  BY TracesLong DEF eagle
<1>3. Stricter(gate, NegInf) = gate
  BY DEF Stricter
<1>. HIDE DEF step, e
<1>4. Cardinality({k \in PruneTree(e, NegInf) : e.nodes[k].accepted}) = Cardinality(G)
  <2>1. LET once == PruneTree(step, Stricter(gate, NegInf))
        IN  Cardinality({k \in PruneTree(e, NegInf) : e.nodes[k].accepted}) =
              Cardinality({k \in once : step.nodes[k].accepted})
    BY ONLY <1>1, <1>2, GatedTwice
  <2>. QED  BY <1>3, <2>1
<1>5. e.accepted_length = Cardinality(G) /\ Cardinality(G) \in Nat
  <2>1. e.accepted_length = MeasuredAccept(step, gate)
    BY <1>1, <1>2, GatedStep
  <2>. QED  BY <1>1, <2>1, MeasuredIsSurviving
<1>. HIDE DEF G
<1>6. GatedAccept(e, NegInf) = e.accepted_length
  BY <1>4, <1>5 DEF GatedAccept
<1>. QED  BY <1>6 DEF Tokens, ArTokens, e

\* Over a prompt the autoregressive baseline charges every context once, from
\* the first step's to the one the last token was committed at; and a replay
\* without a gate emits as many tokens as it.
THEOREM BaselineTiles == Spec => []ArTilesTheText
<1>1. ReplayInv => ArTilesTheText
  <2>. SUFFICES ASSUME ReplayInv PROVE ArTilesTheText
    OBVIOUS
  <2>1. InputSound /\ Follows(eagle) /\ Follows(medusa)
    BY EagleFollows, MedusaFollows DEF ReplayInv
  <2>2. ASSUME NEW c \in CallsOf("ar")
        PROVE  /\ c \in 1..Len(records) /\ records[c].cfg.driver = "ar"
               /\ Follows(TraceOf(records[c].cfg))
               /\ \A i \in 1..Len(TraceOf(records[c].cfg)) :
                    /\ records[c].steps[i].tokens = ArTokens(TraceOf(records[c].cfg)[i])
                    /\ records[c].steps[i].contexts = Span(TraceOf(records[c].cfg)[i])
    <3>1. c \in 1..Len(records) /\ records[c].cfg.driver = "ar"
      BY LenProperties DEF CallsOf, ReplayInv, Finished
    <3>. DEFINE trace == TraceOf(records[c].cfg)
    <3>2. Follows(trace)
      BY <2>1 DEF TraceOf
    <3>3. ASSUME NEW i \in 1..Len(trace)
          PROVE  /\ records[c].steps[i].tokens = ArTokens(trace[i])
                 /\ records[c].steps[i].contexts = Span(trace[i])
      <4>1. StepDone(records[c].cfg, i, records[c].steps[i])
        BY <3>1 DEF ReplayInv, Finished
      <4>. DEFINE x == trace[i].context_length
                  a == trace[i].accepted_length
      <4>2. /\ records[c].steps[i].tokens = ArTokens(trace[i])
            /\ records[c].steps[i].contexts = {x + j : j \in 0..(ArTokens(trace[i]) - 1)}
        BY <3>1, <4>1 DEF StepDone
      <4>3. x \in Nat /\ a \in Nat
        BY <3>2 DEF Follows
      <4>4. ArTokens(trace[i]) - 1 = a
        BY <4>3 DEF ArTokens
      <4>. HIDE DEF x, a
      <4>5. {x + j : j \in 0..a} = x..(x + a)
        <5>1. ASSUME NEW y \in x..(x + a) PROVE y \in {x + j : j \in 0..a}
          <6>1. y - x \in 0..a /\ y = x + (y - x)
            BY <4>3
          <6>. QED  BY <6>1
        <5>2. ASSUME NEW j \in 0..a PROVE x + j \in x..(x + a)
          BY <4>3
        <5>. QED  BY <5>1, <5>2
      <4>6. Span(trace[i]) = x..(x + a)
        BY DEF Span, x, a
      <4>. QED  BY <4>2, <4>4, <4>5, <4>6
    <3>. QED  BY <3>1, <3>2, <3>3
  <2>3. ASSUME NEW c \in CallsOf("ar"), NEW i \in DOMAIN TraceOf(records[c].cfg)
        PROVE  /\ UNION {records[c].steps[j].contexts : j \in UpTo(TraceOf(records[c].cfg), i)} =
                    TraceOf(records[c].cfg)[FirstOf(TraceOf(records[c].cfg), i)].context_length ..
                      (TraceOf(records[c].cfg)[i].context_length
                         + TraceOf(records[c].cfg)[i].accepted_length)
               /\ \A j \in UpTo(TraceOf(records[c].cfg), i) \ {i} :
                    records[c].steps[i].contexts \cap records[c].steps[j].contexts = {}
    <3>. DEFINE trace == TraceOf(records[c].cfg)
                contexts(j) == records[c].steps[j].contexts
    <3>1. /\ Follows(trace) /\ \A j \in 1..Len(trace) : contexts(j) = Span(trace[j])
      BY <2>2
    <3>. HIDE DEF trace, contexts
    <3>2. i \in 1..Len(trace) /\ DOMAIN trace = 1..Len(trace) /\ UpTo(trace, i) \subseteq 1..Len(trace)
      BY <3>1 DEF Follows, UpTo, OfPrompt, trace
    <3>3. PICK f : Filled(trace, i, f)
      BY <3>1, <3>2, AlwaysFilled
    <3>4. f \in UpTo(trace, i) /\ \A k \in UpTo(trace, i) : f <= k
      BY <3>1, <3>3 DEF Filled
    <3>5. FirstOf(trace, i) = f
      <4>. DEFINE first == FirstOf(trace, i)
      <4>1. first \in UpTo(trace, i) /\ \A k \in UpTo(trace, i) : first <= k
        BY <3>4 DEF FirstOf
      <4>. HIDE DEF first
      <4>2. first <= f /\ f <= first /\ first \in Int /\ f \in Int
        BY <3>2, <3>4, <4>1
      <4>. QED  BY <4>2 DEF first
    <3>6. UNION {contexts(j) : j \in UpTo(trace, i)} = UNION {Span(trace[j]) : j \in UpTo(trace, i)}
      BY <3>1, <3>2
    <3>7. UNION {contexts(j) : j \in UpTo(trace, i)} =
            trace[FirstOf(trace, i)].context_length
              ..(trace[i].context_length + trace[i].accepted_length)
      BY <3>3, <3>5, <3>6 DEF Filled
    <3>8. \A j \in UpTo(trace, i) \ {i} : contexts(i) \cap contexts(j) = {}
      <4>1. \A j \in UpTo(trace, i) \ {i} : Span(trace[i]) \cap Span(trace[j]) = {}
        BY <3>1, <3>2, SpansApart
      <4>. QED  BY <3>1, <3>2, <4>1
    <3>. QED  BY <3>7, <3>8 DEF trace, contexts
  <2>4. ASSUME NEW a \in CallsOf("ar"), NEW c \in CallsOf("capim"), NEW i \in DOMAIN eagle,
               records[a].cfg.source = "eagle", records[c].cfg.sigma_th = NegInf
        PROVE  records[a].steps[i].tokens = records[c].steps[i].tokens
    <3>1. /\ c \in 1..Len(records) /\ records[c].cfg.driver = "capim"
          /\ TraceOf(records[a].cfg) = eagle /\ TraceOf(records[c].cfg) = eagle
      BY <2>2, <2>4, LenProperties DEF CallsOf, ReplayInv, Finished, TraceOf
    <3>2. i \in 1..Len(drafted) /\ i \in 1..Len(eagle)
      BY <2>1, TracesLong
    <3>3. records[a].steps[i].tokens = ArTokens(eagle[i])
      BY <2>2, <3>1, <3>2
    <3>4. records[c].steps[i].tokens = Tokens(eagle[i], records[c].cfg)
      BY <3>1, <3>2 DEF ReplayInv, Finished, StepDone
    <3>. QED  BY <2>1, <2>4, <3>2, <3>3, <3>4, UngatedReplay
  <2>. QED  BY <2>3, <2>4 DEF ArTilesTheText
<1>. QED  BY <1>1, ReplaySafe, PTL

-----------------------------------------------------------------------------
(* Trees in their static order.                                            *)

\* A tree's positions name its nodes.
LEMMA TreePositions ==
  ASSUME NEW nodes \in Seq(Node), IsTree(nodes)
  PROVE  /\ Len(nodes) \in Nat /\ DOMAIN nodes = 1..Len(nodes)
         /\ \A k \in 1..Len(nodes) :
              /\ nodes[k] \in Node /\ Pos(nodes[k]) \in Nat \X Nat
              /\ Pos(nodes[k]) \in Positions(nodes)
              /\ Pos(nodes[k])[1] = nodes[k].depth
              /\ NodeOf(nodes, Pos(nodes[k])) = nodes[k]
         /\ \A q \in Positions(nodes) : \E k \in 1..Len(nodes) : q = Pos(nodes[k])
<1>1. Len(nodes) \in Nat /\ DOMAIN nodes = 1..Len(nodes)
  BY LenProperties
<1>2. ASSUME NEW k \in 1..Len(nodes)
      PROVE  /\ nodes[k] \in Node /\ Pos(nodes[k]) \in Nat \X Nat
             /\ Pos(nodes[k]) \in Positions(nodes)
             /\ Pos(nodes[k])[1] = nodes[k].depth
             /\ NodeOf(nodes, Pos(nodes[k])) = nodes[k]
  <2>1. nodes[k] \in Node
    BY <1>1
  <2>2. Pos(nodes[k]) \in Nat \X Nat /\ Pos(nodes[k])[1] = nodes[k].depth
    BY <2>1 DEF Pos, Node
  <2>3. Pos(nodes[k]) \in Positions(nodes)
    BY <1>1 DEF Positions
  <2>4. \A j \in DOMAIN nodes : Pos(nodes[j]) = Pos(nodes[k]) => j = k
    BY <1>1 DEF IsTree
  <2>5. (CHOOSE j \in DOMAIN nodes : Pos(nodes[j]) = Pos(nodes[k])) = k
    BY <1>1, <2>4
  <2>. QED  BY <2>1, <2>2, <2>3, <2>5 DEF NodeOf
<1>3. \A q \in Positions(nodes) : \E k \in 1..Len(nodes) : q = Pos(nodes[k])
  BY <1>1 DEF Positions
<1>. QED  BY <1>1, <1>2, <1>3

\* A node's parent, by position.
LEMMA TreeParents ==
  ASSUME NEW nodes \in Seq(Node), IsTree(nodes), NEW k \in 1..Len(nodes), nodes[k].depth # 0
  PROVE  /\ nodes[k].parent_idx + 1 \in 1..Len(nodes) /\ nodes[k].parent_idx + 1 < k
         /\ ParentPosMap(nodes)[Pos(nodes[k])] = Pos(nodes[nodes[k].parent_idx + 1])
<1>1. /\ Len(nodes) \in Nat /\ DOMAIN nodes = 1..Len(nodes)
      /\ nodes[k].depth \in Nat /\ Pos(nodes[k]) \in Positions(nodes)
      /\ Pos(nodes[k])[1] = nodes[k].depth /\ NodeOf(nodes, Pos(nodes[k])) = nodes[k]
  BY TreePositions DEF Node
<1>2. nodes[k].parent_idx \in 0..(k - 2)
  BY <1>1 DEF IsTree
<1>3. Pos(nodes[k]) \in {p \in Positions(nodes) : p[1] > 0}
  BY <1>1
<1>. QED  BY <1>1, <1>2, <1>3 DEF ParentPosMap

\* The order of the list is one the path products can be built up along.
LEMMA TreeOrdered ==
  ASSUME NEW nodes \in Seq(Node), IsTree(nodes)
  PROVE  /\ Treelike(nodes, ParentPosMap(nodes))
         /\ \E rank : Ordered(nodes, ParentPosMap(nodes), rank, Len(nodes))
<1>. DEFINE P == Positions(nodes)
            n == Len(nodes)
            At(q) == CHOOSE k \in DOMAIN nodes : Pos(nodes[k]) = q
            rank == [q \in P |-> At(q)]
            pp == ParentPosMap(nodes)
<1>1. n \in Nat /\ DOMAIN nodes = 1..n /\ IsFiniteSet(P)
  BY TreePositions, PositionsFinite
<1>2. ASSUME NEW q \in P
      PROVE  /\ At(q) \in 1..n /\ Pos(nodes[At(q)]) = q
             /\ NodeOf(nodes, q) = nodes[At(q)] /\ nodes[At(q)].accepted \in BOOLEAN
             /\ q \in Nat \X Nat /\ q[1] = nodes[At(q)].depth
  <2>1. At(q) \in 1..n /\ Pos(nodes[At(q)]) = q
    BY <1>1, TreePositions
  <2>2. NodeOf(nodes, q) = nodes[At(q)]
    BY DEF NodeOf
  <2>. DEFINE k == At(q)
  <2>3. k \in 1..n /\ Pos(nodes[k]) = q /\ NodeOf(nodes, q) = nodes[k]
    BY <2>1, <2>2
  <2>. HIDE DEF k
  <2>4. nodes[k] \in Node /\ q \in Nat \X Nat /\ q[1] = nodes[k].depth
    BY <2>3, TreePositions
  <2>. QED  BY <2>1, <2>2, <2>4 DEF Node, k
<1>3. ASSUME NEW k \in 1..n PROVE At(Pos(nodes[k])) = k
  <2>1. \A j \in DOMAIN nodes : Pos(nodes[j]) = Pos(nodes[k]) => j = k
    BY <1>1 DEF IsTree
  <2>. QED  BY <1>1, <2>1
<1>. HIDE DEF At
<1>4. ASSUME NEW q \in P, q[1] # 0
      PROVE  /\ pp[q] \in P /\ At(pp[q]) < At(q) /\ pp[q][1] < q[1]
             /\ NodeOf(nodes, q).accepted => NodeOf(nodes, pp[q]).accepted
  <2>. DEFINE k == At(q)
              p == nodes[k].parent_idx + 1
  <2>1. k \in 1..n /\ Pos(nodes[k]) = q /\ nodes[k].depth # 0 /\ NodeOf(nodes, q) = nodes[k]
    BY <1>2, <1>4
  <2>2. p \in 1..n /\ p < k /\ pp[q] = Pos(nodes[p])
    BY <2>1, TreeParents
  <2>3. /\ nodes[p].depth = nodes[k].depth - 1
        /\ nodes[k].accepted => nodes[p].accepted
    BY <1>1, <2>1 DEF IsTree
  <2>. HIDE DEF k, p
  <2>4. /\ Pos(nodes[p]) \in P /\ Pos(nodes[p])[1] = nodes[p].depth
        /\ NodeOf(nodes, Pos(nodes[p])) = nodes[p] /\ At(pp[q]) = p
        /\ nodes[k].depth \in Nat /\ q[1] = nodes[k].depth
    BY <1>2, <1>3, <2>1, <2>2, TreePositions DEF Node
  <2>. QED  BY <2>1, <2>2, <2>3, <2>4 DEF k
<1>5. Treelike(nodes, pp)
  BY <1>1, <1>2, <1>4 DEF Treelike
<1>6. Ordered(nodes, pp, rank, n)
  <2>1. rank \in [P -> 0..n]
    BY <1>1, <1>2
  <2>. QED  BY <1>1, <1>4, <2>1 DEF Ordered
<1>. HIDE DEF rank
<1>. QED  BY <1>5, <1>6

\* The steps of a run agree on every parent.
LEMMA SameParents ==
  ASSUME NEW a \in Seq(Node), NEW b \in Seq(Node), IsTree(a), IsTree(b), SameTree(a, b)
  PROVE  ParentPosMap(a) = ParentPosMap(b)
<1>1. DOMAIN a = DOMAIN b /\ DOMAIN a = 1..Len(a) /\ DOMAIN b = 1..Len(b) /\ Len(a) = Len(b)
  BY LenProperties DEF SameTree
<1>2. Positions(a) = Positions(b)
  BY DEF SameTree, Positions
<1>3. ASSUME NEW q \in Positions(a), q[1] > 0
      PROVE  ParentPosMap(a)[q] = ParentPosMap(b)[q]
  <2>1. PICK k \in 1..Len(a) : q = Pos(a[k])
    BY TreePositions
  <2>2. q = Pos(b[k]) /\ a[k].parent_idx = b[k].parent_idx /\ k \in 1..Len(b)
    BY <1>1, <2>1 DEF SameTree
  <2>3. a[k].depth # 0 /\ b[k].depth # 0
    <3>1. Pos(a[k])[1] = a[k].depth /\ Pos(b[k])[1] = b[k].depth
      BY <2>1, <2>2, TreePositions
    <3>. QED  BY <1>3, <2>1, <2>2, <3>1
  <2>4. /\ ParentPosMap(a)[q] = Pos(a[a[k].parent_idx + 1]) /\ a[k].parent_idx + 1 \in 1..Len(a)
        /\ ParentPosMap(b)[q] = Pos(b[b[k].parent_idx + 1])
    BY <2>1, <2>2, <2>3, TreeParents
  <2>. QED  BY <1>1, <2>2, <2>4 DEF SameTree
<1>4. /\ ParentPosMap(a) = [q \in {p \in Positions(a) : p[1] > 0} |-> ParentPosMap(a)[q]]
      /\ ParentPosMap(b) = [q \in {p \in Positions(b) : p[1] > 0} |-> ParentPosMap(b)[q]]
  BY DEF ParentPosMap
<1>. QED  BY <1>2, <1>3, <1>4

\* What is kept of a tree together with its parents is a tree.
LEMMA RecordedIsTree ==
  ASSUME NEW step \in StaticStep, IsTree(step.nodes), NEW kept, NEW ctx,
         \A k \in KeptNodes(step.nodes, kept) : step.nodes[k].depth # 0 =>
           step.nodes[k].parent_idx + 1 \in KeptNodes(step.nodes, kept)
  PROVE  IsTree(RecordKept(step, kept, ctx).nodes)
<1>. DEFINE K == KeptNodes(step.nodes, kept)
            a == EffectiveAccept(step.nodes, kept)
            m == RecordKept(step, kept, ctx)
            all == step.nodes
            At(i) == NodeAt(K, i)
<1>0. KeptAs(step, ctx, K, m, a)
  BY KeptStep
<1>1. \A k \in K : all[k].depth # 0 => all[k].parent_idx + 1 \in K
  OBVIOUS
<1>2. all \in Seq(Node) /\ IsTree(all)
  BY DEF StaticStep
<1>. HIDE DEF K, a, m, all
<1>3. /\ K \in SUBSET (1..Len(all)) /\ Len(all) \in Nat /\ DOMAIN all = 1..Len(all)
      /\ a \in Nat /\ Cardinality(K) \in Nat
      /\ m.nodes \in Seq(Node) /\ DOMAIN m.nodes = 1..Cardinality(K)
  BY <1>0, <1>2, LenProperties, PlacesFinite DEF KeptAs, all
<1>4. ASSUME NEW i \in 1..Cardinality(K)
      PROVE  /\ At(i) \in K /\ At(i) \in 1..Len(all) /\ all[At(i)] \in Node
             /\ Place(K, At(i)) = i - 1
             /\ m.nodes[i].depth = all[At(i)].depth
             /\ Pos(m.nodes[i]) = Pos(all[At(i)])
             /\ m.nodes[i].accepted <=> all[At(i)].accepted /\ all[At(i)].depth < a
             /\ m.nodes[i].parent_idx =
                  IF all[At(i)].parent_idx = -1 THEN -1 ELSE Place(K, all[At(i)].parent_idx + 1)
  <2>1. /\ At(i) \in K /\ all[At(i)] \in Node
        /\ m.nodes[i].depth = all[At(i)].depth /\ m.nodes[i].layer_idx = all[At(i)].layer_idx
        /\ m.nodes[i].accepted = (all[At(i)].accepted /\ all[At(i)].depth < a)
        /\ m.nodes[i].parent_idx =
             IF all[At(i)].parent_idx = -1 THEN -1 ELSE Place(K, all[At(i)].parent_idx + 1)
    BY <1>0 DEF KeptAs, all
  <2>2. Place(K, At(i)) = i - 1
    BY <1>3, NodeAtExists
  <2>. QED  BY <1>3, <2>1, <2>2 DEF Pos
<1>5. ASSUME NEW v \in K
      PROVE  Place(K, v) + 1 \in 1..Cardinality(K) /\ At(Place(K, v) + 1) = v
  BY <1>3, NodeAtExists
<1>. HIDE DEF At
<1>6. ASSUME NEW i \in 1..Cardinality(K), NEW j \in 1..Cardinality(K), Pos(m.nodes[j]) = Pos(m.nodes[i])
      PROVE  j = i
  <2>1. Pos(all[At(j)]) = Pos(all[At(i)]) /\ At(i) \in DOMAIN all /\ At(j) \in DOMAIN all
    BY <1>3, <1>4, <1>6
  <2>2. At(j) = At(i)
    BY <1>2, <2>1 DEF IsTree
  <2>. QED  BY <1>4, <2>2
<1>7. ASSUME NEW i \in 1..Cardinality(K)
      PROVE  /\ m.nodes[i].depth = 0 <=> m.nodes[i].parent_idx = -1
             /\ m.nodes[i].depth # 0 =>
                  LET parent == m.nodes[m.nodes[i].parent_idx + 1]
                  IN  /\ m.nodes[i].parent_idx \in 0..(i - 2)
                      /\ parent.depth = m.nodes[i].depth - 1
                      /\ m.nodes[i].accepted => parent.accepted
  <2>. DEFINE k == At(i)
              p == all[k].parent_idx + 1
  <2>1. /\ k \in K /\ k \in DOMAIN all /\ m.nodes[i].depth = all[k].depth
        /\ m.nodes[i].accepted <=> all[k].accepted /\ all[k].depth < a
        /\ m.nodes[i].parent_idx = IF all[k].parent_idx = -1 THEN -1 ELSE Place(K, p)
        /\ Place(K, k) = i - 1
        /\ all[k].depth \in Nat /\ all[k].parent_idx \in Int
    BY <1>3, <1>4 DEF Node
  <2>. HIDE DEF k
  <2>2. all[k].depth = 0 <=> all[k].parent_idx = -1
    BY <1>2, <2>1 DEF IsTree
  <2>3. CASE all[k].depth = 0
    BY <2>1, <2>2, <2>3
  <2>4. CASE all[k].depth # 0
    <3>1. /\ all[k].parent_idx \in 0..(k - 2) /\ all[p].depth = all[k].depth - 1
          /\ all[k].accepted => all[p].accepted
      BY <1>2, <2>1, <2>4 DEF IsTree
    <3>2. p \in K /\ p < k /\ m.nodes[i].parent_idx = Place(K, p)
      BY <1>1, <1>3, <2>1, <2>2, <2>4, <3>1
    <3>. HIDE DEF p
    <3>3. Place(K, p) < Place(K, k) /\ Place(K, p) \in Nat
      <4>1. Place(K, p) \in 0..(Cardinality(K) - 1) /\ Place(K, p) < Place(K, k)
        BY <1>3, <2>1, <3>2, PlaceOrdered
      <4>. QED  BY <4>1
    <3>4. Place(K, p) + 1 \in 1..Cardinality(K) /\ At(Place(K, p) + 1) = p
      BY <1>5, <3>2
    <3>5. /\ m.nodes[Place(K, p) + 1].depth = all[p].depth
          /\ m.nodes[Place(K, p) + 1].accepted <=> all[p].accepted /\ all[p].depth < a
      BY <1>4, <3>4
    <3>6. m.nodes[i].parent_idx \in 0..(i - 2)
      BY <1>3, <2>1, <3>2, <3>3
    <3>7. m.nodes[i].accepted => m.nodes[Place(K, p) + 1].accepted
      BY <1>3, <2>1, <3>1, <3>5
    <3>8. m.nodes[i].parent_idx # -1
      BY <3>6
    <3>. QED  BY <2>1, <2>4, <3>1, <3>2, <3>5, <3>6, <3>7, <3>8
  <2>. QED  BY <2>3, <2>4
<1>. QED  BY <1>3, <1>6, <1>7 DEF IsTree, m

\* Every depth down to an accepted node holds an accepted one.
LEMMA ChainFull ==
  ASSUME NEW nodes \in Seq(Node), IsTree(nodes)
  PROVE  \A k \in 1..Len(nodes) : nodes[k].accepted =>
           \A d \in 0..nodes[k].depth :
             \E j \in 1..Len(nodes) : nodes[j].accepted /\ nodes[j].depth = d
<1>. DEFINE Full(k) == nodes[k].accepted =>
              \A d \in 0..nodes[k].depth :
                \E j \in 1..Len(nodes) : nodes[j].accepted /\ nodes[j].depth = d
            T == {n \in Nat : \A k \in 1..Len(nodes) : k <= n => Full(k)}
<1>0. Len(nodes) \in Nat /\ DOMAIN nodes = 1..Len(nodes)
  BY LenProperties
<1>1. 0 \in T
  BY <1>0
<1>2. ASSUME NEW n \in Nat, n \in T PROVE n + 1 \in T
  <2>1. ASSUME NEW k \in 1..Len(nodes), k = n + 1 PROVE Full(k)
    <3>. SUFFICES ASSUME nodes[k].accepted, NEW d \in 0..nodes[k].depth
                  PROVE  \E j \in 1..Len(nodes) : nodes[j].accepted /\ nodes[j].depth = d
      OBVIOUS
    <3>1. nodes[k].depth \in Nat
      BY TreePositions DEF Node
    <3>2. CASE d = nodes[k].depth
      BY <3>2
    <3>3. CASE d # nodes[k].depth
      <4>. DEFINE p == nodes[k].parent_idx + 1
      <4>1. nodes[k].depth # 0
        BY <3>1, <3>3
      <4>2. p \in 1..Len(nodes) /\ p < k
        BY <4>1, TreeParents
      <4>3. nodes[p].accepted /\ nodes[p].depth = nodes[k].depth - 1
        BY <1>0, <4>1 DEF IsTree
      <4>. HIDE DEF p
      <4>4. Full(p)
        BY <1>2, <2>1, <4>2
      <4>5. d \in 0..nodes[p].depth
        BY <3>1, <3>3, <4>3
      <4>. QED  BY <4>3, <4>4, <4>5
    <3>. QED  BY <3>2, <3>3
  <2>. HIDE DEF Full
  <2>2. \A k \in 1..Len(nodes) : k <= n + 1 => k <= n \/ k = n + 1
    BY <1>0
  <2>. QED  BY <1>2, <2>1, <2>2
<1>3. Nat \subseteq T
  <2>. HIDE DEF T
  <2>. QED  BY <1>1, <1>2, Induction
<1>. QED  BY <1>0, <1>3

\* The recorded accepts are as many as were measured.
LEMMA MeasuredWhole ==
  ASSUME NEW step \in StaticStep, OneChain(step.nodes), IsTree(step.nodes), NEW kept, NEW ctx
  PROVE  LET m == RecordKept(step, kept, ctx)
         IN  EffectiveAccept(m.nodes, Positions(m.nodes)) = m.accepted_length
<1>. DEFINE K == KeptNodes(step.nodes, kept)
            a == EffectiveAccept(step.nodes, kept)
            m == RecordKept(step, kept, ctx)
            all == step.nodes
            A == {k \in K : all[k].accepted /\ all[k].depth < a}
            U == {k \in DOMAIN all : all[k].accepted /\
                    \A j \in DOMAIN all : all[j].accepted /\ all[j].depth <= all[k].depth
                      => Pos(all[j]) \in kept}
            M == {i \in DOMAIN m.nodes : m.nodes[i].accepted}
<1>0. KeptAs(step, ctx, K, m, a)
  BY KeptStep
<1>1. all \in Seq(Node) /\ IsTree(all) /\ a = Cardinality(U)
  BY DEF StaticStep, EffectiveAccept
<1>2. Len(all) \in Nat /\ DOMAIN all = 1..Len(all) /\ \A k \in 1..Len(all) : all[k].depth \in Nat
  <2>1. \A k \in 1..Len(all) : all[k] \in Node
    BY <1>1, TreePositions
  <2>. HIDE DEF all
  <2>. QED  BY <1>1, <2>1, LenProperties DEF Node
<1>3. IsFiniteSet(U) /\ a \in Nat
  BY <1>1, <1>2, PlacesFinite
<1>4. ASSUME NEW k \in U PROVE k \in K /\ all[k].accepted /\ all[k].depth < a
  <2>1. k \in 1..Len(all) /\ all[k].accepted /\ all[k].depth \in Nat /\ k \in K
    BY <1>2 DEF KeptNodes
  <2>. DEFINE D == 0..all[k].depth
              f == [d \in D |-> CHOOSE j \in 1..Len(all) : all[j].accepted /\ all[j].depth = d]
  <2>2. ASSUME NEW d \in D
        PROVE  f[d] \in 1..Len(all) /\ all[f[d]].accepted /\ all[f[d]].depth = d
    <3>. HIDE DEF all
    <3>1. \E j \in 1..Len(all) : all[j].accepted /\ all[j].depth = d
      BY <1>1, <2>1, ChainFull
    <3>. QED  BY <3>1
  <2>3. \A d \in D : f[d] \in U
    <3>. HIDE DEF all, f
    <3>1. ASSUME NEW d \in D,
                 NEW j \in DOMAIN all, all[j].accepted, all[j].depth <= all[f[d]].depth
          PROVE  Pos(all[j]) \in kept
      <4>1. all[j].depth \in Nat /\ d \in Int /\ d <= all[k].depth /\ all[f[d]].depth = d
        BY <1>2, <2>1, <2>2
      <4>2. all[j].depth <= all[k].depth
        BY <2>1, <3>1, <4>1
      <4>. QED  BY <2>1, <3>1, <4>2 DEF U
    <3>. QED  BY <1>2, <2>2, <3>1 DEF U
  <2>. HIDE DEF f, U, all
  <2>4. f \in [D -> U] /\ \A d, e \in D : f[d] = f[e] => d = e
    <3>1. f = [d \in D |-> f[d]]
      BY DEF f
    <3>. QED  BY <2>2, <2>3, <3>1
  <2>5. IsFiniteSet(D) /\ Cardinality(D) = all[k].depth + 1
    <3>1. ASSUME NEW n \in Nat PROVE IsFiniteSet(0..n) /\ Cardinality(0..n) = n + 1
      <4>1. 0 \in Int /\ n \in Int
        OBVIOUS
      <4>. QED  BY <4>1, FS_Interval
    <3>. QED  BY <2>1, <3>1
  <2>. HIDE DEF D
  <2>6. ~(Cardinality(U) < Cardinality(D))
    BY <1>3, <2>4, <2>5, FS_PigeonHole
  <2>. QED  BY <1>1, <1>3, <2>1, <2>5, <2>6
<1>5. a <= Cardinality(A)
  <2>1. IsFiniteSet(A)
    <3>1. A \in SUBSET (1..Len(all))
      BY <1>2 DEF KeptNodes
    <3>. HIDE DEF A
    <3>. QED  BY <1>2, <3>1, PlacesFinite
  <2>2. U \in SUBSET A
    BY <1>4
  <2>. HIDE DEF U, A, a
  <2>. QED  BY <1>1, <2>1, <2>2, FS_Subset
<1>6. Cardinality(A) <= a /\ Cardinality(A) \in Nat
  <2>1. A \in SUBSET (DOMAIN all) /\ \A k \in A : all[k].accepted /\ all[k].depth < a
    BY DEF KeptNodes
  <2>2. OneChain(all)
    OBVIOUS
  <2>. HIDE DEF A, a, all
  <2>. QED  BY <1>1, <1>2, <1>3, <2>1, <2>2, ChainBounded, PlacesFinite
<1>. HIDE DEF K, a, m, all
<1>7. /\ m.accepted_length = a /\ K \in SUBSET (1..Len(all))
      /\ m.nodes \in Seq(Node) /\ DOMAIN m.nodes = 1..Cardinality(K)
  BY <1>0 DEF KeptAs, all
<1>8. M = {i \in 1..Cardinality(K) : NodeAt(K, i) \in A}
  <2>1. \A i \in 1..Cardinality(K) :
          NodeAt(K, i) \in K
            /\ m.nodes[i].accepted = (all[NodeAt(K, i)].accepted /\ all[NodeAt(K, i)].depth < a)
    BY <1>0 DEF KeptAs, all
  <2>. QED  BY <1>7, <2>1
<1>9. Cardinality(M) = Cardinality(A)
  <2>1. A \in SUBSET K
    OBVIOUS
  <2>. HIDE DEF A, M
  <2>2. Cardinality({i \in 1..Cardinality(K) : NodeAt(K, i) \in A}) = Cardinality(A)
    BY <1>2, <1>7, <2>1, CountCarried
  <2>. QED  BY <1>8, <2>2
<1>10. EffectiveAccept(m.nodes, Positions(m.nodes)) = Cardinality(M)
  <2>1. \A j \in DOMAIN m.nodes : Pos(m.nodes[j]) \in Positions(m.nodes)
    BY DEF Positions
  <2>2. {i \in DOMAIN m.nodes : m.nodes[i].accepted /\ \A j \in DOMAIN m.nodes :
           m.nodes[j].accepted /\ m.nodes[j].depth <= m.nodes[i].depth
             => Pos(m.nodes[j]) \in Positions(m.nodes)} = M
    BY <2>1
  <2>. HIDE DEF M
  <2>. QED  BY <2>2 DEF EffectiveAccept
<1>. HIDE DEF A, M
<1>11. Cardinality(A) = a
  BY <1>3, <1>5, <1>6
<1>. QED  BY <1>7, <1>9, <1>10, <1>11 DEF m

-----------------------------------------------------------------------------
(* What is kept, and what a replay keeps of it.                            *)

\* What a pruner selects of a step: all at first, then those with fewer than
\* keep before them.
LEMMA SelectedIs ==
  ASSUME NEW nodes, NEW t \in Int, NEW keep, NEW h, NEW kp, NEW pp
  PROVE  SelectKept(nodes, t, keep, "greedy_headk", h, kp, pp) =
           IF t = 0 THEN Positions(nodes)
           ELSE {q \in Positions(nodes) :
                   Cardinality({r \in Positions(nodes) :
                     ByScore(Scores(nodes, h, kp, pp, "headk"), r, q)}) < keep}
BY DEF SelectKept, TopL, Granularity

\* The collection keeps a subtree, after the first step of at most keep nodes.
LEMMA CollectedKeeps ==
  ASSUME NEW nodes \in Seq(Node), IsTree(nodes), NEW h, CountsTyped(h),
         NEW t \in Int, NEW keep \in Nat, NEW kp,
         NEW kept, kept = SelectKept(nodes, t, keep, "greedy_headk", h, kp, ParentPosMap(nodes))
  PROVE  /\ kept \subseteq Positions(nodes)
         /\ t # 0 => IsFiniteSet(kept) /\ Cardinality(kept) <= keep
         /\ \A k \in KeptNodes(nodes, kept) : nodes[k].depth # 0 =>
              nodes[k].parent_idx + 1 \in KeptNodes(nodes, kept)
<1>. DEFINE P == Positions(nodes)
            pp == ParentPosMap(nodes)
            score == Scores(nodes, h, kp, pp, "headk")
<1>1. PICK rank : Ordered(nodes, pp, rank, Len(nodes))
  BY TreeOrdered
<1>2. Treelike(nodes, pp) /\ Rated(nodes, h, kp, "headk")
  BY TreeOrdered, CountsRated
<1>3. /\ kept \subseteq P
      /\ \A q \in kept : q[1] # 0 => pp[q] \in kept
  <2>1. Rated(nodes, h, kp, Granularity("greedy_headk"))
    BY <1>2 DEF Granularity
  <2>. QED  BY <1>1, <1>2, <2>1, SelectionIsSubtree
<1>4. ASSUME t # 0 PROVE IsFiniteSet(kept) /\ Cardinality(kept) <= keep
  <2>1. score \in [P -> Fraction]
    BY <1>1, <1>2, ScoresDefined
  <2>2. P \in SUBSET (Nat \X Nat) /\ IsFiniteSet(P)
    BY <1>2 DEF Treelike
  <2>3. kept = {q \in P : Cardinality({r \in P : ByScore(score, r, q)}) < keep}
    BY <1>4, SelectedIs
  <2>. HIDE DEF P, score
  <2>. QED  BY ONLY <2>1, <2>2, <2>3, keep \in Nat, SelectionBounded
<1>5. ASSUME NEW k \in KeptNodes(nodes, kept), nodes[k].depth # 0
      PROVE  nodes[k].parent_idx + 1 \in KeptNodes(nodes, kept)
  <2>1. k \in 1..Len(nodes) /\ Pos(nodes[k]) \in kept /\ DOMAIN nodes = 1..Len(nodes)
    BY TreePositions DEF KeptNodes
  <2>2. Pos(nodes[k])[1] # 0
    BY <1>5, <2>1, TreePositions
  <2>3. /\ nodes[k].parent_idx + 1 \in 1..Len(nodes)
        /\ pp[Pos(nodes[k])] = Pos(nodes[nodes[k].parent_idx + 1])
    BY <1>5, <2>1, TreeParents
  <2>. HIDE DEF pp
  <2>. QED  BY <1>3, <2>1, <2>2, <2>3 DEF KeptNodes
<1>. QED  BY <1>3, <1>4, <1>5

\* A step with at most keep nodes is replayed whole.
LEMMA ReplayKeepsAll ==
  ASSUME NEW nodes \in Seq(Node), IsTree(nodes), NEW h, CountsTyped(h),
         NEW t, NEW keep \in Nat, t # 0 => Cardinality(Positions(nodes)) <= keep
  PROVE  Replayed(nodes, t, keep, h) = Positions(nodes)
<1>. DEFINE P == Positions(nodes)
            kp == KPredMap(nodes)
            pp == ParentPosMap(nodes)
            score == Scores(nodes, h, kp, pp, "headk")
<1>1. CASE t = 0
  BY <1>1, ReplayedIs
<1>2. CASE t # 0
  <2>1. PICK rank : Ordered(nodes, pp, rank, Len(nodes))
    BY TreeOrdered
  <2>2. Treelike(nodes, pp) /\ Rated(nodes, h, kp, "headk")
    BY TreeOrdered, CountsRated
  <2>3. score \in [P -> Fraction]
    BY <2>1, <2>2, ScoresDefined
  <2>4. P \in SUBSET (Nat \X Nat)
    BY <2>2 DEF Treelike
  <2>5. \A q \in P : Forerunners(nodes, h, q) = {r \in P : ByScore(score, r, q)}
    BY DEF Forerunners
  <2>. HIDE DEF score
  <2>6. ASSUME NEW q \in P PROVE Cardinality(Forerunners(nodes, h, q)) < keep
    <3>1. ~ByScore(score, q, q)
      BY <2>3, <2>4, HigherOrder DEF ByScore, Shallower
    <3>2. Forerunners(nodes, h, q) \in SUBSET P /\ Forerunners(nodes, h, q) # P
      BY <2>5, <3>1
    <3>. HIDE DEF P
    <3>3. /\ Cardinality(Forerunners(nodes, h, q)) \in Nat
          /\ Cardinality(Forerunners(nodes, h, q)) < Cardinality(P)
          /\ Cardinality(P) \in Nat
      BY <3>2, PositionsFinite DEF P
    <3>. QED  BY <1>2, <3>3 DEF P
  <2>. QED  BY <1>2, <2>6, ReplayedIs
<1>. QED  BY <1>1, <1>2

\* A collection's histories are typed, and so is what a replay of it learns.
LEMMA HistoriesTyped ==
  ASSUME NEW steps, Len(steps) \in Nat, NEW keep, NEW trace, NEW hs,
         TraceFrom(steps, keep, trace, hs),
         \A i \in 1..Len(steps) : IsFiniteSet(DOMAIN trace[i].nodes)
  PROVE  /\ \A i \in 1..Len(steps) : CountsTyped(hs[i])
         /\ \A i \in 1..Len(steps) : CountsTyped(Learnt(trace)[i - 1])
<1>. DEFINE n == Len(steps)
            l == Learnt(trace)
            T == {k \in Nat : k < n => CountsTyped(hs[k + 1]) /\ CountsTyped(l[k])}
<1>1. Len(trace) = n /\ n \in Nat
  BY DEF TraceFrom
<1>2. l[0] = EmptyHist /\ \A i \in 1..n : l[i] = Fold(l[i - 1], trace[i])
  BY <1>1, LearntExists DEF LearntIs
<1>3. CountsTyped(EmptyHist)
  BY DEF CountsTyped, EmptyHist
<1>4. 0 \in T
  BY <1>2, <1>3 DEF TraceFrom
<1>. HIDE DEF l
<1>5. ASSUME NEW k \in Nat, k \in T PROVE k + 1 \in T
  <2>. SUFFICES ASSUME k + 1 < n PROVE CountsTyped(hs[k + 2]) /\ CountsTyped(l[k + 1])
    OBVIOUS
  <2>1. k + 1 \in 1..n /\ (k + 1) + 1 = k + 2 /\ (k + 1) - 1 = k
    BY <1>1
  <2>2. CountsTyped(hs[k + 1]) /\ CountsTyped(l[k])
    BY <1>1, <1>5
  <2>3. IsFiniteSet(DOMAIN trace[k + 1].nodes)
    BY <2>1
  <2>4. hs[(k + 1) + 1] = Update(hs[k + 1], trace[k + 1].nodes, KPredMap(steps[1].nodes),
                           ParentPosMap(steps[1].nodes), "headk")
    BY <2>1 DEF TraceFrom
  <2>5. l[k + 1] = Fold(l[k], trace[k + 1])
    BY <1>2, <2>1
  <2>6. CountsTyped(hs[(k + 1) + 1])
    BY <2>2, <2>3, <2>4, UpdateTyped
  <2>7. CountsTyped(l[k + 1])
    BY <2>2, <2>3, <2>5, UpdateTyped DEF Fold
  <2>. QED  BY <2>1, <2>6, <2>7
<1>6. Nat \subseteq T
  <2>. HIDE DEF T
  <2>. QED  BY <1>4, <1>5, Induction
<1>7. ASSUME NEW i \in 1..n PROVE CountsTyped(hs[i]) /\ CountsTyped(l[i - 1])
  <2>1. i - 1 \in Nat /\ i - 1 < n /\ (i - 1) + 1 = i
    BY <1>1
  <2>. QED  BY <1>6, <2>1
<1>. QED  BY <1>7 DEF l

\* Every collected step is a tree whose accepts were measured, after the first
\* one of at most L nodes, and what a replay has learnt before it can be scored.
LEMMA CollectedIsTree ==
  ASSUME InputSound, NEW i \in 1..Len(medusa)
  PROVE  /\ medusa[i].nodes \in Seq(Node) /\ IsTree(medusa[i].nodes)
         /\ i - 1 # 0 => Cardinality(Positions(medusa[i].nodes)) <= L
         /\ EffectiveAccept(medusa[i].nodes, Positions(medusa[i].nodes))
              = medusa[i].accepted_length
         /\ CountsTyped(Learnt(medusa)[i - 1])
<1>. DEFINE n == Len(static)
<1>1. n \in Nat /\ Len(medusa) = n /\ L \in Nat /\ i \in 1..n /\ 1 \in 1..n
  BY TracesLong, LenProperties DEF InputSound
<1>2. PICK hs : TraceFrom(static, L, medusa, hs)
  BY <1>1, CollectedSteps DEF InputSound
<1>3. ASSUME NEW j \in 1..n
      PROVE  /\ static[j] \in StaticStep /\ static[j].nodes \in Seq(Node)
             /\ OneChain(static[j].nodes) /\ IsTree(static[j].nodes)
             /\ SameTree(static[j].nodes, static[1].nodes)
             /\ medusa[j] = RecordKept(static[j], SelectedAt(static, L, hs[j], j),
                                       ContextAt(static, medusa, j))
  <2>1. static[j] \in StaticStep
    BY DEF InputSound
  <2>2. static[j].nodes \in Seq(Node)
    BY <2>1 DEF StaticStep
  <2>3. medusa[j] = RecordKept(static[j], SelectedAt(static, L, hs[j], j),
                               ContextAt(static, medusa, j))
    BY <1>2 DEF TraceFrom
  <2>4. /\ OneChain(static[j].nodes) /\ IsTree(static[j].nodes)
        /\ SameTree(static[j].nodes, static[1].nodes)
    BY DEF InputSound
  <2>. QED  BY <2>1, <2>2, <2>3, <2>4
<1>4. ASSUME NEW j \in 1..n
      PROVE  medusa[j].nodes \in Seq(Node) /\ IsFiniteSet(DOMAIN medusa[j].nodes)
  <2>1. PICK kept, ctx : medusa[j] = RecordKept(static[j], kept, ctx)
    BY <1>3
  <2>2. medusa[j].nodes \in Seq(Node)
    BY <1>3, <2>1, KeptStep DEF KeptAs
  <2>3. Len(medusa[j].nodes) \in Nat /\ DOMAIN medusa[j].nodes = 1..Len(medusa[j].nodes)
    BY <2>2, LenProperties
  <2>. QED  BY <2>2, <2>3, PlacesFinite
<1>5. CountsTyped(hs[i]) /\ CountsTyped(Learnt(medusa)[i - 1])
  BY ONLY <1>1, <1>2, <1>4, HistoriesTyped
<1>. DEFINE step == static[i]
            kept == SelectedAt(static, L, hs[i], i)
            ctx == ContextAt(static, medusa, i)
            m == RecordKept(step, kept, ctx)
            K == KeptNodes(step.nodes, kept)
<1>6. kept = SelectKept(step.nodes, i - 1, L, "greedy_headk", hs[i],
                        KPredMap(static[1].nodes), ParentPosMap(step.nodes))
  <2>1. ParentPosMap(step.nodes) = ParentPosMap(static[1].nodes)
    BY <1>1, <1>3, SameParents
  <2>. QED  BY <2>1 DEF SelectedAt
<1>7. /\ step \in StaticStep /\ step.nodes \in Seq(Node) /\ OneChain(step.nodes)
      /\ IsTree(step.nodes) /\ medusa[i] = m
  BY <1>1, <1>3
<1>. HIDE DEF step, kept, ctx, n
<1>8. /\ i - 1 # 0 => IsFiniteSet(kept) /\ Cardinality(kept) <= L
      /\ \A k \in K : step.nodes[k].depth # 0 => step.nodes[k].parent_idx + 1 \in K
  <2>1. step.nodes \in Seq(Node) /\ IsTree(step.nodes) /\ CountsTyped(hs[i]) /\ L \in Nat
    BY <1>1, <1>5, <1>7
  <2>2. PICK nodes, t, h, kp, keep :
          /\ nodes = step.nodes /\ t = i - 1 /\ h = hs[i] /\ kp = KPredMap(static[1].nodes)
          /\ keep = L
    OBVIOUS
  <2>3. /\ nodes \in Seq(Node) /\ IsTree(nodes) /\ CountsTyped(h) /\ keep \in Nat
        /\ kept = SelectKept(nodes, t, keep, "greedy_headk", h, kp, ParentPosMap(nodes))
    BY <1>6, <2>1, <2>2
  <2>4. t \in Int
    BY <1>1, <2>2
  <2>5. t # 0 => IsFiniteSet(kept) /\ Cardinality(kept) <= keep
    BY ONLY <2>4, <2>3, CollectedKeeps
  <2>6. \A k \in KeptNodes(nodes, kept) : nodes[k].depth # 0 =>
          nodes[k].parent_idx + 1 \in KeptNodes(nodes, kept)
    BY ONLY <2>4, <2>3, CollectedKeeps
  <2>. QED  BY <2>2, <2>5, <2>6
<1>9. IsTree(m.nodes)
  BY <1>7, <1>8, RecordedIsTree
<1>10. EffectiveAccept(m.nodes, Positions(m.nodes)) = m.accepted_length
  BY <1>7, MeasuredWhole
<1>11. Positions(m.nodes) \subseteq kept
  <2>1. KeptAs(step, ctx, K, m, EffectiveAccept(step.nodes, kept))
    BY <1>7, KeptStep
  <2>. HIDE DEF m
  <2>2. \A j \in DOMAIN m.nodes : Pos(m.nodes[j]) \in kept
    BY <2>1 DEF KeptAs, KeptNodes, Pos
  <2>. QED  BY <2>2 DEF Positions
<1>12. i - 1 # 0 => Cardinality(Positions(m.nodes)) <= L
  <2>. HIDE DEF m
  <2>1. ASSUME i - 1 # 0 PROVE Cardinality(Positions(m.nodes)) <= L
    <3>1. IsFiniteSet(kept) /\ Cardinality(kept) <= L /\ Cardinality(kept) \in Nat
      BY <1>8, <2>1, FS_CardinalityType
    <3>2. /\ Cardinality(Positions(m.nodes)) \in Nat
          /\ Cardinality(Positions(m.nodes)) <= Cardinality(kept)
      BY <1>11, <3>1, FS_Subset, FS_CardinalityType
    <3>. QED  BY <1>1, <3>1, <3>2
  <2>. QED  BY <2>1
<1>. HIDE DEF m
<1>. QED  BY <1>1, <1>4, <1>5, <1>7, <1>9, <1>10, <1>12 DEF n

\* A MEDUSA trace replayed at the keep-count of its collection is replayed
\* whole: every node is verified and every accept emitted, on any trace.
THEOREM ReplayIsWhole == Spec => []ReplayPassesThrough
<1>1. ReplayInv => ReplayPassesThrough
  <2>. SUFFICES ASSUME ReplayInv, NEW c \in CallsOf("lp_spec"), NEW i \in DOMAIN medusa,
                       records[c].cfg.L_spec = L
                PROVE  /\ records[c].steps[i].kept = Positions(medusa[i].nodes)
                       /\ records[c].steps[i].tokens = medusa[i].accepted_length + 1
    BY DEF ReplayPassesThrough
  <2>1. InputSound /\ L \in Nat
    BY DEF ReplayInv, InputSound
  <2>2. i \in 1..Len(medusa)
    BY <2>1, TracesLong
  <2>3. c \in 1..Len(records) /\ records[c].cfg.driver = "lp_spec"
    BY LenProperties DEF CallsOf, ReplayInv, Finished
  <2>4. StepDone(records[c].cfg, i, records[c].steps[i])
    BY <2>2, <2>3 DEF ReplayInv, Finished, TraceOf
  <2>5. /\ records[c].steps[i].kept = Replayed(medusa[i].nodes, i - 1, L, Learnt(medusa)[i - 1])
        /\ records[c].steps[i].tokens =
             EffectiveAccept(medusa[i].nodes, records[c].steps[i].kept) + 1
    BY <2>3, <2>4 DEF StepDone
  <2>6. records[c].steps[i].kept = Positions(medusa[i].nodes)
    <3>1. /\ medusa[i].nodes \in Seq(Node) /\ IsTree(medusa[i].nodes)
          /\ i - 1 # 0 => Cardinality(Positions(medusa[i].nodes)) <= L
          /\ CountsTyped(Learnt(medusa)[i - 1])
      BY <2>1, <2>2, CollectedIsTree
    <3>. QED  BY ONLY <2>1, <2>5, <3>1, ReplayKeepsAll
  <2>. QED  BY <2>1, <2>2, <2>5, <2>6, CollectedIsTree
<1>. QED  BY <1>1, ReplaySafe, PTL

-----------------------------------------------------------------------------
(* The analysis.                                                           *)

\* A step whose accepted nodes are one chain from the root, and counted.
Counted(e) ==
  /\ Len(e.nodes) \in Nat /\ DOMAIN e.nodes = 1..Len(e.nodes)
  /\ \A k \in DOMAIN e.nodes : /\ e.nodes[k].depth \in Nat /\ e.nodes[k].cumulative_log_prob \in Int
                               /\ e.nodes[k].accepted \in BOOLEAN
  /\ e.accepted_length = Cardinality({k \in DOMAIN e.nodes : e.nodes[k].accepted})
  /\ FromRoot(e)

\* What a gate leaves of a step, in numbers.
LEMMA CountStep ==
  ASSUME NEW e, Counted(e), NEW s \in Gate
  PROVE  /\ IsFiniteSet(DOMAIN e.nodes)
         /\ \A S \in SUBSET (DOMAIN e.nodes) :
              IsFiniteSet(S) /\ Cardinality(S) \in Nat /\ Cardinality(S) <= Len(e.nodes)
         /\ Cardinality(DOMAIN e.nodes) = Len(e.nodes)
         /\ PruneTree(e, s) \in SUBSET (DOMAIN e.nodes)
         /\ e.accepted_length \in Nat
<1>. DEFINE D == DOMAIN e.nodes
            n == Len(e.nodes)
<1>1. n \in Nat /\ D = 1..n /\ e.accepted_length = Cardinality({k \in D : e.nodes[k].accepted})
  BY DEF Counted
<1>2. n \in Int /\ 1 \in Int
  BY <1>1
<1>3. IsFiniteSet(1..n) /\ Cardinality(1..n) = n
  BY <1>1, <1>2, FS_Interval
<1>4. PruneTree(e, s) \in SUBSET D
  BY DEF PruneTree
<1>. HIDE DEF D, n
<1>5. ASSUME NEW S \in SUBSET D
      PROVE  IsFiniteSet(S) /\ Cardinality(S) \in Nat /\ Cardinality(S) <= n
  <2>1. IsFiniteSet(S) /\ Cardinality(S) <= Cardinality(1..n)
    BY <1>1, <1>3, FS_Subset
  <2>. QED  BY <1>3, <2>1, FS_CardinalityType
<1>. QED  BY <1>1, <1>3, <1>4, <1>5 DEF D, n

\* The accepts a gate leaves are those it counts, and no more than were measured.
LEMMA AcceptIsFlagged ==
  ASSUME NEW e, Counted(e), NEW s \in Gate
  PROVE  /\ GatedAccept(e, s) = Flagged(e, PruneTree(e, s))
         /\ GatedAccept(e, s) \in Nat /\ GatedAccept(e, s) <= e.accepted_length
<1>. DEFINE D == DOMAIN e.nodes
            A == {k \in D : e.nodes[k].accepted}
            S == {k \in PruneTree(e, s) : e.nodes[k].accepted}
<1>1. S \in SUBSET A /\ A \in SUBSET D
  BY CountStep
<1>2. e.accepted_length = Cardinality(A)
  BY DEF Counted
<1>3. IsFiniteSet(A) /\ Cardinality(A) \in Nat /\ Cardinality(S) \in Nat
  BY <1>1, CountStep
<1>4. GatedAccept(e, s) = IF Cardinality(S) < Cardinality(A) THEN Cardinality(S) ELSE Cardinality(A)
  BY <1>2 DEF GatedAccept
<1>5. Flagged(e, PruneTree(e, s)) = Cardinality(S)
  BY DEF Flagged
<1>. HIDE DEF A, S
<1>6. Cardinality(S) <= Cardinality(A)
  BY <1>1, <1>3, FS_Subset
<1>. QED  BY <1>2, <1>3, <1>4, <1>5, <1>6

\* What is dropped is doomed or a lost accept.
LEMMA DoomedOrLost ==
  ASSUME NEW e, Counted(e), NEW s \in Gate
  PROVE  LET doomed == {k \in DOMAIN e.nodes : ~Survives(e.nodes[k], s) /\ ~e.nodes[k].accepted}
         IN  /\ Cardinality(doomed) \in Nat
             /\ Cardinality(doomed) = (Len(e.nodes) - Cardinality(PruneTree(e, s)))
                                        - (e.accepted_length - Flagged(e, PruneTree(e, s)))
<1>. DEFINE D == DOMAIN e.nodes
            K == PruneTree(e, s)
            A == {k \in D : e.nodes[k].accepted}
            F == {k \in K : e.nodes[k].accepted}
            Z == {k \in D : ~Survives(e.nodes[k], s) /\ ~e.nodes[k].accepted}
<1>1. K \in SUBSET D /\ IsFiniteSet(D) /\ Cardinality(D) = Len(e.nodes)
      /\ \A S \in SUBSET D : IsFiniteSet(S) /\ Cardinality(S) \in Nat
  BY CountStep
<1>2. e.accepted_length = Cardinality(A) /\ Flagged(e, K) = Cardinality(F)
  BY DEF Counted, Flagged
<1>3. A \in SUBSET D /\ Z \in SUBSET D /\ F = K \cap A /\ D = (K \cup A) \cup Z
      /\ (K \cup A) \cap Z = {}
  BY <1>1 DEF PruneTree
<1>. HIDE DEF D, K, A, F, Z
<1>4. Cardinality(K \cup A) = Cardinality(K) + Cardinality(A) - Cardinality(F)
  BY <1>1, <1>3, FS_Union
<1>5. Cardinality(D) = Cardinality(K \cup A) + Cardinality(Z) - Cardinality({})
  <2>1. K \cup A \in SUBSET D
    BY <1>1, <1>3
  <2>. QED  BY <1>1, <1>3, <2>1, FS_Union
<1>6. Cardinality({}) = 0
  BY FS_EmptySet
<1>7. Cardinality(K) \in Nat /\ Cardinality(A) \in Nat /\ Cardinality(Z) \in Nat /\ Cardinality(F) \in Nat
  BY <1>1, <1>3
<1>. QED  BY <1>1, <1>2, <1>4, <1>5, <1>6, <1>7 DEF D, K, Z

\* Of an accepted chain from the root a cut at a depth leaves the levels above it.
LEMMA DepthCut ==
  ASSUME NEW e, Counted(e), NEW d \in Nat
  PROVE  /\ Flagged(e, {k \in DOMAIN e.nodes : e.nodes[k].depth <= d}) =
              Min({e.accepted_length, d + 1})
         /\ Min({e.accepted_length, d + 1}) \in Nat
<1>. DEFINE D == DOMAIN e.nodes
            A == {k \in D : e.nodes[k].accepted}
            B == {k \in {j \in D : e.nodes[j].depth <= d} : e.nodes[k].accepted}
            a == e.accepted_length
            f == [k \in A |-> e.nodes[k].depth]
<1>1. a \in Nat /\ a = Cardinality(A) /\ IsFiniteSet(A)
      /\ \A k \in A : e.nodes[k].depth \in Nat /\ e.nodes[k].depth < a
  <2>1. NegInf \in Gate
    BY DEF Gate
  <2>2. A \in SUBSET D
    OBVIOUS
  <2>. QED  BY <2>1, <2>2, CountStep DEF Counted, FromRoot
<1>2. \A j, k \in A : e.nodes[j].depth = e.nodes[k].depth => j = k
  BY DEF Counted, FromRoot, OneChain
<1>3. B = {k \in A : e.nodes[k].depth <= d}
  OBVIOUS
<1>4. Flagged(e, {k \in D : e.nodes[k].depth <= d}) = Cardinality(B)
  BY DEF Flagged
<1>. HIDE DEF A, B, D, a
<1>5. f \in Bijection(A, 0..(a - 1))
  <2>1. f \in [A -> 0..(a - 1)] /\ \A j, k \in A : f[j] = f[k] => j = k
    BY <1>1, <1>2
  <2>2. f \in Injection(A, 0..(a - 1))
    BY <2>1 DEF Injection, IsInjective
  <2>3. 0 \in Int /\ a - 1 \in Int
    BY <1>1
  <2>4. IsFiniteSet(0..(a - 1)) /\ Cardinality(0..(a - 1)) = a
    <3>1. IsFiniteSet(0..(a - 1)) /\ Cardinality(0..(a - 1)) = IF 0 > a - 1 THEN 0 ELSE a - 1 - 0 + 1
      BY <2>3, FS_Interval
    <3>. QED  BY <1>1, <3>1
  <2>. HIDE DEF f
  <2>5. f \in Surjection(A, 0..(a - 1))
    BY <1>1, <2>2, <2>4, FS_Injection
  <2>. QED  BY <2>2, <2>5 DEF Bijection
<1>6. Min({a, d + 1}) = IF a <= d THEN a ELSE d + 1
  <2>. DEFINE m == IF a <= d THEN a ELSE d + 1
  <2>1. m \in {a, d + 1} /\ \A y \in {a, d + 1} : m =< y
    BY <1>1
  <2>2. \A x \in {a, d + 1} : (\A y \in {a, d + 1} : x =< y) => x = m
    BY <1>1
  <2>. HIDE DEF m
  <2>. QED  BY <2>1, <2>2 DEF Min, m
<1>7. CASE a <= d
  <2>1. B = A
    BY <1>1, <1>3, <1>7
  <2>. QED  BY <1>1, <1>4, <1>6, <1>7, <2>1 DEF D, a
<1>8. CASE ~(a <= d)
  <2>. DEFINE g == [k \in B |-> e.nodes[k].depth]
  <2>1. g \in [B -> 0..d] /\ \A j, k \in B : g[j] = g[k] => j = k
    BY <1>1, <1>2, <1>3
  <2>2. ASSUME NEW x \in 0..d PROVE \E k \in B : g[k] = x
    <3>1. x \in 0..(a - 1)
      BY <1>1, <1>8
    <3>2. PICK k \in A : f[k] = x
      BY <1>5, <3>1 DEF Bijection, Surjection
    <3>. QED  BY <1>3, <3>2
  <2>3. g \in Bijection(B, 0..d)
    BY <2>1, <2>2 DEF Bijection, Injection, Surjection, IsInjective
  <2>4. 0 \in Int /\ d \in Int
    OBVIOUS
  <2>5. IsFiniteSet(0..d) /\ Cardinality(0..d) = d + 1
    <3>1. IsFiniteSet(0..d) /\ Cardinality(0..d) = IF 0 > d THEN 0 ELSE d - 0 + 1
      BY <2>4, FS_Interval
    <3>. QED  BY <3>1
  <2>6. IsFiniteSet(B)
    BY <1>1, <1>3, FS_Subset
  <2>. HIDE DEF g
  <2>7. Cardinality(B) = Cardinality(0..d)
    BY <2>3, <2>6, FS_Bijection DEF ExistsBijection
  <2>. QED  BY <1>4, <1>6, <1>8, <2>5, <2>7 DEF D, a
<1>. QED  BY <1>7, <1>8

\* A looser gate leaves what a stricter one leaves.
LEMMA LooserLeavesMore ==
  ASSUME NEW e, Counted(e), NEW s \in Int, NEW t \in Int, t <= s
  PROVE  /\ Cardinality(PruneTree(e, s)) <= Cardinality(PruneTree(e, t))
         /\ GatedAccept(e, s) <= GatedAccept(e, t)
         /\ Cardinality(PruneTree(e, s)) = Cardinality(PruneTree(e, t)) =>
              GatedAccept(e, s) = GatedAccept(e, t)
<1>. DEFINE K == PruneTree(e, s)
            M == PruneTree(e, t)
            F == {k \in K : e.nodes[k].accepted}
            G == {k \in M : e.nodes[k].accepted}
<1>1. s \in Gate /\ t \in Gate
  BY DEF Gate
<1>2. GatedAccept(e, s) = Cardinality(F) /\ GatedAccept(e, t) = Cardinality(G)
  BY <1>1, AcceptIsFlagged DEF Flagged
<1>3. M \in SUBSET DOMAIN e.nodes /\ IsFiniteSet(M) /\ G \in SUBSET DOMAIN e.nodes /\ IsFiniteSet(G)
  BY <1>1, CountStep
<1>4. K \in SUBSET M
  <2>. SUFFICES ASSUME NEW k \in DOMAIN e.nodes, Survives(e.nodes[k], s)
                PROVE  Survives(e.nodes[k], t)
    BY DEF PruneTree
  <2>1. e.nodes[k].cumulative_log_prob \in Int
    BY DEF Counted
  <2>2. s # NegInf
    BY AnalysisAssumption
  <2>. QED  BY <2>1, <2>2 DEF Survives
<1>5. F \in SUBSET G
  BY <1>4
<1>6. (K = M) => F = G
  OBVIOUS
<1>. HIDE DEF K, M, F, G
<1>7. Cardinality(K) <= Cardinality(M) /\ (Cardinality(K) = Cardinality(M) => K = M)
  BY <1>3, <1>4, FS_Subset
<1>8. Cardinality(F) <= Cardinality(G)
  BY <1>3, <1>5, FS_Subset
<1>. QED  BY <1>2, <1>6, <1>7, <1>8 DEF K, M

\* A gated step lists as many nodes as the gate left.
LEMMA GatedLen ==
  ASSUME NEW step \in DraftedStep, NEW g
  PROVE  LET e == Gated(step, g)
             m == Cardinality(PruneTree(step, g))
         IN  m \in Nat /\ Len(e.nodes) = m /\ DOMAIN e.nodes = 1..m
<1>. DEFINE kept == PruneTree(step, g)
            m == Cardinality(kept)
            nodes == Recorded(step.nodes, kept)
            count(i) == Cardinality({j \in 1..(i - 1) : nodes[j].depth = nodes[i].depth})
            regated == [i \in DOMAIN nodes |-> [nodes[i] EXCEPT !.layer_idx = count(i)]]
<1>1. /\ kept \in SUBSET (1..Len(step.nodes)) /\ Len(step.nodes) \in Nat
      /\ DOMAIN Gated(step, g).nodes = 1..m
  BY GatedStep
<1>2. m \in Nat
  <2>. HIDE DEF kept
  <2>. QED  BY <1>1, PlacesFinite
<1>3. Gated(step, g).nodes = regated
  BY DEF Gated, DraftedStep
<1>. HIDE DEF nodes, count
<1>4. DOMAIN regated = DOMAIN nodes
  OBVIOUS
<1>5. DOMAIN nodes = 1..m
  BY <1>1, <1>3, <1>4
<1>. HIDE DEF m
<1>6. regated = [i \in 1..m |-> [nodes[i] EXCEPT !.layer_idx = count(i)]]
  BY <1>5
<1>7. Len(regated) = m
  <2>. DEFINE f == [i \in 1..m |-> [nodes[i] EXCEPT !.layer_idx = count(i)]]
  <2>1. Len(f) = m
    BY <1>2
  <2>. QED  BY <1>6, <2>1
<1>. QED  BY <1>1, <1>2, <1>3, <1>7 DEF m, kept

\* Collected without a gate, a step is counted as it was drafted.
LEMMA UngatedCounted ==
  ASSUME NEW step \in DraftedStep, Measurable(step), FromRoot(step)
  PROVE  Counted(Gated(step, NegInf))
<1>. DEFINE e == Gated(step, NegInf)
            kept == PruneTree(step, NegInf)
            m == Cardinality(kept)
            A == {k \in DOMAIN step.nodes : step.nodes[k].accepted}
<1>1. NegInf \in Gate
  BY DEF Gate
<1>2. kept = DOMAIN step.nodes
  BY DEF PruneTree, Survives
<1>3. /\ kept \in SUBSET (1..Len(step.nodes)) /\ Len(step.nodes) \in Nat
      /\ e.accepted_length = MeasuredAccept(step, NegInf)
      /\ \A i \in 1..m :
           LET b == step.nodes[NodeAt(kept, i)]
           IN  /\ NodeAt(kept, i) \in kept /\ b \in Node
               /\ e.nodes[i].depth = b.depth /\ e.nodes[i].accepted = b.accepted
               /\ e.nodes[i].cumulative_log_prob = b.cumulative_log_prob
  BY GatedStep
<1>4. m \in Nat /\ Len(e.nodes) = m /\ DOMAIN e.nodes = 1..m
  BY GatedLen
<1>5. A \in SUBSET kept /\ {k \in PruneTree(step, NegInf) : step.nodes[k].accepted} = A
  BY <1>2
<1>6. e.accepted_length = Cardinality(A) /\ step.accepted_length = Cardinality(A)
  BY <1>1, <1>3, <1>5, MeasuredIsSurviving DEF Measurable
<1>7. \A i \in 1..m : NodeAt(kept, i) \in A <=> e.nodes[i].accepted
  BY <1>2, <1>3
<1>8. \A i, j \in 1..m : NodeAt(kept, i) = NodeAt(kept, j) => i = j
  <2>. HIDE DEF kept
  <2>1. \A i \in 1..m : Place(kept, NodeAt(kept, i)) = i - 1
    BY <1>3, NodeAtExists
  <2>. QED  BY <1>4, <2>1
<1>9. FromRoot(step) /\ A = {k \in DOMAIN step.nodes : step.nodes[k].accepted}
  OBVIOUS
<1>. HIDE DEF kept, e, m, A
<1>10. Cardinality({i \in 1..m : NodeAt(kept, i) \in A}) = Cardinality(A)
  BY <1>3, <1>5, CountCarried DEF m
<1>11. {i \in DOMAIN e.nodes : e.nodes[i].accepted} = {i \in 1..m : NodeAt(kept, i) \in A}
  BY <1>4, <1>7
<1>12. \A i \in 1..m : e.nodes[i].depth \in Nat /\ e.nodes[i].cumulative_log_prob \in Int
                       /\ e.nodes[i].accepted \in BOOLEAN
  BY <1>3 DEF Node
<1>13. OneChain(e.nodes)
  <2>. SUFFICES ASSUME NEW i \in 1..m, NEW j \in 1..m, e.nodes[i].accepted, e.nodes[j].accepted,
                       e.nodes[i].depth = e.nodes[j].depth
                PROVE  i = j
    BY <1>4 DEF OneChain
  <2>1. /\ NodeAt(kept, i) \in DOMAIN step.nodes /\ NodeAt(kept, j) \in DOMAIN step.nodes
        /\ step.nodes[NodeAt(kept, i)].accepted /\ step.nodes[NodeAt(kept, j)].accepted
        /\ step.nodes[NodeAt(kept, i)].depth = step.nodes[NodeAt(kept, j)].depth
    BY <1>2, <1>3
  <2>. QED  BY <1>8, <1>9, <2>1 DEF FromRoot, OneChain
<1>14. \A i \in 1..m : e.nodes[i].accepted => e.nodes[i].depth < e.accepted_length
  <2>. SUFFICES ASSUME NEW i \in 1..m, e.nodes[i].accepted
                PROVE  e.nodes[i].depth < e.accepted_length
    OBVIOUS
  <2>1. NodeAt(kept, i) \in DOMAIN step.nodes /\ step.nodes[NodeAt(kept, i)].accepted
        /\ e.nodes[i].depth = step.nodes[NodeAt(kept, i)].depth
    BY <1>2, <1>3
  <2>. QED  BY <1>6, <1>9, <2>1 DEF FromRoot
<1>. QED  BY <1>4, <1>6, <1>10, <1>11, <1>12, <1>13, <1>14 DEF Counted, FromRoot, e

\* A run that is gated as it drafts holds and measures what the gate leaves of the
\* ungated run.
LEMMA GatedRun ==
  ASSUME NEW step \in DraftedStep, Measurable(step), FromRoot(step), NEW s \in Gate
  PROVE  LET e == Gated(step, NegInf)
             c == Gated(step, s)
         IN  /\ Len(c.nodes) = Cardinality(PruneTree(e, s))
             /\ c.accepted_length = GatedAccept(e, s)
<1>. DEFINE e == Gated(step, NegInf)
            c == Gated(step, s)
            F == {i \in PruneTree(e, s) : e.nodes[i].accepted}
            G == {k \in PruneTree(step, s) : step.nodes[k].accepted}
<1>1. NegInf \in Gate /\ Stricter(NegInf, s) = s
  BY DEF Gate, Stricter
<1>2. Cardinality(PruneTree(e, s)) = Cardinality(PruneTree(step, s)) /\ Cardinality(F) = Cardinality(G)
  <2>1. LET once == PruneTree(step, Stricter(NegInf, s))
        IN  /\ Cardinality(PruneTree(e, s)) = Cardinality(once)
            /\ Cardinality({i \in PruneTree(e, s) : e.nodes[i].accepted}) =
                 Cardinality({k \in once : step.nodes[k].accepted})
    BY ONLY <1>1, GatedTwice, step \in DraftedStep, s \in Gate
  <2>. QED  BY <1>1, <2>1
<1>3. Len(c.nodes) = Cardinality(PruneTree(step, s))
  BY GatedLen
<1>4. c.accepted_length = MeasuredAccept(step, s)
  BY GatedStep
<1>5. MeasuredAccept(step, s) = Cardinality(G)
  BY MeasuredIsSurviving
<1>6. GatedAccept(e, s) = Cardinality(F)
  BY UngatedCounted, AcceptIsFlagged DEF Flagged
<1>. QED  BY <1>2, <1>3, <1>4, <1>5, <1>6

\* Two sums, the terms of one at most those of the other.
SumsBelow(n, f, g) ==
  /\ SumFunction(f) \in Nat /\ SumFunction(g) \in Nat /\ SumFunction(f) <= SumFunction(g)
  /\ SumFunction(f) = SumFunction(g) <=> \A i \in 1..n : f[i] = g[i]

\* A sum that is two sums.
SumsAdd(f, g, h) ==
  /\ SumFunction(h) = SumFunction(f) + SumFunction(g)
  /\ SumFunction(f) \in Int /\ SumFunction(g) \in Int

\* Sums term by term.
LEMMA TermByTerm ==
  ASSUME NEW n \in Nat, NEW f, NEW g, DOMAIN f = 1..n, DOMAIN g = 1..n,
         \A i \in 1..n : f[i] \in Nat /\ g[i] \in Nat /\ f[i] <= g[i]
  PROVE  SumsBelow(n, f, g)
<1>. DEFINE S == 1..n
            z == [i \in S |-> 0]
<1>1. IsFiniteSet(S)
  <2>1. n \in Int /\ 1 \in Int
    OBVIOUS
  <2>. QED  BY <2>1, FS_Interval
<1>2. SumFunction(f) = SumFunctionOnSet(f, S) /\ SumFunction(g) = SumFunctionOnSet(g, S)
  BY DEF SumFunction
<1>3. \A i \in S : f[i] \in Int /\ g[i] \in Int /\ f[i] <= g[i] /\ z[i] \in Int /\ z[i] <= f[i] /\ z[i] <= g[i] /\ z[i] = 0
  OBVIOUS
<1>4. (\A i \in S : f[i] = g[i]) \/ (\E i \in S : f[i] < g[i])
  OBVIOUS
<1>. HIDE DEF S, z
<1>5. SumFunctionOnSet(f, S) \in Int /\ SumFunctionOnSet(g, S) \in Int
  BY <1>1, <1>3, SumInt
<1>6. SumFunctionOnSet(z, S) = 0
  BY <1>1, <1>3, SumZero
<1>7. SumFunctionOnSet(z, S) <= SumFunctionOnSet(f, S) /\ SumFunctionOnSet(z, S) <= SumFunctionOnSet(g, S)
  BY <1>1, <1>3, SumLess
<1>8. /\ SumFunctionOnSet(f, S) <= SumFunctionOnSet(g, S)
      /\ (\E i \in S : f[i] < g[i]) => SumFunctionOnSet(f, S) < SumFunctionOnSet(g, S)
      /\ (\A i \in S : f[i] = g[i]) => SumFunctionOnSet(f, S) = SumFunctionOnSet(g, S)
  BY <1>1, <1>3, SumLess
<1>. QED  BY <1>2, <1>4, <1>5, <1>6, <1>7, <1>8 DEF S, SumsBelow

\* A sum of sums and of differences.
LEMMA SumOfParts ==
  ASSUME NEW n \in Nat, NEW f, NEW g, NEW h, DOMAIN f = 1..n, DOMAIN g = 1..n, DOMAIN h = 1..n,
         \A i \in 1..n : f[i] \in Int /\ g[i] \in Int /\ h[i] = f[i] + g[i]
  PROVE  SumsAdd(f, g, h)
<1>1. IsFiniteSet(1..n)
  <2>1. n \in Int /\ 1 \in Int
    OBVIOUS
  <2>. QED  BY <2>1, FS_Interval
<1>2. /\ SumFunction(f) = SumFunctionOnSet(f, 1..n) /\ SumFunction(g) = SumFunctionOnSet(g, 1..n)
      /\ SumFunction(h) = SumFunctionOnSet(h, 1..n)
  BY DEF SumFunction
<1>. QED  BY <1>1, <1>2, SumPlus, SumInt DEF SumsAdd

\* A sum of ones counts them.
LEMMA SumCounts ==
  ASSUME NEW n \in Nat, NEW f, DOMAIN f = 1..n, NEW T \in SUBSET (1..n),
         \A i \in 1..n : f[i] = IF i \in T THEN 1 ELSE 0
  PROVE  SumFunction(f) = Cardinality(T)
<1>. DEFINE S == 1..n
            Good == {U \in SUBSET S : SumFunctionOnSet(f, U) = Cardinality(U \cap T)}
<1>1. IsFiniteSet(S) /\ T \in SUBSET S /\ \A i \in S : f[i] \in Int /\ f[i] = IF i \in T THEN 1 ELSE 0
  <2>1. n \in Int /\ 1 \in Int
    OBVIOUS
  <2>. QED  BY <2>1, FS_Interval
<1>2. SumFunction(f) = SumFunctionOnSet(f, S)
  BY DEF SumFunction
<1>. HIDE DEF S
<1>3. {} \in Good
  BY SumEmpty, FS_EmptySet
<1>4. ASSUME NEW U \in SUBSET S, \A x \in U : U \ {x} \in Good
      PROVE  U \in Good
  <2>1. CASE U = {}
    BY <1>3, <2>1
  <2>2. CASE U # {}
    <3>1. PICK x \in U : TRUE
      BY <2>2
    <3>. DEFINE V == U \ {x}
    <3>2. IsFiniteSet(U) /\ IsFiniteSet(V \cap T)
      <4>1. V \cap T \in SUBSET S
        OBVIOUS
      <4>. QED  BY <1>1, <4>1, FS_Subset
    <3>3. SumFunctionOnSet(f, U) = f[x] + SumFunctionOnSet(f, V)
      <4>1. \A y \in U : f[y] \in Int
        BY <1>1
      <4>. QED  BY <3>1, <3>2, <4>1, SumTake
    <3>4. SumFunctionOnSet(f, V) = Cardinality(V \cap T)
      BY <1>4, <3>1
    <3>5. Cardinality(V \cap T) \in Nat
      BY <3>2, FS_CardinalityType
    <3>6. CASE x \in T
      <4>1. U \cap T = (V \cap T) \cup {x} /\ x \notin V \cap T
        BY <3>1, <3>6
      <4>2. Cardinality(U \cap T) = Cardinality(V \cap T) + 1
        BY <3>2, <4>1, FS_AddElement
      <4>. QED  BY <1>1, <3>3, <3>4, <3>5, <3>6, <4>2
    <3>7. CASE x \notin T
      <4>1. U \cap T = V \cap T
        BY <3>7
      <4>2. f[x] = 0 /\ Cardinality(U \cap T) = Cardinality(V \cap T)
        BY <1>1, <3>7, <4>1
      <4>. HIDE DEF V
      <4>. QED  BY <3>3, <3>4, <3>5, <4>2
    <3>. QED  BY <3>6, <3>7
  <2>. QED  BY <2>1, <2>2
<1>5. S \in Good
  <2>. HIDE DEF Good
  <2>. QED  BY <1>1, <1>3, <1>4, SetInduction
<1>6. S \cap T = T
  BY <1>1
<1>. QED  BY <1>2, <1>5, <1>6

\* A trace of such steps.
CountedTrace(trace) ==
  /\ Len(trace) \in Nat /\ DOMAIN trace = 1..Len(trace)
  /\ \A i \in 1..Len(trace) : Counted(trace[i])

\* What a gate leaves of a trace: nodes, accepts, and accepted nodes.
SizeSum(trace, s) == SumFunction([i \in DOMAIN trace |-> Cardinality(PruneTree(trace[i], s))])
AcceptSum(trace, s) == SumFunction([i \in DOMAIN trace |-> GatedAccept(trace[i], s)])
FlagSum(trace, s) ==
  SumFunction([i \in DOMAIN trace |-> Flagged(trace[i], PruneTree(trace[i], s))])

\* The columns of a row of the static sweep.
LEMMA RowColumns ==
  ASSUME NEW trace, NEW s
  PROVE  LET row == StaticRow(trace, s)
         IN  /\ row.sigma = s
             /\ row.mean_tree_size = Ratio(SizeSum(trace, s), Len(trace))
             /\ row.nodes_kept_frac = Ratio(SizeSum(trace, s), Nodes(trace))
             /\ row.discarded_doomed_frac.num =
                  (Nodes(trace) - SizeSum(trace, s)) - (Accepted(trace) - FlagSum(trace, s))
             /\ row.kept_acceptance_density.num = FlagSum(trace, s)
             /\ row.accepted_retained_frac = Ratio(AcceptSum(trace, s), Accepted(trace))
             /\ row.tokens_per_iter = Ratio(AcceptSum(trace, s) + Len(trace), Len(trace))
             /\ row.tokens_per_iter_retained_frac =
                  Ratio(AcceptSum(trace, s) + Len(trace), Accepted(trace) + Len(trace))
BY DEF StaticRow, Total, SizeSum, AcceptSum, FlagSum, WithBonus, Ratio

\* A gate leaves no more than there is.
LEMMA GateLeaves ==
  ASSUME NEW trace, CountedTrace(trace), NEW s \in Gate
  PROVE  /\ SizeSum(trace, s) \in Nat /\ Nodes(trace) \in Nat
         /\ AcceptSum(trace, s) \in Nat /\ Accepted(trace) \in Nat
         /\ FlagSum(trace, s) = AcceptSum(trace, s)
         /\ SizeSum(trace, s) <= Nodes(trace) /\ AcceptSum(trace, s) <= Accepted(trace)
         /\ SizeSum(trace, s) = Nodes(trace) => \A i \in 1..Len(trace) :
              Cardinality(PruneTree(trace[i], s)) = Len(trace[i].nodes)
         /\ AcceptSum(trace, s) = Accepted(trace) => \A i \in 1..Len(trace) :
              GatedAccept(trace[i], s) = trace[i].accepted_length
         /\ SizeSum(trace, s) = 0 => \A i \in 1..Len(trace) :
              Cardinality(PruneTree(trace[i], s)) = 0
<1>. DEFINE n == Len(trace)
            size == [i \in DOMAIN trace |-> Cardinality(PruneTree(trace[i], s))]
            len == [i \in DOMAIN trace |-> Len(trace[i].nodes)]
            acc == [i \in DOMAIN trace |-> GatedAccept(trace[i], s)]
            all == [i \in DOMAIN trace |-> trace[i].accepted_length]
            flag == [i \in DOMAIN trace |-> Flagged(trace[i], PruneTree(trace[i], s))]
            z == [i \in DOMAIN trace |-> 0]
<1>1. n \in Nat /\ DOMAIN trace = 1..n /\ \A i \in 1..n : Counted(trace[i])
  BY DEF CountedTrace
<1>2. \A i \in 1..n : /\ size[i] = Cardinality(PruneTree(trace[i], s)) /\ len[i] = Len(trace[i].nodes)
                      /\ acc[i] = GatedAccept(trace[i], s) /\ all[i] = trace[i].accepted_length
                      /\ flag[i] = Flagged(trace[i], PruneTree(trace[i], s)) /\ z[i] = 0
  BY <1>1
<1>3. /\ DOMAIN size = 1..n /\ DOMAIN len = 1..n /\ DOMAIN acc = 1..n /\ DOMAIN all = 1..n
      /\ DOMAIN flag = 1..n /\ DOMAIN z = 1..n
  BY <1>1
<1>4. /\ SizeSum(trace, s) = SumFunction(size) /\ Nodes(trace) = SumFunction(len)
      /\ AcceptSum(trace, s) = SumFunction(acc) /\ Accepted(trace) = SumFunction(all)
      /\ FlagSum(trace, s) = SumFunction(flag)
  BY DEF SizeSum, Nodes, Total, AcceptSum, Accepted, FlagSum, TreeSize, AcceptedLength
<1>. HIDE DEF n, size, len, acc, all, flag, z
<1>5. ASSUME NEW i \in 1..n
      PROVE  /\ size[i] \in Nat /\ len[i] \in Nat /\ size[i] <= len[i]
             /\ acc[i] \in Nat /\ all[i] \in Nat /\ acc[i] <= all[i]
             /\ flag[i] = acc[i] /\ flag[i] \in Nat /\ flag[i] <= acc[i]
             /\ z[i] = 0 /\ z[i] \in Nat /\ z[i] <= size[i]
  <2>1. Counted(trace[i])
    BY <1>1
  <2>2. /\ Cardinality(PruneTree(trace[i], s)) \in Nat /\ Len(trace[i].nodes) \in Nat
        /\ Cardinality(PruneTree(trace[i], s)) <= Len(trace[i].nodes)
        /\ trace[i].accepted_length \in Nat
    BY <2>1, CountStep DEF Counted
  <2>3. /\ GatedAccept(trace[i], s) = Flagged(trace[i], PruneTree(trace[i], s))
        /\ GatedAccept(trace[i], s) \in Nat /\ GatedAccept(trace[i], s) <= trace[i].accepted_length
    BY <2>1, AcceptIsFlagged
  <2>. QED  BY <1>2, <2>2, <2>3
<1>6. /\ SumFunction(size) \in Nat /\ SumFunction(len) \in Nat /\ SumFunction(size) <= SumFunction(len)
      /\ SumFunction(size) = SumFunction(len) => \A i \in 1..n : size[i] = len[i]
  <2>1. \A i \in 1..n : size[i] \in Nat /\ len[i] \in Nat /\ size[i] <= len[i]
    BY <1>5
  <2>2. SumsBelow(n, size, len)
    BY <1>1, <1>3, <2>1, TermByTerm
  <2>. QED  BY <2>2 DEF SumsBelow
<1>7. /\ SumFunction(acc) \in Nat /\ SumFunction(all) \in Nat /\ SumFunction(acc) <= SumFunction(all)
      /\ SumFunction(acc) = SumFunction(all) => \A i \in 1..n : acc[i] = all[i]
  <2>1. \A i \in 1..n : acc[i] \in Nat /\ all[i] \in Nat /\ acc[i] <= all[i]
    BY <1>5
  <2>2. SumsBelow(n, acc, all)
    BY <1>1, <1>3, <2>1, TermByTerm
  <2>. QED  BY <2>2 DEF SumsBelow
<1>8. SumFunction(flag) = SumFunction(acc)
  <2>1. \A i \in 1..n : flag[i] \in Nat /\ acc[i] \in Nat /\ flag[i] <= acc[i]
    BY <1>5
  <2>2. \A i \in 1..n : flag[i] = acc[i]
    BY <1>5
  <2>3. SumsBelow(n, flag, acc)
    BY <1>1, <1>3, <2>1, TermByTerm
  <2>. QED  BY <2>2, <2>3 DEF SumsBelow
<1>9. SumFunction(z) = SumFunction(size) => \A i \in 1..n : z[i] = size[i]
  <2>1. \A i \in 1..n : z[i] \in Nat /\ size[i] \in Nat /\ z[i] <= size[i]
    BY <1>5
  <2>2. SumsBelow(n, z, size)
    BY <1>1, <1>3, <2>1, TermByTerm
  <2>. QED  BY <2>2 DEF SumsBelow
<1>10. SumFunction(z) = 0
  <2>1. \A i \in 1..n : z[i] = IF i \in {} THEN 1 ELSE 0
    BY <1>5
  <2>2. SumFunction(z) = Cardinality({})
    BY <1>1, <1>3, <2>1, SumCounts
  <2>. QED  BY <2>2, FS_EmptySet
<1>. QED  BY <1>2, <1>4, <1>5, <1>6, <1>7, <1>8, <1>9, <1>10 DEF n

\* A looser gate leaves more of a trace; as many nodes are the same nodes.
LEMMA GatesNest ==
  ASSUME NEW trace, CountedTrace(trace), NEW s \in Int, NEW t \in Int, t <= s
  PROVE  /\ SizeSum(trace, s) <= SizeSum(trace, t)
         /\ AcceptSum(trace, s) <= AcceptSum(trace, t)
         /\ SizeSum(trace, s) = SizeSum(trace, t) => AcceptSum(trace, s) = AcceptSum(trace, t)
<1>. DEFINE n == Len(trace)
            size(r) == [i \in DOMAIN trace |-> Cardinality(PruneTree(trace[i], r))]
            acc(r) == [i \in DOMAIN trace |-> GatedAccept(trace[i], r)]
<1>1. n \in Nat /\ DOMAIN trace = 1..n /\ \A i \in 1..n : Counted(trace[i])
  BY DEF CountedTrace
<1>2. \A r : \A i \in 1..n : size(r)[i] = Cardinality(PruneTree(trace[i], r))
                             /\ acc(r)[i] = GatedAccept(trace[i], r)
  BY <1>1
<1>3. \A r : DOMAIN size(r) = 1..n /\ DOMAIN acc(r) = 1..n
  BY <1>1
<1>4. \A r : SizeSum(trace, r) = SumFunction(size(r)) /\ AcceptSum(trace, r) = SumFunction(acc(r))
  BY DEF SizeSum, AcceptSum
<1>5. s \in Gate /\ t \in Gate
  BY DEF Gate
<1>. HIDE DEF n, size, acc
<1>6. ASSUME NEW i \in 1..n
      PROVE  /\ size(s)[i] \in Nat /\ size(t)[i] \in Nat /\ size(s)[i] <= size(t)[i]
             /\ acc(s)[i] \in Nat /\ acc(t)[i] \in Nat /\ acc(s)[i] <= acc(t)[i]
             /\ size(s)[i] = size(t)[i] => acc(s)[i] = acc(t)[i]
  <2>1. Counted(trace[i])
    BY <1>1
  <2>2. \A r \in Gate : Cardinality(PruneTree(trace[i], r)) \in Nat /\ GatedAccept(trace[i], r) \in Nat
    BY <2>1, CountStep, AcceptIsFlagged
  <2>3. /\ Cardinality(PruneTree(trace[i], s)) <= Cardinality(PruneTree(trace[i], t))
        /\ GatedAccept(trace[i], s) <= GatedAccept(trace[i], t)
        /\ Cardinality(PruneTree(trace[i], s)) = Cardinality(PruneTree(trace[i], t)) =>
              GatedAccept(trace[i], s) = GatedAccept(trace[i], t)
    BY <2>1, LooserLeavesMore
  <2>. QED  BY <1>2, <1>5, <2>2, <2>3
<1>7. SumsBelow(n, size(s), size(t))
  <2>1. \A i \in 1..n : size(s)[i] \in Nat /\ size(t)[i] \in Nat /\ size(s)[i] <= size(t)[i]
    BY <1>6
  <2>. QED  BY <1>1, <1>3, <2>1, TermByTerm
<1>8. SumsBelow(n, acc(s), acc(t))
  <2>1. \A i \in 1..n : acc(s)[i] \in Nat /\ acc(t)[i] \in Nat /\ acc(s)[i] <= acc(t)[i]
    BY <1>6
  <2>. QED  BY <1>1, <1>3, <2>1, TermByTerm
<1>. QED  BY <1>4, <1>6, <1>7, <1>8 DEF SumsBelow

\* What two terms leave of two others, and their sums.
TermsDiffer(n, a, b, c, d, h) ==
  \A i \in 1..n : /\ a[i] \in Int /\ b[i] \in Int /\ c[i] \in Int /\ d[i] \in Int
                  /\ h[i] = (a[i] - b[i]) - (c[i] - d[i])
SumsDiffer(a, b, c, d, h) ==
  SumFunction(h) = (SumFunction(a) - SumFunction(b)) - (SumFunction(c) - SumFunction(d))

\* A sum of differences: a term that is two less two others.
LEMMA SumDiff ==
  ASSUME NEW n \in Nat, NEW a, NEW b, NEW c, NEW d, NEW h,
         DOMAIN a = 1..n, DOMAIN b = 1..n, DOMAIN c = 1..n, DOMAIN d = 1..n, DOMAIN h = 1..n,
         TermsDiffer(n, a, b, c, d, h)
  PROVE  SumsDiffer(a, b, c, d, h)
<1>. DEFINE u == [i \in 1..n |-> h[i] + b[i]]
            v == [i \in 1..n |-> a[i] + d[i]]
<1>1. \A i \in 1..n : /\ h[i] \in Int /\ u[i] = h[i] + b[i] /\ v[i] = a[i] + d[i]
                      /\ u[i] \in Int /\ v[i] = u[i] + c[i]
  BY DEF TermsDiffer
<1>2. DOMAIN u = 1..n /\ DOMAIN v = 1..n
  OBVIOUS
<1>. HIDE DEF u, v
<1>3. SumFunction(u) = SumFunction(h) + SumFunction(b) /\ SumFunction(h) \in Int /\ SumFunction(b) \in Int
  <2>1. \A i \in 1..n : h[i] \in Int /\ b[i] \in Int /\ u[i] = h[i] + b[i]
    BY <1>1 DEF TermsDiffer
  <2>2. SumsAdd(h, b, u)
    BY <1>2, <2>1, SumOfParts
  <2>. QED  BY <2>2 DEF SumsAdd
<1>4. SumFunction(v) = SumFunction(a) + SumFunction(d) /\ SumFunction(a) \in Int /\ SumFunction(d) \in Int
  <2>1. \A i \in 1..n : a[i] \in Int /\ d[i] \in Int /\ v[i] = a[i] + d[i]
    BY <1>1 DEF TermsDiffer
  <2>2. SumsAdd(a, d, v)
    BY <1>2, <2>1, SumOfParts
  <2>. QED  BY <2>2 DEF SumsAdd
<1>5. SumFunction(v) = SumFunction(u) + SumFunction(c) /\ SumFunction(u) \in Int /\ SumFunction(c) \in Int
  <2>1. \A i \in 1..n : u[i] \in Int /\ c[i] \in Int /\ v[i] = u[i] + c[i]
    BY <1>1 DEF TermsDiffer
  <2>2. SumsAdd(u, c, v)
    BY <1>2, <2>1, SumOfParts
  <2>. QED  BY <2>2 DEF SumsAdd
<1>. QED  BY <1>3, <1>4, <1>5 DEF SumsDiffer

\* Every dropped node is doomed, or an accept that was lost.
LEMMA DoomedTotal ==
  ASSUME NEW trace, CountedTrace(trace), NEW s \in Gate
  PROVE  SumFunction([i \in DOMAIN trace |->
           Cardinality({k \in DOMAIN trace[i].nodes :
             ~Survives(trace[i].nodes[k], s) /\ ~trace[i].nodes[k].accepted})])
           = (Nodes(trace) - SizeSum(trace, s)) - (Accepted(trace) - FlagSum(trace, s))
<1>. DEFINE n == Len(trace)
            doomed(e) == {k \in DOMAIN e.nodes : ~Survives(e.nodes[k], s) /\ ~e.nodes[k].accepted}
            size == [i \in DOMAIN trace |-> Cardinality(PruneTree(trace[i], s))]
            len == [i \in DOMAIN trace |-> Len(trace[i].nodes)]
            all == [i \in DOMAIN trace |-> trace[i].accepted_length]
            flag == [i \in DOMAIN trace |-> Flagged(trace[i], PruneTree(trace[i], s))]
            h == [i \in DOMAIN trace |-> Cardinality(doomed(trace[i]))]
<1>1. n \in Nat /\ DOMAIN trace = 1..n /\ \A i \in 1..n : Counted(trace[i])
  BY DEF CountedTrace
<1>2. \A i \in 1..n : /\ size[i] = Cardinality(PruneTree(trace[i], s)) /\ len[i] = Len(trace[i].nodes)
                      /\ all[i] = trace[i].accepted_length /\ h[i] = Cardinality(doomed(trace[i]))
                      /\ flag[i] = Flagged(trace[i], PruneTree(trace[i], s))
  BY <1>1
<1>3. /\ DOMAIN size = 1..n /\ DOMAIN len = 1..n /\ DOMAIN all = 1..n
      /\ DOMAIN flag = 1..n /\ DOMAIN h = 1..n
  BY <1>1
<1>4. /\ SizeSum(trace, s) = SumFunction(size) /\ Nodes(trace) = SumFunction(len)
      /\ Accepted(trace) = SumFunction(all) /\ FlagSum(trace, s) = SumFunction(flag)
  BY DEF SizeSum, Nodes, Total, Accepted, FlagSum, TreeSize, AcceptedLength
<1>. HIDE DEF n, size, len, all, flag, h
<1>5. ASSUME NEW i \in 1..n
      PROVE  /\ len[i] \in Int /\ size[i] \in Int /\ all[i] \in Int /\ flag[i] \in Int
             /\ h[i] = (len[i] - size[i]) - (all[i] - flag[i])
  <2>1. Counted(trace[i])
    BY <1>1
  <2>2. /\ Cardinality(PruneTree(trace[i], s)) \in Nat /\ Len(trace[i].nodes) \in Nat
        /\ trace[i].accepted_length \in Nat /\ Flagged(trace[i], PruneTree(trace[i], s)) \in Nat
    BY <2>1, CountStep, AcceptIsFlagged DEF Counted
  <2>3. Cardinality(doomed(trace[i])) = (Len(trace[i].nodes) - Cardinality(PruneTree(trace[i], s)))
          - (trace[i].accepted_length - Flagged(trace[i], PruneTree(trace[i], s)))
    BY <2>1, DoomedOrLost
  <2>. HIDE DEF doomed
  <2>. QED  BY <1>2, <2>2, <2>3
<1>6. SumsDiffer(len, size, all, flag, h)
  <2>1. TermsDiffer(n, len, size, all, flag, h)
    BY <1>5 DEF TermsDiffer
  <2>. QED  BY <1>1, <1>3, <2>1, SumDiff
<1>. QED  BY <1>4, <1>6 DEF h, SumsDiffer

\* One path has a node on a level at most.
LEMMA FlagsWithinLevels ==
  ASSUME NEW trace, CountedTrace(trace)
  PROVE  LET counted == SumFunction([i \in DOMAIN trace |-> Flagged(trace[i], DOMAIN trace[i].nodes)])
         IN  /\ counted \in Nat /\ Levels(trace) \in Nat
             /\ counted <= Levels(trace) * Len(trace)
<1>. DEFINE n == Len(trace)
            f == [i \in DOMAIN trace |-> Flagged(trace[i], DOMAIN trace[i].nodes)]
            Depths(i) == {trace[i].nodes[k].depth : k \in DOMAIN trace[i].nodes}
            All == UNION {Depths(i) : i \in DOMAIN trace}
            W == {-1} \cup All
            l == Levels(trace)
            g == [i \in 1..n |-> l]
            one == [i \in 1..n |-> 1]
<1>1. n \in Nat /\ DOMAIN trace = 1..n /\ \A i \in 1..n : Counted(trace[i])
  BY DEF CountedTrace
<1>2. n \in Int /\ 1 \in Int
  BY <1>1
<1>3. IsFiniteSet(1..n)
  BY <1>2, FS_Interval
<1>4. ASSUME NEW i \in 1..n
      PROVE  IsFiniteSet(Depths(i)) /\ Depths(i) \in SUBSET Nat
  <2>1. Counted(trace[i]) /\ NegInf \in Gate
    BY <1>1 DEF Gate
  <2>2. IsFiniteSet(DOMAIN trace[i].nodes)
    BY <2>1, CountStep
  <2>. DEFINE D == DOMAIN trace[i].nodes
              q == [k \in D |-> trace[i].nodes[k].depth]
  <2>3. q \in Surjection(D, Depths(i))
    BY DEF Surjection
  <2>4. Depths(i) \in SUBSET Nat
    BY <2>1 DEF Counted
  <2>. HIDE DEF D, q, Depths
  <2>. QED  BY <2>2, <2>3, <2>4, FS_Surjection DEF D
<1>5. IsFiniteSet(W) /\ W \in SUBSET Int /\ -1 \in W
  <2>. DEFINE Q == [i \in 1..n |-> Depths(i)]
              S == {Depths(i) : i \in 1..n}
  <2>1. Q \in Surjection(1..n, S)
    BY DEF Surjection
  <2>2. IsFiniteSet(S)
    <3>. HIDE DEF Q, S
    <3>. QED  BY <1>3, <2>1, FS_Surjection
  <2>3. \A T \in S : IsFiniteSet(T) /\ T \in SUBSET Nat
    BY <1>4
  <2>4. W = {-1} \cup UNION S
    BY <1>1
  <2>. HIDE DEF S, W
  <2>5. IsFiniteSet(UNION S)
    BY <2>2, <2>3, FS_UNION
  <2>6. IsFiniteSet({-1})
    BY FS_Singleton
  <2>7. IsFiniteSet({-1} \cup UNION S)
    BY <2>5, <2>6, FS_Union
  <2>8. UNION S \in SUBSET Nat
    BY <2>3
  <2>. QED  BY <2>4, <2>7, <2>8
<1>6. Levels(trace) = Max(W) + 1
  BY DEF Levels
<1>7. ASSUME NEW i \in 1..n, NEW k \in DOMAIN trace[i].nodes
      PROVE  trace[i].nodes[k].depth \in W
  BY <1>1
<1>. HIDE DEF W
<1>8. Max(W) \in W /\ \A x \in W : Max(W) >= x
  <2>. DEFINE Good == {T \in SUBSET W : T # {} => \E m \in T : \A x \in T : m >= x}
  <2>1. {} \in Good
    OBVIOUS
  <2>2. ASSUME NEW T \in SUBSET W, \A x \in T : T \ {x} \in Good
        PROVE  T \in Good
    <3>. SUFFICES ASSUME NEW y \in T PROVE \E m \in T : \A x \in T : m >= x
      OBVIOUS
    <3>1. \A x \in T : x \in Int
      BY <1>5
    <3>2. CASE T \ {y} = {}
      BY <3>1, <3>2
    <3>3. CASE T \ {y} # {}
      <4>1. PICK m \in T \ {y} : \A x \in T \ {y} : m >= x
        BY <2>2, <3>3
      <4>2. CASE m >= y
        BY <4>1, <4>2
      <4>3. CASE ~(m >= y)
        <5>1. \A x \in T : y >= x
          BY <3>1, <4>1, <4>3
        <5>. QED  BY <5>1
      <4>. QED  BY <4>2, <4>3
    <3>. QED  BY <3>2, <3>3
  <2>3. W \in Good
    <3>. HIDE DEF Good
    <3>. QED  BY <1>5, <2>1, <2>2, SetInduction
  <2>4. \E m \in W : \A x \in W : m >= x
    BY <1>5, <2>3
  <2>. QED  BY <2>4 DEF Max
<1>9. l \in Nat /\ \A x \in W : x < l
  <2>1. \A x \in W : x \in Int
    BY <1>5
  <2>2. PICK m \in W : m = Max(W)
    BY <1>8
  <2>3. m \in Int /\ m >= -1 /\ (\A x \in W : m >= x) /\ l = m + 1
    BY <1>5, <1>6, <1>8, <2>1, <2>2
  <2>. HIDE DEF l
  <2>. QED  BY <2>1, <2>3
<1>. HIDE DEF l
<1>10. ASSUME NEW i \in 1..n
       PROVE  f[i] \in Nat /\ f[i] <= l
  <2>. DEFINE e == trace[i]
              T == 0..(l - 1)
              A == {k \in DOMAIN e.nodes : e.nodes[k].accepted}
              p == [k \in A |-> e.nodes[k].depth]
  <2>1. Counted(e) /\ NegInf \in Gate
    BY <1>1 DEF Gate
  <2>2. f[i] = Cardinality(A)
    BY <1>1 DEF Flagged
  <2>3. A \in SUBSET (DOMAIN e.nodes)
    OBVIOUS
  <2>4. IsFiniteSet(A) /\ Cardinality(A) \in Nat
    BY <2>1, <2>3, CountStep
  <2>5. p \in [A -> T]
    <3>. SUFFICES ASSUME NEW k \in A PROVE e.nodes[k].depth \in 0..(l - 1)
      OBVIOUS
    <3>1. e.nodes[k].depth \in Nat /\ e.nodes[k].depth \in W
      BY <1>7, <2>1 DEF Counted
    <3>. QED  BY <1>9, <3>1
  <2>6. \A j, k \in A : p[j] = p[k] => j = k
    BY <2>1 DEF Counted, FromRoot, OneChain
  <2>7. IsFiniteSet(T) /\ Cardinality(T) = l
    <3>1. 0 \in Int /\ l - 1 \in Int
      BY <1>9
    <3>2. IsFiniteSet(0..(l - 1)) /\ Cardinality(0..(l - 1)) = IF 0 > l - 1 THEN 0 ELSE l - 1 - 0 + 1
      BY <3>1, FS_Interval
    <3>. QED  BY <1>9, <3>2
  <2>. HIDE DEF A, T, p, f
  <2>8. Cardinality(A) <= l
    BY <1>9, <2>4, <2>5, <2>6, <2>7, FS_PigeonHole
  <2>. QED  BY <2>2, <2>4, <2>8
<1>11. DOMAIN f = 1..n /\ DOMAIN g = 1..n /\ DOMAIN one = 1..n
       /\ \A i \in 1..n : g[i] = l /\ one[i] = 1
  BY <1>1
<1>. HIDE DEF f, g, one
<1>12. SumsBelow(n, f, g)
  <2>1. \A i \in 1..n : f[i] \in Nat /\ g[i] \in Nat /\ f[i] <= g[i]
    BY <1>9, <1>10, <1>11
  <2>. QED  BY <1>1, <1>11, <2>1, TermByTerm
<1>13. SumFunction(g) = l * n
  <2>1. \A i \in 1..n : one[i] = IF i \in 1..n THEN 1 ELSE 0
    BY <1>11
  <2>2. SumFunction(one) = Cardinality(1..n)
    BY <1>1, <1>11, <2>1, SumCounts
  <2>3. Cardinality(1..n) = n
    <3>1. Cardinality(1..n) = IF 1 > n THEN 0 ELSE n - 1 + 1
      BY <1>2, FS_Interval
    <3>. QED  BY <1>1, <3>1
  <2>4. l \in Int /\ \A i \in 1..n : one[i] \in Int /\ g[i] = l * one[i]
    BY <1>9, <1>11
  <2>5. SumFunctionOnSet(g, 1..n) = l * SumFunctionOnSet(one, 1..n)
    BY <1>3, <2>4, SumTimes
  <2>. QED  BY <1>11, <2>2, <2>3, <2>5 DEF SumFunction
<1>. QED  BY <1>9, <1>12, <1>13 DEF SumsBelow, f, n, l

\* What analyse() makes of the trace.
AnalysisOf ==
  IF DividesByZero(eagle, CausalSweep, FixedBudget(eagle)) THEN [outcome |-> "ZeroDivisionError"]
  ELSE [outcome |-> "written", fixed_budget |-> FixedBudget(eagle),
        static_sweep |-> StaticSweep(eagle), causal_sweep |-> CausalSweep,
        agreement |-> Agreement(StaticSweep(eagle), CausalSweep, FixedBudget(eagle)),
        signal_value |-> SignalValue(eagle, StaticSweep(eagle))]

\* It is made of an ungated trace, and never changes.
AnalysisInv ==
  analysis # [outcome |-> "none"] => gate = NegInf /\ analysis = AnalysisOf

\* The trace and its analysis stay as they are.
LEMMA AnalysisInvNext == AnalysisInv /\ [AnalysisNext]_<<vars, analysis>> => AnalysisInv'
<1>. SUFFICES ASSUME AnalysisInv, [AnalysisNext]_<<vars, analysis>> PROVE AnalysisInv'
  OBVIOUS
<1>1. drafted' = drafted /\ gate' = gate
  BY DEF AnalysisNext, Analyse, Next, ArStep, CapimStep, LpSpecStep, EndCall, Written, vars, input
<1>2. AnalysisOf' = AnalysisOf
  <2>1. eagle' = eagle
    BY <1>1 DEF eagle
  <2>2. CausalSweep' = CausalSweep
    BY <1>1 DEF CausalSweep
  <2>. QED  BY <2>1, <2>2 DEF AnalysisOf
<1>3. CASE UNCHANGED analysis
  BY <1>1, <1>2, <1>3 DEF AnalysisInv
<1>4. CASE Analyse
  <2>1. gate = NegInf /\ analysis' = AnalysisOf
    BY <1>4 DEF Analyse, AnalysisOf
  <2>. QED  BY <1>1, <1>2, <2>1 DEF AnalysisInv
<1>. QED  BY <1>3, <1>4 DEF AnalysisNext

\* The analysis takes nothing from the replays: they are those of Spec.
LEMMA AnalysisSafe == AnalysisSpec => [](ReplayInv /\ AnalysisInv)
<1>1. AnalysisInit => Init /\ AnalysisInv
  BY DEF AnalysisInit, AnalysisInv
<1>2. [AnalysisNext]_<<vars, analysis>> => [Next]_vars
  BY DEF AnalysisNext, Analyse
<1>3. AnalysisSpec => Spec
  BY <1>1, <1>2, PTL DEF AnalysisSpec, Spec
<1>4. AnalysisSpec => []AnalysisInv
  BY <1>1, AnalysisInvNext, PTL DEF AnalysisSpec
<1>. QED  BY <1>3, <1>4, ReplaySafe, PTL

\* The ungated run: its trace holds the drafts, every one counted.
LEMMA UngatedTrace ==
  ASSUME InputSound, gate = NegInf
  PROVE  /\ CountedTrace(eagle) /\ Len(eagle) = Len(drafted)
         /\ DOMAIN drafted = 1..Len(eagle) /\ DOMAIN eagle = 1..Len(eagle)
         /\ \A i \in 1..Len(eagle) :
              /\ drafted[i] \in DraftedStep /\ Measurable(drafted[i]) /\ FromRoot(drafted[i])
              /\ eagle[i] = Gated(drafted[i], NegInf)
<1>1. /\ Len(drafted) \in Nat /\ DOMAIN drafted = 1..Len(drafted)
      /\ Len(eagle) = Len(drafted) /\ DOMAIN eagle = 1..Len(drafted)
  BY TracesLong
<1>2. \A i \in 1..Len(drafted) :
        drafted[i] \in DraftedStep /\ Measurable(drafted[i]) /\ FromRoot(drafted[i])
  BY DEF InputSound
<1>3. \A i \in 1..Len(drafted) : eagle[i] = Gated(drafted[i], NegInf)
  BY <1>1 DEF eagle
<1>. QED  BY <1>1, <1>2, <1>3, UngatedCounted DEF CountedTrace

\* What a finished analysis holds.
LEMMA AnalysedIs ==
  ASSUME ReplayInv, AnalysisInv, Analysed
  PROVE  /\ InputSound /\ gate = NegInf /\ CountedTrace(eagle)
         /\ ~DividesByZero(eagle, CausalSweep, FixedBudget(eagle))
         /\ analysis.fixed_budget = FixedBudget(eagle)
         /\ analysis.static_sweep = StaticSweep(eagle)
         /\ analysis.agreement = Agreement(StaticSweep(eagle), CausalSweep, FixedBudget(eagle))
         /\ analysis.signal_value = SignalValue(eagle, StaticSweep(eagle))
<1>1. InputSound
  BY DEF ReplayInv
<1>2. analysis # [outcome |-> "none"]
  BY DEF Analysed
<1>3. gate = NegInf /\ analysis = AnalysisOf
  BY <1>2 DEF AnalysisInv
<1>4. ~DividesByZero(eagle, CausalSweep, FixedBudget(eagle))
  BY <1>3 DEF Analysed, AnalysisOf
<1>5. analysis = [outcome |-> "written", fixed_budget |-> FixedBudget(eagle),
        static_sweep |-> StaticSweep(eagle), causal_sweep |-> CausalSweep,
        agreement |-> Agreement(StaticSweep(eagle), CausalSweep, FixedBudget(eagle)),
        signal_value |-> SignalValue(eagle, StaticSweep(eagle))]
  BY <1>3, <1>4 DEF AnalysisOf
<1>6. /\ analysis.fixed_budget = FixedBudget(eagle)
      /\ analysis.static_sweep = StaticSweep(eagle)
      /\ analysis.agreement = Agreement(StaticSweep(eagle), CausalSweep, FixedBudget(eagle))
      /\ analysis.signal_value = SignalValue(eagle, StaticSweep(eagle))
  BY ONLY <1>5
<1>. QED  BY <1>1, <1>3, <1>4, <1>6, UngatedTrace

\* A run gated as it drafts, in totals: what the sweep predicts.
LEMMA CausalIs ==
  ASSUME InputSound, gate = NegInf, NEW s \in CausalSigmas
  PROVE  CausalSweep[s] =
           [mean_tree_size |-> Ratio(SizeSum(eagle, s), Len(eagle)),
            tokens_per_iter |-> Ratio(AcceptSum(eagle, s) + Len(eagle), Len(eagle))]
<1>. DEFINE n == Len(eagle)
            run == [i \in DOMAIN drafted |-> Gated(drafted[i], s)]
<1>1. s \in Gate
  BY AnalysisAssumption DEF Gate
<1>2. /\ n \in Nat /\ DOMAIN drafted = 1..n /\ DOMAIN eagle = 1..n
      /\ \A i \in 1..n :
           /\ drafted[i] \in DraftedStep /\ Measurable(drafted[i]) /\ FromRoot(drafted[i])
           /\ eagle[i] = Gated(drafted[i], NegInf)
  BY UngatedTrace DEF CountedTrace
<1>3. DOMAIN run = 1..n /\ \A i \in 1..n : run[i] = Gated(drafted[i], s)
  BY <1>2
<1>4. Len(run) = n
  <2>. HIDE DEF n
  <2>1. run = [i \in 1..n |-> Gated(drafted[i], s)]
    BY <1>2
  <2>. QED  BY <1>2, <2>1
<1>5. \A i \in 1..n : /\ Len(run[i].nodes) = Cardinality(PruneTree(eagle[i], s))
                      /\ run[i].accepted_length = GatedAccept(eagle[i], s)
  BY <1>1, <1>2, <1>3, GatedRun
<1>6. Nodes(run) = SizeSum(eagle, s)
  <2>1. [i \in DOMAIN run |-> Len(run[i].nodes)]
          = [i \in DOMAIN eagle |-> Cardinality(PruneTree(eagle[i], s))]
    BY <1>2, <1>3, <1>5
  <2>. HIDE DEF run
  <2>. QED  BY <2>1 DEF Nodes, Total, TreeSize, SizeSum
<1>7. Accepted(run) = AcceptSum(eagle, s)
  <2>1. [i \in DOMAIN run |-> run[i].accepted_length]
          = [i \in DOMAIN eagle |-> GatedAccept(eagle[i], s)]
    BY <1>2, <1>3, <1>5
  <2>. HIDE DEF run
  <2>. QED  BY <2>1 DEF Accepted, Total, AcceptedLength, AcceptSum
<1>8. CausalSweep[s] = CausalRow(run)
  BY DEF CausalSweep
<1>. HIDE DEF run, n
<1>9. CausalRow(run) = [mean_tree_size |-> Ratio(Nodes(run), Len(run)),
                        tokens_per_iter |-> Ratio(Accepted(run) + Len(run), Len(run))]
  BY DEF CausalRow, WithBonus
<1>. QED  BY <1>4, <1>6, <1>7, <1>8, <1>9 DEF n

\* A row of the sweep beside the replay at its gate.
LEMMA RowIsReplay ==
  ASSUME ReplayInv, gate = NegInf, NEW c \in CallsOf("capim"), NEW s \in Int,
         records[c].cfg.sigma_th = s
  PROVE  LET emitted(step) == step.tokens
             verified(step) == step.verify.m
             empty == {i \in DOMAIN eagle : PruneTree(eagle[i], s) = {}}
         IN  /\ AcceptSum(eagle, s) + Len(eagle) = Total(records[c].steps, emitted)
             /\ SizeSum(eagle, s) = Total(records[c].steps, verified) - Cardinality(empty)
<1>. DEFINE n == Len(eagle)
            cfg == records[c].cfg
            steps == records[c].steps
            empty == {i \in DOMAIN eagle : PruneTree(eagle[i], s) = {}}
            acc == [i \in DOMAIN eagle |-> GatedAccept(eagle[i], s)]
            size == [i \in DOMAIN eagle |-> Cardinality(PruneTree(eagle[i], s))]
            one == [i \in 1..n |-> 1]
            mark == [i \in 1..n |-> IF i \in empty THEN 1 ELSE 0]
            tok == [i \in DOMAIN steps |-> steps[i].tokens]
            ver == [i \in DOMAIN steps |-> steps[i].verify.m]
<1>1. InputSound /\ CountedTrace(eagle) /\ n \in Nat /\ DOMAIN eagle = 1..n
      /\ \A i \in 1..n : Counted(eagle[i])
  BY UngatedTrace DEF ReplayInv, CountedTrace
<1>2. s \in Gate
  BY DEF Gate
<1>3. c \in 1..Len(records) /\ cfg.driver = "capim" /\ cfg.sigma_th = s
  BY LenProperties DEF CallsOf, ReplayInv, Finished
<1>4. TraceOf(cfg) = eagle
  BY <1>3 DEF TraceOf
<1>5. DOMAIN steps = 1..n /\ \A i \in 1..n : StepDone(cfg, i, steps[i])
  BY <1>3, <1>4 DEF ReplayInv, Finished
<1>6. ASSUME NEW i \in 1..n
      PROVE  /\ steps[i].tokens = GatedAccept(eagle[i], s) + 1
             /\ steps[i].verify.m = AtLeastOne(Cardinality(PruneTree(eagle[i], s)))
  <2>1. steps[i].verify = Verify(eagle[i], cfg) /\ steps[i].tokens = Tokens(eagle[i], cfg)
    BY <1>3, <1>5 DEF StepDone
  <2>2. Tokens(eagle[i], cfg) = GatedAccept(eagle[i], s) + 1
    BY <1>3 DEF Tokens
  <2>3. Verify(eagle[i], cfg).m = AtLeastOne(Cardinality(PruneTree(eagle[i], s)))
    BY <1>3 DEF Verify, Mu
  <2>. QED  BY <2>1, <2>2, <2>3
<1>7. ASSUME NEW i \in 1..n
      PROVE  /\ GatedAccept(eagle[i], s) \in Nat /\ Cardinality(PruneTree(eagle[i], s)) \in Nat
             /\ PruneTree(eagle[i], s) = {} <=> Cardinality(PruneTree(eagle[i], s)) = 0
  <2>1. Counted(eagle[i])
    BY <1>1
  <2>2. PruneTree(eagle[i], s) \in SUBSET (DOMAIN eagle[i].nodes)
    BY <1>2, <2>1, CountStep
  <2>3. IsFiniteSet(PruneTree(eagle[i], s)) /\ Cardinality(PruneTree(eagle[i], s)) \in Nat
    BY <1>2, <2>1, <2>2, CountStep
  <2>4. PruneTree(eagle[i], s) = {} <=> Cardinality(PruneTree(eagle[i], s)) = 0
    BY <2>3, FS_EmptySet
  <2>5. GatedAccept(eagle[i], s) \in Nat
    BY <1>2, <2>1, AcceptIsFlagged
  <2>. QED  BY <2>3, <2>4, <2>5
<1>8. /\ DOMAIN acc = 1..n /\ DOMAIN size = 1..n /\ DOMAIN one = 1..n /\ DOMAIN mark = 1..n
      /\ DOMAIN tok = 1..n /\ DOMAIN ver = 1..n
  BY <1>1, <1>5
<1>9. \A i \in 1..n : /\ acc[i] = GatedAccept(eagle[i], s) /\ one[i] = 1
                      /\ size[i] = Cardinality(PruneTree(eagle[i], s))
                      /\ mark[i] = IF PruneTree(eagle[i], s) = {} THEN 1 ELSE 0
                      /\ tok[i] = steps[i].tokens /\ ver[i] = steps[i].verify.m
                      /\ one[i] = (IF i \in 1..n THEN 1 ELSE 0)
                      /\ mark[i] = (IF i \in empty THEN 1 ELSE 0)
  BY <1>1, <1>5
<1>10. empty \in SUBSET (1..n)
  BY <1>1
<1>11. /\ AcceptSum(eagle, s) = SumFunction(acc) /\ SizeSum(eagle, s) = SumFunction(size)
  BY DEF AcceptSum, SizeSum
<1>12. LET emitted(step) == step.tokens
           verified(step) == step.verify.m
       IN  /\ Total(records[c].steps, emitted) = SumFunction(tok)
           /\ Total(records[c].steps, verified) = SumFunction(ver)
  BY DEF Total
<1>. HIDE DEF n, steps, acc, size, one, mark, tok, ver, empty
<1>13. SumFunction(one) = n
  <2>1. SumFunction(one) = Cardinality(1..n)
    BY <1>1, <1>8, <1>9, SumCounts
  <2>2. n \in Int /\ 1 \in Int
    BY <1>1
  <2>3. Cardinality(1..n) = IF 1 > n THEN 0 ELSE n - 1 + 1
    BY <2>2, FS_Interval
  <2>. QED  BY <1>1, <2>1, <2>3
<1>14. SumFunction(mark) = Cardinality(empty)
  BY <1>1, <1>8, <1>9, <1>10, SumCounts
<1>15. SumsAdd(acc, one, tok)
  <2>1. \A i \in 1..n : acc[i] \in Int /\ one[i] \in Int /\ tok[i] = acc[i] + one[i]
    BY <1>6, <1>7, <1>9
  <2>. QED  BY <1>1, <1>8, <2>1, SumOfParts
<1>16. SumsAdd(size, mark, ver)
  <2>1. \A i \in 1..n : size[i] \in Int /\ mark[i] \in Int /\ ver[i] = size[i] + mark[i]
    <3>. SUFFICES ASSUME NEW i \in 1..n
                  PROVE  size[i] \in Int /\ mark[i] \in Int /\ ver[i] = size[i] + mark[i]
      OBVIOUS
    <3>. DEFINE k == Cardinality(PruneTree(eagle[i], s))
    <3>1. k \in Nat /\ size[i] = k /\ ver[i] = AtLeastOne(k) /\ mark[i] = IF k = 0 THEN 1 ELSE 0
      BY <1>6, <1>7, <1>9
    <3>. HIDE DEF k
    <3>. QED  BY <3>1 DEF AtLeastOne
  <2>. QED  BY <1>1, <1>8, <2>1, SumOfParts
<1>17. /\ SumFunction(acc) + n = SumFunction(tok)
       /\ SumFunction(size) = SumFunction(ver) - Cardinality(empty)
  BY <1>13, <1>14, <1>15, <1>16 DEF SumsAdd
<1>. QED  BY <1>11, <1>12, <1>17 DEF n, empty

\* The gated run measures what the sweep predicts, where both exist.
LEMMA RowsAgree ==
  ASSUME InputSound, gate = NegInf, CountedTrace(eagle),
         NEW row \in Agreement(StaticSweep(eagle), CausalSweep, FixedBudget(eagle))
  PROVE  /\ Same(row.static_predicted_retention, row.causal_measured_retention)
         /\ Same(row.static_mu, row.causal_mu)
<1>. DEFINE rows == StaticSweep(eagle)
            causal == CausalSweep
            fb == FixedBudget(eagle)
            n == Len(eagle)
<1>1. PICK r \in DOMAIN rows :
        /\ rows[r].sigma \in CausalSigmas
        /\ row = [sigma |-> rows[r].sigma,
                  static_predicted_retention |-> rows[r].tokens_per_iter_retained_frac,
                  causal_measured_retention |->
                    Ratio(causal[rows[r].sigma].tokens_per_iter.num * fb.tokens_per_iter.den,
                          causal[rows[r].sigma].tokens_per_iter.den * fb.tokens_per_iter.num),
                  static_mu |-> rows[r].mean_tree_size,
                  causal_mu |-> causal[rows[r].sigma].mean_tree_size]
  <2>. HIDE DEF rows, causal, fb
  <2>1. row \in Agreement(rows, causal, fb)
    BY DEF rows, causal, fb
  <2>. QED  BY <2>1 DEF Agreement
<1>. DEFINE s == SweepSigmas[r]
            A == AcceptSum(eagle, s)
            S == SizeSum(eagle, s)
            T == Accepted(eagle)
<1>2. r \in DOMAIN SweepSigmas /\ rows[r] = StaticRow(eagle, s)
  BY DEF StaticSweep
<1>3. /\ rows[r].sigma = s /\ rows[r].mean_tree_size = Ratio(S, n)
      /\ rows[r].tokens_per_iter_retained_frac = Ratio(A + n, T + n)
  <2>. HIDE DEF rows, s
  <2>. QED  BY <1>2, RowColumns
<1>4. s \in CausalSigmas /\ s \in Gate
  BY <1>1, <1>3, AnalysisAssumption DEF Gate
<1>5. causal[s] = [mean_tree_size |-> Ratio(S, n), tokens_per_iter |-> Ratio(A + n, n)]
  BY <1>4, CausalIs
<1>6. fb.tokens_per_iter = Ratio(T + n, n)
  BY DEF FixedBudget, WithBonus
<1>7. A \in Nat /\ S \in Nat /\ T \in Nat /\ n \in Nat
  BY <1>4, GateLeaves DEF CountedTrace
<1>. HIDE DEF rows, causal, fb, s, A, S, T, n
<1>8. /\ row.static_predicted_retention = Ratio(A + n, T + n)
      /\ row.causal_measured_retention = Ratio((A + n) * n, n * (T + n))
      /\ row.static_mu = Ratio(S, n) /\ row.causal_mu = Ratio(S, n)
  BY <1>1, <1>3, <1>5, <1>6 DEF Ratio
<1>9. A + n \in Nat /\ T + n \in Nat
  BY <1>7
<1>10. \A x, y \in Nat : x * (n * y) = (x * n) * y /\ (x * n) * y \in Nat /\ x * n \in Nat
  BY <1>7
<1>11. Same(Ratio(A + n, T + n), Ratio((A + n) * n, n * (T + n)))
  <2>1. \A x \in Nat : x <= x
    OBVIOUS
  <2>2. (A + n) * (n * (T + n)) = ((A + n) * n) * (T + n) /\ ((A + n) * n) * (T + n) \in Nat
    BY <1>9, <1>10
  <2>. QED  BY <2>1, <2>2 DEF Same, AtMost, Ratio
<1>12. Same(Ratio(S, n), Ratio(S, n))
  <2>1. S * n \in Nat
    BY <1>7, <1>10
  <2>. QED  BY <2>1 DEF Same, AtMost, Ratio
<1>. QED  BY <1>8, <1>11, <1>12

\* A row of the static sweep is CAPIM's replay at its gate; a run gated as it
\* drafts the same trees measures what the sweep predicts.
THEOREM SweepStandsForReplay == AnalysisSpec => []SweepIsReplay
<1>1. ReplayInv /\ AnalysisInv => SweepIsReplay
  <2>. SUFFICES ASSUME ReplayInv, AnalysisInv, Analysed PROVE SweepIsReplay
    BY DEF SweepIsReplay
  <2>1. /\ InputSound /\ gate = NegInf /\ CountedTrace(eagle)
        /\ analysis.static_sweep = StaticSweep(eagle)
        /\ analysis.agreement = Agreement(StaticSweep(eagle), CausalSweep, FixedBudget(eagle))
    BY AnalysedIs
  <2>2. ASSUME NEW r \in DOMAIN SweepSigmas, NEW c \in CallsOf("capim"),
               records[c].cfg.sigma_th = SweepSigmas[r]
        PROVE  LET row == analysis.static_sweep[r]
                   emitted(step) == step.tokens
                   verified(step) == step.verify.m
                   empty == {i \in DOMAIN eagle : PruneTree(eagle[i], SweepSigmas[r]) = {}}
               IN  /\ row.tokens_per_iter.num = Total(records[c].steps, emitted)
                   /\ row.mean_tree_size.num = Total(records[c].steps, verified) - Cardinality(empty)
    <3>. DEFINE s == SweepSigmas[r]
                row == analysis.static_sweep[r]
    <3>1. s \in Int
      BY AnalysisAssumption
    <3>2. row = StaticRow(eagle, s)
      BY <2>1 DEF StaticSweep
    <3>. HIDE DEF row
    <3>3. /\ row.mean_tree_size = Ratio(SizeSum(eagle, s), Len(eagle))
          /\ row.tokens_per_iter = Ratio(AcceptSum(eagle, s) + Len(eagle), Len(eagle))
      <4>. HIDE DEF s
      <4>. QED  BY <3>2, RowColumns
    <3>4. /\ row.tokens_per_iter.num = AcceptSum(eagle, s) + Len(eagle)
          /\ row.mean_tree_size.num = SizeSum(eagle, s)
      BY <3>3 DEF Ratio
    <3>. QED  BY <2>1, <2>2, <3>1, <3>4, RowIsReplay DEF row
  <2>3. ASSUME NEW row \in analysis.agreement
        PROVE  /\ Same(row.static_predicted_retention, row.causal_measured_retention)
               /\ Same(row.static_mu, row.causal_mu)
    BY <2>1, RowsAgree
  <2>. QED  BY <2>2, <2>3 DEF SweepIsReplay
<1>. QED  BY <1>1, AnalysisSafe, PTL

\* What a cut at a depth leaves of a trace: nodes and accepts.
CutSize(trace, d) ==
  SumFunction([i \in DOMAIN trace |->
    Cardinality({k \in DOMAIN trace[i].nodes : trace[i].nodes[k].depth <= d})])
CutAccept(trace, d) ==
  SumFunction([i \in DOMAIN trace |-> Min({trace[i].accepted_length, d + 1})])

\* The columns of the comparison at a depth.
LEMMA SignalColumns ==
  ASSUME NEW trace, NEW rows, NEW d \in MaxDepths
  PROVE  LET signal == SignalValue(trace, rows)[d]
             conf == Interp(CutSize(trace, d),
                        [r \in DOMAIN rows |-> rows[r].nodes_kept_frac.num],
                        [r \in DOMAIN rows |-> rows[r].accepted_retained_frac.num])
         IN  /\ signal.budget_nodes_frac = Ratio(CutSize(trace, d), Nodes(trace))
             /\ signal.depth_retention = Ratio(CutAccept(trace, d), Accepted(trace))
             /\ signal.confidence_retention = Ratio(conf.num, conf.den * Accepted(trace))
<1>. DEFINE cut == DepthTruncation(trace, d)
<1>1. /\ cut.nodes_kept_frac = Ratio(CutSize(trace, d), Nodes(trace))
      /\ cut.accepted_retained_frac = Ratio(CutAccept(trace, d), Accepted(trace))
  BY DEF DepthTruncation, Total, CutSize, CutAccept
<1>2. cut.nodes_kept_frac.num = CutSize(trace, d)
  BY <1>1 DEF Ratio
<1>. HIDE DEF cut
<1>3. SignalValue(trace, rows)[d] =
        LET conf == Interp(cut.nodes_kept_frac.num,
                        [r \in DOMAIN rows |-> rows[r].nodes_kept_frac.num],
                        [r \in DOMAIN rows |-> rows[r].accepted_retained_frac.num])
        IN  [budget_nodes_frac |-> cut.nodes_kept_frac,
             depth_retention |-> cut.accepted_retained_frac,
             confidence_retention |-> Ratio(conf.num, conf.den * Accepted(trace))]
  BY DEF SignalValue, cut
<1>. QED  BY <1>1, <1>2, <1>3

\* A depth cut keeps the accepted nodes above it.
LEMMA DepthTotal ==
  ASSUME NEW trace, CountedTrace(trace), NEW d \in Nat
  PROVE  CutAccept(trace, d) =
           SumFunction([i \in DOMAIN trace |->
             Flagged(trace[i], {k \in DOMAIN trace[i].nodes : trace[i].nodes[k].depth <= d})])
<1>1. \A i \in DOMAIN trace : Counted(trace[i])
  BY DEF CountedTrace
<1>2. \A i \in DOMAIN trace :
        Flagged(trace[i], {k \in DOMAIN trace[i].nodes : trace[i].nodes[k].depth <= d})
          = Min({trace[i].accepted_length, d + 1})
  BY <1>1, DepthCut
<1>. QED  BY <1>2 DEF CutAccept

\* Nothing unguarded divides by zero but where there is nothing to show.
LEMMA NothingToShow ==
  ASSUME InputSound, gate = NegInf, DividesByZero(eagle, CausalSweep, FixedBudget(eagle))
  PROVE  \/ Accepted(eagle) = 0
         \/ \A i \in DOMAIN eagle : PruneTree(eagle[i], SigmaOp) = {}
         \/ \A i \in DOMAIN eagle : \A k \in DOMAIN eagle[i].nodes :
              eagle[i].nodes[k].accepted => Survives(eagle[i].nodes[k], SigmaOp)
<1>. DEFINE s == SigmaOp
            n == Len(eagle)
            S == SizeSum(eagle, s)
            N == Nodes(eagle)
            A == AcceptSum(eagle, s)
            T == Accepted(eagle)
            fb == FixedBudget(eagle)
            op == CausalSweep[s]
            Empty == \A i \in DOMAIN eagle : PruneTree(eagle[i], s) = {}
            Keeps == \A i \in DOMAIN eagle : \A k \in DOMAIN eagle[i].nodes :
                       eagle[i].nodes[k].accepted => Survives(eagle[i].nodes[k], s)
<1>1. s \in CausalSigmas /\ s \in Gate
  BY AnalysisAssumption DEF Gate
<1>2. CountedTrace(eagle) /\ n \in Nat /\ DOMAIN eagle = 1..n /\ \A i \in 1..n : Counted(eagle[i])
  BY UngatedTrace DEF CountedTrace
<1>3. op = [mean_tree_size |-> Ratio(S, n), tokens_per_iter |-> Ratio(A + n, n)]
  BY <1>1, CausalIs
<1>4. fb.mean_tree_size = Ratio(N, n) /\ fb.tokens_per_iter = Ratio(T + n, n)
  BY DEF FixedBudget, WithBonus
<1>5. /\ S \in Nat /\ N \in Nat /\ A \in Nat /\ T \in Nat /\ S <= N /\ A <= T
      /\ S = N => \A i \in 1..n : Cardinality(PruneTree(eagle[i], s)) = Len(eagle[i].nodes)
      /\ A = T => \A i \in 1..n : GatedAccept(eagle[i], s) = eagle[i].accepted_length
      /\ S = 0 => \A i \in 1..n : Cardinality(PruneTree(eagle[i], s)) = 0
  BY <1>1, <1>2, GateLeaves
<1>6. ASSUME NEW i \in 1..n
      PROVE  /\ PruneTree(eagle[i], s) \in SUBSET (DOMAIN eagle[i].nodes)
             /\ IsFiniteSet(DOMAIN eagle[i].nodes)
             /\ Cardinality(DOMAIN eagle[i].nodes) = Len(eagle[i].nodes)
             /\ GatedAccept(eagle[i], s) = Flagged(eagle[i], PruneTree(eagle[i], s))
             /\ eagle[i].accepted_length =
                  Cardinality({k \in DOMAIN eagle[i].nodes : eagle[i].nodes[k].accepted})
  <2>1. Counted(eagle[i])
    BY <1>2
  <2>2. /\ PruneTree(eagle[i], s) \in SUBSET (DOMAIN eagle[i].nodes)
        /\ IsFiniteSet(DOMAIN eagle[i].nodes)
        /\ Cardinality(DOMAIN eagle[i].nodes) = Len(eagle[i].nodes)
    BY <1>1, <2>1, CountStep
  <2>3. GatedAccept(eagle[i], s) = Flagged(eagle[i], PruneTree(eagle[i], s))
    BY <1>1, <2>1, AcceptIsFlagged
  <2>. QED  BY <2>1, <2>2, <2>3 DEF Counted
<1>7. S = 0 => Empty
  <2>. SUFFICES ASSUME S = 0, NEW i \in 1..n PROVE PruneTree(eagle[i], s) = {}
    BY <1>2
  <2>. DEFINE K == PruneTree(eagle[i], s)
              D == DOMAIN eagle[i].nodes
  <2>1. K \in SUBSET D /\ IsFiniteSet(D) /\ Cardinality(K) = 0
    BY <1>5, <1>6
  <2>. HIDE DEF K, D
  <2>2. IsFiniteSet(K)
    BY <2>1, FS_Subset
  <2>3. K = {}
    BY <2>1, <2>2, FS_EmptySet
  <2>. QED  BY <2>3 DEF K
<1>8. S = N => Keeps
  <2>. SUFFICES ASSUME S = N, NEW i \in 1..n, NEW j \in DOMAIN eagle[i].nodes
                PROVE  Survives(eagle[i].nodes[j], s)
    BY <1>2
  <2>. DEFINE K == PruneTree(eagle[i], s)
              D == DOMAIN eagle[i].nodes
  <2>1. K \in SUBSET D /\ IsFiniteSet(D) /\ Cardinality(K) = Cardinality(D) /\ j \in D
    BY <1>5, <1>6
  <2>. HIDE DEF K, D
  <2>2. K = D
    BY <2>1, FS_Subset
  <2>3. j \in K
    BY <2>1, <2>2
  <2>. QED  BY <2>3 DEF K, PruneTree
<1>9. A = T => Keeps
  <2>. SUFFICES ASSUME A = T, NEW i \in 1..n, NEW j \in DOMAIN eagle[i].nodes,
                       eagle[i].nodes[j].accepted
                PROVE  Survives(eagle[i].nodes[j], s)
    BY <1>2
  <2>. DEFINE F == {k \in PruneTree(eagle[i], s) : eagle[i].nodes[k].accepted}
              G == {k \in DOMAIN eagle[i].nodes : eagle[i].nodes[k].accepted}
              D == DOMAIN eagle[i].nodes
  <2>1. Cardinality(F) = Cardinality(G) /\ j \in G
    BY <1>5, <1>6 DEF Flagged
  <2>2. F \in SUBSET G /\ G \in SUBSET D /\ IsFiniteSet(D)
    BY <1>6
  <2>. HIDE DEF F, G, D
  <2>3. IsFiniteSet(G)
    BY <2>2, FS_Subset
  <2>4. F = G
    BY <2>1, <2>2, <2>3, FS_Subset
  <2>5. j \in F
    BY <2>1, <2>4
  <2>. QED  BY <2>5 DEF F, PruneTree
<1>10. n = 0 => Keeps
  BY <1>2
<1>11. \/ N = 0 \/ T = 0 \/ op.mean_tree_size.num = 0
       \/ Fewer(fb.mean_tree_size, op.mean_tree_size).num = 0
       \/ Fewer(fb.tokens_per_iter, op.tokens_per_iter).num = 0
  BY DEF DividesByZero
<1>. HIDE DEF n, S, N, A, T, fb, op, Empty, Keeps
<1>12. \/ N = 0 \/ T = 0 \/ S = 0 \/ N * n - S * n = 0 \/ (T + n) * n - (A + n) * n = 0
  BY <1>3, <1>4, <1>11 DEF Fewer, Ratio
<1>13. \A x, y \in Nat : x * n - y * n = 0 => n = 0 \/ x = y
  <2>1. \A x, y \in Nat : x * n - y * n = (x - y) * n
    BY <1>2
  <2>2. \A x \in Int : x * n = 0 => x = 0 \/ n = 0
    BY <1>2
  <2>. QED  BY <2>1, <2>2
<1>14. N * n - S * n = 0 => n = 0 \/ N = S
  BY <1>5, <1>13
<1>15. (T + n) * n - (A + n) * n = 0 => n = 0 \/ T = A
  <2>1. T + n \in Nat /\ A + n \in Nat
    BY <1>2, <1>5
  <2>2. (T + n) * n - (A + n) * n = 0 => n = 0 \/ T + n = A + n
    BY <1>13, <2>1
  <2>. QED  BY <1>2, <1>5, <2>2
<1>16. T = 0 \/ Empty \/ Keeps
  BY <1>5, <1>7, <1>8, <1>9, <1>10, <1>12, <1>14, <1>15
<1>. QED  BY <1>16 DEF T, Empty, Keeps

\* The statistics count one chain, by its flags and by its length alike; only a
\* trace or a gate with nothing to show ends the analysis with an error.
THEOREM StatisticsAreOfOneChain == AnalysisSpec => []StatisticsCountTheChain
<1>1. ASSUME ReplayInv, AnalysisInv, Analysed
      PROVE  /\ AtMost(analysis.fixed_budget.acceptance_density,
                       analysis.fixed_budget.structural_ceiling)
             /\ \A r \in DOMAIN SweepSigmas :
                  LET row == analysis.static_sweep[r]
                      doomed(step) == Cardinality({k \in DOMAIN step.nodes :
                        ~Survives(step.nodes[k], row.sigma) /\ ~step.nodes[k].accepted})
                  IN  /\ row.discarded_doomed_frac.num = Total(eagle, doomed)
                      /\ row.kept_acceptance_density.num = row.accepted_retained_frac.num
             /\ \A d \in MaxDepths :
                  LET above(step) == Flagged(step, {k \in DOMAIN step.nodes : step.nodes[k].depth <= d})
                  IN  analysis.signal_value[d].depth_retention.num = Total(eagle, above)
  <2>1. /\ CountedTrace(eagle) /\ analysis.fixed_budget = FixedBudget(eagle)
        /\ analysis.static_sweep = StaticSweep(eagle)
        /\ analysis.signal_value = SignalValue(eagle, StaticSweep(eagle))
    BY <1>1, AnalysedIs
  <2>2. AtMost(analysis.fixed_budget.acceptance_density, analysis.fixed_budget.structural_ceiling)
    <3>. DEFINE F == SumFunction([i \in DOMAIN eagle |-> Flagged(eagle[i], DOMAIN eagle[i].nodes)])
                C == Levels(eagle) * Len(eagle)
                N == Nodes(eagle)
    <3>1. NegInf \in Gate
      BY DEF Gate
    <3>2. F \in Nat /\ C \in Nat /\ F <= C
      <4>1. Levels(eagle) \in Nat /\ Len(eagle) \in Nat /\ F \in Nat /\ F <= C
        BY <2>1, FlagsWithinLevels DEF CountedTrace
      <4>. QED  BY <4>1
    <3>3. N \in Nat
      BY <2>1, <3>1, GateLeaves
    <3>4. /\ FixedBudget(eagle).acceptance_density = Ratio(F, N)
          /\ FixedBudget(eagle).structural_ceiling = Ratio(C, N)
      BY DEF FixedBudget, Total
    <3>. HIDE DEF F, C, N
    <3>5. F * N <= C * N
      BY <3>2, <3>3
    <3>. QED  BY <2>1, <3>4, <3>5 DEF AtMost, Ratio
  <2>3. ASSUME NEW r \in DOMAIN SweepSigmas
        PROVE  LET row == analysis.static_sweep[r]
                   doomed(step) == Cardinality({k \in DOMAIN step.nodes :
                     ~Survives(step.nodes[k], row.sigma) /\ ~step.nodes[k].accepted})
               IN  /\ row.discarded_doomed_frac.num = Total(eagle, doomed)
                   /\ row.kept_acceptance_density.num = row.accepted_retained_frac.num
    <3>. DEFINE s == SweepSigmas[r]
                row == analysis.static_sweep[r]
                lost == SumFunction([i \in DOMAIN eagle |->
                          Cardinality({k \in DOMAIN eagle[i].nodes :
                            ~Survives(eagle[i].nodes[k], s) /\ ~eagle[i].nodes[k].accepted})])
    <3>1. s \in Gate
      BY AnalysisAssumption DEF Gate
    <3>2. row = StaticRow(eagle, s)
      BY <2>1 DEF StaticSweep
    <3>. HIDE DEF row
    <3>3. /\ row.sigma = s
          /\ row.discarded_doomed_frac.num =
               (Nodes(eagle) - SizeSum(eagle, s)) - (Accepted(eagle) - FlagSum(eagle, s))
          /\ row.kept_acceptance_density.num = FlagSum(eagle, s)
          /\ row.accepted_retained_frac = Ratio(AcceptSum(eagle, s), Accepted(eagle))
      <4>. HIDE DEF s
      <4>. QED  BY <3>2, RowColumns
    <3>4. FlagSum(eagle, s) = AcceptSum(eagle, s)
      BY <2>1, <3>1, GateLeaves
    <3>5. lost = (Nodes(eagle) - SizeSum(eagle, s)) - (Accepted(eagle) - FlagSum(eagle, s))
      BY <2>1, <3>1, DoomedTotal
    <3>6. LET doomed(step) == Cardinality({k \in DOMAIN step.nodes :
                ~Survives(step.nodes[k], row.sigma) /\ ~step.nodes[k].accepted})
          IN  Total(eagle, doomed) = lost
      BY <3>3 DEF Total
    <3>7. row.kept_acceptance_density.num = row.accepted_retained_frac.num
      BY <3>3, <3>4 DEF Ratio
    <3>8. row.discarded_doomed_frac.num = lost
      BY <3>3, <3>5
    <3>. QED  BY <3>6, <3>7, <3>8 DEF row
  <2>4. ASSUME NEW d \in MaxDepths
        PROVE  LET above(step) == Flagged(step, {k \in DOMAIN step.nodes : step.nodes[k].depth <= d})
               IN  analysis.signal_value[d].depth_retention.num = Total(eagle, above)
    <3>1. d \in Nat
      BY AnalysisAssumption
    <3>2. analysis.signal_value[d].depth_retention = Ratio(CutAccept(eagle, d), Accepted(eagle))
      BY <2>1, SignalColumns
    <3>3. analysis.signal_value[d].depth_retention.num = CutAccept(eagle, d)
      BY <3>2 DEF Ratio
    <3>4. LET above(step) == Flagged(step, {k \in DOMAIN step.nodes : step.nodes[k].depth <= d})
          IN  Total(eagle, above) =
                SumFunction([i \in DOMAIN eagle |->
                  Flagged(eagle[i], {k \in DOMAIN eagle[i].nodes : eagle[i].nodes[k].depth <= d})])
      BY DEF Total
    <3>. QED  BY <2>1, <3>1, <3>3, <3>4, DepthTotal
  <2>. QED  BY <2>2, <2>3, <2>4
<1>2. ASSUME ReplayInv, AnalysisInv, analysis.outcome = "ZeroDivisionError"
      PROVE  \/ Accepted(eagle) = 0
             \/ \A i \in DOMAIN eagle : PruneTree(eagle[i], SigmaOp) = {}
             \/ \A i \in DOMAIN eagle : \A k \in DOMAIN eagle[i].nodes :
                  eagle[i].nodes[k].accepted => Survives(eagle[i].nodes[k], SigmaOp)
  <2>1. InputSound
    BY <1>2 DEF ReplayInv
  <2>2. analysis # [outcome |-> "none"]
    BY <1>2
  <2>3. gate = NegInf /\ analysis = AnalysisOf
    BY <1>2, <2>2 DEF AnalysisInv
  <2>4. DividesByZero(eagle, CausalSweep, FixedBudget(eagle))
    BY <1>2, <2>3 DEF AnalysisOf
  <2>. QED  BY <2>1, <2>3, <2>4, NothingToShow
<1>3. ReplayInv /\ AnalysisInv => StatisticsCountTheChain
  BY <1>1, <1>2 DEF StatisticsCountTheChain
<1>. QED  BY <1>3, AnalysisSafe, PTL

\* A curve that ascends, one value to an abscissa.
Curve(m, xs, ys) ==
  /\ m \in Nat /\ m >= 1 /\ DOMAIN xs = 1..m /\ DOMAIN ys = 1..m /\ Len(xs) = m /\ Len(ys) = m
  /\ \A r \in 1..m : xs[r] \in Int /\ ys[r] \in Int
  /\ \A r, s \in 1..m : r <= s => xs[r] <= xs[s] /\ ys[r] <= ys[s] /\ (xs[r] = xs[s] => ys[r] = ys[s])

\* The three places a point can be at: before the curve, behind it, and on a segment.
Before(x, v, xs, ys) == x <= xs[1] /\ v = Ratio(ys[1], 1)
Behind(x, v, m, xs, ys) == xs[1] < x /\ xs[m] <= x /\ v = Ratio(ys[m], 1)
On(i, x, v, m, xs, ys) ==
  /\ i \in 2..m /\ xs[i - 1] < x /\ x <= xs[i] /\ x < xs[m]
  /\ v = Ratio(ys[i - 1] * (xs[i] - xs[i - 1]) + (x - xs[i - 1]) * (ys[i] - ys[i - 1]),
               xs[i] - xs[i - 1])

\* A point is at one of them, and its value is that place's.
LEMMA InterpPlaces ==
  ASSUME NEW m, NEW xs, NEW ys, Curve(m, xs, ys), NEW x \in Int
  PROVE  LET v == Interp(x, xs, ys)
         IN  \/ Before(x, v, xs, ys) \/ Behind(x, v, m, xs, ys)
             \/ \E i \in 2..m : On(i, x, v, m, xs, ys)
<1>. DEFINE v == Interp(x, xs, ys)
            S == {i \in 1..m : x <= xs[i]}
            i == Min(S)
<1>1. /\ m \in Nat /\ m >= 1 /\ DOMAIN xs = 1..m /\ Len(xs) = m /\ Len(ys) = m
      /\ \A r \in 1..m : xs[r] \in Int /\ ys[r] \in Int
  BY DEF Curve
<1>2. CASE x <= xs[1]
  BY <1>2 DEF Interp, Before
<1>3. CASE ~(x <= xs[1]) /\ x >= xs[m]
  <2>1. xs[1] < x /\ xs[m] <= x
    BY <1>1, <1>3
  <2>2. v = Ratio(ys[m], 1)
    BY <1>1, <1>3 DEF Interp
  <2>. QED  BY <2>1, <2>2 DEF Behind
<1>4. CASE ~(x <= xs[1]) /\ ~(x >= xs[m])
  <2>1. xs[1] \in Int /\ xs[m] \in Int /\ x > xs[1] /\ x < xs[m]
    BY <1>1, <1>4
  <2>2. m \in S /\ S \in SUBSET Nat
    BY <1>1, <2>1
  <2>3. v = Ratio(ys[i - 1] * (xs[i] - xs[i - 1]) + (x - xs[i - 1]) * (ys[i] - ys[i - 1]),
                  xs[i] - xs[i - 1])
    BY <1>1, <1>4 DEF Interp
  <2>. HIDE DEF v
  <2>4. i \in S /\ \A j \in S : i <= j
    <3>. HIDE DEF S
    <3>1. PICK k \in S : \A j \in S : k <= j
      BY <2>2, LeastNatural
    <3>2. \A y, z \in S : y <= z /\ z <= y => y = z
      BY <2>2
    <3>3. i = k
      BY <3>1, <3>2 DEF Min
    <3>. QED  BY <3>1, <3>3
  <2>. HIDE DEF i
  <2>5. i \in 1..m /\ x <= xs[i] /\ i # 1
    BY <2>1, <2>4
  <2>6. i \in 2..m /\ i - 1 \in 1..m
    BY <1>1, <2>5
  <2>7. ~(i - 1 \in S)
    BY <2>4, <2>5
  <2>8. xs[i - 1] < x
    BY <1>1, <2>6, <2>7
  <2>9. On(i, x, v, m, xs, ys)
    BY <2>1, <2>3, <2>5, <2>6, <2>8 DEF On
  <2>. QED  BY <2>6, <2>9 DEF v
<1>. QED  BY <1>2, <1>3, <1>4

\* Between its ends a segment lies between their values.
LEMMA Segment ==
  ASSUME NEW a \in Int, NEW b \in Int, a <= b, NEW dx \in Int, NEW u \in Int, 0 <= u, u <= dx
  PROVE  /\ a * dx + u * (b - a) \in Int
         /\ a * dx <= a * dx + u * (b - a) /\ a * dx + u * (b - a) <= b * dx
         /\ u = dx => a * dx + u * (b - a) = b * dx
         /\ \A w \in Int : u <= w => a * dx + u * (b - a) <= a * dx + w * (b - a)
<1>. DEFINE c == b - a
<1>1. c \in Int /\ c >= 0 /\ b = a + c
  OBVIOUS
<1>. HIDE DEF c
<1>2. \A y, z \in Int : y <= z => y * c \in Int /\ z * c \in Int /\ y * c <= z * c
  BY <1>1
<1>3. 0 * c = 0
  BY <1>1
<1>4. (a + c) * dx = a * dx + dx * c
  BY <1>1
<1>5. u * c \in Int /\ dx * c \in Int /\ 0 <= u * c /\ u * c <= dx * c
  BY <1>2, <1>3
<1>6. a * dx \in Int
  OBVIOUS
<1>7. \A w \in Int : u <= w => u * c <= w * c /\ w * c \in Int
  BY <1>2
<1>8. \A y, z, p \in Int : y <= z => p + y <= p + z
  OBVIOUS
<1>9. \A w \in Int : u <= w => a * dx + u * c <= a * dx + w * c
  BY <1>5, <1>6, <1>7, <1>8
<1>. QED  BY <1>1, <1>4, <1>5, <1>6, <1>9 DEF c

\* An interpolated value is of the curve at its own place.
LEMMA InterpBetween ==
  ASSUME NEW m, NEW xs, NEW ys, Curve(m, xs, ys), NEW x \in Int
  PROVE  LET v == Interp(x, xs, ys)
         IN  /\ v.num \in Int /\ v.den \in Nat /\ v.den > 0
             /\ \A r \in 1..m : /\ xs[r] <= x => ys[r] * v.den <= v.num
                                /\ x <= xs[r] => v.num <= ys[r] * v.den
<1>. DEFINE v == Interp(x, xs, ys)
<1>1. /\ m \in Nat /\ m >= 1 /\ \A r \in 1..m : xs[r] \in Int /\ ys[r] \in Int
      /\ \A r, s \in 1..m : r <= s => /\ xs[r] <= xs[s] /\ ys[r] <= ys[s]
                                      /\ (xs[r] = xs[s] => ys[r] = ys[s])
  BY DEF Curve
<1>2. \/ Before(x, v, xs, ys) \/ Behind(x, v, m, xs, ys) \/ \E i \in 2..m : On(i, x, v, m, xs, ys)
  BY InterpPlaces
<1>. HIDE DEF v
<1>3. CASE Before(x, v, xs, ys)
  <2>1. v.num = ys[1] /\ v.den = 1 /\ x <= xs[1] /\ 1 \in 1..m
    BY <1>1, <1>3 DEF Before, Ratio
  <2>2. \A r \in 1..m : xs[1] <= xs[r] /\ ys[1] <= ys[r] /\ (xs[1] = xs[r] => ys[1] = ys[r])
    BY <1>1, <2>1
  <2>3. ASSUME NEW r \in 1..m
        PROVE  /\ xs[r] <= x => ys[r] * v.den <= v.num
               /\ x <= xs[r] => v.num <= ys[r] * v.den
    <3>1. xs[r] \in Int /\ xs[1] \in Int /\ ys[r] \in Int /\ ys[1] \in Int
      BY <1>1, <2>1
    <3>. QED  BY <2>1, <2>2, <3>1
  <2>. QED  BY <1>1, <2>1, <2>3 DEF v
<1>4. CASE Behind(x, v, m, xs, ys)
  <2>1. v.num = ys[m] /\ v.den = 1 /\ xs[m] <= x /\ m \in 1..m
    BY <1>1, <1>4 DEF Behind, Ratio
  <2>2. \A r \in 1..m : xs[r] <= xs[m] /\ ys[r] <= ys[m] /\ (xs[r] = xs[m] => ys[r] = ys[m])
    BY <1>1, <2>1
  <2>3. ASSUME NEW r \in 1..m
        PROVE  /\ xs[r] <= x => ys[r] * v.den <= v.num
               /\ x <= xs[r] => v.num <= ys[r] * v.den
    <3>1. xs[r] \in Int /\ xs[m] \in Int /\ ys[r] \in Int /\ ys[m] \in Int
      BY <1>1, <2>1
    <3>. QED  BY <2>1, <2>2, <3>1
  <2>. QED  BY <1>1, <2>1, <2>3 DEF v
<1>5. CASE \E i \in 2..m : On(i, x, v, m, xs, ys)
  <2>1. PICK i \in 2..m : On(i, x, v, m, xs, ys)
    BY <1>5
  <2>. DEFINE dx == xs[i] - xs[i - 1]
              u == x - xs[i - 1]
              a == ys[i - 1]
              b == ys[i]
  <2>2. i \in 1..m /\ i - 1 \in 1..m /\ i - 1 <= i
    BY <1>1, <2>1
  <2>3. v.num = a * dx + u * (b - a) /\ v.den = dx /\ xs[i - 1] < x /\ x <= xs[i]
    BY <2>1 DEF On, Ratio
  <2>4. /\ xs[i] \in Int /\ xs[i - 1] \in Int /\ a \in Int /\ b \in Int /\ a <= b
    BY <1>1, <2>2
  <2>5. dx \in Int /\ dx > 0 /\ u \in Int /\ 0 <= u /\ u <= dx /\ (x = xs[i] => u = dx)
    BY <2>3, <2>4
  <2>6. \A r \in 1..m : /\ xs[r] \in Int /\ ys[r] \in Int /\ r \in Int
                        /\ r <= i - 1 => xs[r] <= xs[i - 1] /\ ys[r] <= a
                        /\ i <= r => xs[i] <= xs[r] /\ b <= ys[r] /\ (xs[i] = xs[r] => b = ys[r])
    BY <1>1, <2>2
  <2>7. i \in Int
    BY <2>1
  <2>. HIDE DEF dx, u, a, b
  <2>8. /\ v.num \in Int /\ a * dx <= v.num /\ v.num <= b * dx
        /\ u = dx => v.num = b * dx
    BY <2>3, <2>4, <2>5, Segment
  <2>9. \A y, z \in Int : y <= z => y * dx \in Int /\ z * dx \in Int /\ y * dx <= z * dx
    BY <2>5
  <2>10. ASSUME NEW r \in 1..m
         PROVE  /\ xs[r] <= x => ys[r] * v.den <= v.num
                /\ x <= xs[r] => v.num <= ys[r] * v.den
    <3>1. r <= i - 1 \/ i <= r
      BY <2>6, <2>7
    <3>2. CASE r <= i - 1
      <4>1. ys[r] * dx \in Int /\ a * dx \in Int /\ ys[r] * dx <= a * dx
        BY <2>4, <2>6, <2>9, <3>2
      <4>2. xs[r] <= xs[i - 1] /\ xs[r] \in Int
        BY <2>6, <3>2
      <4>3. ~(x <= xs[r])
        BY <2>3, <2>4, <4>2
      <4>4. ys[r] * dx <= v.num
        BY <2>8, <4>1
      <4>. QED  BY <2>3, <4>3, <4>4
    <3>3. CASE i <= r
      <4>1. ys[r] * dx \in Int /\ b * dx \in Int /\ b * dx <= ys[r] * dx
        BY <2>4, <2>6, <2>9, <3>3
      <4>2. xs[i] <= xs[r] /\ xs[r] \in Int /\ (xs[i] = xs[r] => b = ys[r])
        BY <2>6, <3>3
      <4>3. v.num <= ys[r] * dx
        BY <2>8, <4>1
      <4>4. ASSUME xs[r] <= x PROVE ys[r] * dx <= v.num
        <5>1. x = xs[i] /\ xs[i] = xs[r]
          BY <2>3, <2>4, <4>2, <4>4
        <5>2. v.num = b * dx /\ b = ys[r]
          BY <2>5, <2>8, <4>2, <5>1
        <5>. QED  BY <4>1, <5>2
      <4>. QED  BY <2>3, <4>3, <4>4
    <3>. QED  BY <3>1, <3>2, <3>3
  <2>. QED  BY <2>3, <2>5, <2>8, <2>10 DEF v
<1>. QED  BY <1>2, <1>3, <1>4, <1>5

\* A fraction at most one value of the curve and another at least that value.
LEMMA ThroughValue ==
  ASSUME NEW p \in Int, NEW q \in Nat, q > 0, NEW p2 \in Int, NEW q2 \in Nat, q2 > 0,
         NEW y \in Int, p <= y * q, y * q2 <= p2
  PROVE  p * q2 <= p2 * q
<1>1. \A a, b \in Int, c \in Nat : a <= b => a * c <= b * c /\ a * c \in Int /\ b * c \in Int
  OBVIOUS
<1>2. y * q \in Int /\ y * q2 \in Int
  OBVIOUS
<1>3. p * q2 <= (y * q) * q2 /\ p * q2 \in Int /\ (y * q) * q2 \in Int
  BY <1>1, <1>2
<1>4. (y * q2) * q <= p2 * q /\ p2 * q \in Int
  BY <1>1, <1>2
<1>5. (y * q) * q2 = (y * q2) * q
  OBVIOUS
<1>. QED  BY <1>3, <1>4, <1>5

\* A larger abscissa, no smaller a value.
LEMMA InterpAscends ==
  ASSUME NEW m, NEW xs, NEW ys, Curve(m, xs, ys), NEW x \in Int, NEW z \in Int, x <= z
  PROVE  LET v == Interp(x, xs, ys)
             w == Interp(z, xs, ys)
         IN  v.num * w.den <= w.num * v.den
<1>. DEFINE v == Interp(x, xs, ys)
            w == Interp(z, xs, ys)
<1>1. /\ m \in Nat /\ m >= 1 /\ \A r \in 1..m : xs[r] \in Int /\ ys[r] \in Int
      /\ \A r, s \in 1..m : r <= s => xs[r] <= xs[s] /\ ys[r] <= ys[s]
  BY DEF Curve
<1>2. /\ v.num \in Int /\ v.den \in Nat /\ v.den > 0
      /\ \A r \in 1..m : x <= xs[r] => v.num <= ys[r] * v.den
  BY InterpBetween
<1>3. /\ w.num \in Int /\ w.den \in Nat /\ w.den > 0
      /\ \A r \in 1..m : xs[r] <= z => ys[r] * w.den <= w.num
  BY InterpBetween
<1>4. \/ Before(x, v, xs, ys) \/ Behind(x, v, m, xs, ys) \/ \E i \in 2..m : On(i, x, v, m, xs, ys)
  BY InterpPlaces
<1>5. \/ Before(z, w, xs, ys) \/ Behind(z, w, m, xs, ys) \/ \E i \in 2..m : On(i, z, w, m, xs, ys)
  BY InterpPlaces
<1>. HIDE DEF v, w
<1>6. CASE \E r \in 1..m : x <= xs[r] /\ xs[r] <= z
  <2>1. PICK r \in 1..m : x <= xs[r] /\ xs[r] <= z
    BY <1>6
  <2>2. v.num <= ys[r] * v.den /\ ys[r] * w.den <= w.num /\ ys[r] \in Int
    BY <1>1, <1>2, <1>3, <2>1
  <2>3. v.num * w.den <= w.num * v.den
    BY <1>2, <1>3, <2>2, ThroughValue
  <2>. QED  BY <2>3 DEF v, w
<1>7. CASE ~(\E r \in 1..m : x <= xs[r] /\ xs[r] <= z)
  <2>1. \A r \in 1..m : xs[r] \in Int /\ (x <= xs[r] => z < xs[r])
    BY <1>1, <1>7
  <2>2. 1 \in 1..m /\ m \in 1..m
    BY <1>1
  <2>3. CASE Before(x, v, xs, ys)
    <3>1. z < xs[1]
      BY <2>1, <2>2, <2>3 DEF Before
    <3>2. xs[1] <= xs[m]
      BY <1>1, <2>2
    <3>3. ~Behind(z, w, m, xs, ys)
      BY <2>1, <2>2, <3>1 DEF Behind
    <3>4. ASSUME NEW i \in 2..m, On(i, z, w, m, xs, ys) PROVE FALSE
      <4>1. i - 1 \in 1..m /\ 1 <= i - 1 /\ xs[i - 1] < z
        BY <1>1, <3>4 DEF On
      <4>2. xs[1] <= xs[i - 1]
        BY <1>1, <2>2, <4>1
      <4>. QED  BY <2>1, <2>2, <3>1, <4>1, <4>2
    <3>5. Before(z, w, xs, ys)
      BY <1>5, <3>3, <3>4
    <3>6. v = w
      BY <2>3, <3>5 DEF Before
    <3>7. w.num * w.den \in Int
      BY <1>3
    <3>8. v.num * w.den <= w.num * v.den
      BY <3>6, <3>7
    <3>. QED  BY <3>8 DEF v, w
  <2>4. CASE Behind(x, v, m, xs, ys)
    <3>1. xs[1] < z /\ xs[m] <= z
      BY <2>1, <2>2, <2>4 DEF Behind
    <3>2. ~Before(z, w, xs, ys)
      BY <2>1, <2>2, <3>1 DEF Before
    <3>3. \A i \in 2..m : ~On(i, z, w, m, xs, ys)
      BY <2>1, <2>2, <3>1 DEF On
    <3>4. Behind(z, w, m, xs, ys)
      BY <1>5, <3>2, <3>3
    <3>5. v = w
      BY <2>4, <3>4 DEF Behind
    <3>6. w.num * w.den \in Int
      BY <1>3
    <3>7. v.num * w.den <= w.num * v.den
      BY <3>5, <3>6
    <3>. QED  BY <3>7 DEF v, w
  <2>5. CASE \E i \in 2..m : On(i, x, v, m, xs, ys)
    <3>1. PICK i \in 2..m : On(i, x, v, m, xs, ys)
      BY <2>5
    <3>2. i \in 1..m /\ i - 1 \in 1..m /\ i \in Int /\ i <= m /\ 1 <= i - 1
      BY <1>1, <3>1
    <3>3. /\ xs[i - 1] < x /\ x <= xs[i]
          /\ v = Ratio(ys[i - 1] * (xs[i] - xs[i - 1]) + (x - xs[i - 1]) * (ys[i] - ys[i - 1]),
                       xs[i] - xs[i - 1])
      BY <3>1 DEF On
    <3>4. z < xs[i] /\ xs[i] <= xs[m] /\ xs[1] <= xs[i - 1]
      BY <1>1, <2>1, <2>2, <3>2, <3>3
    <3>5. ~Before(z, w, xs, ys) /\ ~Behind(z, w, m, xs, ys)
      BY <2>1, <2>2, <3>2, <3>3, <3>4 DEF Before, Behind
    <3>6. PICK j \in 2..m : On(j, z, w, m, xs, ys)
      BY <1>5, <3>5
    <3>7. j \in 1..m /\ j - 1 \in 1..m /\ j \in Int /\ xs[j - 1] < z /\ z <= xs[j]
      BY <1>1, <3>6 DEF On
    <3>8. j = i
      <4>1. ~(i <= j - 1)
        <5>1. i <= j - 1 => xs[i] <= xs[j - 1]
          BY <1>1, <3>2, <3>7
        <5>. QED  BY <2>1, <3>2, <3>4, <3>7, <5>1
      <4>2. ~(j <= i - 1)
        <5>1. j <= i - 1 => xs[j] <= xs[i - 1]
          BY <1>1, <3>2, <3>7
        <5>. QED  BY <2>1, <3>2, <3>3, <3>7, <5>1
      <4>. QED  BY <3>2, <3>7, <4>1, <4>2
    <3>. DEFINE dx == xs[i] - xs[i - 1]
                a == ys[i - 1]
                b == ys[i]
                u == x - xs[i - 1]
                t == z - xs[i - 1]
    <3>9. /\ v.num = a * dx + u * (b - a) /\ v.den = dx
          /\ w.num = a * dx + t * (b - a) /\ w.den = dx
      BY <3>3, <3>6, <3>8 DEF On, Ratio
    <3>10. /\ dx \in Int /\ dx > 0 /\ u \in Int /\ t \in Int /\ 0 <= u /\ u <= dx /\ u <= t
           /\ a \in Int /\ b \in Int /\ a <= b
      BY <1>1, <2>1, <3>2, <3>3
    <3>. HIDE DEF dx, a, b, u, t
    <3>11. v.num <= w.num
      BY <3>9, <3>10, Segment
    <3>12. v.num * w.den <= w.num * v.den
      BY <1>2, <1>3, <3>9, <3>10, <3>11
    <3>. QED  BY <3>12 DEF v, w
  <2>. QED  BY <1>4, <2>3, <2>4, <2>5
<1>. QED  BY <1>6, <1>7
\* A deeper cut leaves more nodes.
LEMMA CutsNest ==
  ASSUME NEW trace, CountedTrace(trace), NEW d \in Nat, NEW e \in Nat, d <= e
  PROVE  CutSize(trace, d) \in Nat /\ CutSize(trace, e) \in Nat /\ CutSize(trace, d) <= CutSize(trace, e)
<1>. DEFINE n == Len(trace)
            cut(i, c) == {k \in DOMAIN trace[i].nodes : trace[i].nodes[k].depth <= c}
            f == [i \in DOMAIN trace |-> Cardinality(cut(i, d))]
            g == [i \in DOMAIN trace |-> Cardinality(cut(i, e))]
<1>1. n \in Nat /\ DOMAIN trace = 1..n /\ \A i \in 1..n : Counted(trace[i])
  BY DEF CountedTrace
<1>2. \A i \in 1..n : f[i] \in Nat /\ g[i] \in Nat /\ f[i] <= g[i]
  <2>. SUFFICES ASSUME NEW i \in 1..n PROVE f[i] \in Nat /\ g[i] \in Nat /\ f[i] <= g[i]
    OBVIOUS
  <2>1. Counted(trace[i]) /\ NegInf \in Gate
    BY <1>1 DEF Gate
  <2>2. \A k \in DOMAIN trace[i].nodes : trace[i].nodes[k].depth \in Nat
    BY <2>1 DEF Counted
  <2>3. cut(i, d) \in SUBSET cut(i, e) /\ cut(i, d) \in SUBSET (DOMAIN trace[i].nodes)
        /\ cut(i, e) \in SUBSET (DOMAIN trace[i].nodes)
    BY <2>2
  <2>4. f[i] = Cardinality(cut(i, d)) /\ g[i] = Cardinality(cut(i, e))
    BY <1>1
  <2>. HIDE DEF cut, f, g
  <2>5. /\ IsFiniteSet(cut(i, e)) /\ Cardinality(cut(i, e)) \in Nat
        /\ Cardinality(cut(i, d)) \in Nat
    BY <2>1, <2>3, CountStep
  <2>6. Cardinality(cut(i, d)) <= Cardinality(cut(i, e))
    BY <2>3, <2>5, FS_Subset
  <2>. QED  BY <2>4, <2>5, <2>6
<1>3. DOMAIN f = 1..n /\ DOMAIN g = 1..n
  BY <1>1
<1>4. CutSize(trace, d) = SumFunction(f) /\ CutSize(trace, e) = SumFunction(g)
  BY DEF CutSize
<1>. HIDE DEF n, f, g
<1>5. SumsBelow(n, f, g)
  BY <1>1, <1>2, <1>3, TermByTerm
<1>. QED  BY <1>4, <1>5 DEF SumsBelow

\* The curve of the sweep, and what the comparison reads off it.
LEMMA SweepCurve ==
  ASSUME CountedTrace(eagle), ~DividesByZero(eagle, CausalSweep, FixedBudget(eagle))
  PROVE  LET m == Len(SweepSigmas)
             rows == StaticSweep(eagle)
             xs == [r \in DOMAIN rows |-> rows[r].nodes_kept_frac.num]
             ys == [r \in DOMAIN rows |-> rows[r].accepted_retained_frac.num]
             N == Nodes(eagle)
             T == Accepted(eagle)
         IN  /\ Curve(m, xs, ys) /\ N \in Nat /\ N > 0 /\ T \in Nat /\ T > 0
             /\ DOMAIN rows = 1..m
             /\ \A r \in 1..m : /\ rows[r].nodes_kept_frac = Ratio(xs[r], N)
                                /\ rows[r].accepted_retained_frac = Ratio(ys[r], T)
<1>. DEFINE m == Len(SweepSigmas)
            rows == StaticSweep(eagle)
            xs == [r \in DOMAIN rows |-> rows[r].nodes_kept_frac.num]
            ys == [r \in DOMAIN rows |-> rows[r].accepted_retained_frac.num]
            N == Nodes(eagle)
            T == Accepted(eagle)
<1>1. /\ m \in Nat /\ m >= 1 /\ DOMAIN SweepSigmas = 1..m
      /\ \A r \in 1..m : SweepSigmas[r] \in Int
      /\ \A r, s \in 1..m : r < s => SweepSigmas[r] > SweepSigmas[s]
  <2>1. SweepSigmas \in Seq(Int) /\ SweepSigmas # <<>>
    BY AnalysisAssumption
  <2>2. m \in Nat /\ DOMAIN SweepSigmas = 1..m /\ \A r \in 1..m : SweepSigmas[r] \in Int
    BY <2>1, LenProperties, ElementOfSeq
  <2>3. m # 0
    BY <2>1, EmptySeq
  <2>. QED  BY <2>2, <2>3, AnalysisAssumption
<1>2. DOMAIN rows = 1..m /\ \A r \in 1..m : rows[r] = StaticRow(eagle, SweepSigmas[r])
  BY <1>1 DEF StaticSweep
<1>. HIDE DEF rows, m, N, T
<1>3. DOMAIN xs = 1..m /\ DOMAIN ys = 1..m /\ Len(xs) = m /\ Len(ys) = m
  BY <1>1, <1>2
<1>4. \A r \in 1..m : /\ rows[r].nodes_kept_frac = Ratio(SizeSum(eagle, SweepSigmas[r]), N)
                      /\ rows[r].accepted_retained_frac = Ratio(AcceptSum(eagle, SweepSigmas[r]), T)
  BY <1>2, RowColumns DEF N, T
<1>5. \A r \in 1..m : /\ rows[r].nodes_kept_frac.num = SizeSum(eagle, SweepSigmas[r])
                      /\ rows[r].accepted_retained_frac.num = AcceptSum(eagle, SweepSigmas[r])
  <2>1. \A a, b : Ratio(a, b).num = a
    BY DEF Ratio
  <2>. QED  BY <1>4, <2>1
<1>6. \A r \in 1..m : xs[r] = SizeSum(eagle, SweepSigmas[r]) /\ ys[r] = AcceptSum(eagle, SweepSigmas[r])
  BY <1>2, <1>5
<1>. HIDE DEF xs, ys
<1>7. \A r \in 1..m : xs[r] \in Int /\ ys[r] \in Int
  <2>1. \A r \in 1..m : SweepSigmas[r] \in Gate
    BY <1>1 DEF Gate
  <2>2. \A r \in 1..m : SizeSum(eagle, SweepSigmas[r]) \in Nat /\ AcceptSum(eagle, SweepSigmas[r]) \in Nat
    BY <2>1, GateLeaves
  <2>. QED  BY <1>6, <2>2
<1>8. ASSUME NEW r \in 1..m, NEW s \in 1..m, r <= s
      PROVE  xs[r] <= xs[s] /\ ys[r] <= ys[s] /\ (xs[r] = xs[s] => ys[r] = ys[s])
  <2>1. SweepSigmas[r] \in Int /\ SweepSigmas[s] \in Int /\ r \in Int /\ s \in Int
        /\ (r < s => SweepSigmas[r] > SweepSigmas[s])
    BY <1>1
  <2>2. SweepSigmas[s] <= SweepSigmas[r]
    BY <1>8, <2>1
  <2>. DEFINE p == SweepSigmas[r]
              q == SweepSigmas[s]
  <2>3. p \in Int /\ q \in Int /\ q <= p
    BY <2>1, <2>2
  <2>. HIDE DEF p, q
  <2>4. /\ SizeSum(eagle, p) <= SizeSum(eagle, q)
        /\ AcceptSum(eagle, p) <= AcceptSum(eagle, q)
        /\ SizeSum(eagle, p) = SizeSum(eagle, q) => AcceptSum(eagle, p) = AcceptSum(eagle, q)
    BY <2>3, GatesNest
  <2>. QED  BY <1>6, <2>4 DEF p, q
<1>9. Curve(m, xs, ys)
  BY <1>1, <1>3, <1>7, <1>8 DEF Curve
<1>10. N \in Nat /\ T \in Nat
  <2>1. NegInf \in Gate
    BY DEF Gate
  <2>. QED  BY <2>1, GateLeaves DEF N, T
<1>11. N # 0 /\ T # 0
  BY DEF DividesByZero, N, T
<1>12. \A r \in 1..m : /\ rows[r].nodes_kept_frac = Ratio(xs[r], N)
                       /\ rows[r].accepted_retained_frac = Ratio(ys[r], T)
  BY <1>4, <1>6
<1>. QED  BY <1>2, <1>9, <1>10, <1>11, <1>12 DEF m, rows, xs, ys, N, T

\* The comparison of two numerators over one denominator.
LEMMA OverOne ==
  ASSUME NEW a \in Int, NEW b \in Int, NEW N \in Nat, N > 0
  PROVE  AtMost(Ratio(a, N), Ratio(b, N)) <=> a <= b
<1>1. a <= b => a * N <= b * N
  OBVIOUS
<1>2. b < a => b * N < a * N
  <2>. SUFFICES ASSUME b < a PROVE b * N < a * N
    OBVIOUS
  <2>1. (a - b) * N > 0
    OBVIOUS
  <2>2. (a - b) * N = a * N - b * N /\ a * N \in Int /\ b * N \in Int
    OBVIOUS
  <2>. QED  BY <2>1, <2>2
<1>3. a * N \in Int /\ b * N \in Int
  OBVIOUS
<1>. QED  BY <1>1, <1>2, <1>3 DEF AtMost, Ratio

\* A fraction over a common factor.
LEMMA OverFactor ==
  ASSUME NEW p \in Int, NEW q \in Nat, NEW p2 \in Int, NEW q2 \in Nat, NEW T \in Nat,
         p * q2 <= p2 * q
  PROVE  p * (q2 * T) <= p2 * (q * T)
<1>1. p * (q2 * T) = (p * q2) * T /\ p2 * (q * T) = (p2 * q) * T
  OBVIOUS
<1>2. \A a, b \in Int : a <= b => a * T <= b * T
  OBVIOUS
<1>3. p * q2 \in Int /\ p2 * q \in Int
  OBVIOUS
<1>. QED  BY <1>1, <1>2, <1>3

\* The curve ascends as the gate is loosened, and what the comparison reads off
\* it lies between its neighbours and ascends with the budget.
THEOREM BudgetsAreMatched == AnalysisSpec => []MatchedBudgets
<1>1. ReplayInv /\ AnalysisInv => MatchedBudgets
  <2>. SUFFICES ASSUME ReplayInv, AnalysisInv, Analysed PROVE MatchedBudgets
    BY DEF MatchedBudgets
  <2>. DEFINE m == Len(SweepSigmas)
              rows == StaticSweep(eagle)
              signal == SignalValue(eagle, rows)
              xs == [r \in DOMAIN rows |-> rows[r].nodes_kept_frac.num]
              ys == [r \in DOMAIN rows |-> rows[r].accepted_retained_frac.num]
              N == Nodes(eagle)
              T == Accepted(eagle)
              x(d) == CutSize(eagle, d)
              v(d) == Interp(x(d), xs, ys)
  <2>1. /\ CountedTrace(eagle) /\ ~DividesByZero(eagle, CausalSweep, FixedBudget(eagle))
        /\ analysis.static_sweep = rows /\ analysis.signal_value = signal
    BY AnalysedIs
  <2>2. /\ Curve(m, xs, ys) /\ N \in Nat /\ N > 0 /\ T \in Nat /\ T > 0
        /\ DOMAIN rows = 1..m
        /\ \A r \in 1..m : /\ rows[r].nodes_kept_frac = Ratio(xs[r], N)
                           /\ rows[r].accepted_retained_frac = Ratio(ys[r], T)
    BY <2>1, SweepCurve
  <2>3. \A d \in MaxDepths : /\ signal[d].budget_nodes_frac = Ratio(x(d), N)
                             /\ signal[d].confidence_retention = Ratio(v(d).num, v(d).den * T)
    BY SignalColumns
  <2>4. \A d \in MaxDepths : d \in Nat
    BY AnalysisAssumption
  <2>. HIDE DEF m, rows, signal, xs, ys, N, T, x, v
  <2>5. \A d \in MaxDepths : x(d) \in Nat
    <3>. SUFFICES ASSUME NEW d \in MaxDepths PROVE x(d) \in Nat
      OBVIOUS
    <3>1. d \in Nat /\ d <= d
      BY <2>4
    <3>. QED  BY <2>1, <3>1, CutsNest DEF x
  <2>6. /\ m \in Nat /\ \A r \in 1..m : xs[r] \in Int /\ ys[r] \in Int
        /\ \A r, s \in 1..m : r <= s => xs[r] <= xs[s] /\ ys[r] <= ys[s]
    BY <2>2 DEF Curve
  <2>7. ASSUME NEW d \in MaxDepths
        PROVE  /\ v(d).num \in Int /\ v(d).den \in Nat /\ v(d).den > 0
               /\ \A r \in 1..m : /\ xs[r] <= x(d) => ys[r] * v(d).den <= v(d).num
                                  /\ x(d) <= xs[r] => v(d).num <= ys[r] * v(d).den
    <3>1. x(d) \in Int
      BY <2>5
    <3>. QED  BY <2>2, <3>1, InterpBetween DEF v
  <2>8. ASSUME NEW r \in DOMAIN rows, NEW s \in DOMAIN rows, r <= s
        PROVE  /\ AtMost(rows[r].nodes_kept_frac, rows[s].nodes_kept_frac)
               /\ AtMost(rows[r].accepted_retained_frac, rows[s].accepted_retained_frac)
    <3>1. r \in 1..m /\ s \in 1..m
      BY <2>2
    <3>2. /\ xs[r] \in Int /\ xs[s] \in Int /\ ys[r] \in Int /\ ys[s] \in Int
          /\ xs[r] <= xs[s] /\ ys[r] <= ys[s]
      BY <2>6, <2>8, <3>1
    <3>3. AtMost(Ratio(xs[r], N), Ratio(xs[s], N)) /\ AtMost(Ratio(ys[r], T), Ratio(ys[s], T))
      BY <2>2, <3>2, OverOne
    <3>. QED  BY <2>2, <3>1, <3>3
  <2>9. ASSUME NEW d \in MaxDepths, NEW r \in DOMAIN rows
        PROVE  /\ AtMost(rows[r].nodes_kept_frac, signal[d].budget_nodes_frac) =>
                    AtMost(rows[r].accepted_retained_frac, signal[d].confidence_retention)
               /\ AtMost(signal[d].budget_nodes_frac, rows[r].nodes_kept_frac) =>
                    AtMost(signal[d].confidence_retention, rows[r].accepted_retained_frac)
    <3>1. r \in 1..m
      BY <2>2
    <3>2. xs[r] \in Int /\ ys[r] \in Int /\ x(d) \in Int
      BY <2>5, <2>6, <3>1
    <3>3. /\ rows[r].nodes_kept_frac = Ratio(xs[r], N) /\ rows[r].accepted_retained_frac = Ratio(ys[r], T)
          /\ signal[d].budget_nodes_frac = Ratio(x(d), N)
          /\ signal[d].confidence_retention = Ratio(v(d).num, v(d).den * T)
      BY <2>2, <2>3, <3>1
    <3>4. /\ v(d).num \in Int /\ v(d).den \in Nat
          /\ xs[r] <= x(d) => ys[r] * v(d).den <= v(d).num
          /\ x(d) <= xs[r] => v(d).num <= ys[r] * v(d).den
      BY <2>7, <3>1
    <3>5. /\ AtMost(Ratio(xs[r], N), Ratio(x(d), N)) => xs[r] <= x(d)
          /\ AtMost(Ratio(x(d), N), Ratio(xs[r], N)) => x(d) <= xs[r]
      BY <2>2, <3>2, OverOne
    <3>. DEFINE p == v(d).num
                q == v(d).den
                y == ys[r]
    <3>6. p \in Int /\ q \in Nat /\ y \in Int /\ T \in Nat
      BY <2>2, <3>2, <3>4
    <3>7. /\ xs[r] <= x(d) => y * q <= p
          /\ x(d) <= xs[r] => p <= y * q
      BY <3>4
    <3>. HIDE DEF p, q, y
    <3>8. y * q <= p => y * (q * T) <= p * T
      <4>1. y * (q * T) = (y * q) * T
        BY <3>6
      <4>2. \A a, b \in Int : a <= b => a * T <= b * T
        BY <3>6
      <4>3. y * q \in Int
        BY <3>6
      <4>. QED  BY <3>6, <4>1, <4>2, <4>3
    <3>9. p <= y * q => p * T <= y * (q * T)
      <4>1. y * (q * T) = (y * q) * T
        BY <3>6
      <4>2. \A a, b \in Int : a <= b => a * T <= b * T
        BY <3>6
      <4>3. y * q \in Int
        BY <3>6
      <4>. QED  BY <3>6, <4>1, <4>2, <4>3
    <3>10. /\ xs[r] <= x(d) => AtMost(Ratio(y, T), Ratio(p, q * T))
           /\ x(d) <= xs[r] => AtMost(Ratio(p, q * T), Ratio(y, T))
      BY <3>7, <3>8, <3>9 DEF AtMost, Ratio
    <3>. QED  BY <3>3, <3>5, <3>10 DEF p, q, y
  <2>10. ASSUME NEW d \in MaxDepths, NEW e \in MaxDepths, d <= e
         PROVE  AtMost(signal[d].confidence_retention, signal[e].confidence_retention)
    <3>1. x(d) <= x(e) /\ x(d) \in Int /\ x(e) \in Int
      <4>1. d \in Nat /\ e \in Nat
        BY <2>4
      <4>2. x(d) <= x(e)
        BY <2>1, <2>10, <4>1, CutsNest DEF x
      <4>. QED  BY <2>5, <4>2
    <3>2. v(d).num * v(e).den <= v(e).num * v(d).den
      BY <2>2, <3>1, InterpAscends DEF v
    <3>3. v(d).num \in Int /\ v(d).den \in Nat /\ v(e).num \in Int /\ v(e).den \in Nat
      BY <2>7
    <3>4. v(d).num * (v(e).den * T) <= v(e).num * (v(d).den * T)
      BY <2>2, <3>2, <3>3, OverFactor
    <3>5. AtMost(Ratio(v(d).num, v(d).den * T), Ratio(v(e).num, v(e).den * T))
      BY <3>4 DEF AtMost, Ratio
    <3>. QED  BY <2>3, <3>5
  <2>. QED  BY <2>1, <2>8, <2>9, <2>10 DEF MatchedBudgets
<1>. QED  BY <1>1, AnalysisSafe, PTL
=============================================================================
