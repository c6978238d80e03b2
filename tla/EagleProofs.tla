---------------------------- MODULE EagleProofs ----------------------------
(***************************************************************************)
(* The EAGLE collection, for every vocabulary, prompts, target model, set  *)
(* of well-formed trees and threshold.                                     *)
(*                                                                         *)
(* First the text, which the collection never changes: EagleCollector      *)
(* implements Greedy.  An edited row still satisfies what the drafted rows *)
(* satisfy, that the path of the node at position j is the row up to j     *)
(* (RowsSound).  The pad token -1 is no token id, so an accepted prefix    *)
(* holds real nodes only, and the target's choice at each of them is its   *)
(* choice after exactly the tokens being committed before it.              *)
(*                                                                         *)
(* Then the Trace.  What record_gated_step puts into one step: the gate's  *)
(* keep set is closed under ancestors (so invalidate_paths never raises),  *)
(* the recorded nodes are exactly those the edited rows still reach, and   *)
(* the re-indexed parent of a node is the recorded entry of its real       *)
(* parent, one level up and earlier in the list.  The run around it:       *)
(* types, the hooks, and the steps as a tiling of the text.  StepInv       *)
(* strengthens StepsTileText and BoundedSteps through the point between a  *)
(* verdict and its commit, where the steps are already one tree ahead of   *)
(* input_ids.  FiledInv carries the tiling into the accumulated steps of   *)
(* the prompts that are done, SpellInv the claim that a step's flags spell *)
(* the tokens it committed: between the verdict and the commit the last    *)
(* step is ahead of the text, and says what the text is about to become.   *)
(***************************************************************************)
EXTENDS EagleCollector, SequenceTheorems, FiniteSetTheorems, TLAPS

Facts == INSTANCE GreedyProofs WITH gen <- Generated, delivered <- prompt_outputs

RowsSound ==
  /\ draft \in Drafts
  /\ retrieve \in Seq(Seq((0..draft.n) \cup {Pad}))
  /\ \A r \in 1..Len(retrieve) :
       /\ Len(retrieve[r]) >= 1 /\ retrieve[r][1] = 0
       /\ \A j \in 1..Len(retrieve[r]) :
            retrieve[r][j] # Pad =>
              draft.path[retrieve[r][j]] = SubSeq(retrieve[r], 1, j)

Control ==
  /\ pc \in {"attach", "generate", "draft", "verify", "update", "detach",
             "finish", "returned", "aborted"}
  /\ prompt_outputs \in Seq(Seq(Vocab)) /\ pid = Len(prompt_outputs) + 1
  /\ IF pc \in {"finish", "returned"} THEN pid = Len(Prompts) + 1
     ELSE pid <= Len(Prompts)
  /\ failed \in BOOLEAN /\ (failed => pc \in {"detach", "aborted"})

TextInv ==
  /\ ids \in Seq(Vocab) /\ new_token \in Int
  /\ pc \in {"attach", "generate"} => ids = <<>>
  /\ pc \in {"draft", "verify", "update"} =>
       /\ Facts!GreedyText(Prompts[pid], ids)
       /\ new_token = Len(ids) - Len(Prompts[pid])
       /\ root \in Vocab /\ root = Argmax(ids)
  /\ pc = "detach" /\ ~failed => Len(ids) > Len(Prompts[pid])

VerdictInv ==
  /\ pc \in {"verify", "update"} => RowsSound
  /\ pc = "update" =>
       /\ best \in 1..Len(retrieve) /\ accept \in Nat
       /\ Accepts(best, accept)

LosslessInv == Control /\ TextInv /\ VerdictInv

-----------------------------------------------------------------------------
(* The tree and the verdict.                                               *)

\* Cutting rows keeps them sound: a node left in a row kept all its elders.
LEMMA EditedRowsSound ==
  ASSUME NEW d \in Drafts, NEW sigma
  PROVE  /\ EditedRows(d, sigma) \in Seq(Seq((0..d.n) \cup {Pad}))
         /\ \A r \in 1..Len(EditedRows(d, sigma)) :
              LET row == EditedRows(d, sigma)[r]
              IN  /\ Len(row) >= 1 /\ row[1] = 0
                  /\ \A j \in 1..Len(row) :
                       row[j] # Pad => d.path[row[j]] = SubSeq(row, 1, j)
<1>. DEFINE Value == (0..d.n) \cup {Pad}
            e == EditedRows(d, sigma)
<1>1. /\ d.rows \in Seq(Seq(Value))
      /\ \A r \in 1..Len(d.rows) :
           /\ Len(d.rows[r]) >= 1 /\ d.rows[r][1] = 0
           /\ \A j \in 1..Len(d.rows[r]) :
                d.rows[r][j] # Pad =>
                  d.path[d.rows[r][j]] = SubSeq(d.rows[r], 1, j)
  BY CollectorAssumption DEF WellFormedDraft
<1>2. CASE sigma = NegInf
  BY <1>1, <1>2 DEF EditedRows
<1>3. CASE sigma # NegInf
  <2>. DEFINE keep == KeptDraft(d, sigma)
  <2>1. e = [r \in 1..Len(d.rows) |-> TruncatedRow(d.rows[r], keep)]
    BY <1>3 DEF EditedRows, InvalidatePaths
  <2>2. ASSUME NEW r \in 1..Len(d.rows)
        PROVE  LET row == TruncatedRow(d.rows[r], keep)
               IN  /\ row \in Seq(Value) /\ Len(row) = Len(d.rows[r])
                   /\ Len(row) >= 1 /\ row[1] = 0
                   /\ \A j \in 1..Len(row) :
                        row[j] # Pad => d.path[row[j]] = SubSeq(row, 1, j)
    <3>. DEFINE old == d.rows[r]
                row == TruncatedRow(old, keep)
    <3>1. old \in Seq(Value) /\ Len(old) \in Nat /\ Len(old) >= 1 /\ old[1] = 0
      BY <1>1
    <3>2. row = [j \in 1..Len(old) |-> IF AliveAfter(old, keep, j) THEN old[j] ELSE Pad]
      BY DEF TruncatedRow
    <3>3. row \in Seq(Value) /\ Len(row) = Len(old)
      BY <3>1, <3>2
    <3>4. row[1] = 0
      BY <3>1, <3>2 DEF AliveAfter, Survives, Pad
    <3>5. ASSUME NEW j \in 1..Len(row), row[j] # Pad
          PROVE  d.path[row[j]] = SubSeq(row, 1, j)
      <4>1. AliveAfter(old, keep, j) /\ row[j] = old[j]
        BY <3>2, <3>3, <3>5
      <4>2. \A i \in 1..j : AliveAfter(old, keep, i)
        BY <4>1, <3>1, <3>3 DEF AliveAfter
      <4>3. \A i \in 1..j : row[i] = old[i]
        BY <3>1, <3>2, <3>3, <4>2
      <4>4. SubSeq(row, 1, j) = SubSeq(old, 1, j)
        BY <3>1, <3>3, <4>3
      <4>5. d.path[old[j]] = SubSeq(old, 1, j)
        <5>1. old[j] # Pad /\ j \in 1..Len(old)
          BY <3>3, <3>5, <4>1
        <5>. QED  BY <1>1, <5>1
      <4>. QED  BY <4>1, <4>4, <4>5
    <3>. QED  BY <3>1, <3>3, <3>4, <3>5
  <2>3. e \in Seq(Seq(Value)) /\ Len(e) = Len(d.rows)
    BY <1>1, <2>1, <2>2
  <2>. QED  BY <2>1, <2>2, <2>3
<1>. QED  BY <1>2, <1>3

\* While a tree is in hand every target choice is a token id, hence not Pad.
LEMMA TargetIsToken ==
  ASSUME TargetTotal, RowsSound, ids \in Seq(Vocab), root \in Vocab,
         NEW v \in (0..draft.n) \cup {Pad}
  PROVE  TargetAt(v) \in Vocab /\ TargetAt(v) # Pad
<1>. DEFINE path == draft.path[IF v = Pad THEN draft.n ELSE v]
            tokens == [i \in 1..Len(path) |-> DraftToken(path[i])]
<1>1. /\ draft.n \in Nat \ {0} /\ draft.token \in [1..draft.n -> Vocab]
      /\ draft.path \in [0..draft.n -> Seq(0..draft.n)]
  BY CollectorAssumption DEF RowsSound, WellFormedDraft
<1>2. path \in Seq(0..draft.n)
  <2>1. (IF v = Pad THEN draft.n ELSE v) \in 0..draft.n
    BY <1>1
  <2>. QED  BY <1>1, <2>1
<1>3. \A u \in 0..draft.n : DraftToken(u) \in Vocab
  BY <1>1 DEF DraftToken
<1>4. \A i \in 1..Len(path) : path[i] \in 0..draft.n
  <2>. HIDE DEF path
  <2>. QED  BY <1>2, ElementOfSeq
<1>5. tokens \in Seq(Vocab)
  <2>. HIDE DEF path
  <2>1. Len(path) \in Nat
    BY <1>2
  <2>. QED  BY <1>3, <1>4, <2>1
<1>6. ids \o tokens \in Seq(Vocab)
  BY <1>5
<1>7. TargetAt(v) = Argmax(ids \o tokens)
  BY DEF TargetAt
<1>8. Argmax(ids \o tokens) \in Vocab
  BY <1>6 DEF TargetTotal
<1>. QED  BY <1>7, <1>8, CollectorAssumption DEF Pad

\* The tokens update_inference_inputs commits.
NewTokens == [j \in 1..Committed |-> CandidateToken(retrieve[best][j])]

\* What is committed are tokens, each the target's choice after its elders,
\* and the next root is its choice after all of them.
LEMMA CommitIsGreedy ==
  ASSUME TargetTotal, RowsSound, ids \in Seq(Vocab), root \in Vocab,
         root = Argmax(ids),
         best \in 1..Len(retrieve), accept \in Nat, Accepts(best, accept)
  PROVE  /\ NewTokens \in Seq(Vocab) /\ Len(NewTokens) = accept + 1
         /\ \A j \in 1..Len(NewTokens) :
              NewTokens[j] = Argmax(ids \o SubSeq(NewTokens, 1, j - 1))
         /\ TargetAt(retrieve[best][accept + 1]) = Argmax(ids \o NewTokens)
<1>. DEFINE row == retrieve[best]
            c == NewTokens
<1>1. /\ row \in Seq((0..draft.n) \cup {Pad}) /\ row[1] = 0
      /\ \A j \in 1..Len(row) :
           row[j] # Pad => draft.path[row[j]] = SubSeq(row, 1, j)
  BY DEF RowsSound
<1>2. /\ Len(row) \in Nat /\ accept + 1 <= Len(row)
      /\ \A j \in 1..accept : CandidateToken(row[j + 1]) = TargetAt(row[j])
  BY <1>1 DEF Accepts
<1>3. c = [j \in 1..(accept + 1) |-> CandidateToken(row[j])]
  BY DEF NewTokens, Committed
<1>4. \A v \in (0..draft.n) \cup {Pad} : TargetAt(v) \in Vocab /\ TargetAt(v) # Pad
  BY TargetIsToken
<1>. HIDE DEF row, c
<1>5. \A j \in 1..Len(row) : row[j] \in (0..draft.n) \cup {Pad}
  BY <1>1, ElementOfSeq
<1>6. ASSUME NEW j \in 1..(accept + 1) PROVE row[j] # Pad
  <2>1. CASE j = 1
    BY <1>1, <2>1 DEF Pad
  <2>2. CASE j # 1
    <3>1. j - 1 \in 1..accept /\ (j - 1) + 1 = j
      BY <2>2
    <3>2. CandidateToken(row[j]) = TargetAt(row[j - 1])
      BY <1>2, <3>1
    <3>3. TargetAt(row[j - 1]) # Pad
      <4>1. j - 1 \in 1..Len(row)
        BY <1>2, <3>1
      <4>2. row[j - 1] \in (0..draft.n) \cup {Pad}
        BY <1>5, <4>1
      <4>. QED  BY <1>4, <4>2
    <3>. QED  BY <3>2, <3>3 DEF CandidateToken
  <2>. QED  BY <2>1, <2>2
<1>7. draft.token \in [1..draft.n -> Vocab] /\ draft.n \in Nat
  BY CollectorAssumption DEF RowsSound, WellFormedDraft
<1>8. ASSUME NEW j \in 1..(accept + 1)
      PROVE  CandidateToken(row[j]) = DraftToken(row[j]) /\ DraftToken(row[j]) \in Vocab
  <2>1. row[j] # Pad /\ row[j] \in 0..draft.n
    BY <1>2, <1>5, <1>6
  <2>. QED  BY <1>7, <2>1 DEF CandidateToken, DraftToken
<1>9. /\ c \in Seq(Vocab) /\ Len(c) = accept + 1
      /\ \A j \in 1..(accept + 1) : c[j] = DraftToken(row[j])
  BY <1>8, <1>3
<1>10. ASSUME NEW j \in 1..(accept + 1)
      PROVE  TargetAt(row[j]) = Argmax(ids \o SubSeq(c, 1, j))
  <2>1. row[j] # Pad /\ draft.path[row[j]] = SubSeq(row, 1, j)
    BY <1>1, <1>2, <1>6
  <2>. DEFINE path == SubSeq(row, 1, j)
              tokens == [i \in 1..Len(path) |-> DraftToken(path[i])]
  <2>2. Len(path) = j /\ \A i \in 1..j : path[i] = row[i]
    BY <1>1, <1>2
  <2>3. tokens \in Seq(Vocab) /\ Len(tokens) = j /\ \A i \in 1..j : tokens[i] = c[i]
    <3>1. \A i \in 1..j : DraftToken(path[i]) = c[i] /\ c[i] \in Vocab
      BY <1>8, <1>9, <2>2
    <3>. HIDE DEF path
    <3>. QED  BY <2>2, <3>1
  <2>4. tokens = SubSeq(c, 1, j)
    <3>1. /\ SubSeq(c, 1, j) \in Seq(Vocab) /\ Len(SubSeq(c, 1, j)) = j
          /\ \A i \in 1..j : SubSeq(c, 1, j)[i] = c[i]
      BY <1>9
    <3>. HIDE DEF tokens
    <3>. QED  BY <2>3, <3>1, SeqEqual
  <2>5. TargetAt(row[j]) = Argmax(ids \o tokens)
    BY <2>1 DEF TargetAt
  <2>. QED  BY <2>4, <2>5
<1>11. ASSUME NEW j \in 1..Len(c)
       PROVE  c[j] = Argmax(ids \o SubSeq(c, 1, j - 1))
  <2>1. CASE j = 1
    <3>1. c[j] = root
      BY <1>1, <1>9, <2>1 DEF DraftToken
    <3>2. ids \o SubSeq(c, 1, j - 1) = ids
      BY <1>9, <2>1
    <3>. QED  BY <3>1, <3>2
  <2>2. CASE j # 1
    <3>1. j - 1 \in 1..accept /\ (j - 1) + 1 = j /\ j - 1 \in 1..(accept + 1)
      BY <1>9, <2>2
    <3>2. c[j] = TargetAt(row[j - 1])
      BY <1>2, <1>3, <1>9, <3>1
    <3>. QED  BY <1>10, <3>1, <3>2
  <2>. QED  BY <2>1, <2>2
<1>12. SubSeq(c, 1, accept + 1) = c
  BY <1>9
<1>13. TargetAt(row[accept + 1]) = Argmax(ids \o c)
  <2>1. accept + 1 \in 1..(accept + 1)
    OBVIOUS
  <2>. QED  BY <1>10, <1>12, <2>1
<1>. QED  BY <1>9, <1>11, <1>13 DEF row, c

-----------------------------------------------------------------------------
(* The invariant.                                                          *)

\* No text exists at the start.
LEMMA LosslessInit == Init => LosslessInv
<1>. SUFFICES ASSUME Init PROVE LosslessInv
  OBVIOUS
<1>1. Len(Prompts) \in Nat /\ Len(Prompts) >= 1
  BY CollectorAssumption
<1>2. Control
  <2>1. prompt_outputs \in Seq(Seq(Vocab)) /\ Len(prompt_outputs) = 0
    BY DEF Init
  <2>2. pc = "attach" /\ pid = 1 /\ failed = FALSE
    BY DEF Init
  <2>3. pc \notin {"finish", "returned"} /\ pid <= Len(Prompts)
    BY <1>1, <2>2
  <2>4. pid = Len(prompt_outputs) + 1
    BY <2>1, <2>2
  <2>. QED  BY <2>1, <2>2, <2>3, <2>4 DEF Control
<1>3. TextInv /\ VerdictInv
  BY DEF Init, TextInv, VerdictInv
<1>. QED  BY <1>2, <1>3 DEF LosslessInv

\* The prompt in hand is a token sequence.
LEMMA PromptTyped ==
  ASSUME Control, pid <= Len(Prompts)
  PROVE  /\ pid \in 1..Len(Prompts) /\ Prompts[pid] \in Seq(Vocab)
         /\ Len(Prompts[pid]) \in Nat
<1>1. Len(prompt_outputs) \in Nat /\ Prompts \in Seq(Seq(Vocab))
  BY CollectorAssumption DEF Control
<1>2. pid \in 1..Len(Prompts)
  BY <1>1 DEF Control
<1>. QED  BY <1>1, <1>2

\* Committing what was accepted keeps the text greedy.
LEMMA LosslessUpdate ==
  ASSUME TargetTotal, LosslessInv, UpdateInputs
  PROVE  /\ LosslessInv'
         /\ ids' = ids \o NewTokens /\ NewTokens \in Seq(Vocab)
         /\ Len(NewTokens) >= 1
<1>. DEFINE c == NewTokens
<1>1. /\ pc = "update" /\ pc' = "draft" /\ ids' = ids \o c
      /\ new_token' = new_token + Committed
      /\ root' = TargetAt(retrieve[best][accept + 1])
      /\ UNCHANGED <<pid, failed, prompt_outputs>>
  BY DEF UpdateInputs, NewTokens, result
<1>2. /\ pid <= Len(Prompts) /\ ids \in Seq(Vocab) /\ Facts!GreedyText(Prompts[pid], ids)
      /\ root \in Vocab /\ root = Argmax(ids) /\ RowsSound
      /\ new_token = Len(ids) - Len(Prompts[pid])
      /\ best \in 1..Len(retrieve) /\ accept \in Nat /\ Accepts(best, accept)
  BY <1>1 DEF LosslessInv, Control, TextInv, VerdictInv
<1>3. Prompts[pid] \in Seq(Vocab) /\ Len(Prompts[pid]) \in Nat
  BY <1>2, PromptTyped DEF LosslessInv
<1>4. /\ c \in Seq(Vocab) /\ Len(c) = accept + 1
      /\ \A j \in 1..Len(c) : c[j] = Argmax(ids \o SubSeq(c, 1, j - 1))
      /\ root' = Argmax(ids \o c)
  BY <1>1, <1>2, CommitIsGreedy
<1>. HIDE DEF c
<1>5. Facts!GreedyText(Prompts[pid], ids \o c)
  BY <1>2, <1>3, <1>4, Facts!ExtendGreedy
<1>6. ids \o c \in Seq(Vocab) /\ Len(ids \o c) = Len(ids) + (accept + 1)
  <2>1. c \in Seq(Vocab) /\ Len(c) = accept + 1
    BY <1>4
  <2>2. ids \in Seq(Vocab)
    BY <1>2
  <2>3. ids \o c \in Seq(Vocab) /\ Len(ids \o c) = Len(ids) + Len(c)
    BY <2>1, <2>2, ConcatProperties
  <2>. QED  BY <2>1, <2>3
<1>7. new_token' = Len(ids') - Len(Prompts[pid])
  BY <1>1, <1>2, <1>3, <1>6 DEF Committed
<1>8. root' \in Vocab /\ root' = Argmax(ids')
  BY <1>1, <1>4, <1>6 DEF TargetTotal
<1>9. TextInv'
  <2>1. Facts!GreedyText(Prompts[pid'], ids')
    BY <1>1, <1>5
  <2>2. new_token' = Len(ids') - Len(Prompts[pid']) /\ new_token' \in Int
    BY <1>1, <1>3, <1>6, <1>7
  <2>. QED  BY <1>1, <1>6, <1>8, <2>1, <2>2 DEF TextInv
<1>10. Control' /\ VerdictInv'
  BY <1>1 DEF LosslessInv, Control, VerdictInv
<1>. QED  BY <1>1, <1>2, <1>4, <1>9, <1>10 DEF LosslessInv, c

\* Drafting and gating keep the text; the edited rows are sound.
LEMMA LosslessDraft == LosslessInv /\ DraftTree => LosslessInv'
<1>. SUFFICES ASSUME LosslessInv, DraftTree PROVE LosslessInv'
  OBVIOUS
<1>1. /\ pc = "draft" /\ pc' = IF Stop THEN "detach" ELSE "verify"
      /\ UNCHANGED <<pid, ids, root, new_token, failed, prompt_outputs>>
  BY DEF DraftTree, result
<1>2. PICK d \in Drafts : draft' = d /\ retrieve' = EditedRows(d, sigma_th)
  BY DEF DraftTree
<1>3. RowsSound'
  <2>. DEFINE e == EditedRows(d, sigma_th)
  <2>1. /\ e \in Seq(Seq((0..d.n) \cup {Pad}))
        /\ \A r \in 1..Len(e) :
             /\ Len(e[r]) >= 1 /\ e[r][1] = 0
             /\ \A j \in 1..Len(e[r]) :
                  e[r][j] # Pad => d.path[e[r][j]] = SubSeq(e[r], 1, j)
    BY EditedRowsSound
  <2>. HIDE DEF e
  <2>. QED  BY <1>2, <2>1 DEF RowsSound, e
<1>4. Control'
  BY <1>1 DEF LosslessInv, Control
<1>5. Prompts[pid] \in Seq(Vocab) /\ Len(Prompts[pid]) \in Nat
  BY <1>1, PromptTyped DEF LosslessInv, Control
<1>6. Stop => Len(ids) > Len(Prompts[pid])
  BY <1>1, <1>5, CollectorAssumption DEF Stop, LosslessInv, TextInv
<1>7. TextInv'
  BY <1>1, <1>6 DEF LosslessInv, TextInv, Facts!GreedyText
<1>8. VerdictInv'
  BY <1>1, <1>3 DEF VerdictInv
<1>. QED  BY <1>4, <1>7, <1>8 DEF LosslessInv

\* What verification accepts is a path of the target's choices.
LEMMA LosslessVerify == LosslessInv /\ Verify => LosslessInv'
<1>. SUFFICES ASSUME LosslessInv, Verify PROVE LosslessInv'
  OBVIOUS
<1>1. /\ pc = "verify" /\ pc' = "update"
      /\ UNCHANGED <<pid, ids, root, new_token, draft, retrieve, failed, prompt_outputs>>
  BY DEF Verify, result
<1>2. PICK b \in 1..Len(retrieve), a \in 0..draft.n :
        Posterior(b, a) /\ best' = b /\ accept' = a
  BY DEF Verify
<1>3. RowsSound /\ RowsSound'
  BY <1>1 DEF LosslessInv, VerdictInv, RowsSound
<1>4. Accepts(best, accept)'
  BY <1>1, <1>2 DEF Posterior, Accepts, CandidateToken, TargetAt, DraftToken
<1>5. best' \in 1..Len(retrieve') /\ accept' \in Nat
  BY <1>1, <1>2
<1>6. VerdictInv'
  BY <1>1, <1>3, <1>4, <1>5 DEF VerdictInv
<1>7. Control' /\ TextInv'
  BY <1>1 DEF LosslessInv, Control, TextInv, Facts!GreedyText
<1>. QED  BY <1>6, <1>7 DEF LosslessInv

\* A prompt starts from its own text.
LEMMA LosslessGenerate ==
  ASSUME TargetTotal, LosslessInv, Generate
  PROVE  LosslessInv'
<1>1. /\ pc = "generate" /\ pc' = "draft" /\ ids' = Prompts[pid] /\ new_token' = 0
      /\ root' = Argmax(Prompts[pid]) /\ UNCHANGED <<pid, failed, prompt_outputs>>
  BY DEF Generate, result
<1>2. Prompts[pid] \in Seq(Vocab) /\ Len(Prompts[pid]) \in Nat
  BY <1>1, PromptTyped DEF LosslessInv, Control
<1>3. Facts!GreedyText(Prompts[pid], Prompts[pid])
  BY <1>2 DEF Facts!GreedyText
<1>4. TextInv'
  BY <1>1, <1>2, <1>3 DEF TextInv, TargetTotal, Facts!GreedyText
<1>5. Control' /\ VerdictInv'
  BY <1>1 DEF LosslessInv, Control, VerdictInv
<1>. QED  BY <1>4, <1>5 DEF LosslessInv

\* A prompt that ended normally is delivered with its greedy text.
LEMMA LosslessDetach == LosslessInv /\ Detach => LosslessInv'
<1>. SUFFICES ASSUME LosslessInv, Detach PROVE LosslessInv'
  OBVIOUS
<1>1. /\ pc = "detach" /\ pc' = AfterDetach
      /\ UNCHANGED <<failed, new_token>>
      /\ IF failed THEN UNCHANGED <<pid, ids, prompt_outputs>>
         ELSE /\ prompt_outputs' = Append(prompt_outputs,
                   SubSeq(ids, Len(Prompts[pid]) + 1, Len(ids)))
              /\ ids' = <<>> /\ pid' = pid + 1
  BY DEF Detach
<1>2. Prompts[pid] \in Seq(Vocab) /\ Len(Prompts[pid]) \in Nat
      /\ pid \in 1..Len(Prompts) /\ Len(Prompts) \in Nat
  BY <1>1, PromptTyped, CollectorAssumption DEF LosslessInv, Control
<1>3. SubSeq(ids, Len(Prompts[pid]) + 1, Len(ids)) \in Seq(Vocab)
  BY <1>2 DEF LosslessInv, TextInv
<1>4. Control'
  <2>1. CASE failed
    BY <1>1, <1>2, <2>1 DEF LosslessInv, Control, AfterDetach
  <2>2. CASE ~failed
    <3>1. /\ prompt_outputs' \in Seq(Seq(Vocab))
          /\ Len(prompt_outputs') = Len(prompt_outputs) + 1
          /\ pid = Len(prompt_outputs) + 1 /\ pid' = pid + 1
      <4>1. prompt_outputs \in Seq(Seq(Vocab)) /\ pid = Len(prompt_outputs) + 1
        BY DEF LosslessInv, Control
      <4>2. /\ prompt_outputs' = Append(prompt_outputs,
                 SubSeq(ids, Len(Prompts[pid]) + 1, Len(ids)))
            /\ pid' = pid + 1
        BY <1>1, <2>2
      <4>. QED  BY <1>3, <4>1, <4>2, AppendProperties
    <3>2. pc' = IF pid < Len(Prompts) THEN "attach" ELSE "finish"
      BY <1>1, <2>2 DEF AfterDetach
    <3>3. pid' = Len(prompt_outputs') + 1
      BY <3>1, LenProperties, <1>2
    <3>4. IF pc' \in {"finish", "returned"} THEN pid' = Len(Prompts) + 1
          ELSE pid' <= Len(Prompts)
      BY <1>2, <3>1, <3>2
    <3>5. failed' = FALSE /\ pc' \in {"attach", "finish"}
      BY <1>1, <2>2, <3>2 DEF LosslessInv, Control
    <3>. QED  BY <3>1, <3>3, <3>4, <3>5 DEF Control
  <2>. QED  BY <2>1, <2>2
<1>5. TextInv' /\ VerdictInv'
  <2>1. pc' \in {"aborted", "attach", "finish"} /\ (pc' = "attach" => ~failed)
    BY <1>1 DEF AfterDetach
  <2>2. ids \in Seq(Vocab) /\ new_token \in Int
    BY DEF LosslessInv, TextInv
  <2>3. new_token' \in Int
    BY <1>1, <2>2
  <2>4. ids' \in Seq(Vocab) /\ (pc' = "attach" => ids' = <<>>)
    <3>1. CASE failed
      BY <1>1, <2>1, <2>2, <3>1
    <3>2. CASE ~failed
      BY <1>1, <3>2
    <3>. QED  BY <3>1, <3>2
  <2>. QED  BY <2>1, <2>3, <2>4, <1>1 DEF TextInv, VerdictInv
<1>. QED  BY <1>4, <1>5 DEF LosslessInv

\* No other action touches the text.
LEMMA LosslessOthers ==
  LosslessInv /\ (Attach \/ Raise \/ Return \/ Terminated \/ UNCHANGED vars)
    => LosslessInv'
<1>. SUFFICES ASSUME LosslessInv,
                     Attach \/ Raise \/ Return \/ Terminated \/ UNCHANGED vars
              PROVE  LosslessInv'
  OBVIOUS
<1>1. CASE Attach
  BY <1>1 DEF Attach, loop, result, LosslessInv, Control, TextInv, VerdictInv
<1>2. CASE Raise
  BY <1>2 DEF Raise, loop, result, LosslessInv, Control, TextInv, VerdictInv
<1>3. CASE Return
  BY <1>3 DEF Return, loop, LosslessInv, Control, TextInv, VerdictInv
<1>4. CASE Terminated \/ UNCHANGED vars
  <2>1. UNCHANGED <<pc, pid, loop, failed, prompt_outputs>>
    BY <1>4 DEF Terminated, vars, result
  <2>2. RowsSound => RowsSound'
    BY <2>1 DEF loop, RowsSound
  <2>3. Accepts(best, accept) => Accepts(best, accept)'
    BY <2>1 DEF loop, Accepts, CandidateToken, TargetAt, DraftToken
  <2>. QED  BY <2>1, <2>2, <2>3 DEF loop, LosslessInv, Control, TextInv, VerdictInv, Facts!GreedyText
<1>. QED  BY <1>1, <1>2, <1>3, <1>4

\* Every step keeps the text greedy.
LEMMA LosslessNext ==
  ASSUME TargetTotal, LosslessInv, [Next]_vars
  PROVE  LosslessInv'
BY LosslessUpdate, LosslessDraft, LosslessVerify, LosslessGenerate,
   LosslessDetach, LosslessOthers DEF Next

-----------------------------------------------------------------------------
(* The refinement.                                                         *)

\* A step that commits tokens decodes; a normal detach delivers.
LEMMA StepRefines ==
  ASSUME TargetTotal, LosslessInv, [Next]_vars
  PROVE  [Text!Next]_<<Generated, prompt_outputs>>
<1>1. LosslessInv'
  BY LosslessNext
<1>2. CASE UpdateInputs
  <2>. DEFINE p == Prompts[pid]
  <2>1. /\ pc = "update" /\ pc' = "draft" /\ UNCHANGED <<pid, prompt_outputs>>
        /\ pid <= Len(Prompts) /\ pid = Len(prompt_outputs) + 1
    BY <1>2 DEF UpdateInputs, result, LosslessInv, Control
  <2>2. /\ p \in Seq(Vocab) /\ ids \in Seq(Vocab) /\ ids' \in Seq(Vocab)
        /\ Facts!GreedyText(p, ids) /\ Facts!GreedyText(p, ids') /\ Len(p) \in Nat
    BY <1>1, <2>1, PromptTyped DEF LosslessInv, TextInv, Facts!GreedyText
  <2>3. ids' = ids \o NewTokens /\ NewTokens \in Seq(Vocab) /\ Len(NewTokens) >= 1
    BY <1>2, LosslessUpdate
  <2>. DEFINE g == SubSeq(ids, Len(p) + 1, Len(ids))
              h == SubSeq(ids', Len(p) + 1, Len(ids'))
  <2>4. Generated = g /\ Generated' = h
    <3>1. pid \in 1..Len(Prompts) /\ Len(Prompts) \in Nat
      BY <2>1, PromptTyped, CollectorAssumption DEF LosslessInv
    <3>2. ~(pid > Len(Prompts)) /\ pid' = pid
      BY <2>1, <3>1
    <3>. QED  BY <3>2 DEF Generated
  <2>5. Text!GreedyFrom(p, h)
    BY <2>2, Facts!TailGreedy DEF Text!GreedyFrom, Facts!GreedyFrom
  <2>6. Len(h) > Len(g) /\ Text!Prefix(g, h)
    <3>1. Len(p) <= Len(ids)
      BY <2>2 DEF Facts!GreedyText
    <3>. DEFINE H(text) == SubSeq(text, Len(p) + 1, Len(text))
    <3>2. Len(H(ids \o NewTokens)) > Len(g) /\ Facts!Prefix(g, H(ids \o NewTokens))
      BY <2>2, <2>3, <3>1, Facts!TailGrows
    <3>3. H(ids \o NewTokens) = h
      BY <2>3
    <3>. HIDE DEF H, g, h
    <3>. QED  BY <3>2, <3>3 DEF Text!Prefix, Facts!Prefix
  <2>7. Len(prompt_outputs) < Len(Prompts)
    BY <2>1, CollectorAssumption DEF LosslessInv, Control
  <2>. HIDE DEF g, h
  <2>8. Text!Decode
    BY <2>1, <2>4, <2>5, <2>6, <2>7 DEF Text!Decode, Text!Current, p
  <2>. QED  BY <2>8 DEF Text!Next
<1>3. CASE Detach /\ ~failed
  <2>1. /\ pc = "detach" /\ pid <= Len(Prompts) /\ pid = Len(prompt_outputs) + 1
        /\ prompt_outputs' = Append(prompt_outputs,
             SubSeq(ids, Len(Prompts[pid]) + 1, Len(ids)))
        /\ ids' = <<>> /\ pid' = pid + 1
    BY <1>3 DEF Detach, LosslessInv, Control
  <2>2. /\ Prompts[pid] \in Seq(Vocab) /\ Len(Prompts[pid]) \in Nat
        /\ Len(ids) > Len(Prompts[pid]) /\ ids \in Seq(Vocab)
    BY <1>3, <2>1, PromptTyped DEF LosslessInv, TextInv
  <2>3. Generated = SubSeq(ids, Len(Prompts[pid]) + 1, Len(ids)) /\ Generated # <<>>
    <3>1. pid \in 1..Len(Prompts) /\ Len(Prompts) \in Nat
      BY <2>1, PromptTyped, CollectorAssumption DEF LosslessInv
    <3>2. Generated = SubSeq(ids, Len(Prompts[pid]) + 1, Len(ids))
      <4>1. ~(pid > Len(Prompts))
        BY <3>1
      <4>. QED  BY <4>1 DEF Generated
    <3>3. Len(SubSeq(ids, Len(Prompts[pid]) + 1, Len(ids))) >= 1
      BY <2>2, Facts!TailOf
    <3>4. Generated # <<>>
      <4>1. Len(Generated) >= 1
        BY <3>2, <3>3
      <4>. QED  BY <4>1
    <3>. QED  BY <3>2, <3>4
  <2>4. Generated' = <<>>
    <3>1. CASE pid' > Len(Prompts)
      BY <3>1 DEF Generated
    <3>2. CASE ~(pid' > Len(Prompts))
      <4>1. Generated' = SubSeq(<<>>, Len(Prompts[pid']) + 1, 0)
        BY <2>1, <3>2 DEF Generated
      <4>2. Len(Prompts[pid']) \in Nat
        BY <1>1, <3>2, CollectorAssumption DEF LosslessInv, Control
      <4>. QED  BY <4>1, <4>2
    <3>. QED  BY <3>1, <3>2
  <2>5. Len(prompt_outputs) < Len(Prompts)
    BY <2>1, CollectorAssumption DEF LosslessInv, Control
  <2>6. Text!Deliver
    BY <2>1, <2>3, <2>4, <2>5 DEF Text!Deliver
  <2>. QED  BY <2>6 DEF Text!Next
<1>4. CASE Generate
  <2>1. /\ ids = <<>> /\ ids' = Prompts[pid] /\ UNCHANGED <<pid, prompt_outputs>>
        /\ pid <= Len(Prompts)
    BY <1>4 DEF Generate, result, LosslessInv, Control, TextInv
  <2>2. Prompts[pid] \in Seq(Vocab) /\ Len(Prompts[pid]) \in Nat
    BY <2>1, PromptTyped DEF LosslessInv
  <2>3. Generated = <<>> /\ Generated' = <<>>
    BY <2>1, <2>2 DEF Generated
  <2>. QED  BY <2>1, <2>3
<1>5. CASE UNCHANGED <<pid, ids, prompt_outputs>>
  BY <1>5 DEF Generated
<1>6. CASE Attach \/ Raise \/ Return \/ Terminated \/ UNCHANGED vars
  <2>1. UNCHANGED <<pid, ids, prompt_outputs>>
    BY <1>6 DEF Attach, Raise, Return, Terminated, vars, loop, result
  <2>. QED  BY <1>5, <2>1
<1>7. CASE DraftTree \/ Verify \/ (Detach /\ failed)
  <2>1. UNCHANGED <<pid, ids, prompt_outputs>>
    BY <1>7 DEF DraftTree, Verify, Detach, result
  <2>. QED  BY <1>5, <2>1
<1>. QED  BY <1>2, <1>3, <1>4, <1>6, <1>7 DEF Next

\* Losslessness: for every prompt set, target model, drafter and threshold,
\* what `collect` delivers is the target's own greedy decoding.
THEOREM Lossless ==
  ASSUME TargetTotal
  PROVE  Spec => RefinesGreedy
<1>1. Init => Text!Init
  <2>. SUFFICES ASSUME Init PROVE Text!Init
    OBVIOUS
  <2>1. Len(Prompts[1]) \in Nat /\ Len(Prompts) >= 1
    BY CollectorAssumption
  <2>2. Generated = <<>>
    BY <2>1 DEF Init, Generated
  <2>. QED  BY <2>2 DEF Init, Text!Init
<1>2. LosslessInv /\ [Next]_vars => LosslessInv'
  BY LosslessNext
<1>3. LosslessInv /\ [Next]_vars => [Text!Next]_<<Generated, prompt_outputs>>
  BY StepRefines
<1>. QED  BY <1>1, <1>2, <1>3, LosslessInit, PTL DEF Spec, RefinesGreedy, Text!Spec

-----------------------------------------------------------------------------
(* The shape of a drafted tree.                                            *)

\* A row starts at the root, and the path of a node on it is the row up to it.
LEMMA RowShape ==
  ASSUME NEW d \in Drafts, NEW r \in 1..Len(d.rows)
  PROVE  /\ d.rows[r] \in Seq((0..d.n) \cup {Pad})
         /\ Len(d.rows[r]) \in Nat /\ d.rows[r][1] = 0
         /\ \A j \in 1..Len(d.rows[r]) :
              d.rows[r][j] # Pad => d.path[d.rows[r][j]] = SubSeq(d.rows[r], 1, j)
<1>1. WellFormedDraft(d)
  BY CollectorAssumption
<1>2. d.rows \in Seq(Seq((0..d.n) \cup {Pad}))
  BY <1>1 DEF WellFormedDraft
<1>3. d.rows[r] \in Seq((0..d.n) \cup {Pad})
  BY <1>2, ElementOfSeq
<1>4. Len(d.rows[r]) \in Nat
  BY <1>3, LenProperties
<1>. QED  BY <1>1, <1>3, <1>4 DEF WellFormedDraft

\* The typed parts of a draft.
LEMMA DraftTyped ==
  ASSUME NEW d \in Drafts
  PROVE  /\ d.n \in Nat /\ d.path \in [0..d.n -> Seq(0..d.n)] /\ d.path[0] = <<0>>
         /\ d.cum \in [1..d.n -> Int] /\ d.token \in [1..d.n -> Vocab]
         /\ NodesOf(d.rows) = 1..d.n /\ Len(d.rows) \in Nat
         /\ \A v \in 1..d.n :
              /\ d.cum[v] <= 0
              /\ \A i \in 2..Len(d.path[v]) :
                   d.path[v][i - 1] < d.path[v][i] /\ d.cum[v] <= d.cum[d.path[v][i]]
<1>1. WellFormedDraft(d)
  BY CollectorAssumption
<1>2. Len(d.rows) \in Nat
  BY <1>1, LenProperties DEF WellFormedDraft
<1>. QED  BY <1>1, <1>2 DEF WellFormedDraft

\* A drafted node stands in some row, and its path is that row up to it.
LEMMA NodeInRow ==
  ASSUME NEW d \in Drafts, NEW v \in 1..d.n
  PROVE  \E r \in 1..Len(d.rows) : \E j \in 2..Len(d.rows[r]) :
           /\ d.rows[r][j] = v /\ d.path[v] = SubSeq(d.rows[r], 1, j)
           /\ d.rows[r] \in Seq((0..d.n) \cup {Pad}) /\ d.rows[r][1] = 0
<1>1. WellFormedDraft(d)
  BY CollectorAssumption
<1>2. v \in NodesOf(d.rows)
  BY <1>1 DEF WellFormedDraft
<1>3. PICK r \in 1..Len(d.rows) : \E j \in 1..Len(d.rows[r]) : d.rows[r][j] = v
  BY <1>2 DEF NodesOf
<1>4. PICK j \in 1..Len(d.rows[r]) : d.rows[r][j] = v
  BY <1>3
<1>5. /\ d.rows[r] \in Seq((0..d.n) \cup {Pad}) /\ d.rows[r][1] = 0
      /\ d.rows[r][j] # Pad => d.path[d.rows[r][j]] = SubSeq(d.rows[r], 1, j)
  BY <1>1 DEF WellFormedDraft
<1>6. j # 1 /\ v # Pad
  BY <1>4, <1>5 DEF Pad
<1>. QED  BY <1>4, <1>5, <1>6

\* A node's parent is drafted before it, one level up, with a score at least
\* as high; the root's children are the nodes of depth 0.
LEMMA ParentShape ==
  ASSUME NEW d \in Drafts, NEW v \in 1..d.n
  PROVE  /\ Depth(d, v) \in Nat
         /\ Parent(d, v) \in 0..d.n /\ Parent(d, v) < v
         /\ Parent(d, v) = 0 <=> Depth(d, v) = 0
         /\ Parent(d, v) # 0 =>
              /\ Depth(d, Parent(d, v)) = Depth(d, v) - 1
              /\ d.cum[v] <= d.cum[Parent(d, v)]
<1>1. /\ d.n \in Nat /\ d.path \in [0..d.n -> Seq(0..d.n)] /\ d.path[0] = <<0>>
      /\ \A r \in 1..Len(d.rows) : \A j \in 1..Len(d.rows[r]) :
           d.rows[r][j] # Pad => d.path[d.rows[r][j]] = SubSeq(d.rows[r], 1, j)
      /\ \A i \in 2..Len(d.path[v]) :
           d.path[v][i - 1] < d.path[v][i] /\ d.cum[v] <= d.cum[d.path[v][i]]
  BY CollectorAssumption DEF WellFormedDraft
<1>r. PICK r \in 1..Len(d.rows) : \E j \in 2..Len(d.rows[r]) :
           /\ d.rows[r][j] = v /\ d.path[v] = SubSeq(d.rows[r], 1, j)
           /\ d.rows[r] \in Seq((0..d.n) \cup {Pad}) /\ d.rows[r][1] = 0
  BY NodeInRow
<1>2. PICK j \in 2..Len(d.rows[r]) :
           /\ d.rows[r][j] = v /\ d.path[v] = SubSeq(d.rows[r], 1, j)
           /\ d.rows[r] \in Seq((0..d.n) \cup {Pad}) /\ d.rows[r][1] = 0
  BY <1>r
<1>. DEFINE row == d.rows[r]
            p == row[j - 1]
<1>3. row \in Seq((0..d.n) \cup {Pad}) /\ Len(row) \in Nat
  BY <1>2
<1>4. d.path[v] \in Seq(0..d.n)
  BY <1>1
<1>5. Len(d.path[v]) = j /\ \A i \in 1..j : d.path[v][i] = row[i]
  <2>1. d.path[v] = SubSeq(row, 1, j)
    BY <1>2
  <2>. HIDE DEF row
  <2>. QED  BY <1>2, <1>3, <2>1
<1>6. Parent(d, v) = p /\ p \in 0..d.n /\ p < v
  <2>1. Parent(d, v) = d.path[v][j - 1] /\ d.path[v][j - 1] = p
    BY <1>5 DEF Parent
  <2>2. j - 1 \in 1..Len(d.path[v]) /\ j \in 2..Len(d.path[v])
    BY <1>5
  <2>3. d.path[v][j - 1] \in 0..d.n
    <3>. DEFINE q == d.path[v]
    <3>1. q \in Seq(0..d.n) /\ j - 1 \in 1..Len(q)
      BY <1>4, <2>2
    <3>. HIDE DEF q
    <3>2. q[j - 1] \in 0..d.n
      BY <3>1, ElementOfSeq
    <3>. QED  BY <3>2 DEF q
  <2>4. d.path[v][j - 1] < d.path[v][j] /\ d.path[v][j] = v
    BY <1>1, <1>2, <1>5, <2>2
  <2>. QED  BY <2>1, <2>3, <2>4
<1>7. d.path[p] = SubSeq(row, 1, j - 1) /\ Len(d.path[p]) = j - 1
  <2>1. p # Pad /\ j - 1 \in 1..Len(row)
    BY <1>3, <1>6 DEF Pad
  <2>2. d.path[p] = SubSeq(row, 1, j - 1)
    BY <1>1, <1>2, <2>1
  <2>. HIDE DEF row
  <2>. QED  BY <1>3, <2>1, <2>2
<1>8. Depth(d, v) = j - 2
  BY <1>5 DEF Depth
<1>9. p = 0 <=> j = 2
  <2>1. j = 2 => p = 0
    BY <1>2
  <2>2. ASSUME p = 0 PROVE j = 2
    <3>1. d.path[p] = <<0>>
      BY <1>1, <2>2
    <3>2. Len(d.path[p]) = 1
      BY <3>1
    <3>. QED  BY <1>2, <1>7, <3>2
  <2>. QED  BY <2>1, <2>2
<1>10. p # 0 => Depth(d, p) = Depth(d, v) - 1 /\ d.cum[v] <= d.cum[p]
  <2>1. Depth(d, p) = Depth(d, v) - 1
    BY <1>7, <1>8 DEF Depth
  <2>2. p # 0 => j - 1 \in 2..Len(d.path[v]) /\ d.path[v][j - 1] = p
    BY <1>5, <1>9
  <2>. QED  BY <1>1, <2>1, <2>2
<1>. HIDE DEF p
<1>. QED  BY <1>6, <1>8, <1>9, <1>10

-----------------------------------------------------------------------------
(* The gate.                                                               *)

\* Cumulative scores fall along a path, so a kept node's ancestors are kept:
\* the closure test of invalidate_paths never fails on the gate's keep set.
THEOREM GateIsClosed ==
  \A d \in Drafts, sigma \in Thresholds : Closed(d.rows, KeptDraft(d, sigma))
<1>. SUFFICES ASSUME NEW d \in Drafts, NEW sigma \in Thresholds,
                     NEW r \in 1..Len(d.rows), NEW j \in 1..Len(d.rows[r]),
                     Survives(d.rows[r][j], KeptDraft(d, sigma)),
                     NEW i \in 1..j
              PROVE  Survives(d.rows[r][i], KeptDraft(d, sigma))
  BY DEF Closed, RowClosed, AliveAfter
<1>. DEFINE row == d.rows[r]
            v == row[j]
            u == row[i]
<1>1. /\ d.n \in Nat /\ d.path \in [0..d.n -> Seq(0..d.n)] /\ d.path[0] = <<0>>
      /\ d.cum \in [1..d.n -> Int]
      /\ row \in Seq((0..d.n) \cup {Pad}) /\ row[1] = 0
      /\ v # Pad => d.path[v] = SubSeq(row, 1, j)
  BY DraftTyped, RowShape
<1>2. \A w \in 1..d.n : \A k \in 2..Len(d.path[w]) :
        d.path[w][k - 1] < d.path[w][k] /\ d.cum[w] <= d.cum[d.path[w][k]]
  BY DraftTyped
<1>3. sigma = NegInf \/ sigma \in Int
  BY CollectorAssumption
<1>4. v # Pad /\ (v = 0 \/ v \in KeptDraft(d, sigma)) /\ v \in 0..d.n
  BY <1>1 DEF Survives, KeptDraft
<1>5. Len(d.path[v]) = j /\ \A k \in 1..j : d.path[v][k] = row[k]
  <2>1. row \in Seq((0..d.n) \cup {Pad}) /\ j \in 1..Len(row)
    BY <1>1
  <2>2. d.path[v] = SubSeq(row, 1, j)
    BY <1>1, <1>4
  <2>. HIDE DEF row
  <2>. QED  BY <2>1, <2>2
<1>6. u \in 0..d.n
  <2>. DEFINE q == d.path[v]
  <2>1. q \in Seq(0..d.n) /\ i \in 1..Len(q) /\ q[i] = u
    BY <1>1, <1>4, <1>5
  <2>. HIDE DEF q, u
  <2>. QED  BY <2>1, ElementOfSeq
<1>7. CASE i = 1
  BY <1>1, <1>7 DEF Survives, Pad
<1>8. CASE i # 1
  <2>1. v \in 1..d.n /\ v \in KeptDraft(d, sigma)
    <3>1. ASSUME v = 0 PROVE FALSE
      <4>1. d.path[v] = <<0>>
        BY <1>1, <3>1
      <4>2. Len(d.path[v]) = 1
        BY <4>1
      <4>. QED  BY <1>5, <1>8, <4>2
    <3>. QED  BY <1>4, <3>1
  <2>2. i \in 2..Len(d.path[v]) /\ d.path[v][i] = u /\ i - 1 \in 1..Len(d.path[v])
    BY <1>5, <1>8
  <2>3. d.path[v][i - 1] < u /\ d.cum[v] <= d.cum[u]
    BY <1>2, <2>1, <2>2
  <2>4. d.path[v][i - 1] \in 0..d.n
    <3>. DEFINE q == d.path[v]
    <3>1. q \in Seq(0..d.n) /\ i - 1 \in 1..Len(q)
      BY <1>1, <1>4, <2>2
    <3>. HIDE DEF q
    <3>2. q[i - 1] \in 0..d.n
      BY <3>1, ElementOfSeq
    <3>. QED  BY <3>2 DEF q
  <2>. HIDE DEF u, v
  <2>5. u \in 1..d.n
    BY <1>6, <2>3, <2>4
  <2>6. u \in KeptDraft(d, sigma)
    <3>1. sigma = NegInf \/ d.cum[v] >= sigma
      BY <2>1 DEF KeptDraft
    <3>2. sigma = NegInf \/ d.cum[u] >= sigma
      <4>1. d.cum[u] \in Int /\ d.cum[v] \in Int
        BY <1>1, <2>1, <2>5
      <4>. QED  BY <1>3, <2>3, <3>1, <4>1
    <3>. QED  BY <2>5, <3>2 DEF KeptDraft
  <2>7. Survives(u, KeptDraft(d, sigma))
    BY <2>5, <2>6 DEF Survives, Pad
  <2>. QED  BY <2>7 DEF u
<1>. QED  BY <1>7, <1>8

\* The edited rows reach exactly the nodes the gate keeps.
THEOREM CutRowsReachKept ==
  \A d \in Drafts, sigma \in Thresholds :
    NodesOf(EditedRows(d, sigma)) = KeptDraft(d, sigma)
<1>. SUFFICES ASSUME NEW d \in Drafts, NEW sigma \in Thresholds
              PROVE  NodesOf(EditedRows(d, sigma)) = KeptDraft(d, sigma)
  OBVIOUS
<1>. DEFINE keep == KeptDraft(d, sigma)
            e == EditedRows(d, sigma)
<1>1. NodesOf(d.rows) = 1..d.n /\ Len(d.rows) \in Nat
  BY DraftTyped
<1>2. CASE sigma = NegInf
  BY <1>1, <1>2 DEF EditedRows, KeptDraft
<1>3. CASE sigma # NegInf
  <2>1. e = [r \in 1..Len(d.rows) |-> TruncatedRow(d.rows[r], keep)]
    BY <1>3 DEF EditedRows, InvalidatePaths
  <2>2. Len(e) = Len(d.rows)
    BY <1>1, <2>1
  <2>3. ASSUME NEW r \in 1..Len(d.rows)
        PROVE  /\ Len(d.rows[r]) \in Nat /\ Len(e[r]) = Len(d.rows[r])
               /\ \A j \in 1..Len(d.rows[r]) :
                    e[r][j] = IF AliveAfter(d.rows[r], keep, j) THEN d.rows[r][j]
                              ELSE Pad
    <3>2. Len(d.rows[r]) \in Nat
      BY RowShape
    <3>3. e[r] = [j \in 1..Len(d.rows[r]) |->
                    IF AliveAfter(d.rows[r], keep, j) THEN d.rows[r][j] ELSE Pad]
      BY <2>1 DEF TruncatedRow
    <3>4. Len(e[r]) = Len(d.rows[r])
      <4>. HIDE DEF e
      <4>. QED  BY <3>2, <3>3
    <3>5. \A j \in 1..Len(d.rows[r]) :
            e[r][j] = IF AliveAfter(d.rows[r], keep, j) THEN d.rows[r][j] ELSE Pad
      <4>. HIDE DEF e
      <4>. QED  BY <3>3
    <3>. QED  BY <3>2, <3>4, <3>5
  <2>. HIDE DEF e, keep
  <2>4. ASSUME NEW v \in NodesOf(e) PROVE v \in keep
    <3>0. PICK r \in 1..Len(e) :
            \E j \in 1..Len(e[r]) : e[r][j] = v /\ v \notin {0, Pad}
      BY DEF NodesOf
    <3>1. PICK j \in 1..Len(e[r]) : e[r][j] = v /\ v \notin {0, Pad}
      BY <3>0
    <3>2. AliveAfter(d.rows[r], keep, j) /\ d.rows[r][j] = v
      BY <2>2, <2>3, <3>1
    <3>3. Survives(d.rows[r][j], keep)
      BY <2>2, <2>3, <3>1, <3>2 DEF AliveAfter
    <3>. QED  BY <3>1, <3>2, <3>3 DEF Survives
  <2>5. ASSUME NEW v \in keep PROVE v \in NodesOf(e)
    <3>1. v \in 1..d.n
      BY DEF keep, KeptDraft
    <3>r. PICK r \in 1..Len(d.rows) : \E j \in 2..Len(d.rows[r]) : d.rows[r][j] = v
      BY <3>1, NodeInRow
    <3>2. PICK j \in 2..Len(d.rows[r]) : d.rows[r][j] = v
      BY <3>r
    <3>3. j \in 1..Len(d.rows[r])
      BY <2>3, <3>2
    <3>4. AliveAfter(d.rows[r], keep, j)
      <4>1. Closed(d.rows, keep)
        BY GateIsClosed DEF keep
      <4>2. Survives(d.rows[r][j], keep)
        BY <3>1, <3>2 DEF Survives, Pad
      <4>. QED  BY <3>3, <4>1, <4>2 DEF Closed, RowClosed
    <3>5. r \in 1..Len(e) /\ j \in 1..Len(e[r]) /\ e[r][j] = v
      BY <2>2, <2>3, <3>2, <3>3, <3>4
    <3>. QED  BY <3>1, <3>5 DEF NodesOf, Pad
  <2>. QED  BY <2>4, <2>5 DEF keep, e
<1>. QED  BY <1>2, <1>3

-----------------------------------------------------------------------------
(* Re-indexing.                                                            *)

\* The kept draft indices are a finite set of positive numbers.
LEMMA KeptFinite ==
  ASSUME NEW n \in Nat, NEW kept \in SUBSET (1..n)
  PROVE  /\ IsFiniteSet(kept) /\ Cardinality(kept) \in Nat
         /\ \A T \in SUBSET kept : IsFiniteSet(T) /\ Cardinality(T) \in Nat
<1>1. IsFiniteSet(1..n)
  BY FS_Interval
<1>2. IsFiniteSet(kept)
  BY <1>1, FS_Subset
<1>3. \A T \in SUBSET kept : IsFiniteSet(T)
  BY <1>2, FS_Subset
<1>. QED  BY <1>2, <1>3, FS_CardinalityType

\* Re-indexing keeps the order, so it is one-to-one, and it stays in range.
LEMMA IndexOrdered ==
  ASSUME NEW n \in Nat, NEW kept \in SUBSET (1..n)
  PROVE  /\ \A v \in kept : NewIndexOf(kept)[v] \in 0..(Cardinality(kept) - 1)
         /\ \A u, v \in kept : u < v => NewIndexOf(kept)[u] < NewIndexOf(kept)[v]
<1>. DEFINE Below(v) == {u \in kept : u < v}
<1>1. ASSUME NEW v \in kept
      PROVE  /\ NewIndexOf(kept)[v] = Cardinality(Below(v))
             /\ Below(v) \in SUBSET kept /\ v \notin Below(v)
  BY DEF NewIndexOf
<1>2. ASSUME NEW S \in SUBSET kept, NEW T \in SUBSET S, T # S
      PROVE  Cardinality(T) \in Nat /\ Cardinality(T) < Cardinality(S)
  <2>1. IsFiniteSet(S) /\ Cardinality(S) \in Nat /\ Cardinality(T) \in Nat
    BY KeptFinite
  <2>2. Cardinality(T) <= Cardinality(S) /\ Cardinality(T) # Cardinality(S)
    BY <1>2, <2>1, FS_Subset
  <2>. QED  BY <2>1, <2>2
<1>3. ASSUME NEW v \in kept PROVE NewIndexOf(kept)[v] \in 0..(Cardinality(kept) - 1)
  <2>1. Cardinality(Below(v)) \in Nat /\ Cardinality(Below(v)) < Cardinality(kept)
    BY <1>1, <1>2
  <2>2. Cardinality(kept) \in Nat
    BY KeptFinite
  <2>. QED  BY <1>1, <2>1, <2>2
<1>4. ASSUME NEW u \in kept, NEW v \in kept, u < v
      PROVE  NewIndexOf(kept)[u] < NewIndexOf(kept)[v]
  <2>1. Below(u) \in SUBSET Below(v) /\ u \in Below(v) /\ u \notin Below(u)
    <3>1. \A w \in kept : w \in Int
      OBVIOUS
    <3>2. ~(u < u) /\ \A w \in kept : w < u => w < v
      BY <1>4, <3>1
    <3>3. Below(u) \in SUBSET Below(v)
      BY <3>2
    <3>. QED  BY <1>4, <3>2, <3>3
  <2>2. Cardinality(Below(u)) < Cardinality(Below(v))
    BY <1>1, <1>2, <2>1
  <2>. QED  BY <1>1, <2>2
<1>. QED  BY <1>3, <1>4

\* Every position of the recorded list is some kept node's.
LEMMA NodeAtExists ==
  ASSUME NEW n \in Nat, NEW kept \in SUBSET (1..n), NEW k \in 1..Cardinality(kept)
  PROVE  NodeAt(kept, k) \in kept /\ NewIndexOf(kept)[NodeAt(kept, k)] = k - 1
<1>. DEFINE T == 0..(Cardinality(kept) - 1)
            f == NewIndexOf(kept)
<1>1. /\ \A v \in kept : f[v] \in T
      /\ \A u, v \in kept : u < v => f[u] < f[v]
  BY IndexOrdered
<1>2. Cardinality(kept) \in Nat /\ IsFiniteSet(kept)
  BY KeptFinite
<1>3. IsFiniteSet(T) /\ Cardinality(T) = Cardinality(kept)
  <2>1. 0 \in Int /\ Cardinality(kept) - 1 \in Int
    BY <1>2
  <2>2. /\ IsFiniteSet(0..(Cardinality(kept) - 1))
        /\ Cardinality(0..(Cardinality(kept) - 1)) =
             IF 0 > Cardinality(kept) - 1 THEN 0 ELSE Cardinality(kept) - 1 - 0 + 1
    BY <2>1, FS_Interval
  <2>. QED  BY <1>2, <2>2
<1>4. f \in [kept -> T]
  BY <1>1 DEF NewIndexOf
<1>5. f \in Injection(kept, T)
  <2>1. ASSUME NEW u \in kept, NEW v \in kept, f[u] = f[v] PROVE u = v
    <3>. HIDE DEF f
    <3>1. f[u] \in Int /\ f[v] \in Int /\ u \in Int /\ v \in Int
      BY <1>1
    <3>2. ~(u < v) /\ ~(v < u)
      BY <1>1, <2>1, <3>1
    <3>. QED  BY <3>1, <3>2
  <2>. HIDE DEF f
  <2>. QED  BY <1>4, <2>1 DEF Injection, IsInjective
<1>6. f \in Surjection(kept, T)
  <2>. HIDE DEF f, T
  <2>. QED  BY <1>3, <1>5, FS_Injection
<1>7. \E v \in kept : f[v] = k - 1
  <2>1. k - 1 \in T
    BY <1>2
  <2>. HIDE DEF f, T
  <2>. QED  BY <1>6, <2>1 DEF Surjection
<1>. QED  BY <1>7 DEF NodeAt

\* The recorded entry k: a kept node, typed, its depth and scores those of the
\* draft, its parent entry the one of its real parent, or -1 below the root.
LEMMA RecordedNode ==
  ASSUME NEW d \in Drafts, NEW sigma \in Thresholds,
         NEW k \in 1..Cardinality(KeptDraft(d, sigma))
  PROVE  LET kept == KeptDraft(d, sigma)
             nodes == RecordedNodes(d, kept)
             v == NodeAt(kept, k)
         IN  /\ nodes[k] \in TokenNode
             /\ nodes[k].cumulative_log_prob = d.cum[v]
             /\ sigma # NegInf => nodes[k].cumulative_log_prob >= sigma
             /\ nodes[k].log_prob <= 0
             /\ nodes[k].parent_idx + 1 < k
             /\ nodes[k].parent_idx = -1 <=> nodes[k].depth = 0
             /\ nodes[k].parent_idx # -1 =>
                  /\ nodes[k].parent_idx + 1 \in 1..Cardinality(kept)
                  /\ nodes[nodes[k].parent_idx + 1].depth = nodes[k].depth - 1
<1>. DEFINE kept == KeptDraft(d, sigma)
            nodes == RecordedNodes(d, kept)
            v == NodeAt(kept, k)
            p == Parent(d, v)
            Entry(w) == [depth |-> Depth(d, w), token_id |-> d.token[w],
              log_prob |-> d.cum[w] - (IF Parent(d, w) = 0 THEN 0 ELSE d.cum[Parent(d, w)]),
              cumulative_log_prob |-> d.cum[w],
              parent_idx |-> ParentIdx(kept, Parent(d, w)),
              accepted |-> FALSE, layer_idx |-> LayerIdx(d, kept, w)]
<1>1. /\ d.n \in Nat /\ d.cum \in [1..d.n -> Int] /\ d.token \in [1..d.n -> Vocab]
      /\ \A w \in 1..d.n : d.cum[w] <= 0
  BY DraftTyped
<1>2. kept \in SUBSET (1..d.n)
  BY DEF KeptDraft
<1>3. \A i \in 1..Cardinality(kept) : nodes[i] = Entry(NodeAt(kept, i))
  BY DEF RecordedNodes
<1>4. v \in kept /\ v \in 1..d.n /\ NewIndexOf(kept)[v] = k - 1
  BY <1>1, <1>2, NodeAtExists
<1>5. /\ Depth(d, v) \in Nat /\ p \in 0..d.n /\ p < v
      /\ p = 0 <=> Depth(d, v) = 0
      /\ p # 0 => Depth(d, p) = Depth(d, v) - 1 /\ d.cum[v] <= d.cum[p]
  BY <1>4, ParentShape
<1>6. sigma = NegInf \/ (sigma \in Int /\ d.cum[v] >= sigma)
  BY <1>4, CollectorAssumption DEF KeptDraft
<1>7. p # 0 => p \in kept
  <2>. SUFFICES ASSUME p # 0 PROVE p \in kept
    OBVIOUS
  <2>1. p \in 1..d.n
    BY <1>5
  <2>2. d.cum[p] \in Int /\ d.cum[v] \in Int /\ d.cum[v] <= d.cum[p]
    BY <1>1, <1>4, <1>5, <2>1
  <2>. HIDE DEF p, v
  <2>3. sigma = NegInf \/ d.cum[p] >= sigma
    BY <1>6, <2>2
  <2>. QED  BY <2>1, <2>3 DEF KeptDraft
<1>8. /\ Cardinality(kept) \in Nat
      /\ \A w \in kept : NewIndexOf(kept)[w] \in 0..(Cardinality(kept) - 1)
      /\ \A u, w \in kept : u < w => NewIndexOf(kept)[u] < NewIndexOf(kept)[w]
  BY <1>1, <1>2, IndexOrdered, KeptFinite
<1>9. nodes[k] = Entry(v)
  BY <1>3
<1>10. LayerIdx(d, kept, v) \in Nat
  <2>1. {u \in kept : u < v /\ Depth(d, u) = Depth(d, v)} \in SUBSET kept
    OBVIOUS
  <2>. QED  BY <1>1, <1>2, <2>1, KeptFinite DEF LayerIdx
<1>. HIDE DEF v, kept, nodes
<1>11. /\ p = 0 => ParentIdx(kept, p) = -1
       /\ p # 0 => /\ ParentIdx(kept, p) = NewIndexOf(kept)[p]
                   /\ ParentIdx(kept, p) \in 0..(k - 2)
                   /\ ParentIdx(kept, p) + 1 \in 1..Cardinality(kept)
  <2>1. p # 0 => ParentIdx(kept, p) = NewIndexOf(kept)[p]
    BY DEF ParentIdx
  <2>. HIDE DEF p
  <2>2. p # 0 => NewIndexOf(kept)[p] < k - 1 /\ NewIndexOf(kept)[p] \in 0..(Cardinality(kept) - 1)
    BY <1>4, <1>5, <1>7, <1>8
  <2>. QED  BY <1>8, <2>1, <2>2 DEF ParentIdx
<1>12. /\ nodes[k].depth = Depth(d, v) /\ nodes[k].cumulative_log_prob = d.cum[v]
       /\ nodes[k].parent_idx = ParentIdx(kept, p)
       /\ nodes[k].log_prob = d.cum[v] - (IF p = 0 THEN 0 ELSE d.cum[p])
  BY <1>9
<1>13. d.cum[v] \in Int /\ d.cum[v] <= 0 /\ d.token[v] \in Vocab
       /\ (p # 0 => d.cum[p] \in Int)
  <2>1. p # 0 => p \in 1..d.n
    BY <1>5
  <2>. QED  BY <1>1, <1>4, <2>1
<1>14. nodes[k] \in TokenNode
  <2>1. ParentIdx(kept, p) \in Nat \cup {-1}
    BY <1>11
  <2>2. d.cum[v] - (IF p = 0 THEN 0 ELSE d.cum[p]) \in Int
    BY <1>13
  <2>. QED  BY <1>5, <1>9, <1>10, <1>13, <2>1, <2>2 DEF TokenNode
<1>15. p # 0 => nodes[ParentIdx(kept, p) + 1].depth = Depth(d, v) - 1
  <2>. SUFFICES ASSUME p # 0
                PROVE  nodes[ParentIdx(kept, p) + 1].depth = Depth(d, v) - 1
    OBVIOUS
  <2>. DEFINE i == ParentIdx(kept, p) + 1
              w == NodeAt(kept, i)
  <2>1. i \in 1..Cardinality(kept)
    BY <1>11
  <2>2. w \in kept /\ NewIndexOf(kept)[w] = i - 1
    BY <1>1, <1>2, <2>1, NodeAtExists
  <2>3. NewIndexOf(kept)[p] = i - 1
    BY <1>8, <1>7, <1>11
  <2>. HIDE DEF w, i, p
  <2>4. w = p
    <3>1. w \in Int /\ p \in Int
      <4>1. \A x \in kept : x \in Int
        BY <1>1, <1>2
      <4>2. p \in kept
        BY <1>7
      <4>. QED  BY <2>2, <4>1, <4>2
    <3>2. NewIndexOf(kept)[w] = NewIndexOf(kept)[p] /\ NewIndexOf(kept)[w] \in Int
      BY <1>8, <2>2, <2>3
    <3>3. ~(w < p) /\ ~(p < w)
      BY <1>7, <1>8, <2>2, <3>2
    <3>. QED  BY <3>1, <3>3
  <2>5. nodes[i].depth = Depth(d, w)
    <3>1. nodes[i] = Entry(w)
      BY <1>3, <2>1 DEF w
    <3>. QED  BY <3>1
  <2>. QED  BY <1>5, <2>4, <2>5 DEF i
<1>. HIDE DEF p, Entry
<1>. QED  BY <1>5, <1>6, <1>11, <1>12, <1>13, <1>14, <1>15, <1>4 DEF nodes, v, kept

-----------------------------------------------------------------------------
(* The run: the invariants.                                                *)

\* Python's None is no pending tree.
NilIsNoTree ==
  \A nodes, rows, index, length, token :
    Nil # [nodes |-> nodes, edited_rows |-> rows, new_index_of |-> index,
           context_length |-> length, sample_token_id |-> token]

PendingTyped ==
  pending # Nil =>
    /\ pending.nodes \in Seq(TokenNode) /\ pending.context_length \in Nat
    /\ pending.sample_token_id \in Vocab

TypeInv == TypeOK /\ PendingTyped

\* What Collector.detach restores is what was installed before attach.
HookInv ==
  /\ WrappedOnce
  /\ pc \in {"generate", "draft", "verify", "update", "detach"} =>
       saved = [topk |-> "vendored", layers |-> 0]

StepInv ==
  /\ pc = "generate" => steps = <<>>
  /\ pc \in {"generate", "draft", "verify", "update"} =>
       /\ step_id = Len(steps)
       /\ \A i \in 1..Len(steps) : steps[i].prompt_id = pid - 1
  /\ pc \in {"draft", "verify"} =>
       Tiles(steps, Len(Prompts[pid]), Len(ids)) /\ Len(steps) <= new_token
  /\ pc = "update" =>
       /\ Tiles(steps, Len(Prompts[pid]), Len(ids) + Committed)
       /\ Len(steps) <= new_token + 1
  /\ pc = "verify" =>
       /\ pending # Nil /\ pending.context_length = Len(ids) + 1
       /\ pending.sample_token_id = root /\ new_token <= MaxNewTokens
  /\ BoundedSteps

ReturnedInv ==
  trace # Nil => pc = "returned" /\ trace.prompt_outputs = prompt_outputs

-----------------------------------------------------------------------------
(* The hooks.                                                              *)

\* attach, a raise and detach keep the hooks accounted for.
LEMMA HookStep == HookInv /\ [Next]_vars => HookInv'
<1>. SUFFICES ASSUME HookInv, [Next]_vars PROVE HookInv'
  OBVIOUS
<1>1. CASE Attach
  BY <1>1 DEF HookInv, WrappedOnce, Attach
<1>2. CASE Detach
  BY <1>2 DEF HookInv, WrappedOnce, Detach, Restored, AfterDetach
<1>3. CASE Generate \/ Raise \/ Return
  BY <1>3 DEF HookInv, WrappedOnce, Generate, Raise, Return
<1>4. CASE DraftTree \/ Verify \/ UpdateInputs
  BY <1>4 DEF HookInv, WrappedOnce, DraftTree, Verify, UpdateInputs
<1>5. CASE Terminated \/ UNCHANGED vars
  BY <1>5 DEF HookInv, WrappedOnce, Terminated, vars
<1>. QED  BY <1>1, <1>2, <1>3, <1>4, <1>5 DEF Next

\* The hooks are absent at the start.
LEMMA HookInit == Init => HookInv
BY DEF Init, HookInv, WrappedOnce

\* No recording layer outlives its prompt and none is installed twice,
\* whichever call raises (attach, detach and the `finally` of collect).
THEOREM HooksRestored == Spec => []WrappedOnce
<1>1. HookInv => WrappedOnce
  BY DEF HookInv
<1>. QED  BY <1>1, HookInit, HookStep, PTL DEF Spec

-----------------------------------------------------------------------------
(* The pending tree.                                                       *)

\* What DraftTree leaves pending.
LEMMA DraftRecords ==
  ASSUME DraftTree, sigma_th \in Thresholds
  PROVE  \E d \in Drafts :
           LET kept == KeptDraft(d, sigma_th)
           IN  /\ draft' = d /\ retrieve' = EditedRows(d, sigma_th)
               /\ pending'.nodes = RecordedNodes(d, kept)
               /\ pending'.edited_rows = EditedRows(d, sigma_th)
               /\ pending'.new_index_of = NewIndexOf(kept)
               /\ pending'.context_length = Len(ids) + 1
               /\ pending'.sample_token_id = root
               /\ DOMAIN pending'.nodes = 1..Cardinality(kept)
               /\ DOMAIN pending'.new_index_of = kept
               /\ pending'.nodes \in Seq(TokenNode)
<1>1. PICK d \in Drafts :
        /\ draft' = d /\ retrieve' = EditedRows(d, sigma_th)
        /\ pending' = [nodes |-> RecordedNodes(d, KeptDraft(d, sigma_th)),
                       edited_rows |-> EditedRows(d, sigma_th),
                       new_index_of |-> NewIndexOf(KeptDraft(d, sigma_th)),
                       context_length |-> ContextLength,
                       sample_token_id |-> root]
  BY DEF DraftTree
<1>. DEFINE kept == KeptDraft(d, sigma_th)
            nodes == RecordedNodes(d, kept)
<1>2. Cardinality(kept) \in Nat
  <2>1. kept \in SUBSET (1..d.n) /\ d.n \in Nat
    BY DraftTyped DEF KeptDraft
  <2>. QED  BY <2>1, KeptFinite
<1>3. DOMAIN nodes = 1..Cardinality(kept)
  BY DEF RecordedNodes
<1>4. \A k \in 1..Cardinality(kept) : nodes[k] \in TokenNode
  BY RecordedNode
<1>5. nodes \in Seq(TokenNode)
  <2>1. nodes = [k \in 1..Cardinality(kept) |-> nodes[k]]
    BY DEF RecordedNodes
  <2>. HIDE DEF nodes, kept
  <2>. QED  BY <1>2, <1>4, <2>1
<1>6. DOMAIN NewIndexOf(kept) = kept
  BY DEF NewIndexOf
<1>. QED  BY <1>1, <1>3, <1>5, <1>6 DEF ContextLength

\* What a step can credit is what the gated verifier can reach, re-indexed
\* consistently, for every tree and threshold.
THEOREM RecordedIsVerifiable == Spec => []RecordedIffVerifiable
<1>. DEFINE Inv == sigma_th \in Thresholds /\ RecordedIffVerifiable
<1>1. Init => Inv
  BY DEF Init, RecordedIffVerifiable
<1>2. Inv /\ [Next]_vars => Inv'
  <2>. SUFFICES ASSUME Inv, [Next]_vars PROVE Inv'
    OBVIOUS
  <2>1. CASE DraftTree
    <3>1. PICK d \in Drafts :
            LET kept == KeptDraft(d, sigma_th)
            IN  /\ retrieve' = EditedRows(d, sigma_th)
                /\ pending'.nodes = RecordedNodes(d, kept)
                /\ pending'.edited_rows = EditedRows(d, sigma_th)
                /\ DOMAIN pending'.nodes = 1..Cardinality(kept)
                /\ DOMAIN pending'.new_index_of = kept
      BY <2>1, DraftRecords
    <3>2. sigma_th' = sigma_th
      BY <2>1 DEF DraftTree
    <3>3. NodesOf(pending'.edited_rows) = KeptDraft(d, sigma_th)
      BY <3>1, CutRowsReachKept
    <3>4. ASSUME NEW k \in 1..Cardinality(KeptDraft(d, sigma_th))
          PROVE  LET node == pending'.nodes[k]
                 IN  /\ sigma_th # NegInf => node.cumulative_log_prob >= sigma_th
                     /\ node.log_prob <= 0
                     /\ node.parent_idx + 1 < k
                     /\ node.parent_idx = -1 <=> node.depth = 0
                     /\ node.parent_idx # -1 =>
                          pending'.nodes[node.parent_idx + 1].depth = node.depth - 1
      <4>. DEFINE nodes == RecordedNodes(d, KeptDraft(d, sigma_th))
      <4>1. /\ sigma_th # NegInf => nodes[k].cumulative_log_prob >= sigma_th
            /\ nodes[k].log_prob <= 0
            /\ nodes[k].parent_idx + 1 < k
            /\ nodes[k].parent_idx = -1 <=> nodes[k].depth = 0
            /\ nodes[k].parent_idx # -1 =>
                  nodes[nodes[k].parent_idx + 1].depth = nodes[k].depth - 1
        BY RecordedNode
      <4>2. pending'.nodes = nodes
        BY <3>1
      <4>. HIDE DEF nodes
      <4>. QED  BY <4>1, <4>2
    <3>. QED  BY <3>1, <3>2, <3>3, <3>4 DEF RecordedIffVerifiable
  <2>2. CASE Attach \/ Verify
    <3>1. sigma_th' = sigma_th
      BY <2>2 DEF Attach, Verify
    <3>2. pending' = Nil \/ (pending' = pending /\ retrieve' = retrieve)
      BY <2>2 DEF Attach, FreshRecorder, Verify, recorder
    <3>. QED  BY <3>1, <3>2 DEF RecordedIffVerifiable
  <2>3. CASE UNCHANGED <<sigma_th, pending, retrieve>>
    BY <2>3 DEF RecordedIffVerifiable
  <2>4. CASE Generate \/ UpdateInputs \/ Raise \/ Detach \/ Return \/ Terminated
             \/ UNCHANGED vars
    <3>1. UNCHANGED <<sigma_th, pending, retrieve>>
      BY <2>4 DEF Generate, UpdateInputs, Raise, Detach, Return, Terminated,
                  vars, loop, recorder
    <3>. QED  BY <2>3, <3>1
  <2>. QED  BY <2>1, <2>2, <2>4 DEF Next
<1>. QED  BY <1>1, <1>2, PTL DEF Spec

-----------------------------------------------------------------------------
(* Types.                                                                  *)

TypedText ==
  /\ pc \in {"attach", "generate", "draft", "verify", "update", "detach",
             "finish", "returned", "aborted"}
  /\ pid \in 1..(Len(Prompts) + 1) /\ ids \in Seq(Vocab) /\ failed \in BOOLEAN
  /\ prompt_outputs \in Seq(Seq(Vocab))

\* The text invariant types the text.
LEMMA LosslessTyped == LosslessInv => TypedText
<1>. SUFFICES ASSUME LosslessInv PROVE TypedText
  OBVIOUS
<1>1. Len(prompt_outputs) \in Nat /\ Len(Prompts) \in Nat
  BY CollectorAssumption DEF LosslessInv, Control
<1>2. pid \in 1..(Len(Prompts) + 1)
  BY <1>1 DEF LosslessInv, Control
<1>. QED  BY <1>2 DEF LosslessInv, Control, TextInv, TypedText

\* Flagging accepted nodes changes nothing else of them.
LEMMA MarkedTyped ==
  ASSUME NEW p, p.nodes \in Seq(TokenNode), NEW b, NEW a
  PROVE  MarkAccepted(p, b, a) \in Seq(TokenNode)
<1>. DEFINE nodes == p.nodes
            Flag(k) == \E j \in AcceptedPositions(a) :
                         LET idx == p.edited_rows[b][j]
                         IN  idx \in DOMAIN p.new_index_of /\ p.new_index_of[idx] = k - 1
<1>1. Len(nodes) \in Nat /\ DOMAIN nodes = 1..Len(nodes)
      /\ \A k \in 1..Len(nodes) : nodes[k] \in TokenNode
  BY ElementOfSeq
<1>2. MarkAccepted(p, b, a) =
        [k \in 1..Len(nodes) |-> [nodes[k] EXCEPT !.accepted = Flag(k)]]
  BY <1>1 DEF MarkAccepted
<1>3. \A k : Flag(k) \in BOOLEAN
  OBVIOUS
<1>. HIDE DEF nodes, Flag
<1>4. \A k \in 1..Len(nodes) : [nodes[k] EXCEPT !.accepted = Flag(k)] \in TokenNode
  BY <1>1, <1>3 DEF TokenNode
<1>. DEFINE m == MarkAccepted(p, b, a)
            n == Len(nodes)
<1>. HIDE DEF n
<1>5. m \in [1..n -> TokenNode] /\ n \in Nat
  BY <1>1, <1>2, <1>4 DEF n
<1>. HIDE DEF m
<1>6. m \in Seq(TokenNode)
  BY <1>5
<1>. QED  BY <1>6 DEF m

\* Every action keeps the types.
LEMMA TypeStep ==
  ASSUME TargetTotal, LosslessInv, HookInv, TypeInv, [Next]_vars
  PROVE  TypeInv'
<1>1. LosslessInv'
  BY LosslessNext
<1>2. TypedText'
  BY <1>1, LosslessTyped, PTL
<1>3. CASE Attach
  <2>1. hooks'.topk \in {"upstream", "vendored", "gated"} /\ hooks'.layers \in Nat
    BY <1>3 DEF Attach, TypeInv, TypeOK
  <2>2. steps' \in Seq(DecodeStep) /\ step_id' \in Nat /\ pending' = Nil
    BY <1>3 DEF Attach, FreshRecorder
  <2>. QED  BY <1>2, <1>3, <2>1, <2>2
            DEF Attach, loop, result, TypeInv, TypeOK, PendingTyped, TypedText
<1>4. CASE Generate
  <2>1. root' \in Vocab /\ kv' \in Nat /\ new_token' \in Nat
    <3>1. pc = "generate" /\ pc' = "draft" /\ kv' = Len(Prompts[pid]) /\ new_token' = 0
      BY <1>4 DEF Generate
    <3>2. Len(Prompts[pid]) \in Nat
      BY <3>1, PromptTyped DEF LosslessInv, Control
    <3>. QED  BY <1>1, <3>1, <3>2 DEF LosslessInv, TextInv
  <2>. QED  BY <1>2, <1>4, <2>1
            DEF Generate, recorder, result, TypeInv, TypeOK, PendingTyped, TypedText
<1>5. CASE DraftTree
  <2>1. PICK d \in Drafts :
          /\ draft' = d /\ pending'.nodes \in Seq(TokenNode)
          /\ pending'.context_length = Len(ids) + 1
          /\ pending'.sample_token_id = root
    BY <1>5, DraftRecords DEF TypeInv, TypeOK
  <2>2. pending'.context_length \in Nat
    BY <2>1 DEF TypeInv, TypeOK
  <2>3. root \in Vocab
    BY <1>5 DEF DraftTree, LosslessInv, TextInv
  <2>. QED  BY <1>2, <1>5, <2>1, <2>2, <2>3
            DEF DraftTree, result, TypeInv, TypeOK, PendingTyped, TypedText
<1>6. CASE Verify
  <2>1. PICK b \in 1..Len(retrieve), a \in 0..draft.n :
          /\ best' = b /\ accept' = a
          /\ IF pending = Nil THEN UNCHANGED recorder
             ELSE /\ steps' = Append(steps,
                       [step_id |-> step_id, prompt_id |-> pid - 1,
                        context_length |-> pending.context_length,
                        nodes |-> MarkAccepted(pending, b, a),
                        accepted_length |-> a,
                        sample_token_id |-> pending.sample_token_id])
                  /\ step_id' = step_id + 1 /\ pending' = Nil
    BY <1>6 DEF Verify
  <2>2. best' \in Nat /\ accept' \in Nat
    BY <2>1
  <2>3. steps' \in Seq(DecodeStep) /\ step_id' \in Nat /\ PendingTyped'
    <3>1. CASE pending = Nil
      BY <2>1, <3>1 DEF recorder, TypeInv, TypeOK, PendingTyped, TypedText
    <3>2. CASE pending # Nil
      <4>. DEFINE s == [step_id |-> step_id, prompt_id |-> pid - 1,
                        context_length |-> pending.context_length,
                        nodes |-> MarkAccepted(pending, b, a),
                        accepted_length |-> a,
                        sample_token_id |-> pending.sample_token_id]
      <4>1. MarkAccepted(pending, b, a) \in Seq(TokenNode)
        BY <3>2, MarkedTyped DEF TypeInv, PendingTyped
      <4>2. pid - 1 \in Nat /\ step_id \in Nat /\ a \in Nat
            /\ pending.context_length \in Nat /\ pending.sample_token_id \in Vocab
        <5>. HIDE DEF s
        <5>1. pid \in 1..(Len(Prompts) + 1)
          BY DEF TypeInv, TypeOK
        <5>2. pid - 1 \in Nat
          BY <5>1
        <5>3. step_id \in Nat
          BY DEF TypeInv, TypeOK
        <5>4. a \in Nat
          OBVIOUS
        <5>5. pending.context_length \in Nat /\ pending.sample_token_id \in Vocab
          BY <3>2 DEF TypeInv, PendingTyped
        <5>. QED  BY <5>2, <5>3, <5>4, <5>5
      <4>3. s \in DecodeStep
        BY <4>1, <4>2 DEF DecodeStep
      <4>4. steps' = Append(steps, s) /\ step_id' = step_id + 1 /\ pending' = Nil
        BY <2>1, <3>2
      <4>5. steps \in Seq(DecodeStep)
        BY DEF TypeInv, TypeOK
      <4>. HIDE DEF s
      <4>6. steps' \in Seq(DecodeStep)
        BY <4>3, <4>4, <4>5, AppendProperties
      <4>. QED  BY <4>2, <4>4, <4>6 DEF PendingTyped
    <3>. QED  BY <3>1, <3>2
  <2>. QED  BY <1>2, <1>6, <2>2, <2>3
            DEF Verify, result, TypeInv, TypeOK, TypedText
<1>7. CASE UpdateInputs
  <2>1. pc = "update" /\ pc' = "draft" /\ kv' = kv + Committed
        /\ new_token' = new_token + Committed
    BY <1>7 DEF UpdateInputs
  <2>2. root' \in Vocab
    BY <1>1, <2>1 DEF LosslessInv, TextInv
  <2>3. kv' \in Nat /\ new_token' \in Nat
    BY <2>1 DEF TypeInv, TypeOK, Committed
  <2>. QED  BY <1>2, <1>7, <2>2, <2>3
            DEF UpdateInputs, recorder, result, TypeInv, TypeOK, PendingTyped, TypedText
<1>8. CASE Detach
  <2>1. hooks' = [topk |-> "vendored", layers |-> 0]
    BY <1>8 DEF Detach, Restored, HookInv
  <2>2. all_steps' \in Seq(DecodeStep)
    <3>1. all_steps \in Seq(DecodeStep) /\ steps \in Seq(DecodeStep)
      BY DEF TypeInv, TypeOK
    <3>2. all_steps \o steps \in Seq(DecodeStep)
      BY <3>1, ConcatProperties
    <3>3. all_steps' = all_steps \/ all_steps' = all_steps \o steps
      BY <1>8 DEF Detach, Accumulated
    <3>. QED  BY <3>1, <3>2, <3>3
  <2>3. UNCHANGED <<sigma_th, root, kv, new_token, draft, best, accept, steps,
                    step_id, pending>>
    BY <1>8 DEF Detach, recorder
  <2>. QED  BY <1>2, <2>1, <2>2, <2>3 DEF TypeInv, TypeOK, PendingTyped, TypedText
<1>9. CASE Raise \/ Return
  BY <1>2, <1>9 DEF Raise, Return, loop, recorder, result, TypeInv, TypeOK, PendingTyped, TypedText
<1>10. CASE Terminated \/ UNCHANGED vars
  BY <1>10 DEF Terminated, vars, loop, recorder, result, TypeInv, TypeOK, PendingTyped, TypedText
<1>. QED  BY <1>3, <1>4, <1>5, <1>6, <1>7, <1>8, <1>9, <1>10 DEF Next

-----------------------------------------------------------------------------
(* The steps of the prompt in hand.                                        *)

\* A step that starts one token past the end of a tiling extends it.
LEMMA AppendTiles ==
  ASSUME NEW ss \in Seq(DecodeStep), NEW s \in DecodeStep, NEW from, NEW to \in Nat,
         Tiles(ss, from, to), s.step_id = Len(ss), s.context_length = to + 1
  PROVE  Tiles(Append(ss, s), from, to + 1 + s.accepted_length)
<1>. DEFINE tt == Append(ss, s)
<1>1. /\ Len(ss) \in Nat /\ Len(tt) = Len(ss) + 1 /\ tt[Len(ss) + 1] = s
      /\ \A i \in 1..Len(ss) : tt[i] = ss[i]
  BY AppendProperties
<1>. HIDE DEF tt
<1>2. ss = <<>> <=> Len(ss) = 0
  OBVIOUS
<1>3. tt # <<>>
  BY <1>1
<1>4. ASSUME NEW i \in 1..Len(tt)
      PROVE  /\ tt[i].step_id = i - 1
             /\ tt[i].context_length = 1 + (IF i = 1 THEN from ELSE EndOf(tt[i - 1]))
  <2>1. CASE i <= Len(ss)
    <3>1. i \in 1..Len(ss) /\ tt[i] = ss[i] /\ (i # 1 => tt[i - 1] = ss[i - 1])
      BY <1>1, <2>1
    <3>. QED  BY <3>1 DEF Tiles
  <2>2. CASE i > Len(ss)
    <3>1. i = Len(ss) + 1 /\ tt[i] = s
      BY <1>1, <2>2
    <3>2. to = IF i = 1 THEN from ELSE EndOf(tt[i - 1])
      <4>1. CASE ss = <<>>
        BY <1>2, <3>1, <4>1 DEF Tiles
      <4>2. CASE ss # <<>>
        <5>1. i - 1 = Len(ss) /\ Len(ss) \in 1..Len(ss) /\ i # 1
          BY <1>1, <1>2, <3>1, <4>2
        <5>2. tt[i - 1] = ss[Len(ss)] /\ to = EndOf(ss[Len(ss)])
          BY <1>1, <4>2, <5>1 DEF Tiles
        <5>. QED  BY <5>1, <5>2
      <4>. QED  BY <4>1, <4>2
    <3>. QED  BY <1>1, <3>1, <3>2
  <2>. QED  BY <1>1, <2>1, <2>2
<1>5. to + 1 + s.accepted_length = EndOf(tt[Len(tt)])
  BY <1>1 DEF EndOf
<1>. QED  BY <1>3, <1>4, <1>5 DEF Tiles, tt

\* No step is recorded at the start.
LEMMA StepInit == Init => StepInv
BY CollectorAssumption DEF Init, StepInv, BoundedSteps

\* Every action keeps the steps tiled and the pending tree current.
LEMMA StepStep ==
  ASSUME TargetTotal, NilIsNoTree, LosslessInv, HookInv, TypeInv, StepInv, [Next]_vars
  PROVE  StepInv'
<1>1. LosslessInv' /\ TypeInv'
  BY LosslessNext, TypeStep
<1>2. /\ steps \in Seq(DecodeStep) /\ Len(steps) \in Nat /\ new_token \in Nat
      /\ ids \in Seq(Vocab) /\ Len(ids) \in Nat /\ MaxNewTokens \in Nat /\ accept \in Nat
  BY CollectorAssumption DEF TypeInv, TypeOK
<1>3. CASE Attach
  <2>1. pc' = "generate" /\ steps' = <<>> /\ step_id' = 0 /\ Len(steps') = 0
    BY <1>3 DEF Attach, FreshRecorder
  <2>. QED  BY <1>2, <2>1 DEF StepInv, BoundedSteps
<1>4. CASE Generate
  <2>1. /\ pc = "generate" /\ pc' = "draft" /\ ids' = Prompts[pid] /\ new_token' = 0
        /\ UNCHANGED <<pid, steps, step_id, pending>>
    BY <1>4 DEF Generate, recorder
  <2>2. steps = <<>> /\ Len(steps) = 0
    BY <2>1 DEF StepInv
  <2>3. Tiles(steps', Len(Prompts[pid']), Len(ids'))
    BY <2>1, <2>2 DEF Tiles
  <2>. QED  BY <1>2, <2>1, <2>2, <2>3 DEF StepInv, BoundedSteps
<1>5. CASE DraftTree
  <2>1. /\ pc = "draft" /\ pc' = IF Stop THEN "detach" ELSE "verify"
        /\ UNCHANGED <<pid, ids, root, new_token, steps, step_id>>
    BY <1>5 DEF DraftTree
  <2>2. /\ pending'.nodes \in Seq(TokenNode) /\ pending'.context_length = Len(ids) + 1
        /\ pending'.sample_token_id = root
    BY <1>5, DraftRecords DEF TypeInv, TypeOK
  <2>3. pending' # Nil
    <3>1. pending' = [nodes |-> pending'.nodes, edited_rows |-> pending'.edited_rows,
                      new_index_of |-> pending'.new_index_of,
                      context_length |-> pending'.context_length,
                      sample_token_id |-> pending'.sample_token_id]
      BY <1>5 DEF DraftTree
    <3>. QED  BY <3>1 DEF NilIsNoTree
  <2>4. pc' = "verify" => new_token <= MaxNewTokens
    BY <1>2, <2>1 DEF Stop
  <2>. QED  BY <2>1, <2>2, <2>3, <2>4 DEF StepInv, BoundedSteps
<1>6. CASE Verify
  <2>1. /\ pc = "verify" /\ pc' = "update" /\ UNCHANGED <<pid, ids, new_token>>
        /\ pending # Nil /\ pending.context_length = Len(ids) + 1
        /\ Tiles(steps, Len(Prompts[pid]), Len(ids)) /\ Len(steps) <= new_token
        /\ new_token <= MaxNewTokens /\ step_id = Len(steps)
        /\ \A i \in 1..Len(steps) : steps[i].prompt_id = pid - 1
    BY <1>6 DEF Verify, StepInv
  <2>2. PICK b \in 1..Len(retrieve), a \in 0..draft.n :
          /\ accept' = a /\ step_id' = step_id + 1
          /\ steps' = Append(steps,
               [step_id |-> step_id, prompt_id |-> pid - 1,
                context_length |-> pending.context_length,
                nodes |-> MarkAccepted(pending, b, a),
                accepted_length |-> a,
                sample_token_id |-> pending.sample_token_id])
    BY <1>6, <2>1 DEF Verify
  <2>. DEFINE s == [step_id |-> step_id, prompt_id |-> pid - 1,
                    context_length |-> pending.context_length,
                    nodes |-> MarkAccepted(pending, b, a),
                    accepted_length |-> a,
                    sample_token_id |-> pending.sample_token_id]
  <2>3. s \in DecodeStep
    <3>1. MarkAccepted(pending, b, a) \in Seq(TokenNode)
      BY <2>1, MarkedTyped DEF TypeInv, PendingTyped
    <3>2. pid - 1 \in Nat /\ step_id \in Nat /\ a \in Nat
          /\ pending.context_length \in Nat /\ pending.sample_token_id \in Vocab
      <4>1. pid \in 1..(Len(Prompts) + 1) /\ step_id \in Nat
        BY DEF TypeInv, TypeOK
      <4>2. pending.context_length \in Nat /\ pending.sample_token_id \in Vocab
        BY <2>1 DEF TypeInv, PendingTyped
      <4>. QED  BY <4>1, <4>2
    <3>. QED  BY <3>1, <3>2 DEF DecodeStep
  <2>4. /\ s.step_id = Len(steps) /\ s.context_length = Len(ids) + 1
        /\ s.accepted_length = a /\ s.prompt_id = pid - 1 /\ a \in Nat
    BY <2>1
  <2>5. steps' = Append(steps, s)
    BY <2>2
  <2>. HIDE DEF s
  <2>6. Tiles(steps', Len(Prompts[pid]), Len(ids) + 1 + a)
    BY <1>2, <2>1, <2>3, <2>4, <2>5, AppendTiles
  <2>7. Len(ids') + Committed' = Len(ids) + 1 + a
    BY <1>2, <2>1, <2>2, <2>4 DEF Committed
  <2>8. Tiles(steps', Len(Prompts[pid']), Len(ids') + Committed')
    BY <2>1, <2>6, <2>7
  <2>9. /\ Len(steps') = Len(steps) + 1
        /\ \A i \in 1..Len(steps') : steps'[i].prompt_id = pid' - 1
    <3>1. /\ Len(steps') = Len(steps) + 1 /\ steps'[Len(steps) + 1] = s
          /\ \A i \in 1..Len(steps) : steps'[i] = steps[i]
      BY <1>2, <2>3, <2>5, AppendProperties
    <3>. QED  BY <1>2, <2>1, <2>4, <3>1
  <2>10. step_id' = Len(steps') /\ Len(steps') <= new_token' + 1
         /\ Len(steps') <= MaxNewTokens + 1
    BY <1>2, <2>1, <2>2, <2>9
  <2>. QED  BY <2>1, <2>8, <2>9, <2>10 DEF StepInv, BoundedSteps
<1>7. CASE UpdateInputs
  <2>1. /\ pc = "update" /\ pc' = "draft" /\ new_token' = new_token + Committed
        /\ UNCHANGED <<pid, steps, step_id, pending>>
    BY <1>7 DEF UpdateInputs, recorder
  <2>2. Len(ids') = Len(ids) + Committed
    <3>1. ids' = ids \o NewTokens /\ NewTokens \in Seq(Vocab)
      BY <1>7, LosslessUpdate
    <3>2. Len(NewTokens) = Committed
      BY <1>2 DEF NewTokens, Committed
    <3>. QED  BY <1>2, <3>1, <3>2, ConcatProperties
  <2>3. Len(steps) <= new_token'
    BY <1>2, <2>1 DEF StepInv, Committed
  <2>. QED  BY <2>1, <2>2, <2>3 DEF StepInv, BoundedSteps
<1>8. CASE Detach
  <2>1. pc' \in {"aborted", "attach", "finish"} /\ UNCHANGED steps
    BY <1>8 DEF Detach, AfterDetach, recorder
  <2>. QED  BY <2>1 DEF StepInv, BoundedSteps
<1>9. CASE Raise \/ Return
  <2>1. pc' \in {"detach", "returned"} /\ UNCHANGED steps
    BY <1>9 DEF Raise, Return, recorder
  <2>. QED  BY <2>1 DEF StepInv, BoundedSteps
<1>10. CASE Terminated \/ UNCHANGED vars
  BY <1>10 DEF Terminated, vars, loop, recorder, result, StepInv, BoundedSteps,
               Tiles, EndOf, Committed
<1>. QED  BY <1>3, <1>4, <1>5, <1>6, <1>7, <1>8, <1>9, <1>10 DEF Next

-----------------------------------------------------------------------------
(* The theorems.                                                           *)

\* The variables are typed at the start.
LEMMA TypeInit == Init => TypeInv
<1>. SUFFICES ASSUME Init PROVE TypeInv
  OBVIOUS
<1>1. TypedText
  BY LosslessInit, LosslessTyped
<1>. QED  BY <1>1 DEF Init, TypeInv, TypeOK, PendingTyped, TypedText

\* The state is well typed, so the steps are DecodeSteps of TokenNodes: every
\* re-indexed parent is an index or -1 and every depth is a natural number.
THEOREM TypeCorrect ==
  ASSUME TargetTotal
  PROVE  Spec => []TypeOK
<1>1. TypeInv => TypeOK
  BY DEF TypeInv
<1>. QED  BY <1>1, TypeInit, TypeStep, HookInit, HookStep, LosslessInit,
             LosslessNext, PTL DEF Spec

\* A finished trace holds every prompt's output, and no exception was lost.
THEOREM TraceIsComplete ==
  ASSUME TargetTotal
  PROVE  Spec => []TraceComplete
<1>1. Init => ReturnedInv
  BY DEF Init, ReturnedInv
<1>2. ReturnedInv /\ [Next]_vars => ReturnedInv'
  <2>. SUFFICES ASSUME ReturnedInv, [Next]_vars PROVE ReturnedInv'
    OBVIOUS
  <2>1. CASE Return
    BY <2>1 DEF Return, ReturnedInv
  <2>2. CASE UNCHANGED <<trace, prompt_outputs>> /\ (pc = "returned" => pc' = pc)
    BY <2>2 DEF ReturnedInv
  <2>3. CASE Detach
    BY <2>3 DEF Detach, ReturnedInv
  <2>4. CASE Attach \/ Generate \/ DraftTree \/ Verify \/ UpdateInputs \/ Raise
    <3>1. UNCHANGED <<trace, prompt_outputs>> /\ pc # "returned"
      BY <2>4 DEF Attach, Generate, DraftTree, Verify, UpdateInputs, Raise, result
    <3>. QED  BY <2>2, <3>1
  <2>5. CASE Terminated \/ UNCHANGED vars
    <3>1. UNCHANGED <<trace, prompt_outputs, pc>>
      BY <2>5 DEF Terminated, vars, result
    <3>. QED  BY <2>2, <3>1
  <2>. QED  BY <2>1, <2>3, <2>4, <2>5 DEF Next
<1>3. LosslessInv /\ ReturnedInv => TraceComplete
  <2>. SUFFICES ASSUME LosslessInv, ReturnedInv, trace # Nil
                PROVE  ~failed /\ Len(trace.prompt_outputs) = Len(Prompts)
    BY DEF TraceComplete
  <2>1. pc = "returned" /\ trace.prompt_outputs = prompt_outputs
    BY DEF ReturnedInv
  <2>2. ~failed /\ Len(prompt_outputs) + 1 = Len(Prompts) + 1
    BY <2>1 DEF LosslessInv, Control
  <2>3. Len(prompt_outputs) \in Nat /\ Len(Prompts) \in Nat
    BY CollectorAssumption DEF LosslessInv, Control
  <2>. QED  BY <2>1, <2>2, <2>3
<1>. QED  BY <1>1, <1>2, <1>3, LosslessInit, LosslessNext, PTL DEF Spec

TraceInv == LosslessInv /\ HookInv /\ TypeInv /\ StepInv

\* The four invariants are inductive together.
LEMMA TraceInductive ==
  ASSUME TargetTotal, NilIsNoTree
  PROVE  Spec => []TraceInv
<1>1. Init => TraceInv
  BY LosslessInit, HookInit, TypeInit, StepInit DEF TraceInv
<1>2. TraceInv /\ [Next]_vars => TraceInv'
  BY LosslessNext, HookStep, TypeStep, StepStep DEF TraceInv
<1>. QED  BY <1>1, <1>2, PTL DEF Spec

\* The recorded contexts are the lengths the text really had, step after step.
THEOREM StepsTile ==
  ASSUME TargetTotal, NilIsNoTree
  PROVE  Spec => []StepsTileText
<1>1. TraceInv => StepsTileText
  BY DEF TraceInv, StepInv, StepsTileText
<1>. QED  BY <1>1, TraceInductive, PTL

\* A verdict is recorded on the tree drafted for the present text, by the
\* Collector of this prompt.
THEOREM PendingStaysCurrent ==
  ASSUME TargetTotal, NilIsNoTree
  PROVE  Spec => []PendingIsCurrent
<1>1. TraceInv => PendingIsCurrent
  BY DEF TraceInv, StepInv, PendingIsCurrent
<1>. QED  BY <1>1, TraceInductive, PTL

\* However much the gate prunes, a prompt takes at most MaxNewTokens + 1 steps.
THEOREM StepsBounded ==
  ASSUME TargetTotal, NilIsNoTree
  PROVE  Spec => []BoundedSteps
<1>1. TraceInv => BoundedSteps
  BY DEF TraceInv, StepInv
<1>. QED  BY <1>1, TraceInductive, PTL

-----------------------------------------------------------------------------
(* The steps of the prompts that are done.                                 *)

\* The numbers from 1 to m are m.
LEMMA IntervalCounted ==
  ASSUME NEW m \in Nat
  PROVE  IsFiniteSet(1..m) /\ Cardinality(1..m) = m
<1>1. IsFiniteSet(1..m) /\ Cardinality(1..m) = IF 1 > m THEN 0 ELSE m - 1 + 1
  BY FS_Interval
<1>. QED  BY <1>1

\* Filing a prompt's steps behind those of the earlier prompts leaves the
\* earlier prompts' steps where they lie, and finds its own whole.
LEMMA StepsFiled ==
  ASSUME all_steps \in Seq(DecodeStep), steps \in Seq(DecodeStep), NEW n \in Nat,
         \A i \in 1..Len(all_steps) : all_steps[i].prompt_id < n,
         \A i \in 1..Len(steps) : steps[i].prompt_id = n,
         all_steps' = all_steps \o steps
  PROVE  /\ \A p \in 1..n : StepsOf(p)' = StepsOf(p)
         /\ StepsOf(n + 1)' = steps
         /\ \A i \in 1..Len(all_steps') : all_steps'[i].prompt_id < n + 1
<1>. DEFINE a == Len(all_steps)
            b == Len(steps)
            Early(p) == {i \in 1..Len(all_steps) : all_steps[i].prompt_id < p - 1}
            Later(p) == {i \in 1..Len(all_steps') : all_steps'[i].prompt_id < p - 1}
<1>1. /\ a \in Nat /\ b \in Nat
      /\ \A i \in 1..a : all_steps[i] \in DecodeStep /\ all_steps[i].prompt_id \in Nat
  <2>1. a \in Nat /\ b \in Nat /\ \A i \in 1..a : all_steps[i] \in DecodeStep
    BY ElementOfSeq
  <2>2. \A s \in DecodeStep : s.prompt_id \in Nat
    BY DEF DecodeStep
  <2>. QED  BY <2>1, <2>2
<1>2. /\ all_steps' \in Seq(DecodeStep) /\ Len(all_steps') = a + b
      /\ \A i \in 1..a : all_steps'[i] = all_steps[i]
      /\ \A i \in 1..b : all_steps'[a + i] = steps[i]
  BY <1>1
<1>3. ASSUME NEW i \in 1..(a + b)
      PROVE  i \in 1..a \/ (i - a \in 1..b /\ all_steps'[i].prompt_id = n)
  <2>1. CASE i <= a
    BY <1>1, <2>1
  <2>2. CASE i > a
    <3>1. i - a \in 1..b /\ a + (i - a) = i
      BY <1>1, <2>2
    <3>. QED  BY <1>2, <3>1
  <2>. QED  BY <1>1, <2>1, <2>2
<1>4. \A i \in 1..Len(all_steps') : all_steps'[i].prompt_id < n + 1
  <2>. SUFFICES ASSUME NEW i \in 1..(a + b) PROVE all_steps'[i].prompt_id < n + 1
    BY <1>2
  <2>1. CASE i \in 1..a
    BY <1>1, <1>2, <2>1
  <2>2. CASE all_steps'[i].prompt_id = n
    BY <2>2
  <2>. QED  BY <1>3, <2>1, <2>2
<1>5. ASSUME NEW p \in 1..(n + 1)
      PROVE  /\ StepsBefore(p)' = StepsBefore(p)
             /\ StepsBefore(p) \in 0..a
  <2>1. Later(p) = Early(p)
    <3>1. \A i \in Later(p) : i \in Early(p)
      <4>. SUFFICES ASSUME NEW i \in 1..(a + b), all_steps'[i].prompt_id < p - 1
                    PROVE  i \in 1..a /\ all_steps[i].prompt_id < p - 1
        BY <1>2
      <4>1. i \in 1..a
        BY <1>3
      <4>. QED  BY <1>2, <4>1
    <3>2. \A i \in Early(p) : i \in Later(p)
      BY <1>1, <1>2
    <3>. QED  BY <3>1, <3>2
  <2>2. IsFiniteSet(1..a) /\ Cardinality(1..a) = a
    BY <1>1, IntervalCounted
  <2>3. IsFiniteSet(Early(p)) /\ Cardinality(Early(p)) <= a /\ Cardinality(Early(p)) \in Nat
    <3>1. Early(p) \in SUBSET (1..a)
      OBVIOUS
    <3>. HIDE DEF Early, a
    <3>. QED  BY <2>2, <3>1, FS_Subset, FS_CardinalityType
  <2>4. StepsBefore(p) = Cardinality(Early(p)) /\ StepsBefore(p)' = Cardinality(Later(p))
    BY DEF StepsBefore
  <2>. HIDE DEF Early, Later
  <2>. QED  BY <1>1, <2>1, <2>3, <2>4
<1>6. StepsBefore(n + 1) = a
  <2>1. Early(n + 1) = 1..a
    BY <1>1
  <2>2. StepsBefore(n + 1) = Cardinality(Early(n + 1))
    BY DEF StepsBefore
  <2>. QED  BY <1>1, <2>1, <2>2, IntervalCounted
<1>7. StepsBefore(n + 2)' = a + b
  <2>1. Later(n + 2) = 1..(a + b)
    <3>1. \A i \in 1..Len(all_steps') : all_steps'[i].prompt_id < (n + 2) - 1
      <4>1. (n + 2) - 1 = n + 1
        OBVIOUS
      <4>. QED  BY <1>4, <4>1
    <3>. QED  BY <1>2, <3>1
  <2>2. StepsBefore(n + 2)' = Cardinality(Later(n + 2))
    BY DEF StepsBefore
  <2>3. Cardinality(1..(a + b)) = a + b
    BY <1>1, IntervalCounted
  <2>. QED  BY <2>1, <2>2, <2>3
<1>. HIDE DEF a, b
<1>8. ASSUME NEW p \in 1..n PROVE StepsOf(p)' = StepsOf(p)
  <2>1. p \in 1..(n + 1) /\ p + 1 \in 1..(n + 1)
    OBVIOUS
  <2>. DEFINE x == StepsBefore(p)
              y == StepsBefore(p + 1)
  <2>2. x \in 0..a /\ y \in 0..a /\ StepsBefore(p)' = x /\ StepsBefore(p + 1)' = y
    BY <1>5, <2>1
  <2>3. StepsOf(p) = SubSeq(all_steps, x + 1, y)
        /\ StepsOf(p)' = SubSeq(all_steps', x + 1, y)
    BY <2>2 DEF StepsOf
  <2>. HIDE DEF x, y
  <2>4. SubSeq(all_steps', x + 1, y) = SubSeq(all_steps, x + 1, y)
    BY <1>1, <1>2, <2>2 DEF a
  <2>. QED  BY <2>3, <2>4
<1>9. StepsOf(n + 1)' = steps
  <2>1. StepsBefore(n + 1)' = a
    <3>1. n + 1 \in 1..(n + 1)
      OBVIOUS
    <3>. QED  BY <1>5, <1>6, <3>1
  <2>2. (n + 1) + 1 = n + 2
    OBVIOUS
  <2>3. StepsOf(n + 1)' = SubSeq(all_steps', a + 1, a + b)
    BY <1>7, <2>1, <2>2 DEF StepsOf
  <2>4. SubSeq(all_steps', a + 1, a + b) = steps
    BY <1>1, <1>2 DEF a, b
  <2>. QED  BY <2>3, <2>4
<1>. QED  BY <1>4, <1>8, <1>9

\* What the accumulated steps say of the delivered prompts, and what the steps
\* in hand must say when they are delivered.
FiledInv ==
  /\ \A i \in 1..Len(all_steps) : all_steps[i].prompt_id < Len(prompt_outputs)
  /\ TraceTilesOutput
  /\ pc = "detach" /\ ~failed =>
       /\ Facts!GreedyText(Prompts[pid], ids)
       /\ Tiles(steps, Len(Prompts[pid]), Len(ids))
       /\ \A i \in 1..Len(steps) : steps[i].prompt_id = pid - 1

\* The output a normal detach delivers is as long as the text grew.
LEMMA Delivered ==
  ASSUME LosslessInv, FiledInv, Detach, ~failed
  PROVE  LET n == Len(prompt_outputs)
             out == SubSeq(ids, Len(Prompts[n + 1]) + 1, Len(ids))
         IN  /\ n \in Nat /\ pid = n + 1 /\ prompt_outputs' = Append(prompt_outputs, out)
             /\ Len(prompt_outputs') = n + 1 /\ prompt_outputs'[n + 1] = out
             /\ \A p \in 1..n : prompt_outputs'[p] = prompt_outputs[p]
             /\ Prompts[n + 1] \in Seq(Vocab) /\ Len(Prompts[n + 1]) \in Nat
             /\ Len(Prompts[n + 1]) + Len(out) = Len(ids)
             /\ Prompts[n + 1] \o out = ids
<1>. DEFINE n == Len(prompt_outputs)
            prompt == Prompts[pid]
            out == SubSeq(ids, Len(prompt) + 1, Len(ids))
<1>1. pc = "detach" /\ pid <= Len(Prompts) /\ prompt_outputs \in Seq(Seq(Vocab))
      /\ pid = n + 1 /\ ids \in Seq(Vocab)
  BY DEF Detach, LosslessInv, Control, TextInv
<1>2. prompt \in Seq(Vocab) /\ Len(prompt) \in Nat
  BY <1>1, PromptTyped DEF LosslessInv
<1>3. Len(prompt) <= Len(ids) /\ \A i \in 1..Len(prompt) : ids[i] = prompt[i]
  BY <1>1 DEF FiledInv, Facts!GreedyText
<1>4. prompt_outputs' = Append(prompt_outputs, out)
  BY DEF Detach
<1>. HIDE DEF prompt
<1>5. out \in Seq(Vocab) /\ Len(out) = Len(ids) - Len(prompt)
  BY <1>1, <1>2, <1>3
<1>6. prompt \o out = ids
  <2>1. /\ prompt \o out \in Seq(Vocab) /\ Len(prompt \o out) = Len(ids)
        /\ \A i \in 1..Len(ids) : (prompt \o out)[i] = ids[i]
    BY <1>1, <1>2, <1>3
  <2>. HIDE DEF out
  <2>. QED  BY <1>1, <2>1, SeqEqual
<1>. HIDE DEF out
<1>7. /\ n \in Nat /\ Len(prompt_outputs') = n + 1 /\ prompt_outputs'[n + 1] = out
      /\ \A p \in 1..n : prompt_outputs'[p] = prompt_outputs[p]
  BY <1>1, <1>4, <1>5, AppendProperties
<1>8. Len(prompt) + Len(out) = Len(ids)
  BY <1>1, <1>2, <1>5
<1>. QED  BY <1>1, <1>2, <1>4, <1>6, <1>7, <1>8 DEF prompt, out

\* The trace is read from the accumulated steps and the outputs alone.
LEMMA FiledFrame ==
  ASSUME UNCHANGED <<all_steps, prompt_outputs>>
  PROVE  /\ \A p : StepsOf(p)' = StepsOf(p)
         /\ TraceTilesOutput => TraceTilesOutput'
<1>1. \A p : StepsOf(p)' = StepsOf(p)
  BY DEF StepsOf, StepsBefore
<1>2. ASSUME TraceTilesOutput PROVE TraceTilesOutput'
  <2>. SUFFICES ASSUME NEW p \in 1..Len(prompt_outputs)
                PROVE  /\ \A i \in 1..Len(StepsOf(p)') : StepsOf(p)'[i].prompt_id = p - 1
                       /\ Tiles(StepsOf(p), Len(Prompts[p]),
                                Len(Prompts[p]) + Len(prompt_outputs[p]))'
    BY DEF TraceTilesOutput
  <2>. QED  BY <1>1, <1>2 DEF TraceTilesOutput, Tiles, EndOf
<1>. QED  BY <1>1, <1>2

\* Every action keeps the accumulated steps tiled, prompt by prompt.
LEMMA FiledStep ==
  ASSUME TargetTotal, NilIsNoTree, TraceInv, FiledInv, [Next]_vars
  PROVE  FiledInv'
<1>1. LosslessInv /\ HookInv /\ TypeInv /\ StepInv
  BY DEF TraceInv
<1>2. steps \in Seq(DecodeStep) /\ all_steps \in Seq(DecodeStep)
  BY <1>1 DEF TypeInv, TypeOK
<1>3. CASE Detach /\ ~failed
  <2>n. PICK n : n = Len(prompt_outputs)
    OBVIOUS
  <2>. DEFINE out == SubSeq(ids, Len(Prompts[n + 1]) + 1, Len(ids))
  <2>1. /\ n \in Nat /\ pid = n + 1
        /\ Len(prompt_outputs') = n + 1 /\ prompt_outputs'[n + 1] = out
        /\ \A p \in 1..n : prompt_outputs'[p] = prompt_outputs[p]
        /\ Len(Prompts[n + 1]) + Len(out) = Len(ids)
    BY <1>1, <1>3, <2>n, Delivered
  <2>. HIDE DEF out
  <2>2. /\ pc = "detach" /\ pc' \in {"attach", "finish"}
        /\ all_steps' = all_steps \o steps
    BY <1>3 DEF Detach, Accumulated, AfterDetach
  <2>3. /\ Tiles(steps, Len(Prompts[n + 1]), Len(ids))
        /\ \A i \in 1..Len(steps) : steps[i].prompt_id = n
        /\ \A i \in 1..Len(all_steps) : all_steps[i].prompt_id < n
    BY <1>3, <2>n, <2>1, <2>2 DEF FiledInv
  <2>4. /\ \A p \in 1..n : StepsOf(p)' = StepsOf(p)
        /\ StepsOf(n + 1)' = steps
        /\ \A i \in 1..Len(all_steps') : all_steps'[i].prompt_id < n + 1
    <3>1. /\ all_steps \in Seq(DecodeStep) /\ steps \in Seq(DecodeStep) /\ n \in Nat
          /\ \A i \in 1..Len(all_steps) : all_steps[i].prompt_id < n
          /\ \A i \in 1..Len(steps) : steps[i].prompt_id = n
          /\ all_steps' = all_steps \o steps
      BY <1>2, <2>1, <2>2, <2>3
    <3>. QED  BY ONLY <3>1, StepsFiled
  <2>5. ASSUME NEW p \in 1..(n + 1)
        PROVE  /\ \A i \in 1..Len(StepsOf(p)') : StepsOf(p)'[i].prompt_id = p - 1
               /\ Tiles(StepsOf(p)', Len(Prompts[p]), Len(Prompts[p]) + Len(prompt_outputs'[p]))
    <3>1. CASE p \in 1..n
      <4>1. p \in 1..Len(prompt_outputs)
        BY <2>n, <3>1
      <4>2. /\ \A i \in 1..Len(StepsOf(p)) : StepsOf(p)[i].prompt_id = p - 1
            /\ Tiles(StepsOf(p), Len(Prompts[p]), Len(Prompts[p]) + Len(prompt_outputs[p]))
        BY <4>1 DEF FiledInv, TraceTilesOutput
      <4>. QED  BY <2>1, <2>4, <3>1, <4>2
    <3>2. CASE p = n + 1
      <4>1. StepsOf(p)' = steps
        BY <2>4, <3>2
      <4>2. p - 1 = n
        <5>1. n \in Nat
          BY <2>1
        <5>. QED  BY ONLY <5>1, <3>2
      <4>3. Len(Prompts[p]) + Len(prompt_outputs'[p]) = Len(ids)
        BY <2>1, <3>2
      <4>. QED  BY <2>3, <3>2, <4>1, <4>2, <4>3
    <3>. QED  BY <2>1, <3>1, <3>2
  <2>6. TraceTilesOutput'
    BY <2>1, <2>5 DEF TraceTilesOutput, Tiles, EndOf
  <2>. QED  BY <2>1, <2>2, <2>4, <2>6 DEF FiledInv
<1>4. CASE UNCHANGED <<all_steps, prompt_outputs>> /\ (pc' = "detach" => failed')
  BY <1>4, FiledFrame DEF FiledInv
<1>5. CASE DraftTree
  <2>1. UNCHANGED <<pid, ids, steps, all_steps, prompt_outputs>> /\ pc = "draft"
    BY <1>5 DEF DraftTree, result
  <2>2. /\ Facts!GreedyText(Prompts[pid], ids)
        /\ Tiles(steps, Len(Prompts[pid]), Len(ids))
        /\ \A i \in 1..Len(steps) : steps[i].prompt_id = pid - 1
    BY <1>1, <2>1 DEF LosslessInv, TextInv, StepInv
  <2>. QED  BY <2>1, <2>2, FiledFrame DEF FiledInv, Tiles, EndOf, Facts!GreedyText
<1>6. CASE Detach /\ failed
  BY <1>4, <1>6 DEF Detach, AfterDetach
<1>7. CASE Attach \/ Generate \/ Verify \/ UpdateInputs \/ Raise \/ Return
  BY <1>4, <1>7 DEF Attach, Generate, Verify, UpdateInputs, Raise, Return, result
<1>8. CASE Terminated \/ UNCHANGED vars
  <2>1. UNCHANGED <<pc, pid, ids, steps, failed, all_steps, prompt_outputs>>
    BY <1>8 DEF Terminated, vars, loop, recorder, result
  <2>. QED  BY <2>1, FiledFrame DEF FiledInv, Tiles, EndOf, Facts!GreedyText
<1>. QED  BY <1>3, <1>5, <1>6, <1>7, <1>8 DEF Next

\* Nothing is accumulated at the start.
LEMMA FiledInit == Init => FiledInv
BY DEF Init, FiledInv, TraceTilesOutput

\* The trace holds each finished prompt's steps, in order, none lost, doubled or
\* credited to another prompt, and their contexts and accepts add up to the
\* prompt's text.
THEOREM TraceTiles ==
  ASSUME TargetTotal, NilIsNoTree
  PROVE  Spec => []TraceTilesOutput
<1>1. Init => TraceInv /\ FiledInv
  BY FiledInit, LosslessInit, HookInit, TypeInit, StepInit DEF TraceInv
<1>2. TraceInv /\ FiledInv /\ [Next]_vars => FiledInv'
  BY FiledStep
<1>3. FiledInv => TraceTilesOutput
  BY DEF FiledInv
<1>. QED  BY <1>1, <1>2, <1>3, TraceInductive, PTL DEF Spec

-----------------------------------------------------------------------------
(* The accepted nodes.                                                     *)

\* The nodes of a step are the recorded ones of the kept sub-tree, flagged on
\* the first a drafted positions of the row.
FlagsFollow(nodes, d, kept, row, a) ==
  /\ DOMAIN nodes = 1..Cardinality(kept)
  /\ \A k \in 1..Cardinality(kept) :
       /\ nodes[k].depth = RecordedNodes(d, kept)[k].depth
       /\ nodes[k].token_id = RecordedNodes(d, kept)[k].token_id
       /\ nodes[k].parent_idx = RecordedNodes(d, kept)[k].parent_idx
       /\ nodes[k].accepted <=>
            \E j \in 2..(a + 1) : row[j] \in kept /\ NewIndexOf(kept)[row[j]] = k - 1

\* The flagged entries are the row's first a drafted nodes, each flagged entry
\* the node of one position, its depth the position's, its parent the one before.
PathFlagged(nodes, d, row, a) ==
  LET flagged == {k \in DOMAIN nodes : nodes[k].accepted}
  IN  /\ Cardinality(flagged) = a
      /\ \A k \in flagged : \E j \in 2..(a + 1) :
           /\ nodes[k].depth = j - 2
           /\ row[j] \in 1..d.n /\ nodes[k].token_id = d.token[row[j]]
           /\ IF j = 2 THEN nodes[k].parent_idx = -1
              ELSE /\ nodes[k].parent_idx + 1 \in flagged
                   /\ nodes[nodes[k].parent_idx + 1].depth = j - 3

\* An accepted prefix of an edited row holds kept nodes only, one per depth, so
\* re-indexing maps its positions one to one to the flagged entries.
LEMMA FlagsAreThePath ==
  ASSUME NEW d \in Drafts, NEW sigma \in Thresholds, NEW b, NEW a \in Nat, NEW nodes,
         b \in 1..Len(EditedRows(d, sigma)), a + 1 <= Len(EditedRows(d, sigma)[b]),
         \A j \in 1..(a + 1) : EditedRows(d, sigma)[b][j] # Pad,
         FlagsFollow(nodes, d, KeptDraft(d, sigma), EditedRows(d, sigma)[b], a)
  PROVE  PathFlagged(nodes, d, EditedRows(d, sigma)[b], a)
<1>. DEFINE kept == KeptDraft(d, sigma)
            e == EditedRows(d, sigma)
            row == e[b]
            idx == NewIndexOf(kept)
            flagged == {k \in DOMAIN nodes : nodes[k].accepted}
<1>1. d.n \in Nat /\ d.token \in [1..d.n -> Vocab] /\ kept \in SUBSET (1..d.n)
  BY DraftTyped DEF KeptDraft
<1>2. /\ row \in Seq((0..d.n) \cup {Pad}) /\ row[1] = 0 /\ Len(row) \in Nat
      /\ a + 1 <= Len(row)
      /\ \A j \in 1..Len(row) : row[j] # Pad => d.path[row[j]] = SubSeq(row, 1, j)
  <2>1. /\ e \in Seq(Seq((0..d.n) \cup {Pad}))
        /\ \A r \in 1..Len(e) :
             /\ Len(e[r]) >= 1 /\ e[r][1] = 0
             /\ \A j \in 1..Len(e[r]) :
                  e[r][j] # Pad => d.path[e[r][j]] = SubSeq(e[r], 1, j)
    <3>1. d \in Drafts
      OBVIOUS
    <3>. QED  BY ONLY <3>1, EditedRowsSound
  <2>2. b \in 1..Len(e) /\ a + 1 <= Len(row)
    OBVIOUS
  <2>. HIDE DEF e
  <2>. QED  BY <2>1, <2>2
<1>3. NodesOf(e) = kept
  BY CutRowsReachKept
<1>4. ASSUME NEW j \in 2..(a + 1)
      PROVE  /\ row[j] \in kept /\ row[j] \in 1..d.n
             /\ Depth(d, row[j]) = j - 2 /\ Parent(d, row[j]) = row[j - 1]
  <2>1. /\ j \in 1..Len(row) /\ row[j] # Pad /\ row[j] \in (0..d.n) \cup {Pad}
        /\ j \in 1..(a + 1)
    <3>1. j \in 1..Len(row) /\ j \in 1..(a + 1)
      BY <1>2
    <3>2. row[j] # Pad
      BY <3>1
    <3>. HIDE DEF row
    <3>. QED  BY <1>2, <3>1, <3>2, ElementOfSeq
  <2>2. d.path[row[j]] = SubSeq(row, 1, j)
    BY <1>2, <2>1
  <2>3. row[j] # 0
    <3>1. d.path[0] = <<0>>
      BY DraftTyped
    <3>2. Len(SubSeq(row, 1, j)) = j
      <4>. HIDE DEF row
      <4>. QED  BY <1>2, <2>1
    <3>. QED  BY <2>2, <3>1, <3>2
  <2>4. row[j] \in kept
    <3>1. b \in 1..Len(e) /\ j \in 1..Len(e[b])
      BY <2>1
    <3>2. row[j] \in NodesOf(e)
      BY <2>1, <2>3, <3>1 DEF NodesOf
    <3>. QED  BY <1>3, <3>2
  <2>. HIDE DEF row
  <2>5. Len(d.path[row[j]]) = j /\ \A i \in 1..j : d.path[row[j]][i] = row[i]
    BY <1>2, <2>1, <2>2
  <2>6. Depth(d, row[j]) = j - 2 /\ Parent(d, row[j]) = row[j - 1]
    BY <2>5 DEF Depth, Parent
  <2>. QED  BY <1>1, <2>4, <2>6
<1>5. /\ \A v \in kept : idx[v] \in 0..(Cardinality(kept) - 1)
      /\ \A u, v \in kept : u < v => idx[u] < idx[v]
      /\ Cardinality(kept) \in Nat
  BY <1>1, IndexOrdered, KeptFinite
<1>6. /\ DOMAIN nodes = 1..Cardinality(kept)
      /\ \A k \in 1..Cardinality(kept) :
           /\ nodes[k].depth = RecordedNodes(d, kept)[k].depth
           /\ nodes[k].token_id = RecordedNodes(d, kept)[k].token_id
           /\ nodes[k].parent_idx = RecordedNodes(d, kept)[k].parent_idx
           /\ nodes[k].accepted <=>
                \E j \in 2..(a + 1) : row[j] \in kept /\ idx[row[j]] = k - 1
  BY DEF FlagsFollow
<1>7. ASSUME NEW j \in 2..(a + 1)
      PROVE  LET k == idx[row[j]] + 1
             IN  /\ k \in flagged /\ k \in 1..Cardinality(kept)
                 /\ NodeAt(kept, k) = row[j]
                 /\ nodes[k].depth = j - 2 /\ nodes[k].token_id = d.token[row[j]]
                 /\ nodes[k].parent_idx = ParentIdx(kept, row[j - 1])
  <2>. DEFINE k == idx[row[j]] + 1
  <2>1. row[j] \in kept
    BY <1>4
  <2>2. k \in 1..Cardinality(kept) /\ k - 1 = idx[row[j]]
    <3>. HIDE DEF idx, row
    <3>. QED  BY <1>5, <2>1
  <2>3. k \in flagged
    <3>1. nodes[k].accepted
      BY <1>6, <2>1, <2>2
    <3>. QED  BY <1>6, <2>2, <3>1
  <2>4. NodeAt(kept, k) \in kept /\ idx[NodeAt(kept, k)] = k - 1
    BY <1>1, <2>2, NodeAtExists
  <2>5. NodeAt(kept, k) = row[j]
    <3>. DEFINE w == NodeAt(kept, k)
                v == row[j]
    <3>1. w \in kept /\ v \in kept /\ idx[w] = idx[v]
      BY <2>1, <2>2, <2>4
    <3>. HIDE DEF w, v, idx, kept
    <3>2. w \in Int /\ v \in Int /\ idx[w] \in Int /\ idx[v] \in Int
      BY <1>1, <1>5, <3>1
    <3>3. ~(w < v) /\ ~(v < w)
      BY <1>5, <3>1, <3>2
    <3>. QED  BY <3>2, <3>3 DEF w, v
  <2>6. /\ RecordedNodes(d, kept)[k].depth = Depth(d, row[j])
        /\ RecordedNodes(d, kept)[k].token_id = d.token[row[j]]
        /\ RecordedNodes(d, kept)[k].parent_idx = ParentIdx(kept, Parent(d, row[j]))
    <3>. HIDE DEF k, row
    <3>. QED  BY <2>2, <2>5 DEF RecordedNodes
  <2>. HIDE DEF k, row, idx, kept, flagged
  <2>. QED  BY <1>4, <1>6, <2>2, <2>3, <2>5, <2>6 DEF k
<1>. HIDE DEF e, row, idx, kept
<1>8. ASSUME NEW k \in flagged PROVE \E j \in 2..(a + 1) : k = idx[row[j]] + 1
  <2>1. k \in 1..Cardinality(kept)
    BY <1>6
  <2>2. PICK j \in 2..(a + 1) : idx[row[j]] = k - 1
    BY <1>6, <2>1
  <2>. QED  BY <2>1, <2>2
<1>9. Cardinality(flagged) = a
  <2>. DEFINE J == 2..(a + 1)
              f == [j \in J |-> idx[row[j]] + 1]
  <2>1. IsFiniteSet(J) /\ Cardinality(J) = a
    <3>1. /\ IsFiniteSet(2..(a + 1))
          /\ Cardinality(2..(a + 1)) = IF 2 > a + 1 THEN 0 ELSE (a + 1) - 2 + 1
      <4>1. 2 \in Int /\ a + 1 \in Int
        OBVIOUS
      <4>. QED  BY ONLY <4>1, FS_Interval
    <3>. QED  BY <3>1
  <2>2. \A j \in J : f[j] \in flagged /\ f[j] = idx[row[j]] + 1 /\ nodes[f[j]].depth = j - 2
    BY <1>7
  <2>3. f \in [J -> flagged]
    BY <2>2
  <2>. HIDE DEF f, flagged
  <2>4. ASSUME NEW i \in J, NEW j \in J, f[i] = f[j] PROVE i = j
    <3>1. i - 2 = j - 2
      BY <2>2, <2>4
    <3>. QED  BY <3>1
  <2>5. \A k \in flagged : \E j \in J : f[j] = k
    BY <1>8, <2>2
  <2>. HIDE DEF J
  <2>6. f \in Bijection(J, flagged)
    BY <2>3, <2>4, <2>5 DEF Bijection, Injection, IsInjective, Surjection
  <2>7. ExistsBijection(J, flagged)
    BY <2>6 DEF ExistsBijection
  <2>. QED  BY <2>1, <2>7, FS_Bijection
<1>10. ASSUME NEW k \in flagged
       PROVE  \E j \in 2..(a + 1) :
                /\ nodes[k].depth = j - 2
                /\ row[j] \in 1..d.n /\ nodes[k].token_id = d.token[row[j]]
                /\ IF j = 2 THEN nodes[k].parent_idx = -1
                   ELSE /\ nodes[k].parent_idx + 1 \in flagged
                        /\ nodes[nodes[k].parent_idx + 1].depth = j - 3
  <2>1. PICK j \in 2..(a + 1) : k = idx[row[j]] + 1
    BY <1>8
  <2>2. /\ nodes[k].depth = j - 2 /\ nodes[k].token_id = d.token[row[j]]
        /\ nodes[k].parent_idx = ParentIdx(kept, row[j - 1])
    BY <1>7, <2>1
  <2>3. CASE j = 2
    <3>1. row[j - 1] = 0
      BY <1>2, <2>3
    <3>. QED  BY <1>4, <2>2, <2>3, <3>1 DEF ParentIdx
  <2>4. CASE j # 2
    <3>1. j - 1 \in 2..(a + 1)
      BY <2>4
    <3>2. row[j - 1] # 0
      BY <1>1, <1>4, <3>1
    <3>3. ParentIdx(kept, row[j - 1]) = idx[row[j - 1]]
      BY <3>2 DEF ParentIdx, idx
    <3>4. /\ idx[row[j - 1]] + 1 \in flagged
          /\ nodes[idx[row[j - 1]] + 1].depth = (j - 1) - 2
      BY <1>7, <3>1
    <3>. QED  BY <1>4, <2>2, <2>4, <3>3, <3>4
  <2>. QED  BY <2>3, <2>4
<1>. QED  BY <1>9, <1>10 DEF kept, e, row, PathFlagged

\* What step s says of a text lies within the first n tokens.
Within(s, n) ==
  /\ s.context_length \in 1..n
  /\ \A k \in DOMAIN s.nodes : s.nodes[k].accepted =>
       s.nodes[k].depth \in Nat /\ s.context_length + s.nodes[k].depth + 1 <= n

Spells(ss, text) ==
  \A i \in 1..Len(ss) : SpellsAccepts(ss[i], text) /\ Within(ss[i], Len(text))

\* The recorder's part of the pending tree agrees with the loop's tree.
SameTree(p) ==
  LET kept == KeptDraft(draft, sigma_th)
  IN  /\ retrieve = EditedRows(draft, sigma_th)
      /\ p.nodes = RecordedNodes(draft, kept)
      /\ p.edited_rows = retrieve
      /\ p.new_index_of = NewIndexOf(kept)

\* Between the verdict and its commit the last step is ahead of the text: it
\* holds the verdict that is about to be committed.
AheadOfText ==
  LET s == steps[Len(steps)]
  IN  /\ steps # <<>>
      /\ \A i \in 1..(Len(steps) - 1) :
           SpellsAccepts(steps[i], ids) /\ Within(steps[i], Len(ids))
      /\ s.context_length = Len(ids) + 1 /\ s.sample_token_id = root
      /\ s.accepted_length = accept
      /\ \E p : SameTree(p) /\ s.nodes = MarkAccepted(p, best, accept)

SpellInv ==
  /\ pc \in {"draft", "verify"} \/ (pc = "detach" /\ ~failed) => Spells(steps, ids)
  /\ pc = "verify" => SameTree(pending)
  /\ pc = "update" => AheadOfText
  /\ \A p \in 1..Len(prompt_outputs) : \A i \in 1..Len(StepsOf(p)) :
       SpellsAccepts(StepsOf(p)[i], Prompts[p] \o prompt_outputs[p])

\* A step that spelled a text spells every continuation of it.
LEMMA SpellsLonger ==
  ASSUME NEW s, NEW t \in Seq(Vocab), NEW c \in Seq(Vocab),
         SpellsAccepts(s, t), Within(s, Len(t))
  PROVE  SpellsAccepts(s, t \o c) /\ Within(s, Len(t \o c))
<1>1. /\ Len(t) \in Nat /\ Len(c) \in Nat /\ Len(t \o c) = Len(t) + Len(c)
      /\ \A i \in 1..Len(t) : (t \o c)[i] = t[i]
  OBVIOUS
<1>. DEFINE u == t \o c
<1>. HIDE DEF u
<1>2. Len(u) \in Nat /\ Len(t) <= Len(u) /\ \A i \in 1..Len(t) : u[i] = t[i]
  BY <1>1 DEF u
<1>3. Within(s, Len(u))
  BY <1>1, <1>2 DEF Within
<1>4. s.sample_token_id = u[s.context_length]
  BY <1>2 DEF SpellsAccepts, Within
<1>5. ASSUME NEW k \in DOMAIN s.nodes, s.nodes[k].accepted
      PROVE  s.nodes[k].token_id = u[s.context_length + s.nodes[k].depth + 1]
  <2>1. s.nodes[k].token_id = t[s.context_length + s.nodes[k].depth + 1]
    BY <1>5 DEF SpellsAccepts
  <2>2. s.context_length + s.nodes[k].depth + 1 \in 1..Len(t)
    BY <1>1, <1>5 DEF Within
  <2>. QED  BY <1>2, <2>1, <2>2
<1>6. SpellsAccepts(s, u)
  BY <1>4, <1>5 DEF SpellsAccepts
<1>. QED  BY <1>3, <1>6 DEF u

\* Nothing but the drafted tree and the verdict goes into the last step, so
\* committing the verdict makes the text say what the step says.
LEMMA CommitSpells ==
  ASSUME TargetTotal, LosslessInv, sigma_th \in Thresholds, pc = "update", AheadOfText
  PROVE  LET s == steps[Len(steps)]
             t == ids \o NewTokens
         IN  SpellsAccepts(s, t) /\ Within(s, Len(t))
<1>. DEFINE s == steps[Len(steps)]
            t == ids \o NewTokens
            d == draft
            kept == KeptDraft(d, sigma_th)
            e == EditedRows(d, sigma_th)
            row == e[best]
            a == accept
            flagged == {k \in DOMAIN s.nodes : s.nodes[k].accepted}
<1>1. /\ ids \in Seq(Vocab) /\ root \in Vocab /\ root = Argmax(ids) /\ RowsSound
      /\ best \in 1..Len(retrieve) /\ accept \in Nat /\ Accepts(best, accept)
  BY DEF LosslessInv, TextInv, VerdictInv
<1>2. PICK p : SameTree(p) /\ s.nodes = MarkAccepted(p, best, accept)
  BY DEF AheadOfText
<1>3. retrieve = e /\ p.edited_rows = e /\ p.nodes = RecordedNodes(d, kept)
      /\ p.new_index_of = NewIndexOf(kept)
  BY <1>2 DEF SameTree
<1>4. d \in Drafts /\ d.n \in Nat /\ d.token \in [1..d.n -> Vocab]
  BY <1>1, DraftTyped DEF RowsSound
<1>5. /\ NewTokens \in Seq(Vocab) /\ Len(NewTokens) = a + 1
      /\ NewTokens = [j \in 1..(a + 1) |-> CandidateToken(row[j])]
  BY <1>1, <1>3, CommitIsGreedy DEF NewTokens, Committed
<1>6. ASSUME NEW j \in 1..(a + 1)
      PROVE  row[j] # Pad
  <2>1. NewTokens[j] \in Vocab /\ NewTokens[j] = CandidateToken(row[j])
    BY <1>1, <1>5
  <2>2. Pad \notin Vocab
    BY CollectorAssumption DEF Pad
  <2>. QED  BY <2>1, <2>2 DEF CandidateToken
<1>7. /\ s.context_length = Len(ids) + 1 /\ s.sample_token_id = root
      /\ s.accepted_length = a
  BY DEF AheadOfText
<1>8. PathFlagged(s.nodes, d, row, a)
  <2>1. best \in 1..Len(e) /\ a + 1 <= Len(e[best]) /\ a \in Nat
    <3>1. e \in Seq(Seq((0..d.n) \cup {Pad}))
      BY <1>1, <1>3 DEF RowsSound
    <3>2. Len(e[best]) \in Nat /\ accept < Len(e[best])
      BY <1>1, <1>3, <3>1 DEF Accepts
    <3>. QED  BY <1>1, <1>3, <3>2
  <2>2. DOMAIN p.nodes = 1..Cardinality(kept) /\ DOMAIN NewIndexOf(kept) = kept
    BY <1>3 DEF RecordedNodes, NewIndexOf
  <2>3. DOMAIN s.nodes = 1..Cardinality(kept)
    BY <1>2, <2>2 DEF MarkAccepted
  <2>4. ASSUME NEW k \in 1..Cardinality(kept)
        PROVE  /\ s.nodes[k].depth = RecordedNodes(d, kept)[k].depth
               /\ s.nodes[k].token_id = RecordedNodes(d, kept)[k].token_id
               /\ s.nodes[k].parent_idx = RecordedNodes(d, kept)[k].parent_idx
               /\ s.nodes[k].accepted <=>
                    \E j \in 2..(a + 1) : /\ e[best][j] \in kept
                                          /\ NewIndexOf(kept)[e[best][j]] = k - 1
    <3>. DEFINE flag == \E j \in 2..(a + 1) : /\ e[best][j] \in kept
                                              /\ NewIndexOf(kept)[e[best][j]] = k - 1
    <3>1. s.nodes[k] = [RecordedNodes(d, kept)[k] EXCEPT !.accepted = flag]
      BY <1>2, <1>3, <2>2 DEF MarkAccepted, AcceptedPositions
    <3>2. \E w1, w2, w3, w4, w5, w6, w7 : RecordedNodes(d, kept)[k] =
             [depth |-> w1, token_id |-> w2, log_prob |-> w3,
              cumulative_log_prob |-> w4, parent_idx |-> w5, accepted |-> w6,
              layer_idx |-> w7]
      BY DEF RecordedNodes
    <3>. HIDE DEF flag
    <3>3. /\ s.nodes[k].depth = RecordedNodes(d, kept)[k].depth
          /\ s.nodes[k].token_id = RecordedNodes(d, kept)[k].token_id
          /\ s.nodes[k].parent_idx = RecordedNodes(d, kept)[k].parent_idx
          /\ s.nodes[k].accepted = flag
      BY <3>1, <3>2
    <3>. QED  BY <3>3 DEF flag
  <2>5. \A j \in 1..(a + 1) : e[best][j] # Pad
    BY <1>6
  <2>6. FlagsFollow(s.nodes, d, kept, row, a)
    <3>. HIDE DEF s, kept, e, a, d
    <3>. QED  BY <2>3, <2>4 DEF FlagsFollow
  <2>. QED  BY <1>4, <2>1, <2>5, <2>6, FlagsAreThePath
<1>9. /\ t \in Seq(Vocab) /\ Len(t) = Len(ids) + a + 1 /\ Len(ids) \in Nat
      /\ \A j \in 1..(a + 1) : t[Len(ids) + j] = NewTokens[j]
  BY <1>1, <1>5
<1>10. t[Len(ids) + 1] = root
  <2>1. 1 \in 1..(a + 1) /\ row[1] = 0
    BY <1>1, <1>3 DEF RowsSound
  <2>2. NewTokens[1] = root
    BY <1>5, <2>1 DEF CandidateToken, DraftToken, Pad
  <2>. QED  BY <1>9, <2>1, <2>2
<1>11. ASSUME NEW k \in flagged
       PROVE  /\ s.nodes[k].depth \in 0..(a - 1)
              /\ s.nodes[k].token_id = t[Len(ids) + 1 + s.nodes[k].depth + 1]
              /\ IF s.nodes[k].depth = 0 THEN s.nodes[k].parent_idx = -1
                 ELSE /\ s.nodes[k].parent_idx + 1 \in flagged
                      /\ s.nodes[s.nodes[k].parent_idx + 1].depth = s.nodes[k].depth - 1
  <2>1. PICK j \in 2..(a + 1) :
           /\ s.nodes[k].depth = j - 2
           /\ row[j] \in 1..d.n /\ s.nodes[k].token_id = d.token[row[j]]
           /\ IF j = 2 THEN s.nodes[k].parent_idx = -1
              ELSE /\ s.nodes[k].parent_idx + 1 \in flagged
                   /\ s.nodes[s.nodes[k].parent_idx + 1].depth = j - 3
    BY <1>8 DEF PathFlagged
  <2>2. j \in 1..(a + 1) /\ NewTokens[j] = d.token[row[j]]
    BY <1>1, <1>4, <1>5, <2>1 DEF CandidateToken, DraftToken, Pad
  <2>3. t[Len(ids) + j] = s.nodes[k].token_id
    BY <1>9, <2>1, <2>2
  <2>. HIDE DEF t, s, row, d, a, flagged
  <2>4. s.nodes[k].depth = j - 2 /\ Len(ids) + 1 + (j - 2) + 1 = Len(ids) + j
    BY <1>9, <2>1
  <2>5. s.nodes[k].depth \in 0..(a - 1)
    BY <1>1, <2>1 DEF a
  <2>. QED  BY <2>1, <2>3, <2>4, <2>5
<1>. HIDE DEF t, row, d
<1>12. SpellsAccepts(s, t)
  <2>1. Cardinality(flagged) = a
    BY <1>8 DEF PathFlagged
  <2>. QED  BY <1>7, <1>10, <1>11, <2>1 DEF SpellsAccepts
<1>13. Within(s, Len(t))
  <2>1. s.context_length \in 1..Len(t)
    BY <1>1, <1>7, <1>9
  <2>2. ASSUME NEW k \in DOMAIN s.nodes, s.nodes[k].accepted
        PROVE  s.nodes[k].depth \in Nat /\ s.context_length + s.nodes[k].depth + 1 <= Len(t)
    <3>1. s.nodes[k].depth \in 0..(a - 1)
      BY <1>11, <2>2
    <3>. HIDE DEF s
    <3>. QED  BY <1>1, <1>7, <1>9, <3>1
  <2>. QED  BY <2>1, <2>2 DEF Within
<1>. QED  BY <1>12, <1>13 DEF t

\* The delivered half of SpellInv is read from the trace alone.
DeliveredSpelled ==
  \A p \in 1..Len(prompt_outputs) : \A i \in 1..Len(StepsOf(p)) :
    SpellsAccepts(StepsOf(p)[i], Prompts[p] \o prompt_outputs[p])

\* It stays as long as neither the steps nor the outputs change.
LEMMA SpelledFrame ==
  DeliveredSpelled /\ UNCHANGED <<all_steps, prompt_outputs>> => DeliveredSpelled'
<1>. SUFFICES ASSUME DeliveredSpelled, UNCHANGED <<all_steps, prompt_outputs>>
              PROVE  DeliveredSpelled'
  OBVIOUS
<1>1. \A p : StepsOf(p)' = StepsOf(p)
  BY FiledFrame
<1>. QED  BY <1>1 DEF DeliveredSpelled

\* A prompt that ended normally adds its own steps, which spell its text.
LEMMA SpelledDetach ==
  ASSUME TraceInv, FiledInv, SpellInv, Detach, ~failed
  PROVE  DeliveredSpelled'
<1>1. LosslessInv /\ steps \in Seq(DecodeStep) /\ all_steps \in Seq(DecodeStep)
  BY DEF TraceInv, TypeInv, TypeOK
<1>n. PICK n : n = Len(prompt_outputs)
  OBVIOUS
<1>. DEFINE out == SubSeq(ids, Len(Prompts[n + 1]) + 1, Len(ids))
<1>2. /\ n \in Nat /\ pid = n + 1
      /\ Len(prompt_outputs') = n + 1 /\ prompt_outputs'[n + 1] = out
      /\ \A p \in 1..n : prompt_outputs'[p] = prompt_outputs[p]
      /\ Prompts[n + 1] \o out = ids
  BY <1>1, <1>n, Delivered
<1>. HIDE DEF out
<1>3. pc = "detach" /\ all_steps' = all_steps \o steps
  BY DEF Detach, Accumulated
<1>4. Spells(steps, ids)
  BY <1>3 DEF SpellInv
<1>5. /\ \A p \in 1..n : StepsOf(p)' = StepsOf(p)
      /\ StepsOf(n + 1)' = steps
  <2>1. /\ all_steps \in Seq(DecodeStep) /\ steps \in Seq(DecodeStep) /\ n \in Nat
        /\ \A i \in 1..Len(all_steps) : all_steps[i].prompt_id < n
        /\ \A i \in 1..Len(steps) : steps[i].prompt_id = n
        /\ all_steps' = all_steps \o steps
    BY <1>1, <1>n, <1>2, <1>3 DEF FiledInv
  <2>. QED  BY ONLY <2>1, StepsFiled
<1>6. ASSUME NEW p \in 1..(n + 1), NEW i \in 1..Len(StepsOf(p)')
      PROVE  SpellsAccepts(StepsOf(p)'[i], Prompts[p] \o prompt_outputs'[p])
  <2>1. CASE p \in 1..n
    <3>1. p \in 1..Len(prompt_outputs) /\ i \in 1..Len(StepsOf(p))
      BY <1>n, <1>5, <2>1
    <3>2. SpellsAccepts(StepsOf(p)[i], Prompts[p] \o prompt_outputs[p])
      BY <3>1 DEF SpellInv
    <3>. QED  BY <1>2, <1>5, <2>1, <3>2
  <2>2. CASE p = n + 1
    <3>1. StepsOf(p)' = steps
      BY <1>5, <2>2
    <3>2. Prompts[p] \o prompt_outputs'[p] = ids
      BY <1>2, <2>2
    <3>3. SpellsAccepts(steps[i], ids)
      BY <1>4, <3>1 DEF Spells
    <3>. QED  BY <3>1, <3>2, <3>3
  <2>. QED  BY <1>2, <2>1, <2>2
<1>. QED  BY <1>2, <1>6 DEF DeliveredSpelled

\* Every action keeps the flags truthful.
LEMMA SpellStep ==
  ASSUME TargetTotal, NilIsNoTree, TraceInv, FiledInv, SpellInv, [Next]_vars
  PROVE  SpellInv'
<1>1. /\ LosslessInv /\ StepInv /\ steps \in Seq(DecodeStep) /\ Len(steps) \in Nat
      /\ sigma_th \in Thresholds /\ ids \in Seq(Vocab)
  BY DEF TraceInv, TypeInv, TypeOK
<1>2. DeliveredSpelled
  BY DEF SpellInv, DeliveredSpelled
<1>3. CASE Detach
  <2>1. pc' \in {"aborted", "attach", "finish"}
    BY <1>3 DEF Detach, AfterDetach
  <2>2. DeliveredSpelled'
    <3>1. CASE failed
      BY <1>2, <1>3, <3>1, SpelledFrame DEF Detach
    <3>2. CASE ~failed
      BY <1>3, <3>2, SpelledDetach
    <3>. QED  BY <3>1, <3>2
  <2>. QED  BY <2>1, <2>2 DEF SpellInv, DeliveredSpelled
<1>4. CASE Attach \/ Raise \/ Return
  <2>1. /\ UNCHANGED <<all_steps, prompt_outputs>>
        /\ pc' \in {"generate", "detach", "returned"} /\ (pc' = "detach" => failed')
    BY <1>4 DEF Attach, Raise, Return, result
  <2>. QED  BY <1>2, <2>1, SpelledFrame DEF SpellInv, DeliveredSpelled
<1>5. CASE Generate
  <2>1. /\ UNCHANGED <<all_steps, prompt_outputs, steps>> /\ pc' = "draft" /\ pc = "generate"
    BY <1>5 DEF Generate, result, recorder
  <2>2. Spells(steps', ids')
    BY <1>1, <2>1 DEF Spells, StepInv
  <2>. QED  BY <1>2, <2>1, <2>2, SpelledFrame DEF SpellInv, DeliveredSpelled
<1>6. CASE DraftTree
  <2>1. /\ UNCHANGED <<all_steps, prompt_outputs, steps, ids, sigma_th>>
        /\ pc = "draft" /\ pc' \in {"verify", "detach"}
    BY <1>6 DEF DraftTree, result
  <2>2. Spells(steps', ids')
    BY <2>1 DEF SpellInv
  <2>3. SameTree(pending)'
    BY <1>1, <1>6, <2>1, DraftRecords DEF SameTree
  <2>. QED  BY <1>2, <2>1, <2>2, <2>3, SpelledFrame DEF SpellInv, DeliveredSpelled
<1>7. CASE Verify
  <2>1. /\ UNCHANGED <<all_steps, prompt_outputs, ids, root, draft, retrieve, sigma_th, pid>>
        /\ pc = "verify" /\ pc' = "update"
    BY <1>7 DEF Verify, result
  <2>2. pending # Nil /\ pending.context_length = Len(ids) + 1
        /\ pending.sample_token_id = root /\ SameTree(pending) /\ Spells(steps, ids)
    BY <1>1, <2>1 DEF StepInv, SpellInv
  <2>3. PICK b \in 1..Len(retrieve), a \in 0..draft.n :
          /\ best' = b /\ accept' = a
          /\ steps' = Append(steps,
               [step_id |-> step_id, prompt_id |-> pid - 1,
                context_length |-> pending.context_length,
                nodes |-> MarkAccepted(pending, b, a),
                accepted_length |-> a,
                sample_token_id |-> pending.sample_token_id])
    BY <1>7, <2>2 DEF Verify
  <2>. DEFINE s == [step_id |-> step_id, prompt_id |-> pid - 1,
                    context_length |-> pending.context_length,
                    nodes |-> MarkAccepted(pending, b, a),
                    accepted_length |-> a,
                    sample_token_id |-> pending.sample_token_id]
  <2>4. /\ s.context_length = Len(ids) + 1 /\ s.sample_token_id = root
        /\ s.accepted_length = a /\ s.nodes = MarkAccepted(pending, b, a)
    BY <2>2
  <2>5. steps' = Append(steps, s)
    BY <2>3
  <2>. HIDE DEF s
  <2>6. /\ Len(steps') = Len(steps) + 1 /\ steps'[Len(steps) + 1] = s
        /\ \A i \in 1..Len(steps) : steps'[i] = steps[i]
    BY <1>1, <2>5
  <2>7. steps' # <<>>
    BY <1>1, <2>6
  <2>8. \E p : SameTree(p)' /\ s.nodes = MarkAccepted(p, best', accept')
    <3>1. PICK p : p = pending
      OBVIOUS
    <3>2. SameTree(p)'
      BY <2>1, <2>2, <3>1 DEF SameTree
    <3>. QED  BY <2>3, <2>4, <3>1, <3>2
  <2>9. \A i \in 1..Len(steps) : SpellsAccepts(steps'[i], ids) /\ Within(steps'[i], Len(ids))
    BY <2>2, <2>6 DEF Spells
  <2>10. AheadOfText'
    <3>1. steps'[Len(steps')] = s /\ Len(steps') - 1 = Len(steps)
      BY <1>1, <2>6
    <3>2. /\ s.context_length = Len(ids') + 1 /\ s.sample_token_id = root'
          /\ s.accepted_length = accept'
      BY <2>1, <2>3, <2>4
    <3>3. \A i \in 1..(Len(steps') - 1) :
            SpellsAccepts(steps'[i], ids') /\ Within(steps'[i], Len(ids'))
      BY <2>1, <2>9, <3>1
    <3>4. \E p : SameTree(p)' /\ steps'[Len(steps')].nodes = MarkAccepted(p, best', accept')
      BY <2>8, <3>1
    <3>. QED  BY <2>7, <3>1, <3>2, <3>3, <3>4 DEF AheadOfText, SpellsAccepts, Within,
                                               MarkAccepted, AcceptedPositions
  <2>. QED  BY <1>2, <2>1, <2>10, SpelledFrame DEF SpellInv, DeliveredSpelled
<1>8. CASE UpdateInputs
  <2>1. /\ UNCHANGED <<all_steps, prompt_outputs, steps>> /\ pc = "update" /\ pc' = "draft"
    BY <1>8 DEF UpdateInputs, result, recorder
  <2>2. ids' = ids \o NewTokens /\ NewTokens \in Seq(Vocab)
    BY <1>1, <1>8, LosslessUpdate
  <2>3. AheadOfText
    BY <2>1 DEF SpellInv
  <2>4. ASSUME NEW i \in 1..Len(steps)
        PROVE  SpellsAccepts(steps[i], ids \o NewTokens) /\ Within(steps[i], Len(ids \o NewTokens))
    <3>1. CASE i = Len(steps)
      BY <1>1, <2>1, <2>3, <3>1, CommitSpells
    <3>2. CASE i # Len(steps)
      <4>1. SpellsAccepts(steps[i], ids) /\ Within(steps[i], Len(ids))
        <5>1. i \in 1..(Len(steps) - 1)
          BY <1>1, <3>2
        <5>. QED  BY <2>3, <5>1 DEF AheadOfText
      <4>. QED  BY <1>1, <2>2, <4>1, SpellsLonger
    <3>. QED  BY <3>1, <3>2
  <2>5. Spells(steps', ids')
    BY <2>1, <2>2, <2>4 DEF Spells
  <2>. QED  BY <1>2, <2>1, <2>5, SpelledFrame DEF SpellInv, DeliveredSpelled
<1>9. CASE Terminated \/ UNCHANGED vars
  <2>1. UNCHANGED <<all_steps, prompt_outputs, pc, failed, steps, ids, root, draft,
                    retrieve, sigma_th, best, accept, pending>>
    BY <1>9 DEF Terminated, vars, result, loop, recorder
  <2>2. SameTree(pending) => SameTree(pending)'
    BY <2>1 DEF SameTree
  <2>3. AheadOfText => AheadOfText'
    BY <2>1 DEF AheadOfText, SameTree
  <2>4. Spells(steps, ids) => Spells(steps, ids)'
    BY <2>1
  <2>. QED  BY <1>2, <2>1, <2>2, <2>3, <2>4, SpelledFrame DEF SpellInv, DeliveredSpelled
<1>. QED  BY <1>3, <1>4, <1>5, <1>6, <1>7, <1>8, <1>9 DEF Next

\* There are no flags at the start.
LEMMA SpellInit == Init => SpellInv
BY DEF Init, SpellInv

\* The accepted flags of every recorded step are one chain that spells the
\* tokens it put into the text, during the collection and in the trace.
THEOREM AcceptsSpell ==
  ASSUME TargetTotal, NilIsNoTree
  PROVE  Spec => []AcceptsSpellOutput
<1>1. Init => TraceInv /\ FiledInv /\ SpellInv
  BY FiledInit, SpellInit, LosslessInit, HookInit, TypeInit, StepInit DEF TraceInv
<1>2. TraceInv /\ FiledInv /\ SpellInv /\ [Next]_vars => FiledInv' /\ SpellInv'
  BY FiledStep, SpellStep
<1>3. SpellInv => AcceptsSpellOutput
  BY DEF SpellInv, Spells, AcceptsSpellOutput
<1>. QED  BY <1>1, <1>2, <1>3, TraceInductive, PTL DEF Spec
=============================================================================
