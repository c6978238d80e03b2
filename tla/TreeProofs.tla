----------------------------- MODULE TreeProofs -----------------------------
(***************************************************************************)
(* The rows of candidate paths: how topK_genrate makes them (EagleTree),   *)
(* and how `invalidate_paths` cuts them (GatingScan); and the pruner's     *)
(* tree, grown node by node (DTPGrowth).                                   *)
(*                                                                         *)
(* First the loop of `invalidate_paths`.  It computes the closed form of   *)
(* Gating for every retrieve_indices and every keep set, and raises        *)
(* exactly on keep sets that are not ancestor-closed along a path.  The    *)
(* loop invariant says that the finished rows are final, that the row      *)
(* being built is a prefix of its final value, that `alive` means "no cut  *)
(* so far", and that no survivor has been met after a cut.                 *)
(*                                                                         *)
(* Then the builder, for every K, D, set of tree sizes and set of head     *)
(* outputs.  The inductive invariant BuildInv says that                    *)
(*   - every entry of the flat lists extends the entry that the arithmetic *)
(*     on parents_list names (ListsLinked), and a slot of the beam is the  *)
(*     entry its index and the level's bias name (BeamOK);                 *)
(*   - after the rerank, mask_index is a tree over the selected entries    *)
(*     whose edges are the entries' own, and tree_mask its ancestors       *)
(*     (TreeIsBuilt, SelectionLinked);                                     *)
(*   - the rows are the leaves' paths, in some order (RowsAre).            *)
(* The selection is closed under parents because a parent scores at least  *)
(* as high as its child; an equal parent stays by what Reranked assumes of *)
(* torch.topk.                                                             *)
(*                                                                         *)
(* Last the growth of the pruner's tree, for every static tree and every   *)
(* history of the rates.  GrowthInv says that what has grown is sorted     *)
(* before what has not: a node that has not grown has an ancestor in the   *)
(* frontier that sorts before it, so the best of the frontier is the best  *)
(* of all.                                                                 *)
(***************************************************************************)
EXTENDS EagleTree, GatingScan, DTPGrowth, DTPProofs, SequenceTheorems

\* The finished rows are cut as Gating says, and were closed.
FinishedRows ==
  /\ Len(out) <= Len(rows)
  /\ \A r \in 1..Len(out) :
       /\ out[r] = TruncatedRow(rows[r], keep)
       /\ RowClosed(rows[r], keep)

\* The row being built is a prefix of its cut form.
CurrentRow ==
  Len(out) < Len(rows) =>
    /\ Len(new_row) <= Len(Row)
    /\ (alive <=> AliveAfter(Row, keep, Len(new_row)))
    /\ \A j \in 1..Len(new_row) :
         /\ new_row[j] = IF AliveAfter(Row, keep, j) THEN Row[j] ELSE Pad
         /\ Survives(Row[j], keep) => AliveAfter(Row, keep, j)

\* What the loop's end says.
Verdict ==
  /\ status = "raised" => ~Closed(rows, keep)
  /\ status = "done" => Len(out) = Len(rows)

\* The loop's invariant.
LoopInv == TypeOK /\ FinishedRows /\ CurrentRow /\ Verdict

\* One more position: the scan stays alive iff the value survives.
LEMMA AliveStep ==
  ASSUME NEW row, NEW keepSet, NEW j \in Nat
  PROVE  AliveAfter(row, keepSet, j + 1)
           <=> AliveAfter(row, keepSet, j) /\ Survives(row[j + 1], keepSet)
<1>1. 1..(j + 1) = (1..j) \cup {j + 1}
  OBVIOUS
<1>. QED  BY <1>1 DEF AliveAfter

\* Appending to the row under construction keeps the loop invariant, whichever
\* of the two values the iteration appends.
LEMMA RowGrows ==
  ASSUME LoopInv, InRow, NEW v \in Int, NEW a \in BOOLEAN,
         new_row' = Append(new_row, v), alive' = a,
         v = IF AliveAfter(Row, keep, Len(new_row) + 1) THEN Value ELSE Pad,
         a <=> AliveAfter(Row, keep, Len(new_row) + 1),
         Survives(Value, keep) => a,
         UNCHANGED <<rows, keep, out, status>>
  PROVE  LoopInv'
<1>1. Row \in Seq(Int) /\ Len(new_row) \in Nat /\ Len(out) \in Nat
  BY DEF LoopInv, TypeOK, Row, InRow
<1>2. Row' = Row
  BY DEF Row
<1>3. TypeOK'
  BY DEF LoopInv, TypeOK
<1>4. FinishedRows' /\ Verdict'
  BY DEF LoopInv, FinishedRows, Verdict
<1>5. Len(new_row') = Len(new_row) + 1 /\ Len(new_row') <= Len(Row)
  BY <1>1 DEF LoopInv, TypeOK, InRow
<1>6. ASSUME NEW j \in 1..Len(new_row')
      PROVE  /\ new_row'[j] = IF AliveAfter(Row, keep, j) THEN Row[j] ELSE Pad
             /\ Survives(Row[j], keep) => AliveAfter(Row, keep, j)
  <2>1. CASE j = Len(new_row) + 1
    <3>1. new_row'[j] = v
      BY <2>1 DEF LoopInv, TypeOK
    <3>. QED  BY <2>1, <3>1 DEF Value
  <2>2. CASE j # Len(new_row) + 1
    <3>1. j \in 1..Len(new_row) /\ new_row'[j] = new_row[j]
      BY <1>1, <1>5, <2>2 DEF LoopInv, TypeOK
    <3>. QED  BY <3>1 DEF LoopInv, CurrentRow, InRow
  <2>. QED  BY <2>1, <2>2
<1>7. CurrentRow'
  <2>1. ASSUME NEW j \in 1..Len(new_row')
        PROVE  /\ new_row'[j] = IF AliveAfter(Row', keep', j) THEN Row'[j] ELSE Pad
               /\ Survives(Row'[j], keep') => AliveAfter(Row', keep', j)
    BY <1>2, <1>6 
  <2>2. alive' <=> AliveAfter(Row', keep', Len(new_row'))
    BY <1>2, <1>5
  <2>. QED  BY <1>2, <1>5, <2>1, <2>2 DEF CurrentRow
<1>. QED  BY <1>3, <1>4, <1>7 DEF LoopInv

\* The loop starts with nothing scanned.
LEMMA LoopInvInit == ScanInit => LoopInv
<1>. SUFFICES ASSUME ScanInit PROVE LoopInv
  OBVIOUS
<1>1. TypeOK
  BY InputsAssumption DEF ScanInit, TypeOK
<1>2. FinishedRows /\ Verdict
  BY <1>1 DEF ScanInit, FinishedRows, Verdict, TypeOK
<1>3. CurrentRow
  <2>1. ASSUME Len(out) < Len(rows) PROVE Row \in Seq(Int)
    BY <1>1, <2>1 DEF ScanInit, Row, TypeOK
  <2>. QED  BY <2>1 DEF ScanInit, CurrentRow, AliveAfter
<1>. QED  BY <1>1, <1>2, <1>3 DEF LoopInv

\* Every iteration keeps the invariant.
LEMMA LoopInvNext == LoopInv /\ [ScanNext]_scanVars => LoopInv'
<1>. SUFFICES ASSUME LoopInv, [ScanNext]_scanVars PROVE LoopInv'
  OBVIOUS
<1>0. TypeOK
  BY DEF LoopInv
<1>1. ASSUME InRow
      PROVE  /\ Row \in Seq(Int) /\ Value \in Int /\ Len(new_row) \in Nat
             /\ Value = Row[Len(new_row) + 1]
             /\ (alive <=> AliveAfter(Row, keep, Len(new_row)))
             /\ AliveAfter(Row, keep, Len(new_row) + 1)
                  <=> alive /\ Survives(Value, keep)
  <2>1. Row \in Seq(Int) /\ Len(new_row) \in Nat /\ Len(new_row) < Len(Row)
    BY <1>0, <1>1 DEF TypeOK, InRow, Row
  <2>2. Value \in Int /\ Value = Row[Len(new_row) + 1]
    BY <2>1 DEF Value
  <2>3. (alive <=> AliveAfter(Row, keep, Len(new_row)))
    BY <1>1 DEF LoopInv, CurrentRow, InRow
  <2>. QED  BY <2>1, <2>2, <2>3, AliveStep
<1>2. CASE Keep
  <2>1. /\ InRow /\ Survives(Value, keep) /\ alive
        /\ new_row' = Append(new_row, Value)
        /\ UNCHANGED <<rows, keep, out, alive, status>>
    BY <1>2 DEF Keep
  <2>2. alive = TRUE
    BY <1>0, <2>1 DEF TypeOK
  <2>. QED  BY <1>1, <2>1, <2>2, RowGrows
<1>3. CASE Raise
  <2>1. InRow /\ Survives(Value, keep) /\ ~alive /\ status' = "raised"
        /\ UNCHANGED <<rows, keep, out, new_row, alive>>
    BY <1>3 DEF Raise
  <2>2. ~AliveAfter(Row, keep, Len(new_row) + 1)
    BY <1>1, <2>1
  <2>3. ~RowClosed(Row, keep)
    BY <1>1, <2>1, <2>2 DEF RowClosed, InRow
  <2>4. Len(out) + 1 \in 1..Len(rows)
    BY <1>0, <2>1 DEF InRow, TypeOK
  <2>5. ~Closed(rows, keep)
    BY <2>3, <2>4 DEF Closed, Row
  <2>6. Row' = Row
    BY <2>1 DEF Row
  <2>7. TypeOK' /\ FinishedRows' /\ CurrentRow'
    BY <2>1, <2>6 DEF LoopInv, TypeOK, FinishedRows, CurrentRow
  <2>. QED  BY <2>1, <2>5, <2>7 DEF LoopInv, Verdict
<1>4. CASE Cut
  <2>1. /\ InRow /\ ~Survives(Value, keep)
        /\ new_row' = Append(new_row, Pad) /\ alive' = FALSE
        /\ UNCHANGED <<rows, keep, out, status>>
    BY <1>4 DEF Cut
  <2>2. ~AliveAfter(Row, keep, Len(new_row) + 1)
    BY <1>1, <2>1
  <2>3. Pad \in Int
    BY DEF Pad
  <2>. QED  BY <2>1, <2>2, <2>3, RowGrows
<1>5. CASE EndRow
  <2>1. /\ status = "scan" /\ Len(out) < Len(rows) /\ Len(new_row) = Len(Row)
        /\ out' = Append(out, new_row) /\ new_row' = <<>> /\ alive' = TRUE
        /\ UNCHANGED <<rows, keep, status>>
    BY <1>5 DEF EndRow
  <2>2. Row \in Seq(Int) /\ Len(out) \in Nat /\ Len(rows) \in Nat
    BY <1>0, <2>1 DEF TypeOK, Row
  <2>3. new_row = TruncatedRow(Row, keep) /\ RowClosed(Row, keep)
    BY <1>0, <2>1, <2>2 DEF LoopInv, CurrentRow, TruncatedRow, RowClosed, TypeOK
  <2>4. TypeOK' 
    BY <1>0, <2>1 DEF TypeOK
  <2>5. FinishedRows'
    <3>1. Len(out') = Len(out) + 1 /\ Len(out') <= Len(rows)
      BY <1>0, <2>1, <2>2 DEF TypeOK
    <3>2. ASSUME NEW r \in 1..Len(out')
          PROVE  out'[r] = TruncatedRow(rows[r], keep) /\ RowClosed(rows[r], keep)
      <4>1. CASE r = Len(out) + 1
        BY <1>0, <2>1, <2>3, <4>1 DEF Row, TypeOK
      <4>2. CASE r # Len(out) + 1
        <5>1. r \in 1..Len(out) /\ out'[r] = out[r]
          BY <1>0, <2>1, <2>2, <3>1, <4>2 DEF TypeOK
        <5>. QED  BY <5>1 DEF LoopInv, FinishedRows
      <4>. QED  BY <4>1, <4>2
    <3>. QED  BY <2>1, <3>1, <3>2 DEF FinishedRows
  <2>6. CurrentRow'
    <3>1. ASSUME Len(out') < Len(rows') PROVE Row' \in Seq(Int)
      BY <2>4, <3>1 DEF TypeOK, Row
    <3>. QED  BY <2>1, <3>1 DEF CurrentRow, AliveAfter
  <2>7. Verdict'
    BY <2>1 DEF Verdict
  <2>. QED  BY <2>4, <2>5, <2>6, <2>7 DEF LoopInv
<1>6. CASE Return
  <2>1. Row' = Row
    BY <1>6 DEF Return, Row
  <2>. QED  BY <1>6, <2>1 DEF Return, LoopInv, TypeOK, FinishedRows, CurrentRow, Verdict
<1>7. CASE ScanReturned \/ UNCHANGED scanVars
  <2>1. UNCHANGED scanVars /\ Row' = Row
    BY <1>7 DEF ScanReturned, scanVars, Row
  <2>. QED  BY <2>1 DEF scanVars, LoopInv, TypeOK, FinishedRows, CurrentRow, Verdict
<1>. QED  BY <1>2, <1>3, <1>4, <1>5, <1>6, <1>7 DEF ScanNext

\* The loop invariant holds throughout.
LEMMA LoopInvAlways == ScanSpec => []LoopInv
  BY LoopInvInit, LoopInvNext, PTL DEF ScanSpec

\* The loop's state stays well typed, whatever rows and keep set it is given.
THEOREM ScanTypeOK == ScanSpec => []TypeOK
<1>1. LoopInv => TypeOK
  BY DEF LoopInv
<1>. QED  BY <1>1, LoopInvAlways, PTL

\* For every retrieve_indices and keep set, what invalidate_paths returns is
\* each path cut at its first pruned node.
THEOREM ScanIsClosedForm == ScanSpec => []ScanComputesGating
<1>1. LoopInv => ScanComputesGating
  <2>. SUFFICES ASSUME LoopInv, status = "done" PROVE out = InvalidatePaths(rows, keep)
    BY DEF ScanComputesGating
  <2>. QED  BY DEF LoopInv, TypeOK, FinishedRows, Verdict, InvalidatePaths
<1>. QED  BY <1>1, LoopInvAlways, PTL

\* For every input, ValueError is raised exactly when the keep set is not
\* ancestor-closed along one of the paths.
THEOREM RaisesExactlyOnMalformed == ScanSpec => []RaisesIffMalformed
<1>1. LoopInv => RaisesIffMalformed
  BY DEF LoopInv, FinishedRows, Verdict, RaisesIffMalformed, Closed
<1>. QED  BY <1>1, LoopInvAlways, PTL

\* A node of the rows is a value at some position.
LEMMA NodesOfMember ==
  ASSUME NEW rs, NEW v
  PROVE  v \in NodesOf(rs) <=>
           /\ v # 0 /\ v # Pad
           /\ \E r \in 1..Len(rs) : \E j \in 1..Len(rs[r]) : rs[r][j] = v
BY DEF NodesOf

\* For every tree and ancestor-closed keep set, cutting the paths one by one
\* leaves exactly the kept sub-tree.
THEOREM CutPathsAreKeptSubtree == ScanSpec => []KeptSubtree
<1>1. ASSUME LoopInv, status = "done" PROVE NodesOf(out) = NodesOf(rows) \cap keep
  <2>1. /\ out = InvalidatePaths(rows, keep) /\ Closed(rows, keep)
        /\ rows \in Seq(Seq(Int)) /\ 0 # Pad
    BY <1>1 DEF LoopInv, TypeOK, FinishedRows, Verdict, InvalidatePaths, Closed, Pad
  <2>2. ASSUME NEW v \in NodesOf(out) PROVE v \in NodesOf(rows) \cap keep
    <3>0. PICK r \in 1..Len(out) : \E j \in 1..Len(out[r]) : out[r][j] = v
      BY NodesOfMember
    <3>1. PICK j \in 1..Len(out[r]) : out[r][j] = v
      BY <3>0
    <3>2. r \in 1..Len(rows) /\ out[r] = TruncatedRow(rows[r], keep)
      BY <2>1 DEF InvalidatePaths
    <3>3. /\ v # 0 /\ v # Pad /\ j \in 1..Len(rows[r])
          /\ AliveAfter(rows[r], keep, j) /\ rows[r][j] = v
      BY <2>1, <3>1, <3>2, NodesOfMember DEF TruncatedRow
    <3>4. Survives(v, keep)
      BY <3>3 DEF AliveAfter
    <3>. QED  BY <3>2, <3>3, <3>4, NodesOfMember DEF Survives
  <2>3. ASSUME NEW v \in NodesOf(rows) \cap keep PROVE v \in NodesOf(out)
    <3>0. PICK r \in 1..Len(rows) : \E j \in 1..Len(rows[r]) : rows[r][j] = v
      BY NodesOfMember
    <3>1. PICK j \in 1..Len(rows[r]) : rows[r][j] = v
      BY <3>0
    <3>2. v # 0 /\ v # Pad /\ Survives(rows[r][j], keep)
      BY <3>1, NodesOfMember DEF Survives
    <3>3. AliveAfter(rows[r], keep, j)
      BY <2>1, <3>2 DEF Closed, RowClosed
    <3>4. r \in 1..Len(out) /\ j \in 1..Len(out[r]) /\ out[r][j] = v
      BY <2>1, <3>1, <3>3 DEF InvalidatePaths, TruncatedRow
    <3>. QED  BY <3>2, <3>4, NodesOfMember
  <2>. QED  BY <2>2, <2>3
<1>2. LoopInv => KeptSubtree
  BY <1>1 DEF KeptSubtree
<1>. QED  BY <1>2, LoopInvAlways, PTL

-----------------------------------------------------------------------------
(* Sets of integers in order.                                              *)

\* What an order R puts before x.
Below(S, R, x) == {y \in S : <<y, x>> \in R}

\* A strict total order on a finite set numbers its elements.
LEMMA Ranked ==
  ASSUME NEW S, IsFiniteSet(S), NEW R,
         \A x, y, z \in S : <<x, y>> \in R /\ <<y, z>> \in R => <<x, z>> \in R,
         \A x \in S : <<x, x>> \notin R,
         \A x, y \in S : x # y => <<x, y>> \in R \/ <<y, x>> \in R
  PROVE  /\ Cardinality(S) \in Nat
         /\ \A x \in S : Cardinality(Below(S, R, x)) \in 0..(Cardinality(S) - 1)
         /\ \A x, y \in S : <<x, y>> \in R =>
              Cardinality(Below(S, R, x)) < Cardinality(Below(S, R, y))
         /\ \A j \in 1..Cardinality(S) : \E x \in S : Cardinality(Below(S, R, x)) = j - 1
<1>. DEFINE n == Cardinality(S)
            rank == [x \in S |-> Cardinality(Below(S, R, x))]
<1>1. n \in Nat
  BY FS_CardinalityType
<1>2. ASSUME NEW x \in S
      PROVE  Below(S, R, x) \in SUBSET S /\ x \notin Below(S, R, x)
             /\ IsFiniteSet(Below(S, R, x)) /\ rank[x] \in 0..(n - 1)
  <2>1. Below(S, R, x) \in SUBSET S /\ x \notin Below(S, R, x)
    BY DEF Below
  <2>2. /\ IsFiniteSet(Below(S, R, x)) /\ Cardinality(Below(S, R, x)) <= n
        /\ n = Cardinality(Below(S, R, x)) => S = Below(S, R, x)
    BY <2>1, FS_Subset
  <2>3. Cardinality(Below(S, R, x)) \in Nat
    BY <2>2, FS_CardinalityType
  <2>. HIDE DEF n
  <2>. QED  BY <2>1, <2>2, <2>3, <1>1
<1>3. ASSUME NEW x \in S, NEW y \in S, <<x, y>> \in R
      PROVE  rank[x] < rank[y]
  <2>1. Below(S, R, x) \in SUBSET Below(S, R, y)
    BY <1>3 DEF Below
  <2>2. x \in Below(S, R, y)
    BY <1>3 DEF Below
  <2>3. /\ Cardinality(Below(S, R, x)) <= Cardinality(Below(S, R, y))
        /\ Cardinality(Below(S, R, y)) = Cardinality(Below(S, R, x))
             => Below(S, R, y) = Below(S, R, x)
    BY <2>1, <1>2, FS_Subset
  <2>4. Cardinality(Below(S, R, x)) # Cardinality(Below(S, R, y))
    BY <2>2, <2>3, <1>2
  <2>5. rank[x] \in Int /\ rank[y] \in Int
    BY <1>1, <1>2
  <2>. QED  BY <2>3, <2>4, <2>5
<1>4. rank \in Injection(S, 0..(n - 1))
  <2>1. rank \in [S -> 0..(n - 1)]
    BY <1>2
  <2>2. ASSUME NEW x \in S, NEW y \in S, rank[x] = rank[y]
        PROVE  x = y
    <3>1. rank[x] \in Int /\ rank[y] \in Int
      BY <1>1, <1>2
    <3>2. ~(rank[x] < rank[y]) /\ ~(rank[y] < rank[x])
      BY <2>2, <3>1
    <3>. QED  BY <1>3, <3>2
  <2>. QED  BY <2>1, <2>2 DEF Injection, IsInjective
<1>5. IsFiniteSet(0..(n - 1)) /\ Cardinality(0..(n - 1)) = n
  BY <1>1, FS_Interval, 0 \in Int, n - 1 \in Int
<1>6. rank \in Surjection(S, 0..(n - 1))
  BY <1>4, <1>5, FS_Injection
<1>7. ASSUME NEW j \in 1..n
      PROVE  \E x \in S : rank[x] = j - 1
  <2>1. j - 1 \in 0..(n - 1)
    BY <1>1
  <2>. HIDE DEF rank
  <2>. QED  BY <1>6, <2>1 DEF Surjection
<1>. QED  BY <1>1, <1>2, <1>3, <1>7

\* The rank of an integer in a set.
Rank(S, x) == Cardinality({y \in S : y < x})

\* Ascending lists a finite set of integers, each once, in order.
LEMMA AscendingLists ==
  ASSUME NEW S \in SUBSET Int, IsFiniteSet(S)
  PROVE  /\ Cardinality(S) \in Nat
         /\ Ascending(S) \in [1..Cardinality(S) -> S]
         /\ \A j \in 1..Cardinality(S) : Rank(S, Ascending(S)[j]) = j - 1
         /\ \A i, j \in 1..Cardinality(S) : i < j => Ascending(S)[i] < Ascending(S)[j]
         /\ \A x \in S : \E j \in 1..Cardinality(S) : Ascending(S)[j] = x
         /\ \A x, y \in S : Rank(S, x) = Rank(S, y) => x = y
<1>. DEFINE R == {p \in S \X S : p[1] < p[2]}
            n == Cardinality(S)
            A == Ascending(S)
<1>1. \A x \in S : Below(S, R, x) = {y \in S : y < x}
  BY DEF Below
<1>2. \A x, y \in S : <<x, y>> \in R <=> x < y
  OBVIOUS
<1>3. /\ n \in Nat
      /\ \A x \in S : Cardinality(Below(S, R, x)) \in 0..(n - 1)
      /\ \A x, y \in S : <<x, y>> \in R =>
              Cardinality(Below(S, R, x)) < Cardinality(Below(S, R, y))
      /\ \A j \in 1..n : \E x \in S : Cardinality(Below(S, R, x)) = j - 1
  <2>1. /\ \A x, y, z \in S : <<x, y>> \in R /\ <<y, z>> \in R => <<x, z>> \in R
        /\ \A x \in S : <<x, x>> \notin R
        /\ \A x, y \in S : x # y => <<x, y>> \in R \/ <<y, x>> \in R
    BY <1>2
  <2>. HIDE DEF R
  <2>. QED  BY ONLY <2>1, Ranked, S \in SUBSET Int, IsFiniteSet(S) 
<1>. HIDE DEF R
<1>4. /\ \A x \in S : Rank(S, x) \in 0..(n - 1)
      /\ \A x, y \in S : x < y => Rank(S, x) < Rank(S, y)
      /\ \A j \in 1..n : \E x \in S : Rank(S, x) = j - 1
  BY <1>1, <1>2, <1>3 DEF Rank
<1>5. A = [j \in 1..n |-> CHOOSE x \in S : Rank(S, x) = j - 1]
  BY DEF Ascending, Rank
<1>. HIDE DEF n, A
<1>6. \A j \in 1..n : A[j] \in S /\ Rank(S, A[j]) = j - 1
  BY <1>4, <1>5
<1>7. \A x, y \in S : Rank(S, x) = Rank(S, y) => x = y
  <2>. SUFFICES ASSUME NEW x \in S, NEW y \in S, Rank(S, x) = Rank(S, y)
                PROVE  x = y
    OBVIOUS
  <2>1. Rank(S, x) \in Int /\ ~(x < y) /\ ~(y < x)
    BY <1>3, <1>4
  <2>. QED  BY <2>1
<1>8. ASSUME NEW i \in 1..n, NEW j \in 1..n, i < j
      PROVE  A[i] < A[j]
  <2>1. A[i] \in S /\ A[j] \in S /\ Rank(S, A[i]) = i - 1 /\ Rank(S, A[j]) = j - 1
    BY <1>6
  <2>2. A[i] # A[j]
    BY <2>1, <1>8
  <2>3. ~(A[j] < A[i])
    <3>1. A[j] < A[i] => Rank(S, A[j]) < Rank(S, A[i])
      BY <2>1, <1>4
    <3>. QED  BY <3>1, <2>1, <1>8
  <2>4. A[i] \in Int /\ A[j] \in Int
    BY <2>1
  <2>. QED  BY <2>2, <2>3, <2>4
<1>9. ASSUME NEW x \in S
      PROVE  \E j \in 1..n : A[j] = x
  <2>. DEFINE j == Rank(S, x) + 1
  <2>1. j \in 1..n
    BY <1>3, <1>4
  <2>2. Rank(S, A[j]) = Rank(S, x) /\ A[j] \in S
    BY <2>1, <1>6, <1>3, <1>4
  <2>. QED  BY <2>1, <2>2, <1>7
<1>. QED  BY <1>3, <1>5, <1>6, <1>7, <1>8, <1>9 DEF n, A

\* s lists S in order.
Lists(s, n, S) ==
  /\ s \in [1..n -> S]
  /\ \A i, j \in 1..n : i < j => s[i] < s[j]
  /\ \A x \in S : \E j \in 1..n : s[j] = x

\* There is one ordered list of a set: what lists it in order is Ascending.
LEMMA AscendingIs ==
  ASSUME NEW S \in SUBSET Int, IsFiniteSet(S), NEW n \in Nat, NEW s, Lists(s, n, S)
  PROVE  Ascending(S) = s /\ Cardinality(S) = n
<1>1. /\ s \in [1..n -> S] /\ \A i \in 1..n : s[i] \in Int
      /\ \A i, j \in 1..n : i < j => s[i] < s[j]
      /\ \A x \in S : \E j \in 1..n : s[j] = x
  BY DEF Lists
<1>2. \A i, j \in 1..n : s[i] < s[j] => i < j
  <2>. SUFFICES ASSUME NEW i \in 1..n, NEW j \in 1..n, s[i] < s[j], ~(i < j)
                PROVE  FALSE
    OBVIOUS
  <2>1. i = j \/ j < i
    OBVIOUS
  <2>2. j < i => s[j] < s[i]
    BY <1>1
  <2>3. s[i] \in Int /\ s[j] \in Int
    BY <1>1
  <2>. QED  BY <2>1, <2>2, <2>3
<1>3. \A i, j \in 1..n : s[i] = s[j] => i = j
  <2>. SUFFICES ASSUME NEW i \in 1..n, NEW j \in 1..n, s[i] = s[j], i # j
                PROVE  FALSE
    OBVIOUS
  <2>1. i < j \/ j < i
    OBVIOUS
  <2>2. (j < i => s[j] < s[i]) /\ (i < j => s[i] < s[j])
    BY <1>1
  <2>3. s[i] \in Int /\ s[j] \in Int
    BY <1>1
  <2>. QED  BY <2>1, <2>2, <2>3
<1>4. IsFiniteSet(1..n) /\ Cardinality(1..n) = n
  BY FS_Interval, 1 \in Int, n \in Int
<1>5. Cardinality(S) = n
  <2>1. s \in Surjection(1..n, S) /\ s \in Injection(1..n, S)
    BY <1>1, <1>3 DEF Surjection, Injection, IsInjective
  <2>. QED  BY <2>1, <1>4, FS_Surjection
<1>6. ASSUME NEW j \in 1..n
      PROVE  Rank(S, s[j]) = j - 1
  <2>. DEFINE T == {y \in S : y < s[j]}
              f == [i \in 1..(j - 1) |-> s[i]]
  <2>1. \A i \in 1..(j - 1) : i \in 1..n /\ i < j
    OBVIOUS
  <2>2. f \in [1..(j - 1) -> T]
    BY <2>1, <1>1
  <2>3. \A y \in T : \E i \in 1..(j - 1) : f[i] = y
    <3>. SUFFICES ASSUME NEW y \in T
                  PROVE  \E i \in 1..(j - 1) : f[i] = y
      OBVIOUS
    <3>1. PICK i \in 1..n : s[i] = y
      BY <1>1
    <3>2. i < j
      BY <3>1, <1>2
    <3>. QED  BY <3>1, <3>2
  <2>4. \A a, b \in 1..(j - 1) : f[a] = f[b] => a = b
    BY <2>1, <1>3
  <2>5. f \in Surjection(1..(j - 1), T) /\ f \in Injection(1..(j - 1), T)
    <3>. HIDE DEF f, T
    <3>. QED  BY <2>2, <2>3, <2>4 DEF Surjection, Injection, IsInjective
  <2>6. IsFiniteSet(1..(j - 1)) /\ Cardinality(1..(j - 1)) = j - 1
    BY FS_Interval, 1 \in Int, j - 1 \in Int
  <2>7. Cardinality(T) = j - 1
    <3>. HIDE DEF f, T
    <3>. QED  BY <2>5, <2>6, FS_Surjection
  <2>. QED  BY <2>7 DEF Rank
<1>7. ASSUME NEW j \in 1..n
      PROVE  Ascending(S)[j] = s[j]
  <2>1. Ascending(S)[j] \in S /\ Rank(S, Ascending(S)[j]) = j - 1
    BY <1>5, AscendingLists
  <2>2. s[j] \in S /\ Rank(S, s[j]) = j - 1
    BY <1>1, <1>6
  <2>3. \A x, y \in S : Rank(S, x) = Rank(S, y) => x = y
    BY AscendingLists
  <2>. QED  BY ONLY <2>1, <2>2, <2>3
<1>8. Ascending(S) \in [1..n -> S]
  BY <1>5, AscendingLists
<1>. QED  BY <1>1, <1>5, <1>7, <1>8

\* A new largest member comes last.
LEMMA AscendingGrows ==
  ASSUME NEW S \in SUBSET Int, IsFiniteSet(S), NEW v \in Int, \A x \in S : x < v
  PROVE  /\ Ascending(S \cup {v}) = Append(Ascending(S), v)
         /\ Cardinality(S \cup {v}) = Cardinality(S) + 1
<1>. DEFINE n == Cardinality(S)
            A == Ascending(S)
            s == Append(A, v)
            T == S \cup {v}
<1>1. n \in Nat /\ Lists(A, n, S)
  BY AscendingLists DEF Lists
<1>. HIDE DEF n, A
<1>2. A \in [1..n -> S] /\ A \in Seq(Int) /\ Len(A) = n
  <2>1. A \in [1..n -> S]
    BY <1>1 DEF Lists
  <2>2. A \in [1..n -> Int]
    BY <2>1
  <2>. QED  BY <1>1, <2>1, <2>2
<1>3. /\ s \in Seq(Int) /\ Len(s) = n + 1 /\ s[n + 1] = v
      /\ \A i \in 1..n : s[i] = A[i]
  BY <1>1, <1>2
<1>4. DOMAIN s = 1..(n + 1)
  BY <1>3
<1>. HIDE DEF s
<1>5. s \in [1..(n + 1) -> T]
  <2>1. s = [i \in 1..(n + 1) |-> s[i]]
    BY <1>3, <1>4
  <2>2. \A i \in 1..(n + 1) : s[i] \in T
    BY <1>1, <1>2, <1>3
  <2>. QED  BY <2>1, <2>2
<1>6. ASSUME NEW i \in 1..(n + 1), NEW j \in 1..(n + 1), i < j
      PROVE  s[i] < s[j]
  <2>1. i \in 1..n /\ s[i] = A[i] /\ A[i] \in S
    BY <1>1, <1>2, <1>3, <1>6
  <2>2. CASE j = n + 1
    BY <2>1, <2>2, <1>3
  <2>3. CASE j # n + 1
    <3>1. j \in 1..n /\ s[j] = A[j]
      BY <1>1, <1>3, <2>3
    <3>. QED  BY <2>1, <3>1, <1>1, <1>6 DEF Lists
  <2>. QED  BY <2>2, <2>3
<1>7. ASSUME NEW x \in T
      PROVE  \E j \in 1..(n + 1) : s[j] = x
  <2>1. CASE x = v
    BY <2>1, <1>1, <1>3
  <2>2. CASE x \in S
    <3>1. PICK j \in 1..n : A[j] = x
      BY <2>2, <1>1 DEF Lists
    <3>. QED  BY <3>1, <1>1, <1>3
  <2>. QED  BY <2>1, <2>2
<1>8. Lists(s, n + 1, T)
  BY <1>5, <1>6, <1>7 DEF Lists
<1>9. T \in SUBSET Int /\ IsFiniteSet(T) /\ n + 1 \in Nat
  BY <1>1, FS_AddElement
<1>10. Ascending(T) = s /\ Cardinality(T) = n + 1
  <2>. HIDE DEF T
  <2>. QED  BY <1>8, <1>9, AscendingIs
<1>. QED  BY <1>10 DEF s, n, A

\* A binary search finds an entry of an ordered list at its place.
LEMMA SearchFinds ==
  ASSUME NEW n \in Nat, NEW s \in [1..n -> Int],
         \A i, j \in 1..n : i < j => s[i] < s[j], NEW v \in 1..n
  PROVE  SearchSorted(s, s[v]) = v - 1
<1>1. ASSUME NEW j \in 1..n
      PROVE  s[j] < s[v] <=> j < v
  <2>1. s[j] \in Int /\ s[v] \in Int
    OBVIOUS
  <2>2. (j < v => s[j] < s[v]) /\ (v < j => s[v] < s[j])
    OBVIOUS
  <2>3. j < v \/ v < j \/ v = j
    OBVIOUS
  <2>. QED  BY <2>1, <2>2, <2>3
<1>2. {j \in DOMAIN s : s[j] < s[v]} = 1..(v - 1)
  BY <1>1
<1>3. Cardinality(1..(v - 1)) = v - 1
  BY FS_Interval, 1 \in Int, v - 1 \in Int
<1>. QED  BY <1>2, <1>3 DEF SearchSorted

-----------------------------------------------------------------------------
(* The rebuilt tree.                                                       *)

\* Induction over the nodes 0..t.
LEMMA NodeInduction ==
  ASSUME NEW t \in Nat, NEW G,
         \A v \in 0..t : (\A u \in 0..(v - 1) : u \in G) => v \in G
  PROVE  0..t \subseteq G
<1>. DEFINE B == (0..t) \ G
<1>. SUFFICES ASSUME B # {} PROVE FALSE
  OBVIOUS
<1>1. B \in SUBSET Nat
  OBVIOUS
<1>2. PICK m \in B : \A k \in B : m <= k
  <2>. HIDE DEF B
  <2>. QED  BY <1>1, LeastNatural
<1>3. \A u \in 0..(m - 1) : u \in G
  BY <1>1, <1>2
<1>. QED  BY <1>2, <1>3

\* Every node below the root is numbered after its parent.
IsTree(parent) ==
  /\ total_tokens \in Nat \ {0}
  /\ parent \in [1..total_tokens -> 0..total_tokens]
  /\ \A v \in 1..total_tokens : parent[v] < v

\* m is filled row by row, up to row k.
MaskUpTo(m, parent, k) ==
  m = [v \in 0..k |->
         IF v = 0 THEN {0}
         ELSE {0, v} \cup (IF parent[v] < v THEN m[parent[v]] ELSE {0, parent[v]})]

\* The rows of the mask: a node's ancestors and itself.
IsMask(m, parent) ==
  m = [v \in 0..total_tokens |-> IF v = 0 THEN {0} ELSE {0, v} \cup m[parent[v]]]

\* TreeMask fills the mask.
LEMMA MaskIsFilled ==
  ASSUME NEW parent, IsTree(parent)
  PROVE  IsMask(TreeMask(parent), parent)
<1>. DEFINE t == total_tokens
            N == {k \in Nat : k <= t => \E m : MaskUpTo(m, parent, k)}
<1>1. /\ t \in Nat \ {0} /\ parent \in [1..t -> 0..t]
      /\ \A v \in 1..t : parent[v] < v /\ parent[v] \in 0..(v - 1)
  BY DEF IsTree
<1>. HIDE DEF t
<1>2. 0 \in N
  <2>. DEFINE m == [v \in 0..0 |-> {0}]
  <2>1. \A v \in 0..0 : v = 0
    OBVIOUS
  <2>2. MaskUpTo(m, parent, 0)
    BY <2>1 DEF MaskUpTo
  <2>. QED  BY <2>2
<1>3. ASSUME NEW k \in Nat, k \in N
      PROVE  k + 1 \in N
  <2>. SUFFICES ASSUME k + 1 <= t
                PROVE  \E m : MaskUpTo(m, parent, k + 1)
    OBVIOUS
  <2>1. PICK m : MaskUpTo(m, parent, k)
    BY <1>1, <1>3
  <2>. DEFINE g == [v \in 0..(k + 1) |->
                      IF v <= k THEN m[v] ELSE {0, v} \cup m[parent[v]]]
  <2>2. ASSUME NEW v \in 0..(k + 1), v # 0
        PROVE  /\ parent[v] \in 0..k /\ parent[v] < v /\ g[parent[v]] = m[parent[v]]
    BY <2>2, <1>1
  <2>3. ASSUME NEW v \in 0..(k + 1)
        PROVE  g[v] = IF v = 0 THEN {0}
                      ELSE {0, v} \cup (IF parent[v] < v THEN g[parent[v]]
                                        ELSE {0, parent[v]})
    <3>1. CASE v <= k
      <4>1. v \in 0..k /\ g[v] = m[v]
        BY <3>1
      <4>2. m[v] = IF v = 0 THEN {0}
                   ELSE {0, v} \cup (IF parent[v] < v THEN m[parent[v]]
                                     ELSE {0, parent[v]})
        BY <2>1, <4>1 DEF MaskUpTo
      <4>. HIDE DEF g
      <4>. QED  BY <2>2, <4>1, <4>2
    <3>2. CASE v = k + 1
      <4>1. g[v] = {0, v} \cup m[parent[v]] /\ v # 0
        BY <3>2
      <4>. HIDE DEF g
      <4>. QED  BY <2>2, <4>1
    <3>. QED  BY <3>1, <3>2
  <2>4. g = [v \in 0..(k + 1) |-> g[v]]
    OBVIOUS
  <2>. HIDE DEF g
  <2>5. MaskUpTo(g, parent, k + 1)
    BY <2>3, <2>4 DEF MaskUpTo
  <2>. QED  BY <2>5
<1>4. t \in N
  <2>1. Nat \subseteq N
    <3>. HIDE DEF N
    <3>. QED  BY <1>2, <1>3, Induction
  <2>. QED  BY <2>1, <1>1
<1>5. TreeMask(parent) = CHOOSE m : MaskUpTo(m, parent, t)
  BY DEF TreeMask, MaskUpTo, t
<1>6. MaskUpTo(TreeMask(parent), parent, t)
  <2>1. \E m : MaskUpTo(m, parent, t)
    BY <1>1, <1>4
  <2>. QED  BY <2>1, <1>5
<1>. DEFINE m == TreeMask(parent)
<1>. HIDE DEF m
<1>7. m = [v \in 0..t |->
         IF v = 0 THEN {0}
         ELSE {0, v} \cup (IF parent[v] < v THEN m[parent[v]] ELSE {0, parent[v]})]
  BY <1>6 DEF MaskUpTo, m
<1>8. m = [v \in 0..t |-> IF v = 0 THEN {0} ELSE {0, v} \cup m[parent[v]]]
  <2>1. ASSUME NEW v \in 0..t
        PROVE  (IF v = 0 THEN {0}
                ELSE {0, v} \cup (IF parent[v] < v THEN m[parent[v]]
                                  ELSE {0, parent[v]}))
               = (IF v = 0 THEN {0} ELSE {0, v} \cup m[parent[v]])
    <3>1. v # 0 => parent[v] < v
      BY <1>1
    <3>. QED  BY <3>1, Zenon
  <2>. QED  BY <1>7, <2>1
<1>. QED  BY <1>8 DEF IsMask, m, t

\* The tree a call has rebuilt.
TreeIsBuilt == IsTree(mask_index) /\ IsMask(tree_mask, mask_index)

\* The nodes from the root to v.
Path(v) == Ascending(tree_mask[v])

\* What a node's path looks like.
PathOK(v) ==
  /\ tree_mask[v] \in SUBSET (0..v) /\ 0 \in tree_mask[v] /\ v \in tree_mask[v]
  /\ Path(v) \in Seq(0..v) /\ Len(Path(v)) \in 1..(v + 1)
  /\ Cardinality(tree_mask[v]) = Len(Path(v))
  /\ Path(v)[1] = 0 /\ Path(v)[Len(Path(v))] = v
  /\ \A i \in 2..Len(Path(v)) :
       Path(v)[i] \in 1..v /\ mask_index[Path(v)[i]] = Path(v)[i - 1]
  /\ \A i \in 1..Len(Path(v)) : Path(Path(v)[i]) = SubSeq(Path(v), 1, i)

\* The root's path.
LEMMA RootPath ==
  ASSUME TreeIsBuilt
  PROVE  PathOK(0) /\ Path(0) = <<0>>
<1>1. tree_mask[0] = {0}
  BY DEF TreeIsBuilt, IsMask, IsTree
<1>. DEFINE s == [j \in 1..1 |-> 0]
<1>2. Lists(s, 1, {0})
  BY DEF Lists
<1>3. IsFiniteSet({0}) /\ {0} \in SUBSET Int
  BY FS_Singleton
<1>4. Ascending({0}) = s /\ Cardinality({0}) = 1
  <2>. HIDE DEF s
  <2>. QED  BY <1>2, <1>3, AscendingIs, 1 \in Nat
<1>5. s = <<0>>
  OBVIOUS
<1>6. Path(0) = <<0>>
  BY <1>1, <1>4, <1>5 DEF Path
<1>. DEFINE z == <<0>>
<1>7. z \in Seq(0..0) /\ Len(z) = 1 /\ z[1] = 0
  OBVIOUS
<1>. HIDE DEF z
<1>8. SubSeq(z, 1, Len(z)) = z
  BY <1>7
<1>9. Path(0) = z
  BY <1>6 DEF z
<1>10. Path(z[1]) = SubSeq(z, 1, 1)
  BY <1>7, <1>8, <1>9
<1>11. Cardinality(tree_mask[0]) = Len(z)
  BY <1>1, <1>4, <1>7
<1>12. \A i \in 1..Len(z) : i = 1
  BY <1>7
<1>13. 2..Len(z) = {}
  BY <1>7
<1>14. tree_mask[0] \in SUBSET (0..0) /\ 0 \in tree_mask[0]
  BY <1>1
<1>15. \A i \in 1..Len(z) : Path(z[i]) = SubSeq(z, 1, i)
  BY <1>10, <1>12
<1>16. \A i \in 2..Len(z) : z[i] \in 1..0 /\ mask_index[z[i]] = z[i - 1]
  BY <1>13
<1>17. Len(z) \in 1..(0 + 1) /\ z[Len(z)] = 0
  BY <1>7
<1>18. PathOK(0)
  BY ONLY <1>7, <1>9, <1>11, <1>14, <1>15, <1>16, <1>17 DEF PathOK
<1>. QED  BY <1>6, <1>18

\* A child's path is its parent's, and the child.
LEMMA ChildPath ==
  ASSUME TreeIsBuilt, NEW v \in 1..total_tokens, PathOK(mask_index[v])
  PROVE  /\ PathOK(v) /\ Path(v) = Append(Path(mask_index[v]), v)
         /\ tree_mask[v] = tree_mask[mask_index[v]] \cup {v}
<1>. DEFINE u == mask_index[v]
            S == tree_mask[u]
            p == Path(u)
            q == Append(p, v)
<1>1. u \in 0..(v - 1) /\ v \in Nat \ {0}
  BY DEF TreeIsBuilt, IsTree
<1>2. /\ S \in SUBSET (0..u) /\ 0 \in S /\ u \in S
      /\ p \in Seq(0..u) /\ Len(p) \in 1..(u + 1) /\ Cardinality(S) = Len(p)
      /\ p[1] = 0 /\ p[Len(p)] = u
      /\ \A i \in 2..Len(p) : p[i] \in 1..u /\ mask_index[p[i]] = p[i - 1]
      /\ \A i \in 1..Len(p) : Path(p[i]) = SubSeq(p, 1, i)
  BY DEF PathOK
<1>3. tree_mask[v] = {0, v} \cup S
  BY <1>1 DEF TreeIsBuilt, IsMask, IsTree
<1>4. p = Ascending(S)
  BY DEF Path
<1>. HIDE DEF u, S, p
<1>5. tree_mask[v] = S \cup {v}
  BY <1>2, <1>3
<1>6. Path(v) = q /\ Cardinality(tree_mask[v]) = Len(p) + 1
  <2>1. S \in SUBSET Int /\ (\A x \in S : x < v) /\ v \in Int
    BY <1>1, <1>2
  <2>2. IsFiniteSet(S)
    <3>1. IsFiniteSet(0..u)
      BY FS_Interval, <1>1, 0 \in Int, u \in Int
    <3>. QED  BY <3>1, <1>2, FS_Subset
  <2>. QED  BY <2>1, <2>2, <1>2, <1>4, <1>5, AscendingGrows DEF Path
<1>7. /\ q \in Seq(0..v) /\ Len(q) = Len(p) + 1 /\ q[Len(p) + 1] = v
      /\ \A i \in 1..Len(p) : q[i] = p[i] /\ SubSeq(q, 1, i) = SubSeq(p, 1, i)
      /\ SubSeq(q, 1, Len(p) + 1) = q
  <2>1. p \in Seq(0..v)
    BY <1>1, <1>2
  <2>. QED  BY <2>1, <1>1
<1>8. ASSUME NEW i \in 2..Len(q)
      PROVE  q[i] \in 1..v /\ mask_index[q[i]] = q[i - 1]
  <2>1. CASE i = Len(p) + 1
    <3>1. q[i] = v /\ q[i - 1] = p[Len(p)]
      BY <2>1, <1>2, <1>7
    <3>. QED  BY <3>1, <1>1, <1>2 DEF u
  <2>2. CASE i # Len(p) + 1
    <3>1. i \in 2..Len(p) /\ i - 1 \in 1..Len(p)
      BY <2>2, <1>2, <1>7
    <3>2. q[i] = p[i] /\ q[i - 1] = p[i - 1]
      BY <3>1, <1>7
    <3>. QED  BY <3>1, <3>2, <1>1, <1>2
  <2>. QED  BY <2>1, <2>2
<1>9. ASSUME NEW i \in 1..Len(q)
      PROVE  Path(q[i]) = SubSeq(q, 1, i)
  <2>1. CASE i = Len(p) + 1
    BY <2>1, <1>6, <1>7
  <2>2. CASE i # Len(p) + 1
    <3>1. i \in 1..Len(p)
      BY <2>2, <1>2, <1>7
    <3>. QED  BY <3>1, <1>2, <1>7
  <2>. QED  BY <2>1, <2>2
<1>10. tree_mask[v] \in SUBSET (0..v) /\ 0 \in tree_mask[v] /\ v \in tree_mask[v]
  BY <1>1, <1>2, <1>5
<1>11. q[1] = 0 /\ q[Len(q)] = v /\ Len(q) \in 1..(v + 1)
  BY <1>1, <1>2, <1>7
<1>. HIDE DEF q
<1>12. PathOK(v)
  BY <1>6, <1>7, <1>8, <1>9, <1>10, <1>11 DEF PathOK
<1>. QED  BY <1>5, <1>6, <1>12 DEF q, p, u, S

\* Every node has its path.
LEMMA PathsAreOK ==
  ASSUME TreeIsBuilt
  PROVE  \A v \in 0..total_tokens : PathOK(v)
<1>. DEFINE G == {v \in 0..total_tokens : PathOK(v)}
<1>1. total_tokens \in Nat
  BY DEF TreeIsBuilt, IsTree
<1>2. ASSUME NEW v \in 0..total_tokens, \A u \in 0..(v - 1) : u \in G
      PROVE  v \in G
  <2>1. CASE v = 0
    BY <2>1, RootPath
  <2>2. CASE v # 0
    <3>1. v \in 1..total_tokens /\ mask_index[v] \in 0..(v - 1)
      BY <2>2 DEF TreeIsBuilt, IsTree
    <3>2. PathOK(mask_index[v])
      BY <3>1, <1>2
    <3>. QED  BY <3>1, <3>2, ChildPath
  <2>. QED  BY <2>1, <2>2
<1>3. 0..total_tokens \subseteq G
  <2>. HIDE DEF G
  <2>. QED  BY <1>1, <1>2, NodeInduction
<1>. QED  BY <1>3

-----------------------------------------------------------------------------
(* The rows.                                                               *)

\* A sequence whose entries are all in T is a sequence over T.
LEMMA SeqTyped ==
  ASSUME NEW S, NEW T, NEW s \in Seq(S), \A i \in 1..Len(s) : s[i] \in T
  PROVE  s \in Seq(T)
OBVIOUS

\* A path as a row of width w.
Padded(p, w) == [j \in 1..w |-> IF j <= Len(p) THEN p[j] ELSE Pad]

\* A node's path, position by position.
LEMMA PathFacts ==
  ASSUME TreeIsBuilt, NEW v \in 0..total_tokens
  PROVE  /\ total_tokens \in Nat \ {0}
         /\ Path(v) \in Seq(0..v) /\ Len(Path(v)) \in 1..(v + 1)
         /\ Path(v) \in Seq(0..total_tokens)
         /\ PositionId(v) = Len(Path(v)) - 1
         /\ Path(v)[1] = 0 /\ Path(v)[Len(Path(v))] = v
         /\ \A i \in 2..Len(Path(v)) :
              /\ Path(v)[i] \in 1..v
              /\ mask_index[Path(v)[i]] = Path(v)[i - 1]
         /\ \A x : x \in tree_mask[v] <=> \E i \in 1..Len(Path(v)) : Path(v)[i] = x
         /\ tree_mask[v] \in SUBSET (0..v) /\ IsFiniteSet(tree_mask[v])
<1>1. PathOK(v) /\ v \in Nat /\ total_tokens \in Nat \ {0}
  BY PathsAreOK DEF TreeIsBuilt, IsTree
<1>2. /\ tree_mask[v] \in SUBSET (0..v) 
      /\ Path(v) \in Seq(0..v) /\ Len(Path(v)) \in 1..(v + 1)
      /\ Cardinality(tree_mask[v]) = Len(Path(v))
      /\ Path(v)[1] = 0 /\ Path(v)[Len(Path(v))] = v
      /\ \A i \in 2..Len(Path(v)) :
           Path(v)[i] \in 1..v /\ mask_index[Path(v)[i]] = Path(v)[i - 1]
  BY <1>1 DEF PathOK
<1>3. IsFiniteSet(tree_mask[v])
  <2>1. IsFiniteSet(0..v)
    BY <1>1, FS_Interval, 0 \in Int, v \in Int
  <2>. QED  BY <2>1, <1>2, FS_Subset
<1>4. \A x : x \in tree_mask[v] <=> \E i \in 1..Len(Path(v)) : Path(v)[i] = x
  <2>1. tree_mask[v] \in SUBSET Int
    BY <1>1, <1>2
  <2>2. /\ Path(v) \in [1..Len(Path(v)) -> tree_mask[v]]
        /\ \A x \in tree_mask[v] : \E j \in 1..Len(Path(v)) : Path(v)[j] = x
    <3>. DEFINE S == tree_mask[v]
    <3>1. /\ Ascending(S) \in [1..Cardinality(S) -> S]
          /\ \A x \in S : \E j \in 1..Cardinality(S) : Ascending(S)[j] = x
      <4>. HIDE DEF S
      <4>1. S \in SUBSET Int /\ IsFiniteSet(S)
        BY <2>1, <1>3 DEF S
      <4>. QED  BY <4>1, AscendingLists
    <3>2. Path(v) = Ascending(S) /\ Cardinality(S) = Len(Path(v))
      BY <1>2 DEF Path
    <3>. HIDE DEF S
    <3>3. Path(v) \in [1..Len(Path(v)) -> S]
      BY <3>1, <3>2
    <3>4. \A x \in S : \E j \in 1..Len(Path(v)) : Path(v)[j] = x
      BY <3>1, <3>2
    <3>. QED  BY <3>3, <3>4 DEF S
  <2>. QED  BY <2>2
<1>5. Path(v) \in Seq(0..total_tokens)
  <2>1. 0..v \subseteq 0..total_tokens
    BY <1>1
  <2>2. \A i \in 1..Len(Path(v)) : Path(v)[i] \in 0..total_tokens
    BY <2>1, <1>2
  <2>. DEFINE p == Path(v)
              S == 0..v
              T == 0..total_tokens
  <2>3. p \in Seq(S) /\ \A i \in 1..Len(p) : p[i] \in T
    BY <1>2, <2>2
  <2>4. p \in Seq(T)
    <3>. HIDE DEF p, S, T
    <3>. QED  BY <2>3, SeqTyped
  <2>. QED  BY <2>4
<1>6. PositionId(v) = Len(Path(v)) - 1
  BY <1>2 DEF PositionId
<1>. QED  BY <1>1, <1>2, <1>3, <1>4, <1>5, <1>6

\* The walk from a leaf, as PathTo takes it.
IsWalk(at, leaf) ==
  at = [j \in 0..PositionId(leaf) |->
          IF j = PositionId(leaf) THEN leaf
          ELSE mask_index[IF at[j + 1] = 0 THEN total_tokens ELSE at[j + 1]]]

\* The walk fills a row with the leaf's path.
LEMMA WalkIsPath ==
  ASSUME TreeIsBuilt, NEW v \in 0..total_tokens, NEW w \in Nat
  PROVE  PathTo(v, w) = Padded(Path(v), w)
<1>. DEFINE p == Path(v)
            d == PositionId(v)
            f == [j \in 0..d |-> p[j + 1]]
            at == CHOOSE a : IsWalk(a, v)
<1>1. /\ d \in Nat /\ Len(p) = d + 1 /\ p \in Seq(0..total_tokens) /\ p[d + 1] = v
      /\ \A i \in 2..(d + 1) : p[i] \in 1..v /\ mask_index[p[i]] = p[i - 1]
  <2>1. /\ total_tokens \in Nat /\ p \in Seq(0..total_tokens) /\ Len(p) \in 1..(v + 1)
        /\ d = Len(p) - 1 /\ p[Len(p)] = v
        /\ \A i \in 2..Len(p) : p[i] \in 1..v /\ mask_index[p[i]] = p[i - 1]
    BY PathFacts
  <2>. HIDE DEF p, d
  <2>2. Len(p) \in Nat \ {0} /\ d + 1 = Len(p) /\ d \in Nat
    BY <2>1
  <2>. QED  BY <2>1, <2>2
<1>. HIDE DEF p, d
<1>2. IsWalk(f, v)
  <2>1. ASSUME NEW j \in 0..d
        PROVE  f[j] = IF j = d THEN v
                      ELSE mask_index[IF f[j + 1] = 0 THEN total_tokens ELSE f[j + 1]]
    <3>1. CASE j = d
      BY <3>1, <1>1
    <3>2. CASE j # d
      <4>1. j + 1 \in 0..d /\ f[j + 1] = p[j + 2] /\ j + 2 \in 2..(d + 1)
        BY <3>2, <1>1
      <4>2. p[j + 2] \in 1..v /\ mask_index[p[j + 2]] = p[(j + 2) - 1]
        BY <4>1, <1>1
      <4>3. f[j + 1] # 0 /\ f[j] = p[j + 1] /\ (j + 2) - 1 = j + 1
        BY <4>1, <4>2
      <4>. HIDE DEF f
      <4>. QED  BY <3>2, <4>1, <4>2, <4>3
    <3>. QED  BY <3>1, <3>2
  <2>2. f = [j \in 0..d |-> f[j]]
    OBVIOUS
  <2>. HIDE DEF f
  <2>. QED  BY <2>1, <2>2 DEF IsWalk, d
<1>3. IsWalk(at, v)
  BY <1>2
<1>. HIDE DEF f, at
<1>4. ASSUME NEW j \in 0..d
      PROVE  at[j] = IF j = d THEN v
                     ELSE mask_index[IF at[j + 1] = 0 THEN total_tokens ELSE at[j + 1]]
  BY <1>3 DEF IsWalk, d
<1>5. ASSUME NEW j \in 0..d
      PROVE  at[j] = p[j + 1]
  <2>. DEFINE N == {e \in Nat : e <= d => at[d - e] = p[(d - e) + 1]}
  <2>1. 0 \in N
    BY <1>1, <1>4
  <2>2. ASSUME NEW e \in Nat, e \in N
        PROVE  e + 1 \in N
    <3>. SUFFICES ASSUME e + 1 <= d
                  PROVE  at[d - (e + 1)] = p[(d - (e + 1)) + 1]
      OBVIOUS
    <3>. DEFINE i == d - (e + 1)
    <3>1. i \in 0..d /\ i # d /\ i + 1 = d - e /\ i + 2 \in 2..(d + 1)
      BY <1>1
    <3>2. at[i + 1] = p[i + 2]
      <4>1. at[d - e] = p[(d - e) + 1]
        BY <2>2, <1>1
      <4>2. (d - e) + 1 = i + 2
        BY <1>1
      <4>. HIDE DEF i
      <4>. QED  BY <3>1, <4>1, <4>2
    <3>3. p[i + 2] \in 1..v /\ mask_index[p[i + 2]] = p[(i + 2) - 1] /\ (i + 2) - 1 = i + 1
      BY <3>1, <1>1
    <3>4. at[i + 1] # 0
      BY <3>2, <3>3
    <3>5. at[i] = mask_index[at[i + 1]]
      <4>. HIDE DEF i
      <4>. QED  BY <3>1, <3>4, <1>4
    <3>. HIDE DEF i
    <3>6. at[i] = p[i + 1]
      BY <3>2, <3>3, <3>5
    <3>. QED  BY <3>6 DEF i
  <2>3. d - j \in N
    <3>1. Nat \subseteq N
      <4>. HIDE DEF N
      <4>. QED  BY <2>1, <2>2, Induction
    <3>2. d - j \in Nat
      BY <1>1
    <3>. QED  BY <3>1, <3>2
  <2>4. d - (d - j) = j /\ d - j <= d
    BY <1>1
  <2>5. at[d - (d - j)] = p[(d - (d - j)) + 1]
    BY <2>3, <2>4
  <2>. QED  BY <2>4, <2>5
<1>6. PathTo(v, w) = [j \in 1..w |-> IF j - 1 <= d THEN at[j - 1] ELSE Pad]
  BY DEF PathTo, IsWalk, at, d
<1>7. ASSUME NEW j \in 1..w
      PROVE  (IF j - 1 <= d THEN at[j - 1] ELSE Pad) = IF j <= Len(p) THEN p[j] ELSE Pad
  <2>1. j - 1 <= d <=> j <= Len(p)
    BY <1>1
  <2>2. ASSUME j - 1 <= d
        PROVE  at[j - 1] = p[j]
    <3>1. j - 1 \in 0..d /\ (j - 1) + 1 = j
      BY <2>2, <1>1
    <3>. QED  BY <3>1, <1>5
  <2>. QED  BY <2>1, <2>2
<1>. QED  BY <1>6, <1>7 DEF Padded, p

\* The leaves are draft nodes that lie on no other node's path, and every draft
\* node lies on the path of one.
LEMMA LeafFacts ==
  ASSUME TreeIsBuilt
  PROVE  /\ Leaves \in SUBSET (1..total_tokens) /\ IsFiniteSet(Leaves)
         /\ total_tokens \in Leaves
         /\ \A v \in 1..total_tokens :
              /\ v \in Leaves <=> \A u \in (1..total_tokens) \ {v} : v \notin tree_mask[u]
              /\ \E l \in Leaves : v \in tree_mask[l]
<1>. DEFINE t == total_tokens
<1>1. /\ t \in Nat \ {0} /\ mask_index \in [1..t -> 0..t]
      /\ \A v \in 1..t : mask_index[v] < v
  BY DEF TreeIsBuilt, IsTree
<1>2. Leaves = {v \in 0..t : \A u \in 1..t : mask_index[u] # v}
  BY DEF Leaves
<1>3. \A v \in 1..t : tree_mask[v] = tree_mask[mask_index[v]] \cup {v}
  <2>. SUFFICES ASSUME NEW v \in 1..t
                PROVE  tree_mask[v] = tree_mask[mask_index[v]] \cup {v}
    OBVIOUS
  <2>1. mask_index[v] \in 0..total_tokens
    BY <1>1
  <2>2. PathOK(mask_index[v])
    BY <2>1, PathsAreOK
  <2>. QED  BY <2>2, ChildPath
<1>4. \A v \in 0..t : v \in tree_mask[v]
  BY PathsAreOK DEF PathOK
<1>5. \A v \in 0..t : /\ Len(Path(v)) \in Nat
                      /\ Path(v) \in Seq(0..t) /\ Path(v)[1] = 0 /\ Path(v)[Len(Path(v))] = v
                      /\ \A i \in 2..Len(Path(v)) :
                           Path(v)[i] \in 1..v /\ mask_index[Path(v)[i]] = Path(v)[i - 1]
                      /\ \A x : x \in tree_mask[v] <=> \E i \in 1..Len(Path(v)) : Path(v)[i] = x
  <2>. SUFFICES ASSUME NEW v \in 0..total_tokens
                PROVE  /\ Len(Path(v)) \in Nat
                       /\ Path(v) \in Seq(0..t) /\ Path(v)[1] = 0
                       /\ Path(v)[Len(Path(v))] = v
                       /\ \A i \in 2..Len(Path(v)) :
                            /\ Path(v)[i] \in 1..v
                            /\ mask_index[Path(v)[i]] = Path(v)[i - 1]
                       /\ \A x : x \in tree_mask[v]
                                  <=> \E i \in 1..Len(Path(v)) : Path(v)[i] = x
    OBVIOUS
  <2>1. /\ Path(v) \in Seq(0..v) /\ Len(Path(v)) \in 1..(v + 1)
        /\ Path(v) \in Seq(0..total_tokens)
        /\ Path(v)[1] = 0 /\ Path(v)[Len(Path(v))] = v
        /\ \A i \in 2..Len(Path(v)) :
             /\ Path(v)[i] \in 1..v
             /\ mask_index[Path(v)[i]] = Path(v)[i - 1]
        /\ \A x : x \in tree_mask[v] <=> \E i \in 1..Len(Path(v)) : Path(v)[i] = x
    BY PathFacts
  <2>. QED  BY <2>1
<1>. HIDE DEF t
<1>6. Leaves \in SUBSET (1..t) /\ t \in Leaves
  <2>1. 1 \in 1..t /\ mask_index[1] = 0
    BY <1>1
  <2>2. 0 \notin Leaves
    BY <2>1, <1>2
  <2>3. t \in Leaves
    <3>1. \A u \in 1..t : mask_index[u] < u /\ mask_index[u] \in 0..t
      BY <1>1
    <3>2. \A u \in 1..t : mask_index[u] # t
      BY <3>1, <1>1
    <3>. QED  BY <1>1, <1>2, <3>2
  <2>. QED  BY <2>2, <2>3, <1>1, <1>2
<1>7. IsFiniteSet(Leaves)
  <2>1. IsFiniteSet(1..t)
    BY <1>1, FS_Interval, 1 \in Int, t \in Int
  <2>. QED  BY <2>1, <1>6, FS_Subset
<1>8. ASSUME NEW v \in 1..t
      PROVE  v \in Leaves <=> \A u \in (1..t) \ {v} : v \notin tree_mask[u]
  <2>1. ASSUME v \in Leaves, NEW u \in (1..t) \ {v}, v \in tree_mask[u]
        PROVE  FALSE
    <3>1. u \in 0..t /\ u \in Nat
      BY <1>1
    <3>2. PICK i \in 1..Len(Path(u)) : Path(u)[i] = v
      BY <2>1, <3>1, <1>5
    <3>3. i # Len(Path(u)) /\ Len(Path(u)) \in Nat
      BY <3>1, <3>2, <1>5
    <3>4. i + 1 \in 2..Len(Path(u)) /\ (i + 1) - 1 = i
      BY <3>3
    <3>5. Path(u)[i + 1] \in 1..u /\ mask_index[Path(u)[i + 1]] = Path(u)[(i + 1) - 1]
      BY <3>1, <3>4, <1>5
    <3>6. Path(u)[i + 1] \in 1..t
      BY <3>5, <3>1, <1>1
    <3>7. mask_index[Path(u)[i + 1]] = v
      BY <3>2, <3>4, <3>5
    <3>. QED  BY <3>6, <3>7, <2>1, <1>2
  <2>2. ASSUME v \notin Leaves
        PROVE  \E u \in (1..t) \ {v} : v \in tree_mask[u]
    <3>1. PICK u \in 1..t : mask_index[u] = v
      BY <2>2, <1>1, <1>2
    <3>2. u # v /\ v \in tree_mask[v]
      BY <3>1, <1>1, <1>4
    <3>3. v \in tree_mask[u]
      BY <3>1, <3>2, <1>3
    <3>. QED  BY <3>2, <3>3
  <2>. QED  BY <2>1, <2>2
<1>9. ASSUME NEW v \in 1..t
      PROVE  \E l \in Leaves : v \in tree_mask[l]
  <2>. DEFINE B == {e \in 0..t : v \in tree_mask[t - e]}
  <2>1. t - v \in B
    <3>1. t - v \in 0..t /\ t - (t - v) = v
      BY <1>1
    <3>. QED  BY <3>1, <1>4
  <2>2. PICK e \in B : \A k \in B : e <= k
    <3>1. B \in SUBSET Nat /\ B # {}
      BY <2>1
    <3>. HIDE DEF B
    <3>. QED  BY <3>1, LeastNatural
  <2>. DEFINE l == t - e
  <2>3. l \in 0..t /\ v \in tree_mask[l]
    BY <2>2, <1>1
  <2>4. ASSUME NEW u \in 1..t, mask_index[u] = l
        PROVE  FALSE
    <3>1. v \in tree_mask[u] /\ l < u
      BY <2>3, <2>4, <1>1, <1>3
    <3>2. t - u \in 0..t /\ t - (t - u) = u
      BY <1>1
    <3>3. t - u \in B
      BY <3>1, <3>2
    <3>4. e <= t - u
      BY <2>2, <3>3
    <3>. QED  BY <3>1, <3>4, <1>1
  <2>5. l \in Leaves
    BY <2>3, <2>4, <1>2
  <2>. QED  BY <2>3, <2>5
<1>. QED  BY <1>6, <1>7, <1>8, <1>9 DEF t

\* The width of the table of rows, as Retrieve takes it.
Width ==
  CHOOSE w \in 1..(total_tokens + 1) :
    /\ \A v \in 0..total_tokens : PositionId(v) < w
    /\ \E v \in 0..total_tokens : PositionId(v) + 1 = w

\* No path is longer than the table is wide, and some leaf's path is as long.
LEMMA WidthFacts ==
  ASSUME TreeIsBuilt
  PROVE  /\ Width \in 1..(total_tokens + 1)
         /\ \A v \in 0..total_tokens : Len(Path(v)) <= Width
         /\ \E v \in Leaves : Len(Path(v)) = Width
<1>. DEFINE t == total_tokens
            F(w) == /\ \A v \in 0..t : PositionId(v) < w
                    /\ \E v \in 0..t : PositionId(v) + 1 = w
            W == Width
            B == {w \in Nat : \A v \in 0..t : PositionId(v) < w}
<1>1. t \in Nat \ {0}
  BY DEF TreeIsBuilt, IsTree
<1>2. ASSUME NEW v \in 0..t
      PROVE  PositionId(v) = Len(Path(v)) - 1 /\ PositionId(v) \in 0..v
  <2>1. PositionId(v) = Len(Path(v)) - 1 /\ Len(Path(v)) \in 1..(v + 1)
    BY PathFacts
  <2>. QED  BY <2>1
<1>3. \E w \in 1..(t + 1) : F(w)
  <2>1. t + 1 \in B
    BY <1>1, <1>2
  <2>2. PICK w \in B : \A k \in B : w <= k
    <3>1. B \in SUBSET Nat /\ B # {}
      BY <2>1
    <3>. HIDE DEF B
    <3>. QED  BY <3>1, LeastNatural
  <2>3. 0 \in 0..t /\ PositionId(0) < w /\ PositionId(0) \in 0..0
    BY <2>2, <1>1, <1>2
  <2>4. w \in 1..(t + 1)
    BY <2>1, <2>2, <2>3, <1>1
  <2>5. ~(w - 1 \in B)
    BY <2>2, <2>4
  <2>6. PICK v \in 0..t : ~(PositionId(v) < w - 1)
    BY <2>4, <2>5
  <2>7. PositionId(v) < w /\ PositionId(v) \in Int
    BY <2>2, <1>2
  <2>8. PositionId(v) + 1 = w
    BY <2>6, <2>7, <2>4
  <2>. QED  BY <2>2, <2>4, <2>8
<1>4. W \in 1..(t + 1) /\ F(W)
  <2>1. W = CHOOSE w \in 1..(t + 1) : F(w)
    BY DEF Width
  <2>. HIDE DEF F, W
  <2>. QED  BY <1>3, <2>1
<1>. HIDE DEF W
<1>5. \A v \in 0..t : Len(Path(v)) <= W
  BY <1>1, <1>2, <1>4
<1>6. PICK v \in 0..t : Len(Path(v)) = W
  BY <1>1, <1>2, <1>4
<1>7. ASSUME NEW u \in 1..t, mask_index[u] = v
      PROVE  FALSE
  <2>1. PathOK(mask_index[u])
    BY <1>7, PathsAreOK
  <2>2. Path(u) = Append(Path(v), u)
    BY <1>7, <2>1, ChildPath
  <2>3. Path(v) \in Seq(0..t) /\ Len(Path(v)) \in Nat
    <3>1. Path(v) \in Seq(0..t)
      BY PathFacts
    <3>. QED  BY <3>1
  <2>4. Len(Path(u)) = Len(Path(v)) + 1
    BY <2>2, <2>3
  <2>. QED  BY <2>3, <2>4, <1>5, <1>6, <1>1
<1>8. v \in Leaves
  BY <1>7 DEF Leaves
<1>. QED  BY <1>4, <1>5, <1>6, <1>8 DEF W

\* The rows are the leaves' padded paths, in some order.
RowsAre(rs) ==
  \E f \in Bijection(1..Cardinality(Leaves), Leaves) :
    rs = [r \in 1..Cardinality(Leaves) |-> Padded(Path(f[r]), Width)]

\* Retrieve writes the leaves' paths.
LEMMA RetrieveRows ==
  ASSUME TreeIsBuilt
  PROVE  RowsAre([r \in 1..Len(Ascending(Leaves)) |-> PathTo(Ascending(Leaves)[r], Width)])
<1>. DEFINE n == Cardinality(Leaves)
            f == Ascending(Leaves)
<1>1. Leaves \in SUBSET (1..total_tokens) /\ IsFiniteSet(Leaves) /\ total_tokens \in Nat
  BY LeafFacts DEF TreeIsBuilt, IsTree
<1>2. /\ n \in Nat /\ f \in [1..n -> Leaves]
      /\ \A i, j \in 1..n : i < j => f[i] < f[j]
      /\ \A x \in Leaves : \E j \in 1..n : f[j] = x
  <2>1. Leaves \in SUBSET Int
    BY <1>1
  <2>. QED  BY <1>1, <2>1, AscendingLists
<1>. HIDE DEF n, f
<1>0. \A x \in Leaves : x \in 0..total_tokens /\ x \in Int
  BY <1>1
<1>3. f \in Bijection(1..n, Leaves)
  <2>1. ASSUME NEW i \in 1..n, NEW j \in 1..n, f[i] = f[j], i # j
        PROVE  FALSE
    <3>1. i < j \/ j < i
      BY <2>1
    <3>2. f[i] \in Int /\ f[j] \in Int
      <4>1. f[i] \in Leaves /\ f[j] \in Leaves
        BY <1>2
      <4>. QED  BY <4>1, <1>0
    <3>3. (i < j => f[i] < f[j]) /\ (j < i => f[j] < f[i])
      BY <1>2
    <3>. QED  BY <2>1, <3>1, <3>2, <3>3
  <2>. QED  BY <1>2, <2>1 DEF Bijection, Injection, Surjection, IsInjective
<1>4. Len(f) = n
  BY <1>2
<1>5. ASSUME NEW r \in 1..n
      PROVE  PathTo(f[r], Width) = Padded(Path(f[r]), Width)
  <2>1. f[r] \in 0..total_tokens /\ Width \in Nat
    <3>1. f[r] \in Leaves
      BY <1>2
    <3>2. Width \in Nat
      BY WidthFacts, <1>1
    <3>. QED  BY <3>1, <3>2, <1>0
  <2>. QED  BY <2>1, WalkIsPath
<1>6. RowsAre([r \in 1..n |-> PathTo(f[r], Width)])
  BY <1>3, <1>5 DEF RowsAre, n
<1>. QED  BY <1>4, <1>6 DEF f

\* A row of the table.
IsRow(row, w) == row \in [1..w -> (0..total_tokens) \cup {Pad}]

\* The rows of the table, and which leaf each belongs to.
LEMMA RowFacts ==
  ASSUME TreeIsBuilt, NEW rs, RowsAre(rs)
  PROVE  \E f \in Bijection(1..Cardinality(Leaves), Leaves) :
           /\ Cardinality(Leaves) \in Nat \ {0}
           /\ rs \in Seq(Seq((0..total_tokens) \cup {Pad}))
           /\ DOMAIN rs = 1..Cardinality(Leaves) /\ Len(rs) = Cardinality(Leaves)
           /\ \A r \in 1..Cardinality(Leaves) :
                /\ f[r] \in Leaves /\ f[r] \in 1..total_tokens
                /\ rs[r] = Padded(Path(f[r]), Width)
                /\ IsRow(rs[r], Width) /\ Len(rs[r]) = Width
                /\ Len(Path(f[r])) \in 1..Width
                /\ \A j \in 1..Width :
                     rs[r][j] = IF j <= Len(Path(f[r])) THEN Path(f[r])[j] ELSE Pad
<1>. DEFINE n == Cardinality(Leaves)
            t == total_tokens
            W == Width
<1>1. PICK f \in Bijection(1..n, Leaves) : rs = [r \in 1..n |-> Padded(Path(f[r]), W)]
  BY DEF RowsAre
<1>2. /\ Leaves \in SUBSET (1..t) /\ IsFiniteSet(Leaves) /\ t \in Nat /\ Leaves # {}
  BY LeafFacts DEF TreeIsBuilt, IsTree
<1>3. n \in Nat \ {0}
  BY <1>2, FS_CardinalityType, FS_EmptySet
<1>4. W \in Nat /\ \A v \in 0..t : Len(Path(v)) <= W
  BY WidthFacts
<1>. HIDE DEF W, n
<1>5. ASSUME NEW r \in 1..n
      PROVE  /\ f[r] \in Leaves /\ f[r] \in 1..t
             /\ rs[r] = Padded(Path(f[r]), W)
             /\ IsRow(rs[r], W) /\ Len(rs[r]) = W
             /\ rs[r] \in Seq((0..t) \cup {Pad})
             /\ Len(Path(f[r])) \in 1..W
             /\ \A j \in 1..W :
                  rs[r][j] = IF j <= Len(Path(f[r])) THEN Path(f[r])[j] ELSE Pad
  <2>. DEFINE p == Path(f[r])
  <2>1. f[r] \in Leaves /\ f[r] \in 1..t /\ f[r] \in 0..total_tokens
    <3>1. f \in [1..n -> Leaves]
      BY <1>1 DEF Bijection, Injection, n
    <3>2. f[r] \in Leaves
      BY <3>1
    <3>3. \A x \in Leaves : x \in 1..t /\ x \in 0..total_tokens
      BY <1>2
    <3>. QED  BY <3>2, <3>3
  <2>2. p \in Seq(0..t) /\ Len(p) \in 1..(f[r] + 1)
    BY <2>1, PathFacts
  <2>3. Len(p) \in 1..W
    BY <2>1, <2>2, <1>4
  <2>4. rs[r] = Padded(p, W)
    BY <1>1
  <2>. HIDE DEF p
  <2>5. rs[r] = [j \in 1..W |-> IF j <= Len(p) THEN p[j] ELSE Pad]
    BY <2>4 DEF Padded
  <2>6. \A j \in 1..W : (IF j <= Len(p) THEN p[j] ELSE Pad) \in (0..t) \cup {Pad}
    <3>1. \A j \in 1..W : j <= Len(p) => j \in 1..Len(p)
      BY <2>3, <1>4
    <3>2. \A i \in 1..Len(p) : p[i] \in 0..t
      <4>. DEFINE S == 0..t
      <4>1. p \in Seq(S)
        BY <2>2
      <4>2. \A i \in 1..Len(p) : p[i] \in S
        <5>. HIDE DEF S
        <5>. QED  BY <4>1
      <4>. QED  BY <4>2
    <3>. QED  BY <3>1, <3>2
  <2>7. rs[r] \in [1..W -> (0..t) \cup {Pad}]
    BY <2>5, <2>6
  <2>8. Len(rs[r]) = W /\ rs[r] \in Seq((0..t) \cup {Pad})
    BY <2>7, <1>4
  <2>. QED  BY <2>1, <2>3, <2>4, <2>5, <2>7, <2>8 DEF IsRow, p
<1>6. DOMAIN rs = 1..n /\ Len(rs) = n
  BY <1>1, <1>3
<1>7. rs \in Seq(Seq((0..t) \cup {Pad}))
  <2>1. rs \in [1..n -> Seq((0..t) \cup {Pad})]
    BY <1>1, <1>5
  <2>. QED  BY <2>1, <1>3
<1>. QED  BY <1>1, <1>3, <1>5, <1>6, <1>7 DEF W, n

\* What a call returns, field by field.
LEMMA ResultFields ==
  /\ Result.n = total_tokens /\ Result.token = DraftTokens /\ Result.cum = CapimScores
  /\ Result.path = [v \in 0..total_tokens |-> Path(v)]
  /\ Result.rows = retrieve_indices
BY DEF Result, Path

\* Leaves' rows differ.
LEMMA RowsDiffer ==
  ASSUME TreeIsBuilt, NEW rs, RowsAre(rs)
  PROVE  IsInjective(rs)
<1>. DEFINE n == Cardinality(Leaves)
<1>1. PICK f \in Bijection(1..n, Leaves) :
           /\ DOMAIN rs = 1..n
           /\ \A r \in 1..n :
                /\ f[r] \in Leaves /\ f[r] \in 1..total_tokens
                /\ Len(Path(f[r])) \in 1..Width
                /\ \A j \in 1..Width :
                     rs[r][j] = IF j <= Len(Path(f[r])) THEN Path(f[r])[j] ELSE Pad
  BY RowFacts
<1>2. Width \in Nat /\ total_tokens \in Nat
  BY WidthFacts DEF TreeIsBuilt, IsTree
<1>. HIDE DEF n
<1>3. ASSUME NEW r \in 1..n
      PROVE  Path(f[r])[Len(Path(f[r]))] = f[r] /\ f[r] # Pad
  <2>1. f[r] \in 0..total_tokens /\ f[r] \in 1..total_tokens
    BY <1>1, <1>2
  <2>2. Path(f[r])[Len(Path(f[r]))] = f[r]
    BY <2>1, PathFacts
  <2>. QED  BY <2>1, <2>2, <1>2 DEF Pad
<1>4. ASSUME NEW r \in 1..n, NEW s \in 1..n, rs[r] = rs[s]
      PROVE  ~(Len(Path(f[r])) < Len(Path(f[s])))
  <2>. SUFFICES ASSUME Len(Path(f[r])) < Len(Path(f[s]))
                PROVE  FALSE
    OBVIOUS
  <2>. DEFINE j == Len(Path(f[s]))
  <2>1. j \in 1..Width /\ Len(Path(f[r])) \in 1..Width
    BY <1>1
  <2>2. rs[s][j] = Path(f[s])[j]
    BY <1>1, <2>1
  <2>3. rs[s][j] # Pad
    BY <2>2, <1>3
  <2>4. ~(j <= Len(Path(f[r])))
    BY <2>1, <1>2
  <2>5. rs[r][j] = Pad
    BY <1>1, <2>1, <2>4
  <2>. QED  BY <1>4, <2>3, <2>5
<1>5. ASSUME NEW r \in 1..n, NEW s \in 1..n, rs[r] = rs[s]
      PROVE  r = s
  <2>1. Len(Path(f[r])) \in 1..Width /\ Len(Path(f[s])) \in 1..Width
    BY <1>1
  <2>2. ~(Len(Path(f[r])) < Len(Path(f[s]))) /\ ~(Len(Path(f[s])) < Len(Path(f[r])))
    BY <1>4, <1>5
  <2>3. Len(Path(f[r])) = Len(Path(f[s]))
    BY <2>1, <2>2, <1>2
  <2>. DEFINE j == Len(Path(f[r]))
  <2>4. rs[r][j] = Path(f[r])[j] /\ rs[s][j] = Path(f[s])[j]
    BY <1>1, <2>1, <2>3, <1>2
  <2>5. f[r] = f[s]
    BY <2>3, <2>4, <1>3, <1>5
  <2>6. \A a, b \in 1..n : f[a] = f[b] => a = b
    BY <1>1 DEF Bijection, Injection, IsInjective, n
  <2>. QED  BY <2>5, <2>6
<1>. QED  BY <1>1, <1>5 DEF IsInjective, n

\* The inner nodes are the root and who else has a child: the rest are leaves.
LEMMA LeafNum ==
  ASSUME TreeIsBuilt
  PROVE  Cardinality(Leaves) = leaf_num
<1>. DEFINE t == total_tokens
            S == 0..t
            inner == Range(mask_index)
<1>1. /\ t \in Nat \ {0} /\ mask_index \in [1..t -> 0..t]
      /\ mask_index[1] < 1
  BY DEF TreeIsBuilt, IsTree
<1>2. inner = {mask_index[u] : u \in 1..t}
  BY <1>1 DEF Range
<1>3. IsFiniteSet(S) /\ Cardinality(S) = t + 1
  BY <1>1, FS_Interval, 0 \in Int, t \in Int
<1>4. inner \subseteq S
  BY <1>1, <1>2
<1>5. Leaves = S \ inner
  BY <1>2 DEF Leaves
<1>6. S \cap inner = inner
  BY <1>4
<1>7. IsFiniteSet(inner)
  BY <1>3, <1>4, FS_Subset
<1>. HIDE DEF S, inner, t
<1>8. Cardinality(Leaves) = Cardinality(S) - Cardinality(inner)
  <2>1. Cardinality(S \ inner) = Cardinality(S) - Cardinality(S \cap inner)
    BY <1>3, FS_Difference
  <2>. QED  BY <2>1, <1>5, <1>6
<1>9. Cardinality(inner) \in Nat
  BY <1>7, FS_CardinalityType
<1>10. leaf_num = t - (Cardinality(inner) - 1)
  BY DEF leaf_num, t, inner
<1>. QED  BY <1>1, <1>3, <1>8, <1>9, <1>10

\* The rows a finished call returns.
LEMMA LeafRows ==
  ASSUME TreeIsBuilt, RowsAre(retrieve_indices)
  PROVE  OneRowPerLeaf
<1>. DEFINE n == Cardinality(Leaves)
            path == Result.path
            rs == Result.rows
            leaf == {v \in 1..total_tokens :
                       \A u \in (1..total_tokens) \ {v} : v \notin Range(path[u])}
            IsPathOf(row, v) ==
              /\ Len(path[v]) <= Len(row)
              /\ \A j \in 1..Len(row) :
                   row[j] = IF j <= Len(path[v]) THEN path[v][j] ELSE Pad
<1>1. total_tokens \in Nat /\ Width \in Nat
  BY WidthFacts DEF TreeIsBuilt, IsTree
<1>2. rs = retrieve_indices /\ \A v \in 0..total_tokens : path[v] = Path(v)
  BY ResultFields
<1>. HIDE DEF path, rs
<1>3. ASSUME NEW u \in 0..total_tokens
      PROVE  Range(path[u]) = tree_mask[u]
  <2>1. /\ Path(u) \in Seq(0..total_tokens)
        /\ \A x : x \in tree_mask[u] <=> \E i \in 1..Len(Path(u)) : Path(u)[i] = x
    BY PathFacts
  <2>2. DOMAIN Path(u) = 1..Len(Path(u))
    BY <2>1
  <2>3. Range(Path(u)) = {Path(u)[i] : i \in 1..Len(Path(u))}
    BY <2>2 DEF Range
  <2>4. path[u] = Path(u)
    BY <1>2
  <2>5. \A x : x \in Range(Path(u)) <=> x \in tree_mask[u]
    BY <2>1, <2>3
  <2>. QED  BY <2>4, <2>5
<1>4. leaf = Leaves
  <2>1. \A v \in 1..total_tokens :
          v \in Leaves <=> \A u \in (1..total_tokens) \ {v} : v \notin tree_mask[u]
    BY LeafFacts
  <2>2. Leaves \subseteq 1..total_tokens
    BY LeafFacts
  <2>3. \A u \in 1..total_tokens : Range(path[u]) = tree_mask[u]
    BY <1>3, <1>1
  <2>4. ASSUME NEW v \in 1..total_tokens
        PROVE  v \in leaf <=> v \in Leaves
    <3>1. v \in leaf <=> \A u \in (1..total_tokens) \ {v} : v \notin Range(path[u])
      OBVIOUS
    <3>. HIDE DEF leaf
    <3>. QED  BY <3>1, <2>1, <2>3
  <2>5. leaf \subseteq 1..total_tokens
    OBVIOUS
  <2>. HIDE DEF leaf
  <2>. QED  BY <2>2, <2>4, <2>5
<1>. HIDE DEF leaf
<1>5. PICK f \in Bijection(1..n, Leaves) :
           /\ DOMAIN rs = 1..n /\ Len(rs) = n
           /\ \A r \in 1..n :
                /\ f[r] \in Leaves /\ f[r] \in 1..total_tokens
                /\ Len(rs[r]) = Width /\ IsRow(rs[r], Width)
                /\ Len(Path(f[r])) \in 1..Width
                /\ \A j \in 1..Width :
                     rs[r][j] = IF j <= Len(Path(f[r])) THEN Path(f[r])[j] ELSE Pad
  <2>1. RowsAre(rs)
    BY <1>2
  <2>. QED  BY <2>1, RowFacts
<1>6. ASSUME NEW v \in Leaves
      PROVE  \E r \in 1..n : f[r] = v
  BY <1>5 DEF Bijection, Surjection
<1>. HIDE DEF n
<1>7. ASSUME NEW v \in leaf
      PROVE  \E r \in DOMAIN rs : IsPathOf(rs[r], v)
  <2>1. PICK r \in 1..n : f[r] = v
    BY <1>4, <1>6
  <2>2. v \in 0..total_tokens /\ path[v] = Path(f[r])
    BY <2>1, <1>1, <1>2, <1>5
  <2>3. IsPathOf(rs[r], v)
    BY <2>2, <1>1, <1>5
  <2>. QED  BY <2>3, <1>5
<1>8. \E r \in DOMAIN rs : Pad \notin Range(rs[r])
  <2>1. PICK v \in Leaves : Len(Path(v)) = Width
    BY WidthFacts
  <2>2. PICK r \in 1..n : f[r] = v
    BY <1>6
  <2>3. v \in 0..total_tokens
    BY <2>2, <1>1, <1>5
  <2>4. ASSUME NEW j \in 1..Width
        PROVE  rs[r][j] # Pad
    <3>1. rs[r][j] = Path(v)[j]
      BY <2>1, <2>2, <1>1, <1>5
    <3>2. Path(v) \in Seq(0..total_tokens)
      BY <2>3, PathFacts
    <3>3. Path(v)[j] \in 0..total_tokens
      <4>. DEFINE p == Path(v)
                  S == 0..total_tokens
      <4>1. p \in Seq(S) /\ Len(p) = Width
        BY <3>2, <2>1
      <4>2. p[j] \in S
        <5>. HIDE DEF p, S
        <5>. QED  BY <4>1
      <4>. QED  BY <4>2
    <3>. QED  BY <3>1, <3>3, <1>1 DEF Pad
  <2>5. DOMAIN rs[r] = 1..Width
    BY <1>5, <1>1 DEF IsRow
  <2>6. r \in DOMAIN rs
    BY <1>5
  <2>. QED  BY <2>4, <2>5, <2>6 DEF Range
<1>9. IsInjective(rs)
  BY <1>2, RowsDiffer
<1>10. Len(rs) = Cardinality(leaf) /\ Len(rs) = leaf_num
  BY <1>4, <1>5, LeafNum DEF n
<1>. QED  BY <1>7, <1>8, <1>9, <1>10 DEF OneRowPerLeaf, rs, path, leaf

\* The rows lead to every node.
LEMMA RowsReachAll ==
  ASSUME TreeIsBuilt, NEW rs, RowsAre(rs)
  PROVE  NodesOf(rs) = 1..total_tokens
<1>. DEFINE n == Cardinality(Leaves)
            t == total_tokens
<1>1. PICK f \in Bijection(1..n, Leaves) :
           /\ Len(rs) = n
           /\ \A r \in 1..n :
                /\ f[r] \in Leaves /\ f[r] \in 1..total_tokens
                /\ Len(rs[r]) = Width
                /\ Len(Path(f[r])) \in 1..Width
                /\ \A j \in 1..Width :
                     rs[r][j] = IF j <= Len(Path(f[r])) THEN Path(f[r])[j] ELSE Pad
  BY RowFacts
<1>2. Width \in Nat /\ t \in Nat
  BY WidthFacts DEF TreeIsBuilt, IsTree
<1>3. \A v \in Leaves : \E r \in 1..n : f[r] = v
  BY <1>1 DEF Bijection, Surjection
<1>. HIDE DEF n, t
<1>4. ASSUME NEW v \in NodesOf(rs)
      PROVE  v \in 1..t
  <2>1. PICK r \in 1..Len(rs) : \E j \in 1..Len(rs[r]) : rs[r][j] = v
    BY NodesOfMember
  <2>2. PICK j \in 1..Width : rs[r][j] = v
    BY <1>1, <2>1
  <2>3. v # 0 /\ v # Pad
    BY NodesOfMember
  <2>4. f[r] \in 0..total_tokens /\ r \in 1..n
    BY <1>1, <1>2, <2>1 DEF t
  <2>5. j <= Len(Path(f[r])) /\ Path(f[r])[j] = v
    BY <2>2, <2>3, <2>4, <1>1
  <2>6. Path(f[r])[j] \in tree_mask[f[r]] /\ tree_mask[f[r]] \in SUBSET (0..f[r])
    <3>1. /\ \A x : x \in tree_mask[f[r]]
                      <=> \E i \in 1..Len(Path(f[r])) : Path(f[r])[i] = x
          /\ tree_mask[f[r]] \in SUBSET (0..f[r])
      BY <2>4, PathFacts
    <3>2. j \in 1..Len(Path(f[r]))
      BY <2>4, <2>5, <1>1, <1>2
    <3>. QED  BY <3>1, <3>2
  <2>7. v \in 0..f[r]
    BY <2>5, <2>6
  <2>. QED  BY <2>3, <2>4, <2>7, <1>2 DEF t
<1>5. ASSUME NEW v \in 1..t
      PROVE  v \in NodesOf(rs)
  <2>1. PICK l \in Leaves : v \in tree_mask[l]
    BY LeafFacts DEF t
  <2>2. PICK r \in 1..n : f[r] = l
    BY <1>3
  <2>3. l \in 0..total_tokens
    BY <2>2, <1>1, <1>2 DEF t
  <2>4. PICK i \in 1..Len(Path(l)) : Path(l)[i] = v
    BY <2>1, <2>3, PathFacts
  <2>5. Len(Path(l)) \in 1..Width
    BY <2>2, <1>1
  <2>6. i \in 1..Width /\ i <= Len(Path(l))
    BY <2>5, <1>2
  <2>7. rs[r][i] = v /\ i \in 1..Len(rs[r]) /\ r \in 1..Len(rs)
    BY <2>2, <2>4, <2>6, <1>1
  <2>8. v # 0 /\ v # Pad
    BY <1>2 DEF Pad
  <2>. QED  BY <2>7, <2>8, NodesOfMember
<1>. QED  BY <1>4, <1>5 DEF t

\* The candidate of node v.
Chosen(v) == top[v] + 1

\* A node's candidate extends its parent's: the root's children extend nothing.
NodeLinked(v) ==
  /\ DraftTokens[v] \in Vocab
  /\ CapimScores[v] \in Int /\ CapimScores[v] <= 0
  /\ logp[Chosen(v)] \in Int /\ logp[Chosen(v)] <= 0
  /\ mask_index[v] = 0 =>
       /\ lineage[Chosen(v)] = <<DraftTokens[v]>>
       /\ CapimScores[v] = logp[Chosen(v)]
  /\ mask_index[v] # 0 =>
       /\ lineage[Chosen(v)] = Append(lineage[Chosen(mask_index[v])], DraftTokens[v])
       /\ CapimScores[v] = CapimScores[mask_index[v]] + logp[Chosen(v)]

\* Every node extends its parent.
NodesLinked == \A v \in 1..total_tokens : NodeLinked(v)

\* What holds along a node's path.
Along(v) ==
  /\ \A i \in 2..Len(Path(v)) :
       /\ Path(v)[i - 1] < Path(v)[i]
       /\ CapimScores[v] <= CapimScores[Path(v)[i]]
  /\ lineage[Chosen(v)] =
       [j \in 1..(Len(Path(v)) - 1) |-> DraftTokens[Path(v)[j + 1]]]
  /\ Path(v)[Len(Path(v)) - 1] = mask_index[v] /\ Len(Path(v)) >= 2

\* The first node of a branch.
LEMMA AlongFirst ==
  ASSUME TreeIsBuilt, NodesLinked, NEW v \in 1..total_tokens, mask_index[v] = 0
  PROVE  Along(v)
<1>1. v \in Nat \ {0} /\ total_tokens \in Nat
  BY DEF TreeIsBuilt, IsTree
<1>2. Path(v) = <<0, v>>
  <2>1. Path(0) = <<0>> /\ PathOK(0)
    BY RootPath
  <2>2. Path(v) = Append(Path(0), v)
    BY <2>1, ChildPath
  <2>3. Append(<<0>>, v) = <<0, v>>
    <3>. DEFINE a == <<0>>
                b == <<0, v>>
    <3>1. a \in Seq(Nat) /\ Len(a) = 1 /\ a[1] = 0
      BY <1>1
    <3>2. b \in Seq(Nat) /\ Len(b) = 2 /\ b[1] = 0 /\ b[2] = v
      BY <1>1
    <3>. HIDE DEF a, b
    <3>3. /\ Append(a, v) \in Seq(Nat) /\ Len(Append(a, v)) = 2
          /\ Append(a, v)[1] = 0 /\ Append(a, v)[2] = v
      <4>1. v \in Nat
        BY <1>1
      <4>2. a \in Seq(Nat)
        BY <3>1
      <4>3. /\ Append(a, v) \in Seq(Nat) /\ Len(Append(a, v)) = Len(a) + 1
            /\ \A i \in 1..Len(a) : Append(a, v)[i] = a[i]
            /\ Append(a, v)[Len(a) + 1] = v
        BY ONLY <4>1, <4>2, AppendProperties
      <4>. DEFINE c == Append(a, v)
      <4>. HIDE DEF c
      <4>4. c \in Seq(Nat) /\ Len(c) = 1 + 1 /\ c[1] = a[1] /\ c[1 + 1] = v
        BY <4>3, <3>1 DEF c
      <4>. QED  BY <4>4, <3>1 DEF c
    <3>4. Append(a, v) = b
      BY <3>2, <3>3
    <3>. QED  BY <3>4 DEF a, b
  <2>. QED  BY <2>1, <2>2, <2>3
<1>3. NodeLinked(v)
  BY DEF NodesLinked
<1>. DEFINE p == <<0, v>>
<1>4. Len(p) = 2 /\ p[1] = 0 /\ p[2] = v
  OBVIOUS
<1>5. \A i \in 2..2 : i = 2
  OBVIOUS
<1>. HIDE DEF p
<1>6. \A i \in 2..Len(p) : p[i - 1] < p[i] /\ CapimScores[v] <= CapimScores[p[i]]
  <2>1. CapimScores[v] \in Int
    BY <1>3 DEF NodeLinked
  <2>2. 2 - 1 = 1
    OBVIOUS
  <2>. HIDE DEF CapimScores
  <2>. QED  BY <1>1, <1>4, <1>5, <2>1, <2>2
<1>7. lineage[Chosen(v)] = [j \in 1..(Len(p) - 1) |-> DraftTokens[p[j + 1]]]
  <2>. DEFINE tok == DraftTokens
              g == [j \in 1..(Len(p) - 1) |-> tok[p[j + 1]]]
  <2>1. lineage[Chosen(v)] = <<tok[v]>>
    BY <1>3 DEF NodeLinked
  <2>. HIDE DEF tok
  <2>2. g = [j \in 1..1 |-> tok[v]]
    <3>1. \A j \in 1..1 : p[j + 1] = v
      BY <1>4
    <3>2. Len(p) - 1 = 1
      BY <1>4
    <3>. QED  BY <3>1, <3>2
  <2>3. [j \in 1..1 |-> tok[v]] = <<tok[v]>>
    OBVIOUS
  <2>. QED  BY <2>1, <2>2, <2>3 DEF tok
<1>8. Path(v) = p
  BY <1>2 DEF p
<1>9. p[Len(p) - 1] = mask_index[v] /\ Len(p) >= 2
  BY <1>4
<1>. QED  BY <1>6, <1>7, <1>8, <1>9 DEF Along

\* A node further down.
LEMMA AlongNext ==
  ASSUME TreeIsBuilt, NodesLinked, NEW v \in 1..total_tokens, mask_index[v] # 0,
         Along(mask_index[v])
  PROVE  Along(v)
<1>. DEFINE u == mask_index[v]
            p == Path(u)
            q == Append(p, v)
            tok == DraftTokens
            cum == CapimScores
<1>1. u \in 1..total_tokens /\ u < v /\ v \in Nat /\ u \in Nat /\ total_tokens \in Nat
  BY DEF TreeIsBuilt, IsTree
<1>2. u \in 0..total_tokens
  BY <1>1
<1>3. p \in Seq(0..u) /\ p[Len(p)] = u
  BY <1>2, PathFacts
<1>4. Path(v) = q
  <2>1. PathOK(u)
    BY <1>2, PathsAreOK
  <2>. QED  BY <2>1, ChildPath
<1>5. /\ cum[v] \in Int /\ logp[Chosen(v)] \in Int /\ logp[Chosen(v)] <= 0
      /\ lineage[Chosen(v)] = Append(lineage[Chosen(u)], tok[v])
      /\ cum[v] = cum[u] + logp[Chosen(v)]
  BY DEF NodesLinked, NodeLinked
<1>6. cum[u] \in Int /\ \A x \in 1..total_tokens : cum[x] \in Int
  BY <1>1 DEF NodesLinked, NodeLinked
<1>7. /\ \A i \in 2..Len(p) : p[i - 1] < p[i] /\ cum[u] <= cum[p[i]]
      /\ lineage[Chosen(u)] = [j \in 1..(Len(p) - 1) |-> tok[p[j + 1]]]
      /\ Len(p) >= 2
  BY DEF Along
<1>8. \A i \in 2..Len(p) : p[i] \in 1..u
  BY <1>2, PathFacts
<1>. HIDE DEF u, p, tok, cum
<1>9. /\ Len(q) = Len(p) + 1 /\ q[Len(p) + 1] = v /\ Len(p) \in Nat
      /\ \A i \in 1..Len(p) : q[i] = p[i]
  BY <1>3
<1>. HIDE DEF q
<1>10. ASSUME NEW i \in 2..Len(q)
       PROVE  q[i - 1] < q[i] /\ cum[v] <= cum[q[i]]
  <2>1. CASE i = Len(p) + 1
    <3>1. q[i] = v /\ q[i - 1] = u
      BY <2>1, <1>3, <1>7, <1>9
    <3>. QED  BY <3>1, <1>1, <1>5
  <2>2. CASE i # Len(p) + 1
    <3>1. i \in 2..Len(p) /\ i - 1 \in 1..Len(p) /\ i \in 1..Len(p)
      BY <2>2, <1>9
    <3>2. q[i] = p[i] /\ q[i - 1] = p[i - 1]
      BY <3>1, <1>9
    <3>3. p[i - 1] < p[i] /\ cum[u] <= cum[p[i]] /\ p[i] \in 1..total_tokens
      BY <3>1, <1>1, <1>7, <1>8
    <3>. QED  BY <3>2, <3>3, <1>5, <1>6
  <2>. QED  BY <2>1, <2>2
<1>11. lineage[Chosen(v)] = [j \in 1..(Len(q) - 1) |-> tok[q[j + 1]]]
  <2>. DEFINE m == Len(p) - 1
              g == [j \in 1..m |-> tok[p[j + 1]]]
              h == [j \in 1..(m + 1) |-> tok[q[j + 1]]]
  <2>1. m \in Nat /\ Len(q) - 1 = m + 1 /\ m + 1 = Len(p)
    BY <1>7, <1>9
  <2>2. \A j \in 1..m : q[j + 1] = p[j + 1]
    BY <1>9, <2>1
  <2>3. q[(m + 1) + 1] = v
    BY <1>9, <2>1
  <2>. HIDE DEF m
  <2>4. Append(g, tok[v]) = h
    BY <2>1, <2>2, <2>3
  <2>. QED  BY <2>1, <2>4, <1>5, <1>7 DEF m
<1>12. q[Len(q) - 1] = u /\ Len(q) >= 2
  BY <1>3, <1>7, <1>9
<1>. QED  BY <1>4, <1>10, <1>11, <1>12 DEF Along, tok, cum, u

\* All nodes.
LEMMA AllAlong ==
  ASSUME TreeIsBuilt, NodesLinked
  PROVE  \A v \in 1..total_tokens : Along(v)
<1>. DEFINE G == {v \in 0..total_tokens : v # 0 => Along(v)}
<1>1. total_tokens \in Nat
  BY DEF TreeIsBuilt, IsTree
<1>2. ASSUME NEW v \in 0..total_tokens, \A u \in 0..(v - 1) : u \in G
      PROVE  v \in G
  <2>. SUFFICES ASSUME v # 0
                PROVE  Along(v)
    OBVIOUS
  <2>1. v \in 1..total_tokens /\ mask_index[v] \in 0..(v - 1)
    BY DEF TreeIsBuilt, IsTree
  <2>2. CASE mask_index[v] = 0
    BY <2>1, <2>2, AlongFirst
  <2>3. CASE mask_index[v] # 0
    <3>1. Along(mask_index[v])
      BY <2>1, <2>3, <1>2
    <3>. QED  BY <2>1, <2>3, <3>1, AlongNext
  <2>. QED  BY <2>2, <2>3
<1>3. 0..total_tokens \subseteq G
  <2>. HIDE DEF G
  <2>. QED  BY <1>1, <1>2, NodeInduction
<1>. QED  BY <1>1, <1>3

\* The record a finished call returns is well formed.
LEMMA DraftIsWellFormed ==
  ASSUME TreeIsBuilt, NodesLinked, RowsAre(retrieve_indices)
  PROVE  WellFormedDraft(Result)
<1>. DEFINE t == total_tokens
            rs == retrieve_indices
<1>1. t \in Nat \ {0}
  BY DEF TreeIsBuilt, IsTree
<1>2. DraftTokens \in [1..t -> Vocab] /\ CapimScores \in [1..t -> Int]
  <2>1. /\ DraftTokens = [v \in 1..t |-> DraftTokens[v]]
        /\ CapimScores = [v \in 1..t |-> CapimScores[v]]
    BY DEF DraftTokens, CapimScores
  <2>2. \A v \in 1..t : DraftTokens[v] \in Vocab /\ CapimScores[v] \in Int
    BY DEF NodesLinked, NodeLinked
  <2>. QED  BY <2>1, <2>2
<1>3. \A v \in 0..t : Path(v) \in Seq(0..t)
  <2>. SUFFICES ASSUME NEW v \in 0..total_tokens PROVE Path(v) \in Seq(0..total_tokens)
    OBVIOUS
  <2>. QED  BY PathFacts
<1>4. Path(0) = <<0>>
  BY RootPath
<1>5. rs \in Seq(Seq((0..t) \cup {Pad})) /\ Len(rs) \in Nat \ {0}
  BY RowFacts
<1>6. NodesOf(rs) = 1..t
  BY RowsReachAll
<1>7. ASSUME NEW r \in 1..Len(rs)
      PROVE  /\ Len(rs[r]) >= 1 /\ rs[r][1] = 0
             /\ \A j \in 1..Len(rs[r]) :
                  rs[r][j] # Pad => /\ rs[r][j] \in 0..t
                                    /\ Path(rs[r][j]) = SubSeq(rs[r], 1, j)
  <2>1. PICK f \in Bijection(1..Cardinality(Leaves), Leaves) :
           /\ Len(rs) = Cardinality(Leaves)
           /\ \A q \in 1..Cardinality(Leaves) :
                /\ f[q] \in Leaves /\ f[q] \in 1..total_tokens
                /\ IsRow(rs[q], Width) /\ Len(rs[q]) = Width
                /\ Len(Path(f[q])) \in 1..Width
                /\ \A j \in 1..Width :
                     rs[q][j] = IF j <= Len(Path(f[q])) THEN Path(f[q])[j] ELSE Pad
    BY RowFacts
  <2>. DEFINE p == Path(f[r])
              W == Width
              row == rs[r]
  <2>2. r \in 1..Cardinality(Leaves)
    BY <2>1
  <2>3. f[r] \in 0..t /\ W \in Nat /\ Len(p) \in 1..W /\ Len(row) = W
    <3>1. W \in Nat
      BY WidthFacts, <1>1
    <3>2. f[r] \in 1..t /\ Len(p) \in 1..W /\ Len(row) = W
      BY <2>1, <2>2
    <3>. QED  BY <3>1, <3>2
  <2>4. \A j \in 1..W : row[j] = IF j <= Len(p) THEN p[j] ELSE Pad
    BY <2>1, <2>2
  <2>5. PathOK(f[r])
    BY <2>3, PathsAreOK
  <2>6. p[1] = 0 /\ \A i \in 1..Len(p) : Path(p[i]) = SubSeq(p, 1, i)
    BY <2>5 DEF PathOK
  <2>7. p \in Seq(0..t)
    BY <2>3, <1>3
  <2>8. row \in [1..W -> (0..t) \cup {Pad}]
    BY <2>1, <2>2 DEF IsRow
  <2>. HIDE DEF p, W, row
  <2>9. ASSUME NEW j \in 1..Len(row), row[j] # Pad
        PROVE  row[j] \in 0..t /\ Path(row[j]) = SubSeq(row, 1, j)
    <3>1. j \in 1..Len(p) /\ row[j] = p[j]
      BY <2>3, <2>4, <2>9
    <3>2. row[j] \in 0..t
      BY <2>3, <2>8, <2>9
    <3>3. SubSeq(row, 1, j) = SubSeq(p, 1, j)
      <4>1. \A i \in 1..j : row[i] = p[i]
        BY <2>3, <2>4, <3>1
      <4>. QED  BY <4>1, <2>3, <3>1
    <3>. QED  BY <3>1, <3>2, <3>3, <2>6
  <2>10. row[1] = 0 /\ Len(row) >= 1
    BY <2>3, <2>4, <2>6
  <2>. QED  BY <2>9, <2>10 DEF row
<1>8. ASSUME NEW v \in 1..t
      PROVE  /\ CapimScores[v] <= 0
             /\ \A i \in 2..Len(Path(v)) :
                  /\ Path(v)[i - 1] < Path(v)[i]
                  /\ CapimScores[v] <= CapimScores[Path(v)[i]]
  <2>1. Along(v) /\ NodeLinked(v)
    BY AllAlong DEF NodesLinked
  <2>. QED  BY <2>1 DEF Along, NodeLinked
<1>. DEFINE d == Result
<1>9. /\ d.n = t /\ d.token = DraftTokens /\ d.cum = CapimScores /\ d.rows = rs
      /\ d.path = [v \in 0..t |-> Path(v)]
  BY ResultFields
<1>. HIDE DEF d, t, rs
<1>10. /\ d.n \in Nat \ {0}
       /\ d.token \in [1..d.n -> Vocab] /\ d.cum \in [1..d.n -> Int]
       /\ d.path \in [0..d.n -> Seq(0..d.n)] /\ d.path[0] = <<0>>
       /\ d.rows \in Seq(Seq((0..d.n) \cup {Pad})) /\ d.rows # <<>>
       /\ NodesOf(d.rows) = 1..d.n
  <2>1. d.path \in [0..t -> Seq(0..t)] /\ d.path[0] = <<0>>
    BY <1>1, <1>3, <1>4, <1>9
  <2>2. rs # <<>>
    BY <1>5
  <2>. QED  BY <1>1, <1>2, <1>5, <1>6, <1>9, <2>1, <2>2
<1>11. \A r \in 1..Len(d.rows) :
         /\ Len(d.rows[r]) >= 1 /\ d.rows[r][1] = 0
         /\ \A j \in 1..Len(d.rows[r]) :
              d.rows[r][j] # Pad => d.path[d.rows[r][j]] = SubSeq(d.rows[r], 1, j)
  BY <1>7, <1>9
<1>12. \A v \in 1..d.n :
         /\ d.cum[v] <= 0
         /\ \A i \in 2..Len(d.path[v]) :
              d.path[v][i - 1] < d.path[v][i] /\ d.cum[v] <= d.cum[d.path[v][i]]
  <2>. SUFFICES ASSUME NEW v \in 1..t
                PROVE  /\ d.cum[v] <= 0
                       /\ \A i \in 2..Len(d.path[v]) :
                            d.path[v][i - 1] < d.path[v][i] /\ d.cum[v] <= d.cum[d.path[v][i]]
    BY <1>9
  <2>1. d.path[v] = Path(v)
    BY <1>1, <1>9
  <2>. QED  BY <1>8, <1>9, <2>1
<1>13. WellFormedDraft(d)
  BY <1>10, <1>11, <1>12 DEF WellFormedDraft
<1>. QED  BY <1>13 DEF d

\* Paths are what the drafts were conditioned on.
LEMMA DraftLineages ==
  ASSUME TreeIsBuilt, NodesLinked
  PROVE  PathsAreLineages
<1>. DEFINE t == total_tokens
            d == Result
<1>1. /\ d.token = DraftTokens /\ d.cum = CapimScores
      /\ d.path = [v \in 0..t |-> Path(v)]
  BY ResultFields
<1>. HIDE DEF d
<1>2. ASSUME NEW v \in 1..t
      PROVE  LET path == d.path[v]
                 parent == path[Len(path) - 1]
             IN  /\ lineage[top[v] + 1] =
                      [j \in 1..(Len(path) - 1) |-> d.token[path[j + 1]]]
                 /\ logp[top[v] + 1] =
                      d.cum[v] - (IF parent = 0 THEN 0 ELSE d.cum[parent])
  <2>1. Along(v) /\ NodeLinked(v)
    BY AllAlong DEF NodesLinked
  <2>2. t \in Nat \ {0} /\ mask_index[v] \in 0..t
    BY DEF TreeIsBuilt, IsTree
  <2>3. mask_index[v] # 0 => CapimScores[mask_index[v]] \in Int
    BY <2>2 DEF NodesLinked, NodeLinked
  <2>4. d.path[v] = Path(v)
    BY <1>1, <2>2
  <2>5. /\ lineage[top[v] + 1] =
             [j \in 1..(Len(Path(v)) - 1) |-> DraftTokens[Path(v)[j + 1]]]
        /\ Path(v)[Len(Path(v)) - 1] = mask_index[v]
    BY <2>1 DEF Along, Chosen
  <2>6. logp[top[v] + 1] =
          CapimScores[v] - (IF mask_index[v] = 0 THEN 0 ELSE CapimScores[mask_index[v]])
    <3>. DEFINE cum == CapimScores
    <3>1. /\ cum[v] \in Int /\ logp[top[v] + 1] \in Int
          /\ mask_index[v] = 0 => cum[v] = logp[top[v] + 1]
          /\ mask_index[v] # 0 => cum[v] = cum[mask_index[v]] + logp[top[v] + 1]
      BY <2>1 DEF NodeLinked, Chosen
    <3>2. mask_index[v] # 0 => cum[mask_index[v]] \in Int
      BY <2>3
    <3>. HIDE DEF cum
    <3>3. logp[top[v] + 1] = cum[v] - (IF mask_index[v] = 0 THEN 0 ELSE cum[mask_index[v]])
      BY <3>1, <3>2
    <3>. QED  BY <3>3 DEF cum
  <2>. QED  BY <1>1, <2>4, <2>5, <2>6
<1>. QED  BY <1>2 DEF PathsAreLineages, d

-----------------------------------------------------------------------------
(* The flat lists.                                                         *)

\* Candidate c extends the candidate the index arithmetic calls its parent.
Linked(c) ==
  /\ DraftParent(c - 1) \in 0..(c - 1)
  /\ DraftParent(c - 1) = 0 =>
       lineage[c] = <<ss_token[c]>> /\ scores_list[c] = logp[c]
  /\ DraftParent(c - 1) # 0 =>
       /\ lineage[c] = Append(lineage[DraftParent(c - 1)], ss_token[c])
       /\ scores_list[c] = scores_list[DraftParent(c - 1)] + logp[c]

\* The lists' sizes and types.
ListsTyped ==
  /\ total_tokens \in Totals /\ level \in 0..D
  /\ scores_list \in Seq(Int) /\ logp \in Seq(Int) /\ ss_token \in Seq(Vocab)
  /\ lineage \in Seq(Seq(Vocab)) /\ parents_list \in Seq(Nat)
  /\ Len(scores_list) = K + level * (K * K) /\ Len(parents_list) = 1 + level * K
  /\ Len(logp) = Len(scores_list) /\ Len(ss_token) = Len(scores_list)
  /\ Len(lineage) = Len(scores_list)

\* Every candidate does, and no score is positive.
ListsLinked ==
  \A c \in 1..Len(scores_list) : scores_list[c] <= 0 /\ logp[c] <= 0 /\ Linked(c)

\* A slot of the beam is a candidate of the last level.
BeamOK ==
  /\ beam \in [1..K -> [index : Nat, score : Int, lineage : Seq(Vocab)]]
  /\ \A k \in 1..K :
       /\ beam[k].index + Bias(level) \in 1..Len(scores_list)
       /\ beam[k].score = scores_list[beam[k].index + Bias(level)]
       /\ beam[k].lineage = lineage[beam[k].index + Bias(level)]

\* The selected candidates s and their parents mi among them.
SelectionLinked(s, mi) ==
  \A v \in 1..total_tokens :
    /\ s[v] + 1 \in 1..Len(scores_list)
    /\ mi[v] = 0 =>
         /\ lineage[s[v] + 1] = <<ss_token[s[v] + 1]>>
         /\ scores_list[s[v] + 1] = logp[s[v] + 1]
    /\ mi[v] # 0 =>
         /\ lineage[s[v] + 1] = Append(lineage[s[mi[v]] + 1], ss_token[s[v] + 1])
         /\ scores_list[s[v] + 1] = scores_list[s[mi[v]] + 1] + logp[s[v] + 1]

\* What holds at every step of the build.
BuildInv ==
  /\ pc \in {"expand", "rerank", "retrieve", "sort", "done"}
  /\ ListsTyped /\ ListsLinked /\ BeamOK
  /\ IF pc = "expand" THEN level < D ELSE level = D
  /\ pc \in {"retrieve", "sort", "done"} =>
       TreeIsBuilt /\ SelectionLinked(top, mask_index)
  /\ pc \in {"sort", "done"} => RowsAre(retrieve_indices)

\* A head's log-probabilities are not positive.
LEMMA RowsNotPositive ==
  ASSUME NEW row \in HeadRows
  PROVE  /\ row \in Seq(Int) /\ Len(row) = K
         /\ \A r \in 1..K : row[r] \in Int /\ row[r] <= 0
<1>1. /\ K \in Nat \ {0} /\ row \in Seq(Int) /\ Len(row) = K /\ row[1] <= 0
      /\ \A r \in 2..K : row[r] <= row[r - 1]
  BY TreeAssumption
<1>2. \A r \in 1..K : row[r] \in Int
  BY <1>1
<1>. DEFINE N == {n \in Nat : n + 1 \in 1..K => row[n + 1] <= 0}
<1>3. 0 \in N
  BY <1>1
<1>4. ASSUME NEW n \in Nat, n \in N
      PROVE  n + 1 \in N
  <2>. SUFFICES ASSUME (n + 1) + 1 \in 1..K
                PROVE  row[(n + 1) + 1] <= 0
    OBVIOUS
  <2>1. n + 1 \in 1..K /\ (n + 1) + 1 \in 2..K /\ ((n + 1) + 1) - 1 = n + 1
    BY <1>1
  <2>2. row[n + 1] <= 0 /\ row[(n + 1) + 1] <= row[n + 1]
    BY <2>1, <1>1, <1>4
  <2>. QED  BY <2>1, <2>2, <1>2
<1>5. Nat \subseteq N
  <2>. HIDE DEF N
  <2>. QED  BY <1>3, <1>4, Induction
<1>6. ASSUME NEW r \in 1..K
      PROVE  row[r] <= 0
  <2>1. r - 1 \in Nat /\ (r - 1) + 1 = r
    BY <1>1
  <2>2. r - 1 \in N
    BY <1>5, <2>1
  <2>. QED  BY <2>1, <2>2
<1>. QED  BY <1>1, <1>2, <1>6

\* A number below a multiple has a smaller quotient, and Euclid's division is
\* unique.
LEMMA QuotientIs ==
  ASSUME NEW L \in Nat \ {0}, NEW k \in Int, NEW r \in 0..(L - 1), NEW a \in Int,
         a = L * k + r
  PROVE  a \div L = k
<1>. DEFINE q == a \div L
            s == a % L
<1>1. s \in 0..(L - 1) /\ q \in Int /\ a = L * q + s
  BY Z3
<1>. HIDE DEF q, s
<1>2. L * (q - k) = r - s
  BY <1>1
<1>3. r - s < L /\ r - s > -L
  BY <1>1
<1>4. q - k >= 1 => L * (q - k) >= L
  BY <1>1
<1>5. q - k <= -1 => L * (q - k) <= -L
  BY <1>1
<1>6. q - k = 0
  BY <1>1, <1>2, <1>3, <1>4, <1>5
<1>. QED  BY <1>1, <1>6 DEF q

\* Row and column of the c-th cell of a table with L columns and n rows.
LEMMA CellOf ==
  ASSUME NEW L \in Nat \ {0}, NEW n \in Nat, NEW c \in 1..(L * n)
  PROVE  /\ (c - 1) \div L \in 0..(n - 1) /\ (c - 1) % L \in 0..(L - 1)
         /\ c - 1 = L * ((c - 1) \div L) + ((c - 1) % L)
<1>. DEFINE q == (c - 1) \div L
            r == (c - 1) % L
<1>1. L * n \in Nat
  OBVIOUS
<1>2. q \in Int /\ r \in 0..(L - 1) /\ c - 1 = L * q + r
  BY <1>1, Z3
<1>3. c - 1 \in 0..(L * n - 1)
  BY <1>1
<1>. HIDE DEF q, r
<1>4. q >= 0
  <2>1. q <= -1 => L * q <= -L
    BY <1>2
  <2>. QED  BY <1>1, <1>2, <1>3, <2>1
<1>5. q < n
  <2>1. q >= n => L * q >= L * n
    BY <1>2
  <2>. QED  BY <1>1, <1>2, <1>3, <2>1
<1>. QED  BY <1>2, <1>4, <1>5 DEF q, r

\* The first head call.
LEMMA BuildInvInit == Init => BuildInv
<1>. SUFFICES ASSUME Init PROVE BuildInv
  OBVIOUS
<1>1. PICK row \in HeadRows :
       LET first == Children([score |-> 0, lineage |-> <<>>], row)
       IN  /\ scores_list = [r \in 1..K |-> first[r].score]
           /\ ss_token = [r \in 1..K |-> first[r].token]
           /\ lineage = [r \in 1..K |-> first[r].lineage]
           /\ logp = [r \in 1..K |-> first[r].logp]
           /\ beam = [r \in 1..K |-> [index |-> r - 1, score |-> first[r].score,
                                      lineage |-> first[r].lineage]]
  BY DEF Init
<1>2. /\ total_tokens \in Totals /\ level = 0 /\ parents_list = <<0>>
      /\ pc = IF D > 0 THEN "expand" ELSE "rerank"
  BY DEF Init
<1>3. K \in Nat \ {0} /\ D \in Nat /\ Vocab = 0..(K - 1)
  BY TreeAssumption
<1>4. \A r \in 1..K : row[r] \in Int /\ row[r] <= 0
  BY RowsNotPositive
<1>. DEFINE e == <<>>
            first == Children([score |-> 0, lineage |-> e], row)
<1>5. e \in Seq(Vocab) /\ \A x \in Vocab : Append(e, x) = <<x>> /\ <<x>> \in Seq(Vocab)
  OBVIOUS
<1>. HIDE DEF e
<1>6. \A r \in 1..K : /\ first[r].score = row[r] /\ first[r].token = r - 1
                      /\ first[r].logp = row[r] /\ first[r].lineage = <<r - 1>>
                      /\ r - 1 \in Vocab /\ <<r - 1>> \in Seq(Vocab)
  <2>. SUFFICES ASSUME NEW r \in 1..K
                PROVE  /\ first[r].score = row[r] /\ first[r].token = r - 1
                       /\ first[r].logp = row[r] /\ first[r].lineage = <<r - 1>>
                       /\ r - 1 \in Vocab /\ <<r - 1>> \in Seq(Vocab)
    OBVIOUS
  <2>1. r - 1 \in Vocab /\ <<r - 1>> \in Seq(Vocab) /\ Append(e, r - 1) = <<r - 1>>
    BY <1>3, <1>5
  <2>2. first[r] = [score |-> 0 + row[r], token |-> r - 1, logp |-> row[r],
                    lineage |-> Append(e, r - 1)]
    BY DEF Children
  <2>3. 0 + row[r] = row[r]
    BY <1>4
  <2>. QED  BY <2>1, <2>2, <2>3
<1>7. /\ scores_list = [r \in 1..K |-> row[r]] /\ logp = [r \in 1..K |-> row[r]]
      /\ ss_token = [r \in 1..K |-> r - 1] /\ lineage = [r \in 1..K |-> <<r - 1>>]
      /\ beam = [r \in 1..K |-> [index |-> r - 1, score |-> row[r],
                                 lineage |-> <<r - 1>>]]
  BY <1>1, <1>6 DEF e
<1>. HIDE DEF first
<1>8. /\ scores_list \in Seq(Int) /\ Len(scores_list) = K
      /\ logp \in Seq(Int) /\ Len(logp) = K
      /\ ss_token \in Seq(Vocab) /\ Len(ss_token) = K
  <2>1. /\ scores_list \in [1..K -> Int] /\ logp \in [1..K -> Int]
        /\ ss_token \in [1..K -> Vocab]
    BY <1>4, <1>6, <1>7
  <2>. QED  BY <2>1, <1>3
<1>9. lineage \in Seq(Seq(Vocab)) /\ Len(lineage) = K
  <2>1. lineage \in [1..K -> Seq(Vocab)]
    BY <1>6, <1>7
  <2>. QED  BY <2>1, <1>3
<1>10. parents_list \in Seq(Nat) /\ Len(parents_list) = 1 /\ parents_list[1] = 0
  BY <1>2
<1>11. ListsTyped
  <2>1. 0 * (K * K) = 0 /\ 0 * K = 0
    BY <1>3
  <2>. QED  BY <1>2, <1>3, <1>8, <1>9, <1>10, <2>1 DEF ListsTyped
<1>12. ASSUME NEW c \in 1..K
       PROVE  DraftParent(c - 1) = 0
  <2>1. (c - 1) \div K = 0
    <3>1. c - 1 \in 0..(K - 1) /\ c - 1 \in Int /\ c - 1 = K * 0 + (c - 1)
      BY <1>3
    <3>. QED  BY <3>1, <1>3, QuotientIs, 0 \in Int
  <2>. QED  BY <2>1, <1>10 DEF DraftParent
<1>13. ListsLinked
  <2>. SUFFICES ASSUME NEW c \in 1..K
                PROVE  scores_list[c] <= 0 /\ logp[c] <= 0 /\ Linked(c)
    BY <1>8 DEF ListsLinked
  <2>1. 0 \in 0..(c - 1)
    BY <1>3
  <2>. QED  BY <1>4, <1>7, <1>12, <2>1 DEF Linked
<1>14. BeamOK
  <2>1. Bias(level) = 1
    <3>1. ~(0 > 1) /\ ~(0 > 0)
      OBVIOUS
    <3>. QED  BY <1>2, <3>1 DEF Bias
  <2>2. ASSUME NEW k \in 1..K
        PROVE  /\ beam[k] \in [index : Nat, score : Int, lineage : Seq(Vocab)]
               /\ beam[k].index + Bias(level) = k
               /\ beam[k].score = scores_list[k] /\ beam[k].lineage = lineage[k]
    <3>1. k - 1 \in Nat /\ (k - 1) + 1 = k
      BY <1>3
    <3>. QED  BY <1>4, <1>6, <1>7, <2>1, <3>1
  <2>3. beam \in [1..K -> [index : Nat, score : Int, lineage : Seq(Vocab)]]
    BY <1>7, <2>2
  <2>. QED  BY <1>8, <2>2, <2>3 DEF BeamOK
<1>15. /\ pc \in {"expand", "rerank"}
       /\ IF pc = "expand" THEN level < D ELSE level = D
  BY <1>2, <1>3
<1>. QED  BY <1>11, <1>13, <1>14, <1>15 DEF BuildInv

\* The slot and the head rank of the c-th new candidate.
SlotOf(c) == ((c - 1) \div K) + 1
RankOf(c) == ((c - 1) % K) + 1

\* The new candidates of one level.
LEMMA FlatCells ==
  ASSUME BeamOK, ListsTyped, ListsLinked, NEW table \in [1..K -> HeadRows],
         NEW c \in 1..(K * K)
  PROVE  /\ SlotOf(c) \in 1..K /\ RankOf(c) \in 1..K
         /\ c - 1 = K * (SlotOf(c) - 1) + (RankOf(c) - 1)
         /\ Flat(table)[c].token = RankOf(c) - 1 /\ Flat(table)[c].token \in Vocab
         /\ Flat(table)[c].logp \in Int /\ Flat(table)[c].logp <= 0
         /\ Flat(table)[c].score = beam[SlotOf(c)].score + Flat(table)[c].logp
         /\ Flat(table)[c].score \in Int /\ Flat(table)[c].score <= 0
         /\ Flat(table)[c].lineage = Append(beam[SlotOf(c)].lineage, Flat(table)[c].token)
         /\ Flat(table)[c].lineage \in Seq(Vocab)
<1>. DEFINE q == SlotOf(c)
            r == RankOf(c)
            cell == Flat(table)[c]
<1>1. K \in Nat \ {0} /\ Vocab = 0..(K - 1)
  BY TreeAssumption
<1>2. q \in 1..K /\ r \in 1..K /\ c - 1 = K * (q - 1) + (r - 1)
  <2>. DEFINE d == (c - 1) \div K
              m == (c - 1) % K
  <2>1. d \in 0..(K - 1) /\ m \in 0..(K - 1) /\ c - 1 = K * d + m
    BY <1>1, CellOf
  <2>2. q = d + 1 /\ r = m + 1
    BY DEF SlotOf, RankOf
  <2>. HIDE DEF d, m, q, r
  <2>3. q - 1 = d /\ r - 1 = m
    BY <2>1, <2>2
  <2>. QED  BY <1>1, <2>1, <2>2, <2>3
<1>3. cell = [score |-> beam[q].score + table[q][r], token |-> r - 1,
              logp |-> table[q][r], lineage |-> Append(beam[q].lineage, r - 1)]
  <2>1. cell = Children(beam[q], table[q])[r]
    BY DEF Flat, SlotOf, RankOf
  <2>. HIDE DEF cell, q, r
  <2>. QED  BY <1>2, <2>1 DEF Children
<1>. HIDE DEF cell, q, r
<1>4. table[q][r] \in Int /\ table[q][r] <= 0
  BY <1>2, RowsNotPositive
<1>5. beam[q].score \in Int /\ beam[q].lineage \in Seq(Vocab) /\ beam[q].score <= 0
  <2>1. beam[q] \in [index : Nat, score : Int, lineage : Seq(Vocab)]
    BY <1>2 DEF BeamOK
  <2>2. /\ beam[q].index + Bias(level) \in 1..Len(scores_list)
        /\ beam[q].score = scores_list[beam[q].index + Bias(level)]
    BY <1>2 DEF BeamOK
  <2>3. scores_list[beam[q].index + Bias(level)] <= 0
    BY <2>2 DEF ListsLinked
  <2>. QED  BY <2>1, <2>2, <2>3
<1>6. r - 1 \in Vocab
  BY <1>1, <1>2
<1>7. Append(beam[q].lineage, r - 1) \in Seq(Vocab)
  BY <1>5, <1>6
<1>8. /\ cell.score = beam[q].score + table[q][r] /\ cell.token = r - 1
      /\ cell.logp = table[q][r] /\ cell.lineage = Append(beam[q].lineage, r - 1)
  BY <1>3
<1>. QED  BY <1>2, <1>4, <1>5, <1>6, <1>7, <1>8 DEF cell, q, r

\* t is s, of length n, with the m entries of f appended.
IsAppended(t, S, s, n, f, m) ==
  /\ t \in Seq(S) /\ Len(t) = n + m
  /\ \A i \in 1..n : t[i] = s[i]
  /\ \A j \in 1..m : t[n + j] = f[j]

\* Appending a list.
LEMMA Appended ==
  ASSUME NEW S, NEW s \in Seq(S), NEW m \in Nat, NEW f \in [1..m -> S],
         NEW n, n = Len(s)
  PROVE  IsAppended(s \o f, S, s, n, f, m)
<1>. DEFINE t == s \o f
<1>1. f \in Seq(S) /\ Len(f) = m /\ n \in Nat
  OBVIOUS
<1>2. /\ t \in Seq(S) /\ Len(t) = n + m
      /\ \A i \in 1..(n + m) : t[i] = IF i <= n THEN s[i] ELSE f[i - n]
  <2>1. /\ s \o f \in Seq(S) /\ Len(s \o f) = Len(s) + Len(f)
        /\ \A i \in 1 .. Len(s) + Len(f) :
             (s \o f)[i] = IF i <= Len(s) THEN s[i] ELSE f[i - Len(s)]
    BY ONLY <1>1, s \in Seq(S), ConcatProperties
  <2>. HIDE DEF t
  <2>. QED  BY <1>1, <2>1 DEF t
<1>. HIDE DEF t
<1>3. ASSUME NEW i \in 1..n
      PROVE  t[i] = s[i]
  <2>1. i \in 1..(n + m) /\ i <= n
    BY <1>1
  <2>. QED  BY <1>2, <2>1
<1>4. ASSUME NEW j \in 1..m
      PROVE  t[n + j] = f[j]
  <2>1. n + j \in 1..(n + m) /\ ~(n + j <= n) /\ (n + j) - n = j
    BY <1>1
  <2>. QED  BY <1>2, <2>1
<1>. QED  BY <1>2, <1>3, <1>4 DEF IsAppended, t

\* Where the last level starts.
LEMMA BiasNext ==
  ASSUME ListsTyped
  PROVE  Bias(level + 1) = Len(scores_list) + 1
<1>1. K \in Nat \ {0} /\ level \in Nat /\ K * K \in Nat
  BY TreeAssumption DEF ListsTyped
<1>. DEFINE M == K * K
<1>2. Len(scores_list) = K + level * M
  BY DEF ListsTyped
<1>3. Bias(level + 1) = 1 + (IF level + 1 > 1 THEN M * ((level + 1) - 1) ELSE 0)
                          + (IF level + 1 > 0 THEN K ELSE 0)
  BY DEF Bias
<1>. HIDE DEF M
<1>4. M \in Nat
  BY <1>1 DEF M
<1>5. CASE level = 0
  <2>1. level * M = 0
    BY <1>4, <1>5
  <2>. QED  BY <1>1, <1>2, <1>3, <1>5, <2>1
<1>6. CASE level # 0
  <2>1. level + 1 > 1 /\ level + 1 > 0 /\ (level + 1) - 1 = level
    BY <1>1, <1>6
  <2>2. M * level = level * M /\ M * level \in Nat
    BY <1>1, <1>4
  <2>. QED  BY <1>1, <1>2, <1>3, <2>1, <2>2
<1>. QED  BY <1>5, <1>6

\* An expansion appends candidates that extend the slots they belong to.
LEMMA ExpandKeeps ==
  ASSUME BuildInv, Expand
  PROVE  BuildInv'
<1>. DEFINE M == K * K
            N == Len(scores_list)
            P == Len(parents_list)
            b(k) == beam[k].index + Bias(level)
<1>1. /\ K \in Nat \ {0} /\ D \in Nat /\ M \in Nat /\ level \in Nat /\ level < D
      /\ ListsTyped /\ ListsLinked /\ BeamOK
  BY TreeAssumption DEF BuildInv, Expand, ListsTyped
<1>2. PICK table \in [1..K -> HeadRows] :
       LET new == Flat(table)
       IN  /\ scores_list' = scores_list \o [c \in 1..(K * K) |-> new[c].score]
           /\ ss_token' = ss_token \o [c \in 1..(K * K) |-> new[c].token]
           /\ lineage' = lineage \o [c \in 1..(K * K) |-> new[c].lineage]
           /\ logp' = logp \o [c \in 1..(K * K) |-> new[c].logp]
           /\ \E pick \in [1..K -> 1..(K * K)] :
                /\ IsBeam(pick, new)
                /\ beam' = [k \in 1..K |->
                     [index |-> pick[k] - 1, score |-> new[pick[k]].score,
                      lineage |-> new[pick[k]].lineage]]
  BY DEF Expand
<1>. DEFINE new == Flat(table)
<1>3. /\ parents_list' = parents_list \o [k \in 1..K |-> b(k)]
      /\ level' = level + 1 /\ pc' = IF level + 1 < D THEN "expand" ELSE "rerank"
      /\ UNCHANGED <<total_tokens, top, mask_index, tree_mask, retrieve_indices>>
  BY DEF Expand
<1>4. PICK pick \in [1..K -> 1..M] :
        beam' = [k \in 1..K |->
                  [index |-> pick[k] - 1, score |-> new[pick[k]].score,
                   lineage |-> new[pick[k]].lineage]]
  BY <1>2
<1>5. /\ scores_list' = scores_list \o [c \in 1..M |-> new[c].score]
      /\ ss_token' = ss_token \o [c \in 1..M |-> new[c].token]
      /\ lineage' = lineage \o [c \in 1..M |-> new[c].lineage]
      /\ logp' = logp \o [c \in 1..M |-> new[c].logp]
  BY <1>2
<1>6. \A c \in 1..M :
        /\ SlotOf(c) \in 1..K /\ RankOf(c) \in 1..K
        /\ c - 1 = K * (SlotOf(c) - 1) + (RankOf(c) - 1)
        /\ new[c].token \in Vocab
        /\ new[c].logp \in Int /\ new[c].logp <= 0
        /\ new[c].score = beam[SlotOf(c)].score + new[c].logp
        /\ new[c].score \in Int /\ new[c].score <= 0
        /\ new[c].lineage = Append(beam[SlotOf(c)].lineage, new[c].token)
        /\ new[c].lineage \in Seq(Vocab)
  BY <1>1, FlatCells
<1>. HIDE DEF new
<1>7. \A k \in 1..K : /\ b(k) \in 1..N /\ b(k) \in Nat
                      /\ beam[k].score = scores_list[b(k)] /\ beam[k].lineage = lineage[b(k)]
  <2>1. N \in Nat
    BY <1>1 DEF ListsTyped
  <2>. QED  BY <1>1, <2>1 DEF BeamOK
<1>. HIDE DEF b
<1>8. /\ N \in Nat /\ P \in Nat
      /\ scores_list \in Seq(Int) /\ logp \in Seq(Int) /\ ss_token \in Seq(Vocab)
      /\ lineage \in Seq(Seq(Vocab)) /\ parents_list \in Seq(Nat)
      /\ N = K + level * M /\ P = 1 + level * K
      /\ Len(logp) = N /\ Len(ss_token) = N /\ Len(lineage) = N
  BY <1>1 DEF ListsTyped
<1>. HIDE DEF M
<1>. DEFINE sc == [c \in 1..M |-> new[c].score]
            tk == [c \in 1..M |-> new[c].token]
            li == [c \in 1..M |-> new[c].lineage]
            lp == [c \in 1..M |-> new[c].logp]
            pa == [k \in 1..K |-> b(k)]
<1>9. /\ sc \in [1..M -> Int] /\ lp \in [1..M -> Int] /\ tk \in [1..M -> Vocab]
      /\ li \in [1..M -> Seq(Vocab)] /\ pa \in [1..K -> Nat]
  BY <1>6, <1>7
<1>10. /\ \A c \in 1..M : /\ sc[c] = new[c].score /\ tk[c] = new[c].token
                          /\ li[c] = new[c].lineage /\ lp[c] = new[c].logp
       /\ \A k \in 1..K : pa[k] = b(k)
  OBVIOUS
<1>11. /\ scores_list' = scores_list \o sc /\ ss_token' = ss_token \o tk
       /\ lineage' = lineage \o li /\ logp' = logp \o lp
       /\ parents_list' = parents_list \o pa
  BY <1>3, <1>5
<1>. HIDE DEF sc, tk, li, lp, pa
<1>12. /\ scores_list' \in Seq(Int) /\ Len(scores_list') = N + M
       /\ \A i \in 1..N : scores_list'[i] = scores_list[i]
       /\ \A j \in 1..M : scores_list'[N + j] = new[j].score
  <2>. HIDE DEF N, P
  <2>1. scores_list \in Seq(Int) /\ sc \in [1..M -> Int] /\ M \in Nat /\ N = Len(scores_list)
    BY <1>1, <1>8, <1>9 DEF N
  <2>2. IsAppended(scores_list \o sc, Int, scores_list, N, sc, M)
    BY <2>1, Appended
  <2>3. IsAppended(scores_list', Int, scores_list, N, sc, M)
    BY <1>11, <2>2
  <2>. QED  BY <1>10, <2>3 DEF IsAppended
<1>13. /\ ss_token' \in Seq(Vocab) /\ Len(ss_token') = N + M
       /\ \A i \in 1..N : ss_token'[i] = ss_token[i]
       /\ \A j \in 1..M : ss_token'[N + j] = new[j].token
  <2>. HIDE DEF N, P
  <2>1. ss_token \in Seq(Vocab) /\ tk \in [1..M -> Vocab] /\ M \in Nat /\ N = Len(ss_token)
    BY <1>1, <1>8, <1>9 DEF N
  <2>2. IsAppended(ss_token \o tk, Vocab, ss_token, N, tk, M)
    BY <2>1, Appended
  <2>3. IsAppended(ss_token', Vocab, ss_token, N, tk, M)
    BY <1>11, <2>2
  <2>. QED  BY <1>10, <2>3 DEF IsAppended
<1>14. /\ lineage' \in Seq(Seq(Vocab)) /\ Len(lineage') = N + M
       /\ \A i \in 1..N : lineage'[i] = lineage[i]
       /\ \A j \in 1..M : lineage'[N + j] = new[j].lineage
  <2>. HIDE DEF N, P
  <2>1. lineage \in Seq(Seq(Vocab)) /\ li \in [1..M -> Seq(Vocab)] /\ M \in Nat /\ N = Len(lineage)
    BY <1>1, <1>8, <1>9 DEF N
  <2>2. IsAppended(lineage \o li, Seq(Vocab), lineage, N, li, M)
    BY <2>1, Appended
  <2>3. IsAppended(lineage', Seq(Vocab), lineage, N, li, M)
    BY <1>11, <2>2
  <2>. QED  BY <1>10, <2>3 DEF IsAppended
<1>15. /\ logp' \in Seq(Int) /\ Len(logp') = N + M
       /\ \A i \in 1..N : logp'[i] = logp[i]
       /\ \A j \in 1..M : logp'[N + j] = new[j].logp
  <2>. HIDE DEF N, P
  <2>1. logp \in Seq(Int) /\ lp \in [1..M -> Int] /\ M \in Nat /\ N = Len(logp)
    BY <1>1, <1>8, <1>9 DEF N
  <2>2. IsAppended(logp \o lp, Int, logp, N, lp, M)
    BY <2>1, Appended
  <2>3. IsAppended(logp', Int, logp, N, lp, M)
    BY <1>11, <2>2
  <2>. QED  BY <1>10, <2>3 DEF IsAppended
<1>16. /\ parents_list' \in Seq(Nat) /\ Len(parents_list') = P + K
       /\ \A i \in 1..P : parents_list'[i] = parents_list[i]
       /\ \A k \in 1..K : parents_list'[P + k] = b(k)
  <2>. HIDE DEF N, P
  <2>1. parents_list \in Seq(Nat) /\ pa \in [1..K -> Nat] /\ K \in Nat /\ P = Len(parents_list)
    BY <1>1, <1>8, <1>9 DEF P
  <2>2. IsAppended(parents_list \o pa, Nat, parents_list, P, pa, K)
    BY <2>1, Appended
  <2>3. IsAppended(parents_list', Nat, parents_list, P, pa, K)
    BY <1>11, <2>2
  <2>. QED  BY <1>10, <2>3 DEF IsAppended
<1>17. N + M = K + level' * M /\ P + K = 1 + level' * K /\ level' \in 0..D
  <2>1. (level + 1) * M = level * M + M /\ (level + 1) * K = level * K + K
    <3>1. M \in Nat
      BY <1>1
    <3>. QED  BY <1>1, <3>1
  <2>2. level * M \in Int /\ level * K \in Int /\ M \in Int
    BY <1>1
  <2>. QED  BY <1>1, <1>3, <1>8, <2>1, <2>2
<1>18. ListsTyped'
  <2>1. total_tokens' \in Totals
    BY <1>1, <1>3 DEF ListsTyped
  <2>. QED  BY <1>12, <1>13, <1>14, <1>15, <1>16, <1>17, <2>1 DEF ListsTyped, M
<1>19. ASSUME NEW c \in 1..N
       PROVE  ((c - 1) \div K) + 1 \in 1..P
  <2>. DEFINE L == 1 + level * K
  <2>1. L \in Nat /\ N = K * L
    <3>1. K * (1 + level * K) = K + level * (K * K)
      BY <1>1
    <3>. QED  BY <1>1, <1>8, <3>1 DEF M
  <2>2. c \in 1..(K * L)
    BY <2>1
  <2>. HIDE DEF L
  <2>3. (c - 1) \div K \in 0..(L - 1)
    BY <1>1, <2>1, <2>2, CellOf
  <2>4. P = L
    BY <1>8 DEF L
  <2>. HIDE DEF P
  <2>. QED  BY <2>1, <2>3, <2>4
<1>20. ASSUME NEW j \in 1..M
       PROVE  (((N + j) - 1) \div K) + 1 = P + SlotOf(j)
  <2>. DEFINE q == SlotOf(j)
              r == RankOf(j)
              k == level * K + q
  <2>1. q \in 1..K /\ r \in 1..K /\ j - 1 = K * (q - 1) + (r - 1)
    BY <1>6
  <2>. HIDE DEF q, r
  <2>2. (N + j) - 1 = K * k + (r - 1)
    <3>1. K * (level * K + q) = level * (K * K) + K * q /\ K * (q - 1) = K * q - K
      BY <1>1, <2>1
    <3>2. level * (K * K) \in Int /\ K * q \in Int
      BY <1>1, <2>1
    <3>3. (N + j) - 1 = N + (j - 1) /\ N = K + level * (K * K) /\ j \in Int
      BY <1>1, <1>8 DEF M
    <3>. HIDE DEF N
    <3>. QED  BY <2>1, <3>1, <3>2, <3>3, <1>1, <1>8
  <2>3. k \in Int /\ r - 1 \in 0..(K - 1) /\ (N + j) - 1 \in Int
    <3>1. level * K \in Int
      BY <1>1
    <3>2. M \in Nat
      BY <1>1
    <3>. QED  BY <1>1, <1>8, <2>1, <3>1, <3>2
  <2>4. ((N + j) - 1) \div K = k
    <3>. HIDE DEF k
    <3>. QED  BY <1>1, <2>2, <2>3, QuotientIs
  <2>5. k + 1 = P + q
    <3>1. level * K \in Int
      BY <1>1
    <3>. QED  BY <1>8, <2>1, <3>1
  <2>. QED  BY <2>4, <2>5 DEF q
<1>21. ASSUME NEW c \in 1..(N + M)
       PROVE  scores_list'[c] <= 0 /\ logp'[c] <= 0 /\ Linked(c)'
  <2>. DEFINE a == ((c - 1) \div K) + 1
  <2>0. DraftParent(c - 1)' = parents_list'[a]
    BY DEF DraftParent
  <2>. HIDE DEF a
  <2>1. CASE c \in 1..N
    <3>. DEFINE p == DraftParent(c - 1)
    <3>1. parents_list'[a] = p
      BY <2>1, <1>16, <1>19 DEF DraftParent, a
    <3>2. /\ scores_list[c] <= 0 /\ logp[c] <= 0
          /\ p \in 0..(c - 1)
          /\ p = 0 => lineage[c] = <<ss_token[c]>> /\ scores_list[c] = logp[c]
          /\ p # 0 => /\ lineage[c] = Append(lineage[p], ss_token[c])
                      /\ scores_list[c] = scores_list[p] + logp[c]
      BY <2>1, <1>1 DEF ListsLinked, Linked
    <3>. HIDE DEF p
    <3>3. p # 0 => p \in 1..N
      <4>1. c \in 1..N /\ N \in Nat /\ p \in 0..(c - 1)
        BY <2>1, <3>2, <1>8
      <4>. HIDE DEF N
      <4>. QED  BY <4>1
    <3>4. /\ scores_list'[c] = scores_list[c] /\ logp'[c] = logp[c]
          /\ lineage'[c] = lineage[c] /\ ss_token'[c] = ss_token[c]
          /\ p # 0 => scores_list'[p] = scores_list[p] /\ lineage'[p] = lineage[p]
      BY <2>1, <3>3, <1>12, <1>13, <1>14, <1>15
    <3>5. DraftParent(c - 1)' = p
      BY <2>0, <3>1
    <3>. QED  BY <3>2, <3>4, <3>5 DEF Linked
  <2>2. CASE c \notin 1..N
    <3>. DEFINE j == c - N
                k == SlotOf(j)
                p == b(k)
    <3>1. j \in 1..M /\ c = N + j
      <4>1. M \in Nat
        BY <1>1
      <4>. QED  BY <2>2, <1>8, <4>1
    <3>. HIDE DEF j
    <3>2. k \in 1..K /\ a = P + k
      BY <3>1, <1>6, <1>20 DEF a
    <3>3. parents_list'[a] = p
      BY <3>2, <1>16
    <3>4. /\ new[j].score = beam[k].score + new[j].logp
          /\ new[j].lineage = Append(beam[k].lineage, new[j].token)
          /\ new[j].score <= 0 /\ new[j].logp <= 0
      BY <3>1, <1>6
    <3>5. p \in 1..N /\ beam[k].score = scores_list[p] /\ beam[k].lineage = lineage[p]
      BY <3>2, <1>7
    <3>. HIDE DEF p, k
    <3>6. /\ scores_list'[c] = new[j].score /\ logp'[c] = new[j].logp
          /\ lineage'[c] = new[j].lineage /\ ss_token'[c] = new[j].token
          /\ scores_list'[p] = scores_list[p] /\ lineage'[p] = lineage[p]
      BY <3>1, <3>5, <1>12, <1>13, <1>14, <1>15
    <3>7. p \in 0..(c - 1) /\ p # 0
      <4>1. M \in Nat
        BY <1>1
      <4>. QED  BY <3>1, <3>5, <1>8, <4>1
    <3>8. DraftParent(c - 1)' = p
      BY <2>0, <3>3
    <3>. QED  BY <3>4, <3>5, <3>6, <3>7, <3>8 DEF Linked
  <2>. QED  BY <2>1, <2>2
<1>22. ListsLinked'
  BY <1>12, <1>21 DEF ListsLinked
<1>23. BeamOK'
  <2>1. Bias(level)' = N + 1
    <3>1. Bias(level)' = Bias(level + 1)
      BY <1>3 DEF Bias
    <3>. QED  BY <1>1, <3>1, BiasNext
  <2>2. ASSUME NEW k \in 1..K
        PROVE  /\ beam'[k] \in [index : Nat, score : Int, lineage : Seq(Vocab)]
               /\ beam'[k].index + (N + 1) = N + pick[k] /\ pick[k] \in 1..M
               /\ beam'[k].score = new[pick[k]].score
               /\ beam'[k].lineage = new[pick[k]].lineage
    <3>1. pick[k] \in 1..M /\ M \in Nat
      BY <1>1
    <3>2. beam'[k] = [index |-> pick[k] - 1, score |-> new[pick[k]].score,
                      lineage |-> new[pick[k]].lineage]
      BY <1>4
    <3>3. new[pick[k]].score \in Int /\ new[pick[k]].lineage \in Seq(Vocab)
      BY <1>6, <3>1
    <3>4. pick[k] - 1 \in Nat /\ (pick[k] - 1) + (N + 1) = N + pick[k]
      BY <1>8, <3>1
    <3>. QED  BY <3>1, <3>2, <3>3, <3>4
  <2>3. beam' \in [1..K -> [index : Nat, score : Int, lineage : Seq(Vocab)]]
    BY <1>4, <2>2
  <2>4. ASSUME NEW k \in 1..K
        PROVE  /\ beam'[k].index + Bias(level)' \in 1..Len(scores_list')
               /\ beam'[k].score = scores_list'[beam'[k].index + Bias(level)']
               /\ beam'[k].lineage = lineage'[beam'[k].index + Bias(level)']
    <3>1. beam'[k].index + Bias(level)' = N + pick[k] /\ pick[k] \in 1..M
      BY <2>1, <2>2
    <3>2. N + pick[k] \in 1..(N + M)
      <4>1. M \in Nat
        BY <1>1
      <4>. QED  BY <3>1, <1>8, <4>1
    <3>3. /\ scores_list'[N + pick[k]] = new[pick[k]].score
          /\ lineage'[N + pick[k]] = new[pick[k]].lineage
      BY <3>1, <1>12, <1>14
    <3>. QED  BY <2>2, <3>1, <3>2, <3>3, <1>12
  <2>. QED  BY <2>3, <2>4 DEF BeamOK
<1>24. /\ pc' \in {"expand", "rerank"}
       /\ IF pc' = "expand" THEN level' < D ELSE level' = D
  BY <1>1, <1>3
<1>. QED  BY <1>18, <1>22, <1>23, <1>24 DEF BuildInv

-----------------------------------------------------------------------------
(* The rerank.                                                             *)

\* The candidates that score at least, or more than, candidate c.
AtLeast(scores, c) == {b \in DOMAIN scores : scores[b] >= scores[c]}
Above(scores, c) == {b \in DOMAIN scores : scores[b] > scores[c]}

\* torch.topk takes `total` candidates, and nobody scores more than one taken and
\* is left.
LEMMA TopkTakes ==
  ASSUME NEW n \in Nat, NEW scores \in [1..n -> Int], NEW total \in Nat,
         NEW chosen \in TopkOf(scores, total)
  PROVE  /\ chosen \in SUBSET (1..n) /\ IsFiniteSet(chosen)
         /\ Cardinality(chosen) = total
         /\ \A c \in chosen, b \in 1..n : scores[b] > scores[c] => b \in chosen
<1>. DEFINE sure == {c \in DOMAIN scores : Cardinality(AtLeast(scores, c)) <= total}
            tied == {c \in DOMAIN scores \ sure : Cardinality(Above(scores, c)) < total}
<1>1. PICK some : /\ some \in SUBSET tied /\ Cardinality(some) = total - Cardinality(sure)
                  /\ chosen = sure \cup some
  BY DEF TopkOf, kSubset, AtLeast, Above
<1>2. DOMAIN scores = 1..n /\ IsFiniteSet(1..n)
  <2>1. n \in Int /\ 1 \in Int
    OBVIOUS
  <2>. QED  BY <2>1, FS_Interval
<1>3. sure \in SUBSET (1..n) /\ some \in SUBSET (1..n) /\ sure \cap some = {}
  BY <1>1, <1>2
<1>4. \A c \in sure : c \in 1..n /\ Cardinality(AtLeast(scores, c)) <= total
  BY <1>2
<1>5. \A c \in some : c \in 1..n /\ Cardinality(Above(scores, c)) < total
  BY <1>1, <1>2
<1>6. \A b \in 1..n : Cardinality(AtLeast(scores, b)) <= total => b \in sure
  BY <1>2
<1>. HIDE DEF sure, tied
<1>7. IsFiniteSet(sure) /\ IsFiniteSet(some) /\ Cardinality(sure) \in Nat
  BY <1>2, <1>3, FS_Subset, FS_CardinalityType
<1>8. Cardinality(chosen) = total /\ IsFiniteSet(chosen)
  <2>1. /\ IsFiniteSet(chosen)
        /\ Cardinality(chosen) = Cardinality(sure) + Cardinality(some) - Cardinality(sure \cap some)
    BY <1>1, <1>7, FS_Union
  <2>2. Cardinality(sure \cap some) = 0
    BY <1>3, FS_EmptySet
  <2>. QED  BY <2>1, <2>2, <1>1, <1>7
<1>9. ASSUME NEW c \in chosen, NEW b \in 1..n, scores[b] > scores[c]
      PROVE  b \in chosen
  <2>. DEFINE A == AtLeast(scores, b)
              B == AtLeast(scores, c)
              C == Above(scores, c)
  <2>1. c \in 1..n /\ scores[c] \in Int /\ \A x \in 1..n : scores[x] \in Int
    BY <1>1, <1>3
  <2>2. /\ A \in SUBSET B /\ A \in SUBSET C /\ B \in SUBSET (1..n) /\ C \in SUBSET (1..n)
    BY <1>2, <1>9, <2>1 DEF AtLeast, Above
  <2>. HIDE DEF A, B, C
  <2>3. /\ IsFiniteSet(A) /\ IsFiniteSet(B) /\ IsFiniteSet(C)
    BY <1>2, <2>2, FS_Subset
  <2>4. /\ Cardinality(A) \in Nat /\ Cardinality(B) \in Nat /\ Cardinality(C) \in Nat
        /\ Cardinality(A) <= Cardinality(B) /\ Cardinality(A) <= Cardinality(C)
    BY <2>2, <2>3, FS_Subset, FS_CardinalityType
  <2>5. Cardinality(B) <= total \/ Cardinality(C) < total
    BY <1>1, <1>4, <1>5 DEF B, C
  <2>6. Cardinality(A) <= total
    BY <2>4, <2>5
  <2>. QED  BY <1>1, <1>6, <2>6 DEF A
<1>. QED  BY <1>1, <1>3, <1>8, <1>9

\* What the rerank keeps is closed under the parents of the index arithmetic.
LEMMA ParentsAreChosen ==
  ASSUME ListsTyped, ListsLinked,
         NEW chosen \in Reranked(scores_list, total_tokens), NEW c \in chosen
  PROVE  /\ chosen \in SUBSET (1..Len(scores_list))
         /\ DraftParent(c - 1) \in 0..(c - 1)
         /\ DraftParent(c - 1) # 0 => DraftParent(c - 1) \in chosen
<1>. DEFINE N == Len(scores_list)
            p == DraftParent(c - 1)
<1>1. /\ N \in Nat /\ scores_list \in [1..N -> Int] /\ DOMAIN scores_list = 1..N
      /\ lineage \in Seq(Seq(Vocab)) /\ Len(lineage) = N /\ Len(logp) = N
      /\ logp \in Seq(Int) /\ ss_token \in Seq(Vocab) /\ Len(ss_token) = N
      /\ total_tokens \in Nat
  BY TreeAssumption DEF ListsTyped
<1>. HIDE DEF N
<1>2. /\ chosen \in TopkOf(scores_list, total_tokens)
      /\ \A b \in 1..N \ chosen :
           scores_list[b] = scores_list[c] => lineage[b] # Front(lineage[c])
  BY <1>1 DEF Reranked
<1>3. /\ chosen \in SUBSET (1..N)
      /\ \A b \in 1..N : scores_list[b] > scores_list[c] => b \in chosen
  BY <1>1, <1>2, TopkTakes
<1>4. /\ c \in 1..N /\ c \in Nat /\ p \in 0..(c - 1) /\ logp[c] <= 0
      /\ p # 0 => /\ lineage[c] = Append(lineage[p], ss_token[c])
                  /\ scores_list[c] = scores_list[p] + logp[c]
  <2>1. c \in 1..N /\ c \in Nat
    BY <1>1, <1>3
  <2>2. Linked(c) /\ logp[c] <= 0
    BY <2>1 DEF ListsLinked, N
  <2>. QED  BY <2>1, <2>2 DEF Linked
<1>. HIDE DEF p
<1>5. ASSUME p # 0
      PROVE  p \in chosen
  <2>1. p \in 1..N
    BY <1>1, <1>4, <1>5
  <2>2. /\ scores_list[p] \in Int /\ scores_list[c] \in Int /\ logp[c] \in Int
        /\ lineage[p] \in Seq(Vocab) /\ ss_token[c] \in Vocab
    BY <1>1, <1>4, <2>1
  <2>3. CASE scores_list[p] > scores_list[c]
    BY <1>3, <2>1, <2>3
  <2>4. CASE scores_list[p] = scores_list[c]
    <3>1. Front(Append(lineage[p], ss_token[c])) = lineage[p]
      <4>. DEFINE l == lineage[p]
                  e == ss_token[c]
      <4>1. l \in Seq(Vocab) /\ e \in Vocab
        BY <2>2
      <4>. HIDE DEF l, e
      <4>2. Front(Append(l, e)) = l
        BY <4>1 DEF Front
      <4>. QED  BY <4>2 DEF l, e
    <3>2. Front(lineage[c]) = lineage[p]
      BY <1>4, <1>5, <3>1
    <3>. QED  BY <1>2, <2>1, <2>4, <3>2
  <2>5. scores_list[p] >= scores_list[c]
    BY <1>4, <1>5, <2>2
  <2>. QED  BY <2>2, <2>3, <2>4, <2>5
<1>. QED  BY <1>3, <1>4, <1>5 DEF p, N

\* Where the rerank finds the parent of its v-th candidate: at the position of the
\* candidate the index arithmetic names, which comes before v.
LEMMA MaskIndexFinds ==
  ASSUME ListsTyped, ListsLinked, NEW chosen \in Reranked(scores_list, total_tokens),
         NEW s \in [1..total_tokens -> Int],
         \A i, j \in 1..total_tokens : i < j => s[i] < s[j],
         \A i \in 1..total_tokens : s[i] + 1 \in chosen,
         \A c \in chosen : \E i \in 1..total_tokens : s[i] = c - 1,
         NEW v \in 1..total_tokens
  PROVE  /\ MaskIndex(s, s[v]) \in 0..total_tokens /\ MaskIndex(s, s[v]) < v
         /\ MaskIndex(s, s[v]) = 0 <=> DraftParent(s[v]) = 0
         /\ DraftParent(s[v]) # 0 => s[MaskIndex(s, s[v])] + 1 = DraftParent(s[v])
<1>. DEFINE p == DraftParent(s[v])
            c == s[v] + 1
            u == MaskIndex(s, s[v])
<1>1. total_tokens \in Nat
  BY TreeAssumption DEF ListsTyped
<1>2. c \in chosen /\ c - 1 = s[v] /\ s[v] \in Int
  OBVIOUS
<1>3. p \in 0..(c - 1) /\ (p # 0 => p \in chosen)
  <2>1. /\ DraftParent(c - 1) \in 0..(c - 1)
        /\ DraftParent(c - 1) # 0 => DraftParent(c - 1) \in chosen
    <3>. HIDE DEF c
    <3>. QED  BY <1>2, ParentsAreChosen
  <2>. HIDE DEF c
  <2>. QED  BY <1>2, <2>1
<1>. HIDE DEF p, c
<1>4. CASE p = 0
  <2>1. u = 0
    BY <1>4 DEF MaskIndex, p
  <2>. HIDE DEF u
  <2>. QED  BY <1>1, <1>4, <2>1 DEF p, u
<1>5. CASE p # 0
  <2>1. PICK i \in 1..total_tokens : s[i] = p - 1
    BY <1>3, <1>5
  <2>2. SearchSorted(s, s[i]) = i - 1
    BY <1>1, SearchFinds
  <2>3. u = SearchSorted(s, p - 1) + 1
    BY <1>5 DEF MaskIndex, p
  <2>4. u = i
    <3>. HIDE DEF u
    <3>. QED  BY <1>1, <2>1, <2>2, <2>3
  <2>. HIDE DEF u
  <2>5. s[i] < s[v] /\ s[i] \in Int
    BY <1>2, <1>3, <1>5, <2>1
  <2>6. i < v
    <3>1. v < i => s[v] < s[i]
      OBVIOUS
    <3>. QED  BY <1>1, <1>2, <2>5, <3>1
  <2>7. s[u] + 1 = p
    BY <1>2, <1>3, <2>1, <2>4
  <2>. QED  BY <1>1, <1>5, <2>4, <2>6, <2>7 DEF u, p
<1>. QED  BY <1>4, <1>5

\* The selection, in order.
LEMMA SelectionIsListed ==
  ASSUME ListsTyped, NEW chosen \in Reranked(scores_list, total_tokens)
  PROVE  LET s == Ascending({c - 1 : c \in chosen})
         IN  /\ s \in [1..total_tokens -> Int]
             /\ \A i, j \in 1..total_tokens : i < j => s[i] < s[j]
             /\ \A i \in 1..total_tokens : s[i] + 1 \in chosen
             /\ \A c \in chosen : \E i \in 1..total_tokens : s[i] = c - 1
<1>. DEFINE S == {c - 1 : c \in chosen}
            f == [c \in chosen |-> c - 1]
            N == Len(scores_list)
<1>1. /\ N \in Nat /\ scores_list \in [1..N -> Int] /\ total_tokens \in Nat
      /\ chosen \in TopkOf(scores_list, total_tokens)
  BY TreeAssumption DEF ListsTyped, Reranked
<1>. HIDE DEF N
<1>2. /\ chosen \in SUBSET (1..N) /\ IsFiniteSet(chosen)
      /\ Cardinality(chosen) = total_tokens
  BY <1>1, TopkTakes
<1>3. f \in Surjection(chosen, S) /\ f \in Injection(chosen, S)
  BY <1>1, <1>2 DEF Surjection, Injection, IsInjective
<1>4. S \in SUBSET Int /\ \A x \in S : x + 1 \in chosen
  BY <1>1, <1>2
<1>5. \A c \in chosen : c - 1 \in S
  OBVIOUS
<1>. HIDE DEF f, S
<1>6. IsFiniteSet(S) /\ Cardinality(S) = total_tokens
  BY <1>2, <1>3, FS_Surjection
<1>. DEFINE s == Ascending(S)
<1>7. /\ s \in [1..total_tokens -> S]
      /\ \A i, j \in 1..total_tokens : i < j => s[i] < s[j]
      /\ \A x \in S : \E j \in 1..total_tokens : s[j] = x
  BY <1>4, <1>6, AscendingLists
<1>. HIDE DEF s
<1>8. \A i \in 1..total_tokens : s[i] \in S
  BY <1>7
<1>9. s \in [1..total_tokens -> Int] /\ \A i \in 1..total_tokens : s[i] + 1 \in chosen
  BY <1>4, <1>7, <1>8
<1>10. \A c \in chosen : \E i \in 1..total_tokens : s[i] = c - 1
  BY <1>5, <1>7
<1>. QED  BY <1>7, <1>9, <1>10 DEF s, S

\* The rerank rebuilds a tree whose edges are the candidates' own.
LEMMA RerankKeeps ==
  ASSUME BuildInv, Rerank
  PROVE  BuildInv'
<1>1. PICK chosen \in Reranked(scores_list, total_tokens) :
        top' = Ascending({c - 1 : c \in chosen})
  BY DEF Rerank
<1>2. /\ mask_index' = [v \in 1..total_tokens |-> MaskIndex(top', top'[v])]
      /\ tree_mask' = TreeMask(mask_index') /\ pc' = "retrieve"
      /\ UNCHANGED <<total_tokens, level, lists, beam, retrieve_indices>>
      /\ pc = "rerank"
  BY DEF Rerank
<1>3. ListsTyped /\ ListsLinked /\ BeamOK /\ level = D
  BY <1>2 DEF BuildInv
<1>4. total_tokens \in Nat \ {0}
  BY <1>3, TreeAssumption DEF ListsTyped
<1>. DEFINE t == total_tokens
            s == top'
            mi == mask_index'
<1>5. /\ s \in [1..t -> Int] /\ \A i, j \in 1..t : i < j => s[i] < s[j]
      /\ \A i \in 1..t : s[i] + 1 \in chosen
      /\ \A c \in chosen : \E i \in 1..t : s[i] = c - 1
  BY <1>1, <1>3, SelectionIsListed
<1>6. ASSUME NEW v \in 1..t
      PROVE  /\ mi[v] \in 0..t /\ mi[v] < v
             /\ mi[v] = 0 <=> DraftParent(s[v]) = 0
             /\ DraftParent(s[v]) # 0 => s[mi[v]] + 1 = DraftParent(s[v])
             /\ s[v] + 1 \in 1..Len(scores_list) /\ (s[v] + 1) - 1 = s[v]
  <2>1. mi[v] = MaskIndex(s, s[v])
    BY <1>2
  <2>2. /\ MaskIndex(s, s[v]) \in 0..t /\ MaskIndex(s, s[v]) < v
        /\ MaskIndex(s, s[v]) = 0 <=> DraftParent(s[v]) = 0
        /\ DraftParent(s[v]) # 0 => s[MaskIndex(s, s[v])] + 1 = DraftParent(s[v])
    <3>. HIDE DEF s
    <3>. QED  BY <1>3, <1>5, MaskIndexFinds
  <2>3. s[v] + 1 \in chosen /\ s[v] \in Int
    BY <1>5
  <2>4. s[v] + 1 \in 1..Len(scores_list)
    BY <1>3, <2>3, ParentsAreChosen
  <2>. QED  BY <2>1, <2>2, <2>3, <2>4
<1>7. IsTree(mi)
  <2>1. mi \in [1..t -> 0..t]
    BY <1>2, <1>6
  <2>. QED  BY <1>4, <1>6, <2>1 DEF IsTree
<1>8. IsMask(tree_mask', mi)
  BY <1>2, <1>7, MaskIsFilled
<1>9. TreeIsBuilt'
  BY <1>2, <1>7, <1>8 DEF TreeIsBuilt, IsTree, IsMask
<1>10. ASSUME NEW v \in 1..t
       PROVE  /\ mi[v] = 0 =>
                   /\ lineage[s[v] + 1] = <<ss_token[s[v] + 1]>>
                   /\ scores_list[s[v] + 1] = logp[s[v] + 1]
              /\ mi[v] # 0 =>
                   /\ lineage[s[v] + 1] = Append(lineage[s[mi[v]] + 1], ss_token[s[v] + 1])
                   /\ scores_list[s[v] + 1] = scores_list[s[mi[v]] + 1] + logp[s[v] + 1]
  <2>. DEFINE c == s[v] + 1
              p == DraftParent(s[v])
  <2>1. Linked(c) /\ DraftParent(c - 1) = p
    BY <1>3, <1>6 DEF ListsLinked
  <2>2. /\ p = 0 => lineage[c] = <<ss_token[c]>> /\ scores_list[c] = logp[c]
        /\ p # 0 => /\ lineage[c] = Append(lineage[p], ss_token[c])
                    /\ scores_list[c] = scores_list[p] + logp[c]
    BY <2>1 DEF Linked
  <2>3. (mi[v] = 0 <=> p = 0) /\ (p # 0 => s[mi[v]] + 1 = p)
    BY <1>6
  <2>. QED  BY <2>2, <2>3
<1>11. SelectionLinked(top, mask_index)'
  BY <1>2, <1>6, <1>10 DEF SelectionLinked, lists
<1>12. ListsTyped' /\ ListsLinked' /\ BeamOK'
  BY <1>2, <1>3 DEF ListsTyped, ListsLinked, Linked, DraftParent, BeamOK, Bias, lists
<1>13. pc' = "retrieve" /\ level' = D
  BY <1>2, <1>3
<1>. QED  BY <1>9, <1>11, <1>12, <1>13 DEF BuildInv

-----------------------------------------------------------------------------
(* The table of rows.                                                      *)

\* While the tree stays, rows that are its rows stay them.
LEMMA RowsStay ==
  ASSUME UNCHANGED <<total_tokens, mask_index, tree_mask>>, RowsAre(retrieve_indices')
  PROVE  RowsAre(retrieve_indices)'
<1>1. Leaves' = Leaves
  BY DEF Leaves
<1>2. Width' = Width
  BY DEF Width, PositionId
<1>3. tree_mask' = tree_mask
  OBVIOUS
<1>. QED  BY <1>1, <1>2, <1>3 DEF RowsAre, Padded, Path

\* Reading the rows off the tree.
LEMMA RetrieveKeeps ==
  ASSUME BuildInv, Retrieve
  PROVE  BuildInv'
<1>1. /\ pc = "retrieve" /\ pc' \in {"sort", "done"}
      /\ UNCHANGED <<total_tokens, level, lists, beam, top, mask_index, tree_mask>>
      /\ retrieve_indices' = [r \in 1..Len(Ascending(Leaves)) |->
                                PathTo(Ascending(Leaves)[r], Width)]
  BY DEF Retrieve, Width
<1>2. /\ ListsTyped /\ ListsLinked /\ BeamOK /\ level = D
      /\ TreeIsBuilt /\ SelectionLinked(top, mask_index)
  BY <1>1 DEF BuildInv
<1>3. RowsAre(retrieve_indices')
  BY <1>1, <1>2, RetrieveRows
<1>4. RowsAre(retrieve_indices)'
  BY <1>1, <1>3, RowsStay
<1>5. ListsTyped' /\ ListsLinked' /\ BeamOK'
  BY <1>1, <1>2 DEF ListsTyped, ListsLinked, Linked, DraftParent, BeamOK, Bias, lists
<1>6. TreeIsBuilt' /\ SelectionLinked(top, mask_index)'
  BY <1>1, <1>2 DEF TreeIsBuilt, IsTree, IsMask, SelectionLinked, lists
<1>. QED  BY <1>1, <1>2, <1>4, <1>5, <1>6 DEF BuildInv

\* custom_sort's key of one entry.
SortKey(x) == IF x >= 0 THEN x ELSE total_tokens + 5

\* The rows' order is a strict total order on rows.
LEMMA RowOrder ==
  ASSUME total_tokens \in Nat, NEW w \in Nat,
         NEW a, NEW b, NEW c, IsRow(a, w), IsRow(b, w), IsRow(c, w)
  PROVE  /\ ~RowBefore(a, a)
         /\ RowBefore(a, b) /\ RowBefore(b, c) => RowBefore(a, c)
         /\ a # b => RowBefore(a, b) \/ RowBefore(b, a)
<1>. DEFINE T == (0..total_tokens) \cup {Pad}
<1>1. /\ a \in [1..w -> T] /\ b \in [1..w -> T] /\ c \in [1..w -> T]
      /\ Len(a) = w /\ Len(b) = w /\ Len(c) = w
  BY DEF IsRow
<1>2. /\ \A x \in T : SortKey(x) \in Int
      /\ \A x, y \in T : SortKey(x) = SortKey(y) => x = y
  BY DEF SortKey, Pad
<1>. HIDE DEF T
<1>3. /\ \A i \in 1..w : a[i] \in T /\ b[i] \in T /\ c[i] \in T
      /\ \A i \in 1..w : SortKey(a[i]) \in Int /\ SortKey(b[i]) \in Int /\ SortKey(c[i]) \in Int
  BY <1>1, <1>2
<1>4. /\ RowBefore(a, a) <=> \E j \in 1..w : /\ SortKey(a[j]) < SortKey(a[j])
                                            /\ \A i \in 1..(j - 1) : a[i] = a[i]
      /\ RowBefore(a, b) <=> \E j \in 1..w : /\ SortKey(a[j]) < SortKey(b[j])
                                            /\ \A i \in 1..(j - 1) : a[i] = b[i]
      /\ RowBefore(b, a) <=> \E j \in 1..w : /\ SortKey(b[j]) < SortKey(a[j])
                                            /\ \A i \in 1..(j - 1) : b[i] = a[i]
      /\ RowBefore(b, c) <=> \E j \in 1..w : /\ SortKey(b[j]) < SortKey(c[j])
                                            /\ \A i \in 1..(j - 1) : b[i] = c[i]
      /\ RowBefore(a, c) <=> \E j \in 1..w : /\ SortKey(a[j]) < SortKey(c[j])
                                            /\ \A i \in 1..(j - 1) : a[i] = c[i]
  BY <1>1 DEF RowBefore, SortKey
<1>5. ~RowBefore(a, a)
  BY <1>3, <1>4
<1>6. ASSUME RowBefore(a, b), RowBefore(b, c)
      PROVE  RowBefore(a, c)
  <2>1. PICK j \in 1..w : /\ SortKey(a[j]) < SortKey(b[j]) /\ \A i \in 1..(j - 1) : a[i] = b[i]
    BY <1>4, <1>6
  <2>2. PICK k \in 1..w : /\ SortKey(b[k]) < SortKey(c[k]) /\ \A i \in 1..(k - 1) : b[i] = c[i]
    BY <1>4, <1>6
  <2>3. CASE j < k
    <3>1. j \in 1..(k - 1) /\ \A i \in 1..(j - 1) : i \in 1..(k - 1)
      BY <2>3
    <3>2. b[j] = c[j] /\ \A i \in 1..(j - 1) : a[i] = c[i]
      BY <2>1, <2>2, <3>1
    <3>. QED  BY <1>4, <2>1, <3>2
  <2>4. CASE k < j
    <3>1. k \in 1..(j - 1) /\ \A i \in 1..(k - 1) : i \in 1..(j - 1)
      BY <2>4
    <3>2. a[k] = b[k] /\ \A i \in 1..(k - 1) : a[i] = c[i]
      BY <2>1, <2>2, <3>1
    <3>. QED  BY <1>4, <2>2, <3>2
  <2>5. CASE j = k
    <3>1. SortKey(a[j]) < SortKey(c[j])
      BY <1>3, <2>1, <2>2, <2>5
    <3>2. \A i \in 1..(j - 1) : a[i] = c[i]
      BY <2>1, <2>2, <2>5
    <3>. QED  BY <1>4, <3>1, <3>2
  <2>. QED  BY <2>3, <2>4, <2>5
<1>7. ASSUME a # b
      PROVE  RowBefore(a, b) \/ RowBefore(b, a)
  <2>. DEFINE U == {i \in 1..w : a[i] # b[i]}
  <2>1. U \in SUBSET Nat /\ U # {}
    BY <1>1, <1>7
  <2>2. PICK j \in U : \A i \in U : j <= i
    <3>. HIDE DEF U
    <3>. QED  BY <2>1, LeastNatural
  <2>3. j \in 1..w /\ a[j] # b[j]
    OBVIOUS
  <2>4. \A i \in 1..(j - 1) : i \in 1..w /\ ~(j <= i)
    BY <2>3
  <2>5. \A i \in 1..(j - 1) : a[i] = b[i]
    BY <2>2, <2>4
  <2>6. SortKey(a[j]) # SortKey(b[j])
    BY <1>2, <1>3, <2>3
  <2>7. SortKey(a[j]) < SortKey(b[j]) \/ SortKey(b[j]) < SortKey(a[j])
    BY <1>3, <2>3, <2>6
  <2>. QED  BY <1>4, <2>3, <2>5, <2>7
<1>. QED  BY <1>5, <1>6, <1>7

\* Where a row ends up: the rows sooner than it.
Sooners(r) == {q \in DOMAIN retrieve_indices : Sooner(q, r)}

\* Sorting the rows permutes them.
LEMMA SortPermutes ==
  ASSUME TreeIsBuilt, RowsAre(retrieve_indices)
  PROVE  RowsAre([j \in DOMAIN retrieve_indices |->
                    retrieve_indices[CHOOSE r \in DOMAIN retrieve_indices :
                      Cardinality({q \in DOMAIN retrieve_indices : Sooner(q, r)}) = j - 1]])
<1>. DEFINE n == Cardinality(Leaves)
            rs == retrieve_indices
            I == 1..n
            R == {e \in I \X I : Sooner(e[1], e[2])}
<1>1. PICK f \in Bijection(I, Leaves) :
           /\ n \in Nat \ {0} /\ DOMAIN rs = I
           /\ \A r \in I : rs[r] = Padded(Path(f[r]), Width) /\ IsRow(rs[r], Width)
  <2>1. RowsAre(rs)
    OBVIOUS
  <2>. HIDE DEF rs
  <2>. QED  BY <2>1, RowFacts
<1>. HIDE DEF n
<1>2. IsFiniteSet(I) /\ Cardinality(I) = n
  <2>1. n \in Int /\ 1 \in Int
    BY <1>1
  <2>2. Cardinality(I) = IF 1 > n THEN 0 ELSE n - 1 + 1
    BY <2>1, FS_Interval
  <2>. QED  BY <1>1, <2>1, <2>2, FS_Interval
<1>3. total_tokens \in Nat /\ Width \in Nat
  BY WidthFacts DEF TreeIsBuilt, IsTree
<1>4. ASSUME NEW x \in I, NEW y \in I
      PROVE  /\ <<x, y>> \in R <=> RowBefore(rs[x], rs[y]) \/ (rs[x] = rs[y] /\ x < y)
             /\ x \in Int
  BY DEF Sooner
<1>. HIDE DEF R
<1>5. ASSUME NEW x \in I, NEW y \in I, NEW z \in I
      PROVE  /\ <<x, y>> \in R /\ <<y, z>> \in R => <<x, z>> \in R
             /\ <<x, x>> \notin R
             /\ x # y => <<x, y>> \in R \/ <<y, x>> \in R
  <2>1. /\ IsRow(rs[x], Width) /\ IsRow(rs[y], Width) /\ IsRow(rs[z], Width)
    BY <1>1
  <2>. DEFINE a == rs[x]
              b == rs[y]
              c == rs[z]
  <2>2. /\ ~RowBefore(a, a)
        /\ RowBefore(a, b) /\ RowBefore(b, c) => RowBefore(a, c)
        /\ a # b => RowBefore(a, b) \/ RowBefore(b, a)
    <3>. HIDE DEF a, b, c
    <3>1. IsRow(a, Width) /\ IsRow(b, Width) /\ IsRow(c, Width)
      BY <2>1 DEF a, b, c
    <3>. QED  BY <1>3, <3>1, RowOrder
  <2>3. /\ <<x, y>> \in R <=> RowBefore(a, b) \/ (a = b /\ x < y)
        /\ <<y, x>> \in R <=> RowBefore(b, a) \/ (b = a /\ y < x)
        /\ <<y, z>> \in R <=> RowBefore(b, c) \/ (b = c /\ y < z)
        /\ <<x, z>> \in R <=> RowBefore(a, c) \/ (a = c /\ x < z)
        /\ <<x, x>> \in R <=> RowBefore(a, a) \/ (a = a /\ x < x)
        /\ x \in Int /\ y \in Int /\ z \in Int
    BY <1>4
  <2>. HIDE DEF a, b, c
  <2>4. x < y /\ y < z => x < z
    BY <2>3
  <2>5. ~(x < x) /\ (x # y => x < y \/ y < x)
    BY <2>3
  <2>6. <<x, y>> \in R /\ <<y, z>> \in R => <<x, z>> \in R
    BY <2>2, <2>3, <2>4
  <2>. QED  BY <2>2, <2>3, <2>5, <2>6
<1>6. /\ \A x \in I : Cardinality(Below(I, R, x)) \in 0..(n - 1)
      /\ \A x, y \in I : <<x, y>> \in R =>
           Cardinality(Below(I, R, x)) < Cardinality(Below(I, R, y))
      /\ \A j \in 1..n : \E x \in I : Cardinality(Below(I, R, x)) = j - 1
  <2>. HIDE DEF I
  <2>1. /\ \A x, y, z \in I : <<x, y>> \in R /\ <<y, z>> \in R => <<x, z>> \in R
        /\ \A x \in I : <<x, x>> \notin R
        /\ \A x, y \in I : x # y => <<x, y>> \in R \/ <<y, x>> \in R
    BY <1>5
  <2>. QED  BY <1>2, <2>1, Ranked
<1>7. ASSUME NEW x \in I
      PROVE  Below(I, R, x) = Sooners(x)
  <2>1. \A q \in I : <<q, x>> \in R <=> Sooner(q, x)
    BY DEF R
  <2>. QED  BY <1>1, <2>1 DEF Below, Sooners
<1>. DEFINE g == [j \in I |-> CHOOSE r \in I : Cardinality(Sooners(r)) = j - 1]
            h == [j \in I |-> f[g[j]]]
<1>8. ASSUME NEW j \in I
      PROVE  g[j] \in I /\ Cardinality(Sooners(g[j])) = j - 1
  <2>1. \E r \in I : Cardinality(Sooners(r)) = j - 1
    BY <1>6, <1>7
  <2>. QED  BY <2>1
<1>9. [j \in DOMAIN rs |->
         rs[CHOOSE r \in DOMAIN rs :
              Cardinality({q \in DOMAIN rs : Sooner(q, r)}) = j - 1]]
        = [j \in I |-> rs[g[j]]]
  BY <1>1 DEF Sooners
<1>10. g \in [I -> I] /\ \A i, j \in I : g[i] = g[j] => i = j
  <2>1. g \in [I -> I]
    BY <1>8
  <2>. HIDE DEF g
  <2>2. ASSUME NEW i \in I, NEW j \in I, g[i] = g[j]
        PROVE  i = j
    <3>1. i - 1 = j - 1 /\ i \in Int /\ j \in Int
      BY <1>8, <2>2
    <3>. QED  BY <3>1
  <2>. QED  BY <2>1, <2>2
<1>11. g \in Bijection(I, I)
  <2>1. g \in Injection(I, I)
    <3>. HIDE DEF g, I
    <3>. QED  BY <1>10 DEF Injection, IsInjective
  <2>2. g \in Surjection(I, I)
    <3>. HIDE DEF g, I
    <3>. QED  BY <1>2, <2>1, FS_Injection
  <2>. QED  BY <2>1, <2>2 DEF Bijection
<1>. HIDE DEF g, I
<1>12. h \in Bijection(I, Leaves)
  <2>1. f \in [I -> Leaves] /\ (\A i, j \in I : f[i] = f[j] => i = j)
        /\ \A l \in Leaves : \E i \in I : f[i] = l
    BY DEF Bijection, Injection, Surjection, IsInjective
  <2>2. \A i \in I : \E j \in I : g[j] = i
    BY <1>11 DEF Bijection, Surjection
  <2>3. h \in [I -> Leaves]
    BY <1>10, <2>1
  <2>4. \A i, j \in I : h[i] = h[j] => i = j
    BY <1>10, <2>1
  <2>5. \A l \in Leaves : \E j \in I : h[j] = l
    <3>. SUFFICES ASSUME NEW l \in Leaves
                  PROVE  \E j \in I : h[j] = l
      OBVIOUS
    <3>1. PICK i \in I : f[i] = l
      BY <2>1
    <3>2. PICK j \in I : g[j] = i
      BY <2>2
    <3>. QED  BY <3>1, <3>2
  <2>. HIDE DEF h
  <2>. QED  BY <2>3, <2>4, <2>5 DEF Bijection, Injection, Surjection, IsInjective
<1>13. [j \in I |-> rs[g[j]]] = [j \in I |-> Padded(Path(h[j]), Width)]
  BY <1>1, <1>10
<1>. HIDE DEF h
<1>14. [j \in DOMAIN rs |->
         rs[CHOOSE r \in DOMAIN rs :
              Cardinality({q \in DOMAIN rs : Sooner(q, r)}) = j - 1]]
        = [j \in I |-> Padded(Path(h[j]), Width)]
  BY <1>9, <1>13
<1>. QED  BY <1>12, <1>14 DEF RowsAre, I, n

\* Sorting the rows for a sampler.
LEMMA SortKeeps ==
  ASSUME BuildInv, SortRows
  PROVE  BuildInv'
<1>1. /\ pc = "sort" /\ pc' = "done"
      /\ UNCHANGED <<total_tokens, level, lists, beam, top, mask_index, tree_mask>>
      /\ retrieve_indices' =
           [j \in DOMAIN retrieve_indices |->
              retrieve_indices[CHOOSE r \in DOMAIN retrieve_indices :
                Cardinality({q \in DOMAIN retrieve_indices : Sooner(q, r)}) = j - 1]]
  BY DEF SortRows
<1>2. /\ ListsTyped /\ ListsLinked /\ BeamOK /\ level = D
      /\ TreeIsBuilt /\ SelectionLinked(top, mask_index) /\ RowsAre(retrieve_indices)
  BY <1>1 DEF BuildInv
<1>3. RowsAre(retrieve_indices')
  BY <1>1, <1>2, SortPermutes
<1>4. RowsAre(retrieve_indices)'
  BY <1>1, <1>3, RowsStay
<1>5. ListsTyped' /\ ListsLinked' /\ BeamOK'
  BY <1>1, <1>2 DEF ListsTyped, ListsLinked, Linked, DraftParent, BeamOK, Bias, lists
<1>6. TreeIsBuilt' /\ SelectionLinked(top, mask_index)'
  BY <1>1, <1>2 DEF TreeIsBuilt, IsTree, IsMask, SelectionLinked, lists
<1>. QED  BY <1>1, <1>2, <1>4, <1>5, <1>6 DEF BuildInv

\* What holds at every step of the build.
THEOREM BuildIsOrderly == Spec => []BuildInv
<1>1. BuildInv /\ [Next]_vars => BuildInv'
  <2>. SUFFICES ASSUME BuildInv, [Next]_vars
                PROVE  BuildInv'
    OBVIOUS
  <2>1. CASE Expand
    BY <2>1, ExpandKeeps
  <2>2. CASE Rerank
    BY <2>2, RerankKeeps
  <2>3. CASE Retrieve
    BY <2>3, RetrieveKeeps
  <2>4. CASE SortRows
    BY <2>4, SortKeeps
  <2>5. CASE UNCHANGED vars
    <3>1. ListsTyped' /\ ListsLinked' /\ BeamOK'
      BY <2>5 DEF BuildInv, ListsTyped, ListsLinked, Linked, DraftParent, BeamOK, Bias,
                  vars, lists
    <3>2. /\ pc' = pc /\ level' = level
          /\ UNCHANGED <<total_tokens, mask_index, tree_mask>>
          /\ retrieve_indices' = retrieve_indices
      BY <2>5 DEF vars
    <3>3. pc' \in {"retrieve", "sort", "done"} =>
            TreeIsBuilt' /\ SelectionLinked(top, mask_index)'
      BY <2>5 DEF BuildInv, TreeIsBuilt, IsTree, IsMask, SelectionLinked, vars, lists
    <3>4. pc' \in {"sort", "done"} => RowsAre(retrieve_indices)'
      BY <3>2, RowsStay DEF BuildInv
    <3>. QED  BY <3>1, <3>2, <3>3, <3>4 DEF BuildInv
  <2>. QED  BY <2>1, <2>2, <2>3, <2>4, <2>5 DEF Next, Returned
<1>. QED  BY <1>1, BuildInvInit, PTL DEF Spec

\* Once the tree is rebuilt its nodes are the candidates they were made from.
LEMMA NodesAreLinked ==
  ASSUME BuildInv, pc = "done"
  PROVE  TreeIsBuilt /\ NodesLinked /\ RowsAre(retrieve_indices)
<1>1. /\ ListsTyped /\ ListsLinked /\ TreeIsBuilt /\ SelectionLinked(top, mask_index)
      /\ RowsAre(retrieve_indices)
  BY DEF BuildInv
<1>2. ASSUME NEW v \in 1..total_tokens
      PROVE  NodeLinked(v)
  <2>. DEFINE c == Chosen(v)
              u == mask_index[v]
  <2>1. /\ c \in 1..Len(scores_list) /\ c \in 1..Len(logp) /\ c \in 1..Len(ss_token)
        /\ scores_list[c] <= 0 /\ logp[c] <= 0
    BY <1>1 DEF SelectionLinked, ListsTyped, ListsLinked, Chosen
  <2>2. scores_list[c] \in Int /\ logp[c] \in Int /\ ss_token[c] \in Vocab
    <3>1. scores_list \in Seq(Int) /\ logp \in Seq(Int) /\ ss_token \in Seq(Vocab)
      BY <1>1 DEF ListsTyped
    <3>. HIDE DEF c
    <3>. QED  BY <2>1, <3>1
  <2>3. DraftTokens[v] = ss_token[c] /\ CapimScores[v] = scores_list[c]
    BY DEF DraftTokens, CapimScores, Chosen
  <2>4. u # 0 => CapimScores[u] = scores_list[Chosen(u)]
    <3>1. u \in 0..total_tokens
      BY <1>1 DEF TreeIsBuilt, IsTree
    <3>2. total_tokens \in Nat
      BY <1>1 DEF TreeIsBuilt, IsTree
    <3>3. u # 0 => u \in 1..total_tokens
      <4>. HIDE DEF u
      <4>. QED  BY <3>1, <3>2
    <3>. QED  BY <3>3 DEF CapimScores, Chosen
  <2>5. /\ u = 0 => lineage[c] = <<ss_token[c]>> /\ scores_list[c] = logp[c]
        /\ u # 0 => /\ lineage[c] = Append(lineage[Chosen(u)], ss_token[c])
                    /\ scores_list[c] = scores_list[Chosen(u)] + logp[c]
    BY <1>1 DEF SelectionLinked, Chosen
  <2>. QED  BY <2>1, <2>2, <2>3, <2>4, <2>5 DEF NodeLinked
<1>. QED  BY <1>1, <1>2 DEF NodesLinked

\* What the collector relies on.
THEOREM BuilderReturnsDrafts == Spec => []ReturnsWellFormedDraft
<1>1. BuildInv => ReturnsWellFormedDraft
  BY NodesAreLinked, DraftIsWellFormed DEF ReturnsWellFormedDraft
<1>. QED  BY <1>1, BuildIsOrderly, PTL

\* Lineages.
THEOREM BuilderKeepsLineages == Spec => []PathsAreLineages
<1>1. BuildInv => PathsAreLineages
  <2>1. pc # "done" => PathsAreLineages
    BY DEF PathsAreLineages
  <2>. QED  BY <2>1, NodesAreLinked, DraftLineages
<1>. QED  BY <1>1, BuildIsOrderly, PTL

\* Rows.
THEOREM BuilderListsLeaves == Spec => []OneRowPerLeaf
<1>1. BuildInv => OneRowPerLeaf
  <2>1. pc # "done" => OneRowPerLeaf
    BY DEF OneRowPerLeaf
  <2>. QED  BY <2>1, NodesAreLinked, LeafRows
<1>. QED  BY <1>1, BuildIsOrderly, PTL

\* The trees that grow: every position is reached from the root through positions
\* one level up.
LEMMA StaticTreeIsOrdered ==
  ASSUME NEW tree \in Trees
  PROVE  /\ IsFiniteSet(Positions(tree)) /\ Positions(tree) \in SUBSET (Nat \X Nat)
         /\ \A q \in Positions(tree) : q[1] # 0 =>
              /\ ParentPosMap(tree)[q] \in Positions(tree)
              /\ ParentPosMap(tree)[q][1] = q[1] - 1
         /\ \E rank, m : Ordered(tree, ParentPosMap(tree), rank, m)
<1>. DEFINE P == Positions(tree)
            pp == ParentPosMap(tree)
            n == Len(tree)
            at(q) == CHOOSE i \in DOMAIN tree : Pos(tree[i]) = q
            f == [i \in 1..n |-> Pos(tree[i])]
            rank == [q \in P |-> at(q)]
<1>1. /\ n \in Nat /\ DOMAIN tree = 1..n
      /\ \A k \in 1..n :
           /\ tree[k].depth \in Nat /\ tree[k].layer_idx \in Nat
           /\ \A j \in 1..n : Pos(tree[j]) = Pos(tree[k]) => j = k
           /\ tree[k].depth # 0 =>
                /\ tree[k].parent_idx \in 0..(k - 2)
                /\ tree[tree[k].parent_idx + 1].depth = tree[k].depth - 1
  <2>. DEFINE R == [depth : Nat, layer_idx : Nat, parent_idx : Int, accepted : BOOLEAN]
  <2>1. StaticTree(tree)
    BY GrowthAssumption
  <2>2. tree \in Seq(R)
    BY <2>1 DEF StaticTree
  <2>3. \A r \in R : r.depth \in Nat /\ r.layer_idx \in Nat
    OBVIOUS
  <2>. HIDE DEF R
  <2>4. n \in Nat /\ DOMAIN tree = 1..n /\ \A k \in 1..n : tree[k] \in R
    BY <2>2
  <2>. HIDE DEF n
  <2>5. \A k \in DOMAIN tree :
          /\ \A j \in DOMAIN tree : Pos(tree[j]) = Pos(tree[k]) => j = k
          /\ tree[k].depth # 0 =>
               /\ tree[k].parent_idx \in 0..(k - 2)
               /\ tree[tree[k].parent_idx + 1].depth = tree[k].depth - 1
    BY <2>1 DEF StaticTree
  <2>. QED  BY <2>3, <2>4, <2>5
<1>. HIDE DEF n
<1>2. \A k \in 1..n : Pos(tree[k]) \in Nat \X Nat /\ Pos(tree[k])[1] = tree[k].depth
  BY <1>1 DEF Pos
<1>3. /\ P \in SUBSET (Nat \X Nat) /\ \A k \in 1..n : Pos(tree[k]) \in P
      /\ \A q \in P : \E k \in 1..n : Pos(tree[k]) = q
  BY <1>1, <1>2 DEF Positions
<1>4. f \in Surjection(1..n, P)
  BY <1>1, <1>3 DEF Surjection
<1>. HIDE DEF P, f
<1>5. IsFiniteSet(P)
  <2>1. n \in Int /\ 1 \in Int
    BY <1>1
  <2>2. IsFiniteSet(1..n)
    BY <2>1, FS_Interval
  <2>. QED  BY <1>4, <2>2, FS_Surjection
<1>6. ASSUME NEW q \in P
      PROVE  at(q) \in 1..n /\ Pos(tree[at(q)]) = q
  BY <1>1, <1>3
<1>7. ASSUME NEW k \in 1..n
      PROVE  at(Pos(tree[k])) = k
  BY <1>1, <1>3, <1>6
<1>. HIDE DEF at
<1>8. ASSUME NEW q \in P, q[1] # 0
      PROVE  pp[q] \in P /\ pp[q][1] = q[1] - 1 /\ at(pp[q]) < at(q)
  <2>. DEFINE k == at(q)
              u == tree[k].parent_idx + 1
  <2>1. k \in 1..n /\ tree[k].depth = q[1] /\ q[1] \in Nat
    BY <1>1, <1>2, <1>3, <1>6
  <2>2. /\ tree[k].parent_idx \in 0..(k - 2) /\ tree[u].depth = q[1] - 1
    BY <1>1, <1>8, <2>1
  <2>3. pp[q] = Pos(tree[u])
    <3>1. q \in {p \in P : p[1] > 0}
      BY <1>8, <2>1
    <3>2. NodeOf(tree, q) = tree[k]
      BY DEF NodeOf, at
    <3>. QED  BY <3>1, <3>2 DEF ParentPosMap, P
  <2>. HIDE DEF k
  <2>4. u \in 1..n /\ u < k
    BY <1>1, <2>1, <2>2
  <2>. HIDE DEF u
  <2>. QED  BY <1>2, <1>3, <1>7, <2>2, <2>3, <2>4 DEF k
<1>9. Ordered(tree, pp, rank, n)
  <2>1. rank \in [P -> 0..n]
    <3>1. \A q \in P : at(q) \in 0..n
      BY <1>1, <1>6
    <3>. QED  BY <3>1
  <2>2. \A q \in P : rank[q] = at(q)
    OBVIOUS
  <2>. HIDE DEF rank, pp
  <2>. QED  BY <1>1, <1>8, <2>1, <2>2 DEF Ordered, P, pp
<1>. QED  BY <1>3, <1>5, <1>8, <1>9 DEF P

\* What has grown is sorted before what has not.
GrowthInv ==
  /\ nodes \in Trees /\ selection \in {"greedy_headk", "greedy_node"}
  /\ CountsTyped(hist) /\ grown \in SUBSET Positions(nodes)
  /\ \A r \in grown, q \in Positions(nodes) \ grown : ByScore(NodeScore, r, q)

\* The scores of a growing tree put a parent before its child.
LEMMA GrowthScores ==
  ASSUME nodes \in Trees, CountsTyped(hist)
  PROVE  /\ NodeScore \in [Positions(nodes) -> Fraction]
         /\ \A q \in Positions(nodes) : q[1] # 0 =>
              ByScore(NodeScore, ParentPosMap(nodes)[q], q)
<1>. DEFINE P == Positions(nodes)
            pp == ParentPosMap(nodes)
            kp == KPredMap(nodes)
            g == Granularity(selection)
            score == NodeScore
<1>1. /\ P \in SUBSET (Nat \X Nat)
      /\ \A q \in P : q[1] # 0 => pp[q] \in P /\ pp[q][1] = q[1] - 1
  BY StaticTreeIsOrdered
<1>2. PICK rank, m : Ordered(nodes, pp, rank, m)
  BY StaticTreeIsOrdered
<1>3. Rated(nodes, hist, kp, g)
  BY CountsRated
<1>4. /\ score \in [P -> Fraction]
      /\ \A q \in P : score[q] = Body(hist, kp, pp, g, score, q)
  <2>. HIDE DEF pp, kp, g
  <2>1. score = Scores(nodes, hist, kp, pp, g)
    BY DEF NodeScore, pp, kp, g
  <2>. HIDE DEF score
  <2>. QED  BY <1>2, <1>3, <2>1, ScoresDefined
<1>. HIDE DEF score, pp, kp, g
<1>5. ASSUME NEW q \in P, q[1] # 0
      PROVE  ByScore(score, pp[q], q)
  <2>. DEFINE p == Rate(hist, Key(g, q, kp))
  <2>1. p \in Fraction /\ p[1] <= p[2]
    BY <1>3 DEF Rated
  <2>2. score[q] = Times(score[pp[q]], p) /\ score[pp[q]] \in Fraction
    BY <1>1, <1>4, <1>5 DEF Body
  <2>3. ~Higher(score[q], score[pp[q]])
    <3>. HIDE DEF p
    <3>. QED  BY <2>1, <2>2, ScoreFalls
  <2>4. pp[q][1] < q[1]
    BY <1>1, <1>5
  <2>. QED  BY <2>3, <2>4 DEF ByScore, Shallower
<1>. QED  BY <1>4, <1>5 DEF score, pp

\* Whatever has not grown has an ancestor in the frontier, or is there itself.
LEMMA FrontierReaches ==
  ASSUME GrowthInv, NEW s \in Positions(nodes) \ grown
  PROVE  \E f \in Frontier : f = s \/ ByScore(NodeScore, f, s)
<1>. DEFINE P == Positions(nodes)
            pp == ParentPosMap(nodes)
            score == NodeScore
            T == {n \in Nat : \A x \in P \ grown : x[1] = n =>
                    \E f \in Frontier : f = x \/ ByScore(score, f, x)}
<1>1. nodes \in Trees /\ CountsTyped(hist)
  BY DEF GrowthInv
<1>2. /\ P \in SUBSET (Nat \X Nat)
      /\ \A q \in P : q[1] # 0 => pp[q] \in P /\ pp[q][1] = q[1] - 1
  BY <1>1, StaticTreeIsOrdered
<1>3. score \in [P -> Fraction] /\ \A q \in P : q[1] # 0 => ByScore(score, pp[q], q)
  BY <1>1, GrowthScores
<1>4. /\ Frontier \in SUBSET P
      /\ \A q \in P \ grown : q[1] = 0 \/ pp[q] \in grown => q \in Frontier
  BY DEF Frontier
<1>. HIDE DEF P, pp, score
<1>5. 0 \in T
  BY <1>4
<1>6. ASSUME NEW n \in Nat, n \in T
      PROVE  n + 1 \in T
  <2>. SUFFICES ASSUME NEW x \in P \ grown, x[1] = n + 1
                PROVE  \E f \in Frontier : f = x \/ ByScore(score, f, x)
    OBVIOUS
  <2>1. x[1] # 0 /\ pp[x] \in P /\ pp[x][1] = n /\ ByScore(score, pp[x], x)
    BY <1>2, <1>3
  <2>2. CASE pp[x] \in grown
    BY <1>4, <2>2
  <2>3. CASE pp[x] \notin grown
    <3>1. PICK f \in Frontier : f = pp[x] \/ ByScore(score, f, pp[x])
      BY <1>6, <2>1, <2>3
    <3>2. ByScore(score, f, x)
      BY <1>2, <1>3, <1>4, <2>1, <3>1, ByScoreOrder
    <3>. QED  BY <3>2
  <2>. QED  BY <2>2, <2>3
<1>7. Nat \subseteq T
  <2>. HIDE DEF T
  <2>. QED  BY <1>5, <1>6, Induction
<1>8. s[1] \in Nat /\ s \in P \ grown
  BY <1>2 DEF P
<1>. QED  BY <1>7, <1>8 DEF score

\* The invariant holds of the empty tree.
LEMMA GrowthInvInit == GrowthInit => GrowthInv
<1>. SUFFICES ASSUME GrowthInit PROVE GrowthInv
  OBVIOUS
<1>1. /\ nodes \in Trees /\ selection \in {"greedy_headk", "greedy_node"} /\ grown = {}
  BY GrowthAssumption DEF GrowthInit
<1>2. CountsTyped(hist)
  <2>1. PICK rate \in [Keys(nodes, selection) -> Rates] :
          hist = [key \in {k \in DOMAIN rate : rate[k][2] > 0} |->
                    [acc |-> rate[key][1], reach |-> rate[key][2]]]
    BY DEF GrowthInit
  <2>2. \A k \in DOMAIN rate : rate[k][2] \in Nat /\ rate[k][1] \in 0..rate[k][2]
    BY GrowthAssumption
  <2>. QED  BY <2>1, <2>2 DEF CountsTyped
<1>. QED  BY <1>1, <1>2 DEF GrowthInv

\* The best of the frontier is the best of what has not grown.
LEMMA GrowthInvNext == GrowthInv /\ [GrowthNext]_growthVars => GrowthInv'
<1>. SUFFICES ASSUME GrowthInv, [GrowthNext]_growthVars
              PROVE  GrowthInv'
  OBVIOUS
<1>1. CASE Grow
  <2>. DEFINE P == Positions(nodes)
              score == NodeScore
  <2>1. PICK q \in Frontier : /\ \A r \in Frontier \ {q} : ByScore(score, q, r)
                              /\ grown' = grown \cup {q}
    BY <1>1 DEF Grow
  <2>2. UNCHANGED <<nodes, selection, hist>>
    BY <1>1 DEF Grow
  <2>3. /\ nodes \in Trees /\ CountsTyped(hist) /\ grown \in SUBSET P
        /\ selection \in {"greedy_headk", "greedy_node"}
        /\ \A r \in grown, x \in P \ grown : ByScore(score, r, x)
    BY DEF GrowthInv
  <2>4. Frontier \in SUBSET (P \ grown)
    BY DEF Frontier
  <2>5. P \in SUBSET (Nat \X Nat) /\ score \in [P -> Fraction]
    BY <2>3, StaticTreeIsOrdered, GrowthScores
  <2>6. \A x \in P \ grown : \E f \in Frontier : f = x \/ ByScore(score, f, x)
    BY FrontierReaches
  <2>7. NodeScore' = score
    BY <2>2 DEF NodeScore
  <2>. HIDE DEF P, score
  <2>8. ASSUME NEW x \in P \ (grown \cup {q})
        PROVE  ByScore(score, q, x)
    <3>1. PICK f \in Frontier : f = x \/ ByScore(score, f, x)
      BY <2>6
    <3>2. CASE f = q
      BY <3>1, <3>2
    <3>3. CASE f # q
      <4>1. ByScore(score, q, f)
        BY <2>1, <3>3
      <4>. QED  BY <2>4, <2>5, <3>1, <4>1, ByScoreOrder
    <3>. QED  BY <3>2, <3>3
  <2>9. \A r \in grown', x \in P \ grown' : ByScore(score, r, x)
    BY <2>1, <2>3, <2>8
  <2>10. CountsTyped(hist)' /\ grown' \in SUBSET P
    BY <2>1, <2>2, <2>3, <2>4 DEF CountsTyped
  <2>. QED  BY <2>2, <2>3, <2>7, <2>9, <2>10 DEF GrowthInv, P
<1>2. CASE UNCHANGED growthVars
  <2>1. NodeScore' = NodeScore
    BY <1>2 DEF NodeScore, growthVars
  <2>. QED  BY <1>2, <2>1 DEF GrowthInv, CountsTyped, growthVars
<1>. QED  BY <1>1, <1>2 DEF GrowthNext, Grown

\* Taking the first L of the sorted list is the greedy growth of a connected tree
\* (dtp.py, score_nodes: "falls out for free, for all L at once").
THEOREM SortingIsGrowing == GrowthSpec => []SortIsGrowth
<1>1. GrowthInv => SortIsGrowth
  <2>. SUFFICES ASSUME GrowthInv PROVE SortIsGrowth
    OBVIOUS
  <2>. DEFINE P == Positions(nodes)
              score == NodeScore
              Fore(x) == {r \in P : ByScore(score, r, x)}
              n == Cardinality(grown)
  <2>1. /\ nodes \in Trees /\ CountsTyped(hist) /\ grown \in SUBSET P
        /\ selection \in {"greedy_headk", "greedy_node"}
        /\ \A r \in grown, x \in P \ grown : ByScore(score, r, x)
    BY DEF GrowthInv
  <2>2. IsFiniteSet(P) /\ P \in SUBSET (Nat \X Nat) /\ score \in [P -> Fraction]
    BY <2>1, StaticTreeIsOrdered, GrowthScores
  <2>3. SelectKept(nodes, 1, n, selection, hist, KPredMap(nodes), ParentPosMap(nodes))
          = {x \in P : Cardinality(Fore(x)) < n}
    BY <2>1 DEF SelectKept, TopL, NodeScore
  <2>. HIDE DEF P, score
  <2>4. IsFiniteSet(grown) /\ n \in Nat
    BY <2>1, <2>2, FS_Subset, FS_CardinalityType
  <2>5. ASSUME NEW x \in P, NEW y \in P, ByScore(score, x, y)
        PROVE  ~ByScore(score, y, x)
    <3>1. ~ByScore(score, x, x)
      BY <2>2, HigherOrder DEF ByScore, Shallower
    <3>. QED  BY <2>2, <2>5, <3>1, ByScoreOrder
  <2>6. ASSUME NEW x \in P
        PROVE  /\ IsFiniteSet(Fore(x)) /\ Fore(x) \in SUBSET P /\ Cardinality(Fore(x)) \in Nat
    <3>1. Fore(x) \in SUBSET P
      OBVIOUS
    <3>. HIDE DEF Fore
    <3>. QED  BY <2>2, <3>1, FS_Subset, FS_CardinalityType
  <2>7. ASSUME NEW x \in grown
        PROVE  Cardinality(Fore(x)) < n
    <3>1. Fore(x) \in SUBSET grown
      BY <2>1, <2>5
    <3>2. x \in grown /\ x \notin Fore(x)
      BY <2>1, <2>5
    <3>. HIDE DEF Fore
    <3>3. Cardinality(Fore(x)) <= n /\ Cardinality(Fore(x)) # n
      BY <2>4, <3>1, <3>2, FS_Subset
    <3>4. Cardinality(Fore(x)) \in Nat
      BY <2>1, <2>6
    <3>. QED  BY <2>4, <3>3, <3>4
  <2>8. ASSUME NEW x \in P \ grown
        PROVE  ~(Cardinality(Fore(x)) < n)
    <3>1. grown \in SUBSET Fore(x)
      BY <2>1
    <3>. HIDE DEF Fore
    <3>2. n <= Cardinality(Fore(x)) /\ Cardinality(Fore(x)) \in Nat
      BY <2>6, <3>1, FS_Subset
    <3>. QED  BY <2>4, <3>2
  <2>9. grown = {x \in P : Cardinality(Fore(x)) < n}
    <3>. HIDE DEF Fore, n
    <3>. QED  BY <2>1, <2>7, <2>8
  <2>. QED  BY <2>3, <2>9 DEF SortIsGrowth
<1>. QED  BY <1>1, GrowthInvInit, GrowthInvNext, PTL DEF GrowthSpec
=============================================================================
