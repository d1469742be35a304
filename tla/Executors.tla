----------------------------- MODULE Executors ------------------------------
(***************************************************************************)
(* The executor tree of a query (execution/ and portal.h).  An executor is *)
(* a record with its own state and that of its children, and has the       *)
(* operations of AbstractExecutor: Begin (beginTuple), NextTuple, IsEnd    *)
(* and Next, which returns the executor after the call and a row, or the   *)
(* empty sequence for nullptr.  A scan that throws or fails an assertion   *)
(* has it in fail; see Fail.                                               *)
(***************************************************************************)
EXTENDS Planner, TLC

CONSTANTS
  JOIN_BUFFER_ROWS,  \* left rows a join reads per scan of its right child
  SORT_CHUNK_ROWS,   \* rows a sort keeps in memory
  FLOAT_START        \* MIN of a FLOAT starts from here, MAX from its negative (1e38f)

ASSUME ExecutorsAssumption == {JOIN_BUFFER_ROWS, SORT_CHUNK_ROWS} \subseteq Nat \ {0}

(* FLT_MAX, and a bound no other field reaches.                            *)
Infinity == 16 * (INT32_MAX + 1) * FloatUnit

ASSUME FloatStartAssumption == FLOAT_START \in 1..(Infinity - 1)

MinOf(S) == CHOOSE x \in S : \A y \in S : x <= y

-----------------------------------------------------------------------------
(* Scans.  pos is the place of the cursor in the sequence of entries; a    *)
(* sequential scan ends behind the last one, an index scan at end.         *)

(* eval_condition of both scans: a condition on a column the row does not  *)
(* have is ignored, two columns are compared as the type of the left one.  *)
eval_condition(cond, row, cols) ==
  LET l == ColPos(cols, cond.lhs.tab, cond.lhs.col)
      r == ColPos(cols, cond.rhs.tab, cond.rhs.col)
  IN  \/ l = 0
      \/ cond.is_val /\ Cmp(cols[l].type, row[l], cond.op, Plain(cond.val))
      \/ /\ ~cond.is_val
         /\ r # 0 => Cmp(cols[l].type, row[l], cond.op,
                         ReadAs([type |-> cols[r].type, val |-> row[r]], cols[l].type))

eval_conds(conds, row, cols) == \A i \in DOMAIN conds : eval_condition(conds[i], row, cols)

(* The entries of an index, in its order.                                  *)
IndexOrder(t, index) ==
  SetToSortSeq(t.held[index], LAMBDA x, y : KeyLess(IndexCols(t, index), x.key, y.key))

SeqScan(t, conds) ==
  LET rids == SetToSortSeq(Live(t), LAMBDA q, r : q < r)
  IN  [kind |-> "SeqScan", cols |-> t.cols, rows |-> t.rows, rids |-> rids,
       conds |-> conds, pos |-> 1, end |-> Len(rids) + 1, fail |-> ""]

(* The constructor asserts that a condition on another table has a column  *)
(* of this one on its right.                                               *)
IndexScan(t, tab, conds, index) ==
  LET entries == IndexOrder(t, index)
      own(c) == c.lhs.tab = tab
      ok == \A i \in DOMAIN conds : own(conds[i]) \/ (~conds[i].is_val /\ conds[i].rhs.tab = tab)
  IN  [kind |-> "IndexScan", cols |-> t.cols, rows |-> t.rows,
       rids |-> [i \in DOMAIN entries |-> entries[i].rid],
       conds |-> [i \in DOMAIN conds |-> IF own(conds[i]) THEN conds[i] ELSE Flip(conds[i])],
       tab |-> tab, icols |-> IndexCols(t, index),
       keys |-> [i \in DOMAIN entries |-> entries[i].key],
       pos |-> 1, end |-> 1, fail |-> IF ok THEN "" ELSE "assert"]

(* write_col_min and write_col_max.                                        *)
ColBound(type, use_lower) ==
  CASE type = "INT" -> IF use_lower THEN -INT32_MAX - 1 ELSE INT32_MAX
    [] type = "DATETIME" -> IF use_lower THEN <<-Infinity, 0>> ELSE <<2^20, 0>>
    [] type = "STRING" -> IF use_lower THEN 0 ELSE Infinity
    [] OTHER -> IF use_lower THEN -Infinity ELSE Infinity

(* build_bound_key: the first equality on each leading column; then the    *)
(* last range condition of the right direction, if any; then extremes.     *)
FirstOrLast(eqs, ranges) ==
  CASE eqs # {} -> MinOf(eqs)
    [] eqs = {} /\ ranges # {} -> MaxOf(ranges)
    [] OTHER -> 0
OnColumn(e, i, ops) ==
  {k \in DOMAIN e.conds : /\ e.conds[k].is_val /\ e.conds[k].op \in ops
                          /\ IsNamed(e.icols[i], e.conds[k].lhs.tab, e.conds[k].lhs.col)}
build_bound_key(e, use_lower) ==
  LET ops == IF use_lower THEN {">", ">="} ELSE {"<", "<="}
      used == [i \in DOMAIN e.icols |->
                 IF \E j \in 1..(i - 1) : OnColumn(e, j, {"="}) = {} THEN 0
                 ELSE FirstOrLast(OnColumn(e, i, {"="}), OnColumn(e, i, ops))]
  IN  [i \in DOMAIN e.icols |->
         IF used[i] = 0 THEN ColBound(e.icols[i].type, use_lower)
         ELSE ReadAs(e.conds[used[i]].val.raw, e.icols[i].type)]

(* lower_bound and upper_bound of the index (see IxIndex).                 *)
lower_bound(e, k) ==
  MinOf({p \in DOMAIN e.keys : ~KeyLess(e.icols, e.keys[p], k)} \cup {Len(e.keys) + 1})
upper_bound(e, k) ==
  MinOf({p \in DOMAIN e.keys : KeyLess(e.icols, k, e.keys[p])} \cup {Len(e.keys) + 1})

(* rid_ is read whenever the cursor is not at end; behind the last entry   *)
(* get_rid throws.                                                         *)
ReadRid(e) ==
  IF e.pos # e.end /\ e.pos > Len(e.rids) THEN [e EXCEPT !.fail = "IndexEntryNotFound"] ELSE e

ScanBegin(e) ==
  CASE e.kind = "SeqScan" -> [e EXCEPT !.pos = 1]
    [] e.kind = "IndexScan" /\ e.conds = <<>> ->
         ReadRid([e EXCEPT !.pos = 1, !.end = Len(e.rids) + 1])
    [] e.kind = "IndexScan" /\ e.conds # <<>> ->
         ReadRid([e EXCEPT !.pos = lower_bound(e, build_bound_key(e, TRUE)),
                           !.end = upper_bound(e, build_bound_key(e, FALSE))])

(* RmScan::next asserts that it is not at the end; an index scan returns.  *)
ScanNextTuple(e) ==
  CASE e.pos # e.end -> ReadRid([e EXCEPT !.pos = @ + 1])
    [] e.pos = e.end /\ e.kind = "SeqScan" -> [e EXCEPT !.fail = "assert"]
    [] OTHER -> e

(* Next moves on to the first row that meets the conditions.               *)
FirstMatch(e) ==
  MinOf({p \in e.pos..(Len(e.rids) + 1) :
           p \in {e.end, Len(e.rids) + 1} \/ eval_conds(e.conds, e.rows[e.rids[p]], e.cols)})

RowAt(e) ==
  [e |-> e, row |-> IF e.pos = e.end \/ e.fail # "" THEN NoRow ELSE e.rows[e.rids[e.pos]]]

ScanNext(e) == RowAt(ReadRid([e EXCEPT !.pos = FirstMatch(e)]))

-----------------------------------------------------------------------------
(* The operators above the scans.                                          *)

NestedLoopJoin(left, right, conds) ==
  [kind |-> "Join", cols |-> left.cols \o right.cols, left |-> left, right |-> right,
   conds |-> conds, block |-> <<>>, matches |-> <<>>, li |-> 1, mi |-> 0, cur |-> NoRow,
   isend |-> FALSE]

Sort(prev, cols, is_desc) ==
  [kind |-> "Sort", cols |-> prev.cols, prev |-> prev,
   keys |-> [i \in DOMAIN cols |-> ColPos(prev.cols, cols[i].tab, cols[i].col)],
   is_desc |-> is_desc, sorted |-> FALSE, external |-> FALSE, data |-> <<>>, idx |-> 1,
   runs |-> <<>>, heap |-> <<>>, cur |-> NoRow]

Projection(prev, cols) ==
  LET pos == [i \in DOMAIN cols |-> ColPos(prev.cols, cols[i].tab, cols[i].col)]
  IN  [kind |-> "Projection", cols |-> [i \in DOMAIN pos |-> prev.cols[pos[i]]], prev |-> prev,
       pos |-> pos]

(* Only the first column of the target list is computed.                   *)
Aggregate(prev, cols) ==
  LET p == ColPos(prev.cols, cols[1].tab, cols[1].col)
      type == IF p = 0 THEN "INT" ELSE prev.cols[p].type
      out == CASE cols[1].agg \in {"count", "count*"} -> "INT"
               [] cols[1].agg \notin {"count", "count*"} /\ type = "BIGINT" -> "FLOAT"
               [] OTHER -> type
  IN  [kind |-> "Aggregate", cols |-> <<MkCol("", cols[1].col, out, 0)>>, prev |-> prev,
       agg |-> cols[1].agg, pos |-> p, type |-> type, computed |-> FALSE, returned |-> FALSE,
       result |-> 0]

(* convert_plan_executor; a SortMerge join falls back to nested loops.     *)
RECURSIVE convert_plan_executor(_, _)
convert_plan_executor(db, plan) ==
  CASE plan.node = "Projection" ->
         LET prev == convert_plan_executor(db, plan.sub)
         IN  IF \E i \in DOMAIN plan.cols : plan.cols[i].agg # "none"
               THEN Aggregate(prev, plan.cols) ELSE Projection(prev, plan.cols)
    [] plan.node = "Scan" ->
         IF plan.tag = "SeqScan" THEN SeqScan(db[plan.tab], plan.conds)
         ELSE IndexScan(db[plan.tab], plan.tab, plan.conds, plan.index)
    [] plan.node = "Join" ->
         NestedLoopJoin(convert_plan_executor(db, plan.left), convert_plan_executor(db, plan.right),
                        plan.conds)
    [] plan.node = "Sort" -> Sort(convert_plan_executor(db, plan.sub), plan.cols, plan.is_desc)

(* What has gone wrong anywhere in the tree.                               *)
RECURSIVE Fail(_)
Fail(e) ==
  CASE e.kind \in {"SeqScan", "IndexScan"} -> e.fail
    [] e.kind = "Join" -> IF Fail(e.left) # "" THEN Fail(e.left) ELSE Fail(e.right)
    [] OTHER -> Fail(e.prev)

(* The comparison of a join: a number compared with a FLOAT becomes one.   *)
compare_typed(x, a, op, y, b) ==
  LET f(v, c) == IF c.type \in {"INT", "BIGINT"} THEN FloatOf(v) ELSE v
  IN  IF "FLOAT" \in {a.type, b.type} THEN Cmp("FLOAT", f(x, a), op, f(y, b))
      ELSE Cmp(a.type, x, op, y)

(* check_left_row_with_right_data: a name is looked up left, then right;   *)
(* an unknown one fails the row.                                           *)
Matches(e, left, right) ==
  \A i \in DOMAIN e.conds :
    LET cond == e.conds[i]
        row == left \o right
        l == ColPos(e.cols, cond.lhs.tab, cond.lhs.col)
        r == ColPos(e.cols, cond.rhs.tab, cond.rhs.col)
    IN  /\ l # 0
        /\ IF cond.is_val THEN Cmp(e.cols[l].type, row[l], cond.op, Plain(cond.val))
           ELSE r # 0 /\ compare_typed(row[l], e.cols[l], cond.op, row[r], e.cols[r])

(* Compare two rows by the sort columns.                                   *)
row_less(e, a, b) ==
  \E i \in DOMAIN e.keys :
    LET k == e.keys[i]
    IN  /\ \A j \in 1..(i - 1) : a[e.keys[j]] = b[e.keys[j]]
        /\ IF e.is_desc[i] THEN Less(e.cols[k].type, b[k], a[k]) ELSE Less(e.cols[k].type, a[k], b[k])

SortRows(e, rows) == IF e.keys = <<>> THEN rows ELSE SortSeq(rows, LAMBDA a, b : row_less(e, a, b))

(* The heap of run numbers; the head of a run is its first unread row.     *)
heap_gt(e, a, b) == row_less(e, e.runs[b][1], e.runs[a][1])
SwapIn(heap, i, j) == [heap EXCEPT ![i] = heap[j], ![j] = heap[i]]

RECURSIVE heap_sift_up(_, _, _)
heap_sift_up(e, heap, i) ==
  LET parent == i \div 2
  IN  IF i = 1 \/ ~heap_gt(e, heap[parent], heap[i]) THEN heap
      ELSE heap_sift_up(e, SwapIn(heap, i, parent), parent)

RECURSIVE heap_sift_down(_, _, _)
heap_sift_down(e, heap, i) ==
  LET smaller(s, c) == IF c <= Len(heap) /\ heap_gt(e, heap[s], heap[c]) THEN c ELSE s
      smallest == smaller(smaller(i, 2 * i), 2 * i + 1)
  IN  IF smallest = i THEN heap ELSE heap_sift_down(e, SwapIn(heap, i, smallest), smallest)

heap_push(e, r) == [e EXCEPT !.heap = heap_sift_up(e, Append(@, r), Len(@) + 1)]

heap_pop(e) ==
  LET h == Front([e.heap EXCEPT ![1] = Last(e.heap)])
  IN  [e EXCEPT !.heap = IF h = <<>> THEN h ELSE heap_sift_down(e, h, 1)]

SortTop(e) == [e EXCEPT !.cur = IF e.heap = <<>> THEN NoRow ELSE e.runs[e.heap[1]][1]]

(* The next row of a streaming merge.                                      *)
SortNextTuple(e) ==
  IF ~e.external THEN [e EXCEPT !.idx = IF @ <= Len(e.data) THEN @ + 1 ELSE @]
  ELSE IF e.heap = <<>> THEN [e EXCEPT !.cur = NoRow]
  ELSE LET top == e.heap[1]
           popped == [heap_pop(e) EXCEPT !.runs[top] = Tail(@)]
       IN  SortTop(IF popped.runs[top] = <<>> THEN popped ELSE heap_push(popped, top))

(* A result that is never written, or as another type; any bits are sent.  *)
Uninitialised == "uninitialised"

(* Mutant: MAX and MIN start from 0.                                       *)
StartOf_Zero(agg, type) == 0

(* The result MAX and MIN of a number start from: for an INT the limits of *)
(* an int64_t, for a FLOAT one that a larger FLOAT exceeds.                *)
StartOf(agg, type) ==
  LET last == IF type = "INT" THEN Infinity ELSE FLOAT_START
  IN  IF agg = "max" THEN -last ELSE last

(* The result of an aggregate over the rows of its child.  A FLOAT sum is  *)
(* rounded after every row.  An INT result is cut to 32 bits, which turns  *)
(* the INT64 limits an empty MAX or MIN leaves into 0 and -1.  MIN takes   *)
(* an empty string for no string yet.                                      *)
AggregateResult(e, rows) ==
  LET vals == [i \in DOMAIN rows |-> IF e.pos = 0 THEN 0 ELSE rows[i][e.pos]]
      larger(x, y) == IF y > x THEN y ELSE x
      smaller(x, y) == IF y < x THEN y ELSE x
  IN  CASE e.agg \in {"count", "count*"} -> Len(rows)
        [] e.agg = "sum" /\ e.type = "INT" -> Int32(FoldLeft(LAMBDA x, y : x + y, 0, vals))
        [] e.agg = "sum" /\ e.type = "FLOAT" -> FoldLeft(LAMBDA x, y : ToFloat(x + y), 0, vals)
        [] e.agg = "sum" /\ e.type = "BIGINT" -> FoldLeft(LAMBDA x, y : ToFloat(x + FloatOf(y)), 0, vals)
        [] e.agg = "max" /\ e.type = "INT" -> IF vals = <<>> THEN 0 ELSE FoldLeft(larger, StartOf(e.agg, e.type), vals)
        [] e.agg = "min" /\ e.type = "INT" -> IF vals = <<>> THEN -1 ELSE FoldLeft(smaller, StartOf(e.agg, e.type), vals)
        [] e.agg = "max" /\ e.type = "FLOAT" -> FoldLeft(larger, StartOf(e.agg, e.type), vals)
        [] e.agg = "min" /\ e.type = "FLOAT" -> FoldLeft(smaller, StartOf(e.agg, e.type), vals)
        [] e.agg = "max" /\ e.type = "STRING" -> FoldLeft(larger, 0, vals)
        [] e.agg = "min" /\ e.type = "STRING" ->
             FoldLeft(LAMBDA x, y : IF x = 0 \/ y < x THEN y ELSE x, 0, vals)
        [] OTHER -> Uninitialised

RECURSIVE IsEnd(_)
IsEnd(e) ==
  CASE e.kind \in {"SeqScan", "IndexScan"} -> e.pos = e.end
    [] e.kind = "Join" -> e.isend
    [] e.kind = "Sort" -> IF e.external THEN e.cur = NoRow ELSE e.idx > Len(e.data)
    [] e.kind = "Aggregate" -> ~e.computed \/ e.returned
    [] e.kind = "Projection" -> IsEnd(e.prev)

(* The projection of a row of the child.                                   *)
ProjectRow(e, n) ==
  [e |-> [e EXCEPT !.prev = n.e],
   row |-> IF n.row = NoRow THEN NoRow ELSE [i \in DOMAIN e.pos |-> n.row[e.pos[i]]]]

RECURSIVE Next(_)
Next(e) ==
  CASE e.kind \in {"SeqScan", "IndexScan"} -> ScanNext(e)
    [] e.kind = "Join" ->
         [e |-> e, row |-> IF e.isend \/ e.cur = NoRow THEN NoRow ELSE e.block[e.li] \o e.cur]
    [] e.kind = "Sort" ->
         [e |-> e, row |-> CASE e.external -> e.cur
                             [] ~e.external /\ e.idx <= Len(e.data) -> e.data[e.idx]
                             [] OTHER -> NoRow]
    [] e.kind = "Aggregate" ->
         IF IsEnd(e) THEN [e |-> e, row |-> NoRow]
         ELSE [e |-> [e EXCEPT !.returned = TRUE], row |-> <<e.result>>]
    [] e.kind = "Projection" -> ProjectRow(e, Next(e.prev))

RECURSIVE Begin(_), NextTuple(_), Advance(_), Pull(_, _), PullSort(_, _)

(* The loop of the joins and aggregates: at most max rows, ended by the    *)
(* first nullptr, after which nextTuple is not called.                     *)
PutFirst(row, pulled) == [pulled EXCEPT !.rows = <<row>> \o @]
PullRest(n, max) ==
  IF n.row = NoRow THEN [e |-> n.e, rows |-> <<>>]
  ELSE PutFirst(n.row, Pull(NextTuple(n.e), max - 1))
Pull(e, max) ==
  IF max = 0 \/ IsEnd(e) \/ Fail(e) # "" THEN [e |-> e, rows |-> <<>>] ELSE PullRest(Next(e), max)

(* The loop of the sort: nextTuple is called after a nullptr too.          *)
PullSortRest(n, rows) ==
  PullSort(NextTuple(n.e), IF n.row = NoRow THEN rows ELSE Append(rows, n.row))
PullSort(e, rows) ==
  IF IsEnd(e) \/ Fail(e) # "" THEN [e |-> e, rows |-> rows] ELSE PullSortRest(Next(e), rows)

(* build_block_matches: one scan of the right child for a block of left    *)
(* rows.                                                                   *)
build_block_matches(e, fill, scan) ==
  [e EXCEPT !.left = fill.e, !.right = scan.e, !.block = fill.rows,
            !.matches = [k \in DOMAIN fill.rows |->
                           SelectSeq(scan.rows, LAMBDA r : Matches(e, fill.rows[k], r))],
            !.li = 1, !.mi = 0]

NextBlock(e, fill) ==
  IF fill.rows = <<>> THEN [e EXCEPT !.left = fill.e, !.isend = TRUE, !.cur = NoRow]
  ELSE Advance(build_block_matches(e, fill, Pull(Begin(e.right), Infinity)))

(* advance_to_next_output: the next match in the block, left row by left   *)
(* row; then fill_left_block and build_block_matches.                      *)
LeftRowsToGo(e) ==
  {i \in e.li..Len(e.matches) : (IF i = e.li THEN e.mi ELSE 0) < Len(e.matches[i])}
OutputAt(e, li, mi) == [e EXCEPT !.li = li, !.mi = mi, !.cur = e.matches[li][mi]]
Advance(e) ==
  IF LeftRowsToGo(e) = {} THEN NextBlock(e, Pull(e.left, JOIN_BUFFER_ROWS))
  ELSE LET i == MinOf(LeftRowsToGo(e))
       IN  OutputAt(e, i, IF i = e.li THEN e.mi + 1 ELSE 1)

(* SortExecutor::beginTuple: chunks of the child's rows are sorted; one    *)
(* that is not full stays in memory, otherwise all are runs on disk.       *)
SortChunks(e, rows) ==
  [k \in 1..((Len(rows) + SORT_CHUNK_ROWS - 1) \div SORT_CHUNK_ROWS) |->
     SortRows(e, SubSeq(rows, (k - 1) * SORT_CHUNK_ROWS + 1, MinOf({Len(rows), k * SORT_CHUNK_ROWS})))]

(* Every run is opened and its number pushed on the heap.                  *)
OpenRuns(e) == SortTop(FoldLeft(heap_push, e, [k \in DOMAIN e.runs |-> k]))

SortPulled(e, rows) ==
  IF Len(rows) < SORT_CHUNK_ROWS THEN [e EXCEPT !.data = SortRows(e, rows), !.idx = 1]
  ELSE OpenRuns([e EXCEPT !.external = TRUE, !.runs = SortChunks(e, rows)])

SortBegin(e, pulled) == SortPulled([e EXCEPT !.prev = pulled.e, !.sorted = TRUE], pulled.rows)

AggregateBegin(e, pulled) ==
  [e EXCEPT !.prev = pulled.e, !.computed = TRUE, !.returned = FALSE,
            !.result = AggregateResult(e, pulled.rows)]

Begin(e) ==
  CASE e.kind \in {"SeqScan", "IndexScan"} -> ScanBegin(e)
    [] e.kind = "Join" ->
         Advance([e EXCEPT !.left = Begin(e.left), !.block = <<>>, !.matches = <<>>, !.li = 1,
                           !.mi = 0, !.cur = NoRow, !.isend = FALSE])
    [] e.kind = "Sort" -> IF e.sorted THEN e ELSE SortBegin(e, PullSort(Begin(e.prev), <<>>))
    [] e.kind = "Aggregate" ->
         IF e.computed THEN e ELSE AggregateBegin(e, Pull(Begin(e.prev), Infinity))
    [] e.kind = "Projection" -> [e EXCEPT !.prev = Begin(e.prev)]

NextTuple(e) ==
  CASE e.kind \in {"SeqScan", "IndexScan"} -> ScanNextTuple(e)
    [] e.kind = "Join" -> IF e.isend THEN e ELSE Advance(e)
    [] e.kind = "Sort" -> SortNextTuple(e)
    [] e.kind = "Aggregate" -> [e EXCEPT !.returned = TRUE]
    [] e.kind = "Projection" -> [e EXCEPT !.prev = NextTuple(e.prev)]
=============================================================================
