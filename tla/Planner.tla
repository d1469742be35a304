------------------------------ MODULE Planner -------------------------------
(***************************************************************************)
(* The optimizer and planner (optimizer/optimizer.h, optimizer/planner.cpp,*)
(* optimizer/plan.h): from a Query to a plan tree.  Every join is          *)
(* [node, tag, left, right, conds], every scan [node, tag, tab, conds,     *)
(* index], the other plans as in plan.h.                                   *)
(***************************************************************************)
EXTENDS Analyze

MaxOf(S) == CHOOSE x \in S : \A y \in S : y <= x

ScanPlan(tag, tab, conds, index) ==
  [node |-> "Scan", tag |-> tag, tab |-> tab, conds |-> conds, index |-> index]
JoinPlan(tag, left, right, conds) ==
  [node |-> "Join", tag |-> tag, left |-> left, right |-> right, conds |-> conds]
SortPlan(sub, cols, is_desc) ==
  [node |-> "Sort", sub |-> sub, cols |-> cols, is_desc |-> is_desc]
ProjectionPlan(sub, cols) == [node |-> "Projection", sub |-> sub, cols |-> cols]
DMLPlan(tag, sub, tab, values, sets) ==
  [node |-> "DML", tag |-> tag, sub |-> sub, tab |-> tab, values |-> values, sets |-> sets,
   limit |-> 0]
DDLPlan(tag, tab, names, cols) ==
  [node |-> "DDL", tag |-> tag, tab |-> tab, names |-> names, cols |-> cols]
OtherPlan(tag, tab) == [node |-> "Other", tag |-> tag, tab |-> tab]
SetKnobPlan(knob, on) == [node |-> "SetKnob", knob |-> knob, on |-> on]
NoPlan == [node |-> "none"]

-----------------------------------------------------------------------------
(* How many leading columns of an index the conditions bind: equality on a *)
(* column lets the match go on, any other comparison ends it there.        *)
MatchLen(tab, conds, index) ==
  LET on(i) == {k \in DOMAIN conds :
                  conds[k].is_val /\ conds[k].lhs.tab = tab /\ conds[k].lhs.col = index[i]}
      bound(n) == \A i \in 1..n : on(i) # {} /\ (i < n => \E k \in on(i) : conds[k].op = "=")
  IN  MaxOf({n \in 0..Len(index) : bound(n)})

(* get_index_cols: the longest match wins, then the shorter index, then    *)
(* the older one; <<>> when no index matches.                              *)
get_index_cols(db, tab, conds) ==
  LET better(best, index) ==
        LET m == MatchLen(tab, conds, index)
            b == MatchLen(tab, conds, best)
        IN  m > b \/ (m = b /\ m > 0 /\ Len(index) < Len(best))
  IN  FoldLeft(LAMBDA best, index : IF better(best, index) THEN index ELSE best,
               <<>>, db[tab].indexes)

PlanScan(db, tab, conds) ==
  LET index == get_index_cols(db, tab, conds)
  IN  ScanPlan(IF index = <<>> THEN "SeqScan" ELSE "IndexScan", tab, conds, index)

(* pop_conds: the conditions a scan of tab takes off the query.  The       *)
(* second disjunct does not ask for tab.                                   *)
Popped(cond, tab) == (cond.lhs.tab = tab /\ cond.is_val) \/ cond.lhs.tab = cond.rhs.tab

pop_conds(conds, tab) ==
  [solved |-> SelectSeq(conds, LAMBDA c : Popped(c, tab)),
   rest |-> SelectSeq(conds, LAMBDA c : ~Popped(c, tab))]

Flip(cond) == [cond EXCEPT !.lhs = cond.rhs, !.rhs = cond.lhs, !.op = swap_op(cond.op)]

(* push_conds: attach a condition to the lowest join that sees both of its *)
(* columns.  res is 1 or 2 when the plan has the left or the right column, *)
(* 3 when the condition is placed.                                         *)
RECURSIVE push_conds(_, _)
push_conds(cond, plan) ==
  IF plan.node = "Scan"
    THEN [plan |-> plan, res |-> CASE plan.tab = cond.lhs.tab -> 1
                                   [] plan.tab # cond.lhs.tab /\ plan.tab = cond.rhs.tab -> 2
                                   [] OTHER -> 0]
    ELSE LET l == push_conds(cond, plan.left)
             r == push_conds(cond, plan.right)
             here == IF l.res = 2 THEN Flip(cond) ELSE cond
         IN  CASE l.res = 3 -> [plan |-> [plan EXCEPT !.left = l.plan], res |-> 3]
               [] l.res # 3 /\ r.res = 3 -> [plan |-> [plan EXCEPT !.right = r.plan], res |-> 3]
               [] l.res # 3 /\ r.res # 3 /\ (l.res = 0 \/ r.res = 0) ->
                    [plan |-> plan, res |-> l.res + r.res]
               [] OTHER -> [plan |-> [plan EXCEPT !.conds = Append(@, here)], res |-> 3]

(* The scans of the tables, in the order of FROM, each taking its          *)
(* conditions; what is left are the join conditions.                       *)
TableScans(db, query) ==
  FoldLeft(LAMBDA acc, tab :
             LET p == pop_conds(acc.conds, tab)
             IN  [scans |-> Append(acc.scans, PlanScan(db, tab, p.solved)), conds |-> p.rest],
           [scans |-> <<>>, conds |-> query.conds], query.tables)

(* pop_scan: the scan of a table.                                          *)
pop_scan(scans, tab) == scans[SelectInSeq(scans, LAMBDA s : s.tab = tab)]

(* The join method of the first join; both knobs off is an error.          *)
FirstJoinTag(knobs) == IF knobs.nestloop THEN "NestLoop" ELSE "SortMerge"

(* Layers 2 to n: a condition brings in the tables it names that are not   *)
(* joined yet, each as the outer side of a new join, or is pushed down.    *)
JoinOne(scans, acc, cond) ==
  LET new(c) == c.tab \notin acc.joined
      scan(c) == pop_scan(scans, c.tab)
      grown == acc.joined \cup {cond.lhs.tab, cond.rhs.tab}
  IN  CASE new(cond.lhs) /\ new(cond.rhs) ->
             [joined |-> grown,
              plan |-> JoinPlan("NestLoop", JoinPlan("NestLoop", scan(cond.lhs), scan(cond.rhs), <<cond>>),
                                acc.plan, <<>>)]
        [] new(cond.lhs) /\ ~new(cond.rhs) ->
             [joined |-> grown, plan |-> JoinPlan("NestLoop", scan(cond.lhs), acc.plan, <<cond>>)]
        [] ~new(cond.lhs) /\ new(cond.rhs) ->
             [joined |-> grown, plan |-> JoinPlan("NestLoop", scan(cond.rhs), acc.plan, <<Flip(cond)>>)]
        [] OTHER -> [acc EXCEPT !.plan = push_conds(cond, acc.plan).plan]

(* make_one_rel: the tables no condition names are joined last.            *)
make_one_rel(db, knobs, query) ==
  LET t == TableScans(db, query)
      first == Head(t.conds)
      base == IF t.conds = <<>>
                THEN [joined |-> {query.tables[1]}, plan |-> t.scans[1]]
                ELSE [joined |-> {first.lhs.tab, first.rhs.tab},
                      plan |-> JoinPlan(FirstJoinTag(knobs), pop_scan(t.scans, first.lhs.tab),
                                        pop_scan(t.scans, first.rhs.tab), <<first>>)]
      layered == FoldLeft(LAMBDA acc, c : JoinOne(t.scans, acc, c), base,
                          IF t.conds = <<>> THEN <<>> ELSE Tail(t.conds))
      rest == SelectSeq(t.scans, LAMBDA s : s.tab \notin layered.joined)
  IN  IF Len(query.tables) > 1 /\ t.conds # <<>> /\ ~knobs.nestloop /\ ~knobs.sortmerge
        THEN Err("NoJoinExecutor")
        ELSE Ok(FoldLeft(LAMBDA plan, s : JoinPlan("NestLoop", s, plan, <<>>), layered.plan, rest))

(* generate_sort_plan: an ORDER BY column is the first column of that name *)
(* in any table of the query; a name that matches none is dropped.         *)
generate_sort_plan(db, stmt, query, plan) ==
  LET all_cols == get_all_cols(db, query.tables)
      pos(o) == SelectInSeq(all_cols, LAMBDA c : c.name = o.col.col)
      found == SelectSeq(stmt.order, LAMBDA o : pos(o) # 0)
  IN  IF stmt.order = <<>> THEN plan
      ELSE SortPlan(plan,
                    [i \in DOMAIN found |->
                       [NoCol EXCEPT !.tab = all_cols[pos(found[i])].tab, !.col = found[i].col.col]],
                    [i \in DOMAIN found |-> found[i].dir = "DESC"])

generate_select_plan(db, knobs, stmt, query) ==
  Then(make_one_rel(db, knobs, query), LAMBDA plan :
    Ok(ProjectionPlan(generate_sort_plan(db, stmt, query, plan), query.cols)))

-----------------------------------------------------------------------------
(* do_planner and Optimizer::plan_query.                                   *)
do_planner(db, knobs, stmt, query) ==
  CASE stmt.node = "CreateTable" -> Ok(DDLPlan("CreateTable", stmt.tab, <<>>, stmt.fields))
    [] stmt.node = "DropTable" -> Ok(DDLPlan("DropTable", stmt.tab, <<>>, <<>>))
    [] stmt.node \in {"CreateIndex", "DropIndex"} ->
         Ok(DDLPlan(stmt.node, stmt.tab, stmt.names, <<>>))
    [] stmt.node = "InsertStmt" -> Ok(DMLPlan("Insert", NoPlan, stmt.tab, query.values, <<>>))
    [] stmt.node = "DeleteStmt" ->
         Ok(DMLPlan("Delete", PlanScan(db, stmt.tab, query.conds), stmt.tab, <<>>, <<>>))
    [] stmt.node = "UpdateStmt" ->
         Ok(DMLPlan("Update", PlanScan(db, stmt.tab, query.conds), stmt.tab, <<>>, query.sets))
    [] stmt.node = "SelectStmt" ->
         Then(generate_select_plan(db, knobs, stmt, query), LAMBDA p :
           Ok([DMLPlan("select", p, "", <<>>, <<>>) EXCEPT !.limit = stmt.limit]))

plan_query(db, knobs, stmt, query) ==
  CASE stmt.node \in {"Help", "ShowTables", "TxnBegin", "TxnAbort", "TxnCommit", "TxnRollback"} ->
         Ok(OtherPlan(stmt.node, ""))
    [] stmt.node \in {"ShowIndex", "DescTable"} -> Ok(OtherPlan(stmt.node, stmt.tab))
    [] stmt.node = "SetStmt" -> Ok(SetKnobPlan(stmt.knob, stmt.on))
    [] OTHER -> do_planner(db, knobs, stmt, query)
=============================================================================
