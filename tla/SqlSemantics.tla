---------------------------- MODULE SqlSemantics ----------------------------
(***************************************************************************)
(* What a statement means, independently of how it is executed: the        *)
(* reference the query processor is compared with.  A binding of the       *)
(* tables of a FROM clause takes one live row of each; a SELECT answers    *)
(* with the bindings that meet its conditions.  Numbers are compared as    *)
(* numbers whatever their types, dates by their place in time.             *)
(***************************************************************************)
EXTENDS Values

(* The columns of the FROM clause, each with the table's place in it.      *)
FromCols(db, tabs) ==
  FoldLeft(LAMBDA acc, k : acc \o [i \in DOMAIN db[tabs[k]].cols |->
                                     [col |-> db[tabs[k]].cols[i], tab |-> k, pos |-> i]],
           <<>>, [k \in DOMAIN tabs |-> k])

(* The column a name means: the only one that answers to it.               *)
Meant(db, tabs, name) ==
  LET all == FromCols(db, tabs)
      fits(i) == all[i].col.name = name.col /\ name.tab \in {"", all[i].col.tab}
  IN  all[CHOOSE i \in DOMAIN all : fits(i)]

Bindings(db, tabs) ==
  {b \in [DOMAIN tabs -> UNION {Live(db[tabs[k]]) : k \in DOMAIN tabs}] :
     \A k \in DOMAIN tabs : b[k] \in Live(db[tabs[k]])}

FieldIn(db, tabs, b, f) == db[tabs[f.tab]].rows[b[f.tab]][f.pos]

(* A stored field and a literal, as what they stand for; letters behind    *)
(* the digits of a date mean nothing.                                      *)
Meaning(type, x) ==
  CASE type \in {"INT", "BIGINT"} -> x * FloatUnit
    [] type = "DATETIME" -> format_datetime(x)
    [] OTHER -> x
LiteralMeaning(type, lit) ==
  CASE lit.node = "IntLit" -> lit.val * FloatUnit
    [] lit.node = "FloatLit" -> lit.float
    [] lit.node = "StringLit" -> IF type = "DATETIME" THEN lit.str.date ELSE lit.str.rank

Compare(type, x, op, y) ==
  LET before(v, w) == IF type = "DATETIME" THEN Earlier(v, w) ELSE v < w
  IN  \/ op \in {"=", "<=", ">="} /\ x = y
      \/ op \in {"<", "<=", "<>"} /\ before(x, y)
      \/ op \in {">", ">=", "<>"} /\ before(y, x)

(* A binding meets a condition whose left side is the column f.            *)
MeaningIn(db, tabs, b, f) == Meaning(f.col.type, FieldIn(db, tabs, b, f))
RhsMeaning(db, tabs, b, type, rhs) ==
  IF rhs.node = "Col" THEN MeaningIn(db, tabs, b, Meant(db, tabs, rhs)) ELSE LiteralMeaning(type, rhs)
Meets(db, tabs, b, f, cond) ==
  Compare(f.col.type, MeaningIn(db, tabs, b, f), cond.op, RhsMeaning(db, tabs, b, f.col.type, cond.rhs))

Holds(db, tabs, conds, b) ==
  \A i \in DOMAIN conds : Meets(db, tabs, b, Meant(db, tabs, conds[i].lhs), conds[i])

Selected(db, tabs, conds) == {b \in Bindings(db, tabs) : Holds(db, tabs, conds, b)}

(* The row a binding is answered with.                                     *)
ShownIn(db, tabs, b, f) ==
  IF f.col.type = "DATETIME" THEN format_datetime(FieldIn(db, tabs, b, f)) ELSE FieldIn(db, tabs, b, f)
Fields(db, stmt) ==
  IF stmt.cols = <<>> THEN FromCols(db, stmt.tabs)
  ELSE [i \in DOMAIN stmt.cols |-> Meant(db, stmt.tabs, stmt.cols[i])]
RowOf(db, tabs, b, fields) == [i \in DOMAIN fields |-> ShownIn(db, tabs, b, fields[i])]
Answer(db, stmt, b) == RowOf(db, stmt.tabs, b, Fields(db, stmt))

(* b must come before c in the order of the ORDER BY clause.               *)
OrderField(db, stmt, i) == Meant(db, stmt.tabs, stmt.order[i].col)
SameAt(db, tabs, b, c, f) == FieldIn(db, tabs, b, f) = FieldIn(db, tabs, c, f)
BeforeAt(db, tabs, b, c, f, dir) ==
  Compare(f.col.type, MeaningIn(db, tabs, b, f), IF dir = "DESC" THEN ">" ELSE "<", MeaningIn(db, tabs, c, f))
ComesBefore(db, stmt, b, c) ==
  \E i \in DOMAIN stmt.order :
    /\ \A j \in 1..(i - 1) : SameAt(db, stmt.tabs, b, c, OrderField(db, stmt, j))
    /\ BeforeAt(db, stmt.tabs, b, c, OrderField(db, stmt, i), stmt.order[i].dir)

(* rows is an answer to stmt: some of the selected bindings, as many as    *)
(* the limit allows, each once, in the order asked for, and none left out  *)
(* that comes before one of them.                                          *)
AnswersWith(db, stmt, rows, all) ==
  /\ Len(rows) = IF stmt.limit \in 1..Cardinality(all) THEN stmt.limit ELSE Cardinality(all)
  /\ \A i \in DOMAIN rows : \E b \in all :
       /\ Answer(db, stmt, b) = rows[i]
       /\ i > Cardinality({c \in all : ComesBefore(db, stmt, c, b)})
       /\ i <= Cardinality({c \in all : ~ComesBefore(db, stmt, b, c)})
  /\ \A i \in DOMAIN rows :
       Cardinality({j \in DOMAIN rows : rows[j] = rows[i]})
         <= Cardinality({b \in all : Answer(db, stmt, b) = rows[i]})
IsAnswer(db, stmt, rows) == AnswersWith(db, stmt, rows, Selected(db, stmt.tabs, stmt.conds))

(* The value of an aggregate over a column of the selected bindings.       *)
AggregateOf(agg, vals) ==
  CASE agg = "sum" -> SumFunction(vals)
    [] agg = "max" -> CHOOSE x \in Range(vals) : \A y \in Range(vals) : y <= x
    [] agg = "min" -> CHOOSE x \in Range(vals) : \A y \in Range(vals) : x <= y
ValuesOf(db, tabs, all, f) == [b \in all |-> FieldIn(db, tabs, b, f)]
AggregateAnswer(db, stmt) ==
  IF stmt.cols[1].agg \in {"count", "count*"} THEN Cardinality(Selected(db, stmt.tabs, stmt.conds))
  ELSE AggregateOf(stmt.cols[1].agg, ValuesOf(db, stmt.tabs, Selected(db, stmt.tabs, stmt.conds),
                                              Meant(db, stmt.tabs, stmt.cols[1])))
=============================================================================
