------------------------------ MODULE Analyze -------------------------------
(***************************************************************************)
(* The analyzer (analyze/analyze.cpp): from a parse tree to a Query, or to *)
(* the error it throws.  A query is [tables, cols, conds, sets, values].   *)
(* A condition is [lhs, op, is_val, rhs, val]: lhs and rhs name columns,   *)
(* val is the literal; rhs has no table when the condition has a literal.  *)
(***************************************************************************)
EXTENDS Values

NoCol == [tab |-> "", col |-> "", agg |-> "none", alias |-> ""]

SameName(all_cols, target) ==
  SelectSeq(all_cols, LAMBDA c : c.name = target.col /\ target.tab \in {"", c.tab})

(* A column without a table is looked up in all tables and must be unique. *)
check_column(all_cols, target) ==
  LET same == SameName(all_cols, target)
  IN  CASE same = <<>> -> Err("ColumnNotFound")
        [] target.tab = "" /\ Len(same) > 1 -> Err("AmbiguousColumn")
        [] OTHER -> Ok([target EXCEPT !.tab = same[1].tab])

get_all_cols(db, tables) ==
  FoldLeft(LAMBDA cols, tab : cols \o db[tab].cols, <<>>, tables)

(* Literals: an integer beyond INT is a BIGINT, beyond BIGINT an error,    *)
(* and TRUE and FALSE have no value type.                                  *)
convert_sv_value(lit) ==
  CASE lit.node = "IntLit" /\ lit.overflow -> Err("OutOfRange")
    [] lit.node = "IntLit" /\ ~lit.overflow ->
         Ok(MkValue(IF lit.val \in (-INT32_MAX - 1)..INT32_MAX THEN "INT" ELSE "BIGINT", lit.val))
    [] lit.node = "FloatLit" -> Ok(MkValue("FLOAT", lit.float))
    [] lit.node = "StringLit" -> Ok(MkValue("STRING", lit.str))
    [] lit.node = "BoolLit" -> Err("Internal")

(* get_clause, one condition.                                              *)
get_clause(expr) ==
  LET col(x) == [NoCol EXCEPT !.tab = x.tab, !.col = x.col]
      cond(is_val, rhs, val) ==
        [lhs |-> col(expr.lhs), op |-> expr.op, is_val |-> is_val, rhs |-> rhs, val |-> val]
  IN  IF expr.rhs.node = "Col" THEN Ok(cond(FALSE, col(expr.rhs), MkValue("INT", 0)))
      ELSE Then(convert_sv_value(expr.rhs), LAMBDA v : Ok(cond(TRUE, NoCol, v)))

(* A string literal for a DATETIME column is parsed first.                 *)
AsDatetime(col, v) ==
  IF col.type = "DATETIME" /\ v.type = "STRING" THEN set_datetime(v) ELSE Ok(v)

ConvertTo(col, v) ==
  IF Compatible(col.type, v.type) THEN Ok(Convert(v, col.type)) ELSE Err("IncompatibleType")

(* The literal of a condition: init_raw comes before the conversion to the *)
(* type of the column, so raw and val may differ in type.                  *)
CheckLiteral(col, v) ==
  Then(AsDatetime(col, v), LAMBDA d :
    Then(init_raw(d, col.len), LAMBDA r : ConvertTo(col, r)))

ColumnOf(db, c) == get_col(db[c.tab], c.col)

(* check_clause, one condition.                                            *)
check_clause(db, all_cols, cond) ==
  Then(check_column(all_cols, cond.lhs), LAMBDA lhs :
    IF cond.is_val
      THEN Then(CheckLiteral(ColumnOf(db, lhs), cond.val), LAMBDA v :
             Ok([cond EXCEPT !.lhs = lhs, !.val = v]))
      ELSE Then(check_column(all_cols, cond.rhs), LAMBDA rhs :
             IF Compatible(ColumnOf(db, lhs).type, ColumnOf(db, rhs).type)
               THEN Ok([cond EXCEPT !.lhs = lhs, !.rhs = rhs])
               ELSE Err("IncompatibleType")))

(* Elements are handled in order and the first error ends the analysis.    *)
Each(Op(_), seq) ==
  FoldLeft(LAMBDA acc, x :
             Then(acc, LAMBDA done : Then(Op(x), LAMBDA y : Ok(Append(done, y)))),
           Ok(<<>>), seq)

(* WHERE.                                                                  *)
Conditions(db, tables, exprs) ==
  LET all_cols == get_all_cols(db, tables)
  IN  Then(Each(get_clause, exprs), LAMBDA conds :
        Each(LAMBDA c : check_clause(db, all_cols, c), conds))

(* One SET clause of an UPDATE: converted, but without raw.                *)
SetClauseOf(db, tab, set) ==
  Then(convert_sv_value(set.val), LAMBDA v :
    Then(check_column(db[tab].cols, [NoCol EXCEPT !.tab = tab, !.col = set.col]), LAMBDA lhs :
      Then(AsDatetime(ColumnOf(db, lhs), v), LAMBDA d :
        Then(ConvertTo(ColumnOf(db, lhs), d), LAMBDA rhs : Ok([lhs |-> lhs, rhs |-> rhs])))))

(* The target list: all columns for *, and COUNT of * names none.          *)
SelectColumns(db, stmt) ==
  LET all_cols == get_all_cols(db, stmt.tabs)
      star == [i \in DOMAIN all_cols |->
                 [NoCol EXCEPT !.tab = all_cols[i].tab, !.col = all_cols[i].name]]
  IN  IF stmt.cols = <<>> THEN Ok(star)
      ELSE Each(LAMBDA c : IF c.agg = "count*" THEN Ok(c) ELSE check_column(all_cols, c), stmt.cols)

NoQuery == [tables |-> <<>>, cols |-> <<>>, conds |-> <<>>, sets |-> <<>>, values |-> <<>>]

(* A statement without tables (transaction and utility statements, DDL) is *)
(* passed on unchecked.                                                    *)
do_analyze(db, stmt) ==
  LET tables == CASE stmt.node = "SelectStmt" -> stmt.tabs
                  [] stmt.node \in {"UpdateStmt", "DeleteStmt", "InsertStmt"} -> <<stmt.tab>>
                  [] OTHER -> <<>>
      query == [NoQuery EXCEPT !.tables = tables]
      conds == Conditions(db, tables, stmt.conds)
  IN  IF \E i \in DOMAIN tables : ~is_table(db, tables[i]) THEN Err("TableNotFound")
      ELSE CASE stmt.node = "SelectStmt" ->
             Then(SelectColumns(db, stmt), LAMBDA cols :
               Then(conds, LAMBDA c : Ok([query EXCEPT !.cols = cols, !.conds = c])))
        [] stmt.node = "UpdateStmt" ->
             Then(Each(LAMBDA s : SetClauseOf(db, stmt.tab, s), stmt.sets), LAMBDA sets :
               Then(conds, LAMBDA c : Ok([query EXCEPT !.sets = sets, !.conds = c])))
        [] stmt.node = "DeleteStmt" -> Then(conds, LAMBDA c : Ok([query EXCEPT !.conds = c]))
        [] stmt.node = "InsertStmt" ->
             Then(Each(convert_sv_value, stmt.vals), LAMBDA v : Ok([query EXCEPT !.values = v]))
        [] OTHER -> Ok(query)
=============================================================================
