------------------------------- MODULE Query --------------------------------
(***************************************************************************)
(* The life of a statement in one session (rmdb.cpp, portal.h,             *)
(* execution_manager.cpp): the text is scanned and parsed, the tree        *)
(* analyzed, the query planned, the plan turned into executors, and those  *)
(* are run, a SELECT row by row.  An exception ends the statement and its  *)
(* transaction is rolled back (modelled in Recovery); a failed assertion,  *)
(* or an exception that nothing catches, ends the server.                  *)
(***************************************************************************)
EXTENDS Dml, SqlText, SqlSemantics, FiniteSetsExt

CONSTANTS
  Databases,  \* initial databases
  Scripts     \* sequences of statements a client may send, as parse trees

P == INSTANCE Parser

VARIABLES
  db,       \* tables with their rows and index entries
  knobs,    \* the planner's enable_nestedloop_join and enable_sortmerge_join
  script,   \* what the client sends
  at,       \* the statement of script in work
  pc,       \* how far it is
  lexer,    \* the start condition of the scanner, which all requests share
  tree,     \* ast::parse_tree
  query,    \* what do_analyze returns
  plan,     \* what plan_query returns
  exec,     \* PortalStmt::root
  out,      \* rows sent to the client
  before,   \* db when the statement began
  outcome   \* "ok", or the exception that ended the statement

vars == <<db, knobs, script, at, pc, lexer, tree, query, plan, exec, out, before, outcome>>

NoExec == [kind |-> "none"]

Init ==
  /\ db \in Databases /\ before = db
  /\ script \in Scripts /\ at = 0
  /\ knobs = [nestloop |-> TRUE, sortmerge |-> FALSE]
  /\ pc = "done" /\ outcome = "ok" /\ lexer = "INITIAL"
  /\ tree = P!NullTree /\ query = NoQuery /\ plan = NoPlan /\ exec = NoExec /\ out = <<>>

-----------------------------------------------------------------------------
(* What an exception does: RMDBError ends the statement and rolls it back, *)
(* everything else ends the server.                                        *)
Throw(e) ==
  /\ outcome' = e
  /\ pc' = IF e \in {"assert", "terminate"} THEN "dead" ELSE "done"
  /\ db' = before
  /\ UNCHANGED <<knobs, script, at, lexer, before>>

Finish ==
  /\ pc' = "done" /\ outcome' = "ok"
  /\ query' = NoQuery /\ plan' = NoPlan /\ exec' = NoExec
  /\ UNCHANGED <<script, at, lexer, tree, before>>

(* A request is read, scanned and parsed; a syntax error and an empty tree *)
(* are answered with nothing.                                              *)
Parse ==
  /\ pc = "done" /\ at < Len(script)
  /\ \E lexed \in {P!yylex(lexer, Text(script[at + 1]))} : \E p \in {P!yyparse(lexed.tokens)} :
       /\ at' = at + 1 /\ before' = db /\ out' = <<>> /\ lexer' = lexed.start
       /\ tree' = IF p.ok THEN p.val ELSE P!NullTree
       /\ outcome' = CASE ~p.ok -> "syntax"
                       [] p.ok /\ p.val = P!NullTree -> "ignored"
                       [] OTHER -> "ok"
       /\ pc' = IF outcome' = "ok" THEN "parsed" ELSE "done"
  /\ UNCHANGED <<db, knobs, script, query, plan, exec>>

Analyze ==
  /\ pc = "parsed"
  /\ \E q \in {do_analyze(db, tree)} :
       \/ /\ ~IsErr(q)
          /\ query' = q.it /\ pc' = "analyzed"
          /\ UNCHANGED <<db, knobs, script, at, lexer, before, outcome>>
       \/ IsErr(q) /\ Throw(q.err) /\ UNCHANGED query
  /\ UNCHANGED <<tree, plan, exec, out>>

Optimize ==
  /\ pc = "analyzed"
  /\ \E p \in {plan_query(db, knobs, tree, query)} :
       \/ /\ ~IsErr(p)
          /\ plan' = p.it /\ pc' = "planned"
          /\ UNCHANGED <<db, knobs, script, at, lexer, before, outcome>>
       \/ IsErr(p) /\ Throw(p.err) /\ UNCHANGED plan
  /\ UNCHANGED <<tree, query, exec, out>>

(* Portal::start and the beginning of select_from.                         *)
BeginUnlessFailed(e) == IF Fail(e) # "" THEN e ELSE Begin(e)

StartSelect ==
  /\ pc = "planned" /\ plan.node = "DML" /\ plan.tag = "select"
  /\ \E e \in {BeginUnlessFailed(convert_plan_executor(db, plan.sub))} :
       \/ /\ Fail(e) = ""
          /\ exec' = e /\ pc' = "fetch"
          /\ UNCHANGED <<db, knobs, script, at, lexer, before, outcome>>
       \/ Fail(e) # "" /\ Throw(Fail(e)) /\ UNCHANGED exec
  /\ UNCHANGED <<tree, query, plan, out>>

(* A row as it is sent: dates are formatted.                               *)
Shown(cols, row) ==
  [i \in DOMAIN row |-> IF cols[i].type = "DATETIME" THEN format_datetime(row[i]) ELSE row[i]]

LimitReached(limit, n) == limit > 0 /\ n >= limit

(* One round of the loop of select_from.                                   *)
Fetch ==
  /\ pc = "fetch"
  /\ \E n \in {IF IsEnd(exec) THEN [e |-> exec, row |-> NoRow] ELSE Next(exec)} :
       \/ /\ n.row # NoRow /\ ~LimitReached(plan.limit, Len(out))
          /\ \E e \in {NextTuple(n.e)} :
               \/ /\ Fail(e) = "" /\ exec' = e
                  /\ UNCHANGED <<db, knobs, script, at, lexer, before, pc, outcome>>
               \/ Fail(e) # "" /\ Throw(Fail(e)) /\ UNCHANGED exec
          /\ out' = Append(out, Shown(exec.cols, n.row))
          /\ UNCHANGED <<tree, query, plan>>
       \/ /\ Fail(n.e) = "" /\ (n.row = NoRow \/ LimitReached(plan.limit, Len(out)))
          /\ Finish
          /\ UNCHANGED <<db, knobs, out>>
       \/ /\ Fail(n.e) # ""
          /\ Throw(Fail(n.e))
          /\ UNCHANGED <<tree, query, plan, exec, out>>

(* INSERT, UPDATE and DELETE: Portal::start collects the rids, run_dml     *)
(* calls the executor.                                                     *)
DmlResult(t, found) ==
  CASE found.fail # "" -> Err(found.fail)
    [] found.fail = "" /\ plan.tag = "Insert" -> InsertExecutor(t, plan.values)
    [] found.fail = "" /\ plan.tag = "Update" -> UpdateExecutor(t, found.rids, plan.sets)
    [] found.fail = "" /\ plan.tag = "Delete" -> DeleteExecutor(t, found.rids)

RunDml ==
  /\ pc = "planned" /\ plan.node = "DML" /\ plan.tag # "select"
  /\ \E found \in {IF plan.tag = "Insert" THEN [fail |-> "", rids |-> <<>>]
                    ELSE CollectRids(BeginUnlessFailed(convert_plan_executor(db, plan.sub)), <<>>)} :
     \E done \in {DmlResult(db[plan.tab], found)} :
       \/ /\ ~IsErr(done)
          /\ db' = [db EXCEPT ![plan.tab] = done.it]
          /\ Finish
          /\ UNCHANGED <<knobs, out>>
       \/ /\ IsErr(done)
          /\ Throw(done.err)
          /\ UNCHANGED <<tree, query, plan, exec, out>>

(* run_cmd_utility for the planner's switches.  The other utility and DDL  *)
(* statements leave the rows alone; see Server and Catalog.                *)
RunOther ==
  /\ pc = "planned" /\ plan.node \in {"SetKnob", "Other", "DDL"}
  /\ knobs' = CASE plan.node = "SetKnob" /\ plan.knob = "ENABLE_NESTLOOP" -> [knobs EXCEPT !.nestloop = plan.on]
                [] plan.node = "SetKnob" /\ plan.knob = "ENABLE_SORTMERGE" -> [knobs EXCEPT !.sortmerge = plan.on]
                [] OTHER -> knobs
  /\ Finish
  /\ UNCHANGED <<db, out>>

Step == Parse \/ Analyze \/ Optimize \/ StartSelect \/ Fetch \/ RunDml \/ RunOther

Spec == Init /\ [][Step]_vars

-----------------------------------------------------------------------------
(* The statement in work, and what is known about it.                      *)
stmt == script[at]
Ended == at > 0 /\ pc = "done"
HasAggregate == \E i \in DOMAIN stmt.cols : stmt.cols[i].agg # "none"
IsSelect == stmt.node = "SelectStmt"
Tabs == IF IsSelect THEN stmt.tabs ELSE <<stmt.tab>>
Literals == {i \in DOMAIN stmt.conds : stmt.conds[i].rhs.node # "Col"}
LitType(i) == convert_sv_value(stmt.conds[i].rhs).it.type
LhsCol(i) == Meant(before, Tabs, stmt.conds[i].lhs).col
RhsCol(i) == Meant(before, Tabs, stmt.conds[i].rhs).col
Indexed(c) == \E n \in DOMAIN before[c.tab].indexes : c.name \in Range(before[c.tab].indexes[n])

(* A literal that loses something when it becomes a value of a type: a     *)
(* number that is rounded to a FLOAT, a fraction that is cut off for an    *)
(* integer column.                                                         *)
Rounded(type, lit) ==
  \/ lit.node = "FloatLit" /\ ~IsFloat(lit.float)
  \/ lit.node = "IntLit" /\ type = "FLOAT" /\ ~IsFloat(lit.val * FloatUnit)
Lossy(type, lit) ==
  \/ Rounded(type, lit)
  \/ type \in {"INT", "BIGINT"} /\ lit.node = "FloatLit" /\ lit.float % FloatUnit # 0

(* Where the answer is known to differ from what the statement means.      *)
(* The literal of a condition is converted before it is compared.          *)
CutLiteral == \E i \in Literals : Lossy(LhsCol(i).type, stmt.conds[i].rhs)
(* A join compares an integer column with a FLOAT after rounding it.       *)
RoundedColumn ==
  \E i \in DOMAIN stmt.conds \ Literals :
    LET sides == {Meant(before, Tabs, stmt.conds[i].lhs), Meant(before, Tabs, stmt.conds[i].rhs)}
    IN  /\ \E f \in sides : f.col.type = "FLOAT"
        /\ \E f \in sides : /\ f.col.type # "FLOAT"
                             /\ \E r \in Live(before[f.col.tab]) :
                                  ~IsFloat(before[f.col.tab].rows[r][f.pos] * FloatUnit)
(* The bounds of an index scan are made from the literal before it was     *)
(* converted.                                                              *)
WrongBound ==
  \E i \in Literals : Indexed(LhsCol(i)) /\ LhsCol(i).type \in Number /\ LitType(i) # LhsCol(i).type
(* Two columns of a table are compared as the type of the left one.        *)
MixedColumns ==
  \E i \in DOMAIN stmt.conds \ Literals :
    LhsCol(i).tab = RhsCol(i).tab /\ LhsCol(i).type # RhsCol(i).type
(* A condition between two columns of a table goes to the scan of the      *)
(* first table, which ignores it.                                          *)
LostCondition ==
  \E i \in DOMAIN stmt.conds \ Literals : LhsCol(i).tab = RhsCol(i).tab /\ LhsCol(i).tab # Tabs[1]
(* ORDER BY takes the first column of that name.                           *)
OtherOrder ==
  \E i \in DOMAIN stmt.order, j, k \in DOMAIN FromCols(before, Tabs) :
    LET name(n) == FromCols(before, Tabs)[n].col.name
    IN  j # k /\ name(j) = name(k) /\ name(j) = stmt.order[i].col.col
(* An UPDATE of all columns of an index over several columns has left the  *)
(* old rows in the table and out of the index.                             *)
Orphans ==
  \E k \in 1..at : /\ script[k].node = "UpdateStmt"
                   /\ \E n \in DOMAIN before[script[k].tab].indexes :
                        LET index == before[script[k].tab].indexes[n]
                        IN  /\ Len(index) > 1
                            /\ Range(index) \subseteq {script[k].sets[i].col : i \in DOMAIN script[k].sets}

(* UPDATE also cuts the high bits off the value of an INT column.          *)
CutValue(type, lit) == Lossy(type, lit) \/ (type = "INT" /\ lit.node = "IntLit" /\ ~IsInt32(lit.val))

AsMeant ==
  ~(CutLiteral \/ RoundedColumn \/ WrongBound \/ MixedColumns \/ LostCondition \/ Orphans)

(* The numbers of a statement that have more digits than the tree keeps:   *)
(* the limit, the length of a CHAR, a literal with a decimal point.        *)
WideLimit == IsSelect /\ stmt.limit \notin 0..INT32_MAX
WideChar == stmt.node = "CreateTable" /\ \E i \in DOMAIN stmt.fields : ~IsInt32(stmt.fields[i].len)
FineLiteral ==
  \/ stmt.node = "InsertStmt" /\ \E i \in DOMAIN stmt.vals : Rounded("", stmt.vals[i])
  \/ stmt.node = "UpdateStmt" /\ \E i \in DOMAIN stmt.sets : Rounded("", stmt.sets[i].val)
  \/ /\ stmt.node \in {"SelectStmt", "UpdateStmt", "DeleteStmt"}
     /\ \E i \in DOMAIN stmt.conds : Rounded("", stmt.conds[i].rhs)

(* The parser reads back the statement that was written (yacc.y, lex.l),   *)
(* for all kinds of statements, up to the numbers that do not fit the      *)
(* tree; only a target list with an aggregate behind a plain column is     *)
(* refused.  A statement is ignored only while a comment that an earlier   *)
(* request has opened is not closed: the scanner keeps its start           *)
(* condition.                                                              *)
ParsesBack ==
  LET comments == {k \in 1..at : script[k] \in {OpenComment, CloseComment}}
      open == comments # {} /\ script[Max(comments)] = OpenComment
  IN  /\ pc = "parsed" =>
           \/ tree = stmt
           \/ WideLimit /\ tree = [stmt EXCEPT !.limit = tree.limit]
           \/ WideChar /\ tree = [stmt EXCEPT !.fields = tree.fields]
           \/ FineLiteral /\ tree.node = stmt.node
      /\ (Ended /\ outcome = "syntax") =>
           \/ stmt = CloseComment
           \/ IsSelect /\ HasAggregate /\ stmt.cols[1].agg = "none"
      /\ (Ended /\ outcome = "ignored") => open \/ stmt = CloseComment

(* A SELECT answers with exactly the rows it means, as many as the limit   *)
(* the parser read and in the order it asks for, whichever scans, joins    *)
(* and sorts the planner chose (planner.cpp, executor_*.h,                 *)
(* execution_sort.h).                                                      *)
SelectExact ==
  (Ended /\ outcome = "ok" /\ IsSelect) =>
    ((~HasAggregate /\ AsMeant /\ ~OtherOrder) =>
       IsAnswer(before, [stmt EXCEPT !.limit = tree.limit], out))

(* An aggregate over at least one row is exact (executor_aggregate.h) when *)
(* it is the only one, of a type that is supported, and fits the type it   *)
(* is computed in: a SUM of INT an int, a sum of magnitudes, of which any  *)
(* part is then a float, the bits of a float, and a FLOAT maximum or       *)
(* minimum the result it starts from.  MIN does not count empty strings.   *)
AggregateFits(agg, type, total, vals) ==
  LET some == DOMAIN vals # {}
      small == SumFunction([b \in DOMAIN vals |-> Magnitude(vals[b])]) < 2^FloatBits
  IN
  CASE agg \in {"count", "count*"} -> out = <<<<total>>>>
    [] agg = "sum" /\ type = "INT" -> IsInt32(total) => out = <<<<total>>>>
    [] agg = "sum" /\ type = "FLOAT" -> small => out = <<<<total>>>>
    [] agg = "sum" /\ type = "BIGINT" -> small => out = <<<<total * FloatUnit>>>>
    [] agg \in {"max", "min"} /\ type = "INT" -> some => out = <<<<total>>>>
    [] agg = "max" /\ type = "FLOAT" -> (some /\ total >= -FLOAT_START) => out = <<<<total>>>>
    [] agg = "min" /\ type = "FLOAT" -> (some /\ total <= FLOAT_START) => out = <<<<total>>>>
    [] agg = "max" /\ type = "STRING" -> some => out = <<<<total>>>>
    [] agg = "min" /\ type = "STRING" -> (some /\ total # 0) => out = <<<<total>>>>
    [] OTHER -> TRUE

AggregateExact ==
  (Ended /\ outcome = "ok" /\ IsSelect) =>
    ((HasAggregate /\ Len(stmt.cols) = 1 /\ AsMeant) =>
       LET f == Meant(before, Tabs, stmt.cols[1])
       IN  AggregateFits(stmt.cols[1].agg, f.col.type, AggregateAnswer(before, stmt),
                         ValuesOf(before, Tabs, Selected(before, Tabs, stmt.conds), f)))

(* The answer to a SELECT, with or without an aggregate, is the one the    *)
(* statement means (select_from and the executors below it).               *)
AnswerExact == SelectExact /\ AggregateExact

(* The server survives every statement but those with a literal of another *)
(* length than its column (init_raw), letters in a date (stoi), an ORDER   *)
(* BY on a table whose last row is not selected (SortExecutor calls        *)
(* nextTuple behind the end) or a condition within a table that is not the *)
(* first, if the first one has an index.                                   *)
LengthMismatch ==
  stmt.node \in {"SelectStmt", "UpdateStmt", "DeleteStmt"} /\
  \E i \in Literals : LitType(i) # "STRING" /\ LhsCol(i).len # SizeOf[LitType(i)]
SortPastEnd ==
  IsSelect /\ stmt.order # <<>> /\ Len(Tabs) = 1 /\
  \E r \in Live(before[Tabs[1]]) : /\ \A q \in Live(before[Tabs[1]]) : q <= r
                                   /\ ~Holds(before, Tabs, stmt.conds, <<r>>)
GarbledDate ==
  LET garbled(lit) == lit.node = "StringLit" /\ lit.str.form = "garbled"
  IN  \/ stmt.node = "InsertStmt" /\ \E i \in DOMAIN stmt.vals : garbled(stmt.vals[i])
      \/ stmt.node = "UpdateStmt" /\ \E i \in DOMAIN stmt.sets : garbled(stmt.sets[i].val)
      \/ stmt.node # "InsertStmt" /\ \E i \in Literals : garbled(stmt.conds[i].rhs)
ForeignCondition == IsSelect /\ LostCondition /\ before[Tabs[1]].indexes # <<>>

SurvivesUnless ==
  pc = "dead" => LengthMismatch \/ GarbledDate \/ SortPastEnd \/ ForeignCondition

(* An index scan fails on its bounds only if no row meets the conditions   *)
(* (inverted bounds), and a key is called a duplicate only if the          *)
(* statement as meant would give two rows one key.                         *)
MatchingRids == {b[1] : b \in Selected(before, <<stmt.tab>>, stmt.conds)}
ErrorsJustified ==
  Ended =>
    /\ outcome = "IndexEntryNotFound" =>
         (AsMeant => Selected(before, Tabs, stmt.conds) = {})
    /\ outcome = "Duplicate" =>
         LET t == before[stmt.tab]
             lit(r, name) ==  \* the field of row r (0 is a new row) as meant
               LET col == get_col(t, name)
                   set == {i \in DOMAIN stmt.sets : stmt.sets[i].col = name}
                   pos == ColPos(t.cols, stmt.tab, name)
               IN  CASE r = 0 -> LiteralMeaning(col.type, stmt.vals[pos])
                     [] r # 0 /\ stmt.node = "UpdateStmt" /\ r \in MatchingRids /\ set # {} ->
                          LiteralMeaning(col.type, stmt.sets[Max(set)].val)
                     [] OTHER -> Meaning(col.type, t.rows[r][pos])
             key(r, index) == [i \in DOMAIN index |-> lit(r, index[i])]
             rids == Live(t) \cup IF stmt.node = "InsertStmt" THEN {0} ELSE {}
             cut == \/ /\ stmt.node = "UpdateStmt"
                       /\ \E i \in DOMAIN stmt.sets : CutValue(get_col(t, stmt.sets[i].col).type, stmt.sets[i].val)
                    \/ /\ stmt.node = "InsertStmt"
                       /\ \E i \in DOMAIN stmt.vals : CutValue(t.cols[i].type, stmt.vals[i])
         IN  Orphans \/ cut \/ \E n \in DOMAIN t.indexes, q, r \in rids :
                          q # r /\ key(q, t.indexes[n]) = key(r, t.indexes[n])

(* INSERT adds the row it is told, UPDATE changes the fields it is told in *)
(* the rows it means, DELETE removes the rows it means, and no other row   *)
(* changes (executor_insert.h, executor_update.h, executor_delete.h).      *)
DmlExact ==
  (Ended /\ outcome = "ok" /\ stmt.node \in {"InsertStmt", "UpdateStmt", "DeleteStmt"}) =>
    LET t == before[stmt.tab]
        new == db[stmt.tab]
        same(R) == \A r \in R : new.rows[r] = t.rows[r]
        told(r, pos, lit) ==
          LET type == t.cols[pos].type
          IN  CutValue(type, lit) \/ Meaning(type, new.rows[r][pos]) = LiteralMeaning(type, lit)
    IN  CASE stmt.node = "InsertStmt" ->
               \E r \in Live(new) : /\ Live(new) = Live(t) \cup {r} /\ r \notin Live(t)
                                    /\ same(Live(t))
                                    /\ \A i \in DOMAIN stmt.vals : told(r, i, stmt.vals[i])
          [] stmt.node = "DeleteStmt" ->
               AsMeant => Live(new) = Live(t) \ MatchingRids /\ same(Live(new))
          [] stmt.node = "UpdateStmt" ->
               AsMeant => /\ Live(new) = Live(t)
                          /\ same(Live(t) \ MatchingRids)
                          /\ \A r \in MatchingRids, i \in DOMAIN t.cols :
                               LET set == {k \in DOMAIN stmt.sets : stmt.sets[k].col = t.cols[i].name}
                               IN  IF set = {} THEN new.rows[r][i] = t.rows[r][i]
                                   ELSE told(r, i, stmt.sets[Max(set)].val)

(* Every index has one entry for each row, with the row's key, and no key  *)
(* twice, whatever statements came before.  An index is the set of its     *)
(* entries here, which is what a tree is that has never merged two nodes;  *)
(* a merge loses entries (see IxIndex).                                    *)
IndexesMatchRows ==
  \A tab \in DOMAIN db :
    LET t == db[tab]
    IN  Orphans \/ \A index \in Range(t.indexes) :
          /\ t.held[index] = {[key |-> KeyOf(t, index, t.rows[r]), rid |-> r] : r \in Live(t)}
          /\ \A q, r \in Live(t) : KeyOf(t, index, t.rows[q]) = KeyOf(t, index, t.rows[r]) => q = r
=============================================================================
