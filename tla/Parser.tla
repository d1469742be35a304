------------------------------- MODULE Parser -------------------------------
(***************************************************************************)
(* The scanner and the parser (parser/lex.l and parser/yacc.y with the     *)
(* code bison and flex generate from them, parser/ast.h): from the lexemes *)
(* of a statement to its parse tree.                                       *)
(*                                                                         *)
(* A lexeme is [kind, text], an "open" one begins a block comment and a    *)
(* "close" one ends it; a token [t, v] has a terminal of the grammar       *)
(* and the value yylval carries.  The LALR(1) automaton is replaced by one *)
(* operator per nonterminal that returns [ok, val, rest]: val is $$, rest  *)
(* are the tokens not read.  The grammar needs one token of lookahead, and *)
(* its one conflict (selector) is resolved as bison resolves it.           *)
(***************************************************************************)
EXTENDS Numbers, Sequences, SequencesExt

CONSTANT INT64_MAX  \* largest integer literal (2^63 - 1 in the code)

StatementWords ==
  {"SHOW", "BEGIN", "COMMIT", "ABORT", "ROLLBACK", "TABLES", "CREATE", "TABLE", "DROP", "DESC",
   "INSERT", "INTO", "VALUES", "DELETE", "FROM", "WHERE", "UPDATE", "SET", "SELECT", "INT", "CHAR",
   "FLOAT", "BIGINT", "DATETIME", "INDEX", "AND", "JOIN", "EXIT", "HELP"}
ClauseWords ==
  {"SUM", "MAX", "MIN", "COUNT", "AS", "LIMIT", "ORDER", "BY", "ASC", "ENABLE_NESTLOOP",
   "ENABLE_SORTMERGE"}

Token(t, v) == [t |-> t, v |-> v]

(* A word is a keyword, a truth value or an identifier.                    *)
LexWord(w) ==
  CASE w \in StatementWords \cup ClauseWords -> Token(w, w)
    [] w \in {"TRUE", "FALSE"} -> Token("VALUE_BOOL", w = "TRUE")
    [] OTHER -> Token("IDENTIFIER", w)

(* strtoll clamps what does not fit and the flag tells.                    *)
LexInt(n) ==
  LET over == n > INT64_MAX \/ n < -INT64_MAX - 1
      v == IF over THEN IF n < 0 THEN -INT64_MAX - 1 ELSE INT64_MAX ELSE n
  IN  Token("VALUE_INT", [val |-> v, overflow |-> over])

(* The terminal of a lexeme; "*/" outside of a comment starts with "*".    *)
(* The double of atof is stored in a float.                                *)
LexToken(l) ==
  CASE l.kind = "word" -> LexWord(l.text)
    [] l.kind = "int" -> LexInt(l.text)
    [] l.kind = "float" -> Token("VALUE_FLOAT", ToFloat(l.text))
    [] l.kind = "string" -> Token("VALUE_STRING", l.text)
    [] l.kind = "op" -> Token(l.text, l.text)
    [] l.kind = "close" -> Token("*", "*")

(* A block comment is a start condition of the scanner.  White space, line *)
(* comments and characters no rule knows yield no token.                   *)
LexOne(acc, l) ==
  CASE acc.start = "STATE_COMMENT" -> IF l.kind = "close" THEN [acc EXCEPT !.start = "INITIAL"] ELSE acc
    [] acc.start = "INITIAL" /\ l.kind = "open" -> [acc EXCEPT !.start = "STATE_COMMENT"]
    [] acc.start = "INITIAL" /\ l.kind \in {"space", "line", "junk"} -> acc
    [] OTHER -> [acc EXCEPT !.tokens = Append(@, LexToken(l))]

(* yylex over a request, from the start condition the last request left:   *)
(* neither yy_scan_string nor the rule for the end of the input resets it. *)
yylex(start, lexemes) == FoldLeft(LexOne, [start |-> start, tokens |-> <<>>], lexemes)

-----------------------------------------------------------------------------
(* Parsing in general.                                                     *)

At(s) == IF s = <<>> THEN "T_EOF" ELSE s[1].t
Parsed(val, rest) == [ok |-> TRUE, val |-> val, rest |-> rest]
SyntaxError == [ok |-> FALSE]
Bind(p, Op(_, _)) == IF p.ok THEN Op(p.val, p.rest) ELSE SyntaxError

(* Shift the terminals ts.                                                 *)
Shift(ts, s) ==
  IF Len(s) >= Len(ts) /\ \A i \in DOMAIN ts : s[i].t = ts[i]
    THEN Parsed(<<>>, SubSeq(s, Len(ts) + 1, Len(s))) ELSE SyntaxError

(* Shift one terminal and keep its value.                                  *)
Take(t, s) == IF At(s) = t THEN Parsed(s[1].v, Tail(s)) ELSE SyntaxError

(* A left-recursive list: item { sep item }.                               *)
List(Item(_), seps, s) ==
  LET more(acc, i) ==
        IF acc.ok /\ At(acc.rest) \in seps
          THEN Bind(Item(Tail(acc.rest)), LAMBDA v, r : Parsed(Append(acc.val, v), r))
          ELSE acc
  IN  FoldLeft(more, Bind(Item(s), LAMBDA v, r : Parsed(<<v>>, r)), [i \in DOMAIN s |-> i])

-----------------------------------------------------------------------------
(* Nodes of the tree (ast.h).                                              *)

Node(n) == [node |-> n]
OnTable(n, tab) == [node |-> n, tab |-> tab]
Col(tab, col, agg, alias) ==
  [node |-> "Col", tab |-> tab, col |-> col, agg |-> agg, alias |-> alias]
IntLit(val, overflow) == [node |-> "IntLit", val |-> val, overflow |-> overflow]
FloatLit(val) == [node |-> "FloatLit", float |-> val]
StringLit(val) == [node |-> "StringLit", str |-> val]
BoolLit(val) == [node |-> "BoolLit", bool |-> val]
BinaryExpr(lhs, op, rhs) == [lhs |-> lhs, op |-> op, rhs |-> rhs]
OrderItem(col, dir) == [col |-> col, dir |-> dir]
SetClause(col, val) == [col |-> col, val |-> val]
ColDef(name, type, len) == [name |-> name, type |-> type, len |-> len]
CreateTable(tab, fields) == [node |-> "CreateTable", tab |-> tab, fields |-> fields]
IndexStmt(n, tab, names) == [node |-> n, tab |-> tab, names |-> names]
InsertStmt(tab, vals) == [node |-> "InsertStmt", tab |-> tab, vals |-> vals]
DeleteStmt(tab, conds) == [node |-> "DeleteStmt", tab |-> tab, conds |-> conds]
UpdateStmt(tab, sets, conds) ==
  [node |-> "UpdateStmt", tab |-> tab, sets |-> sets, conds |-> conds]
SelectStmt(cols, tabs, conds, order, limit) ==
  [node |-> "SelectStmt", cols |-> cols, tabs |-> tabs, conds |-> conds, order |-> order,
   limit |-> limit]
SetStmt(knob, on) == [node |-> "SetStmt", knob |-> knob, on |-> on]
NullTree == Node("null")

-----------------------------------------------------------------------------
(* The grammar, from the leaves up.                                        *)

tbName(s) == Take("IDENTIFIER", s)
colName(s) == Take("IDENTIFIER", s)

col(s) ==
  Bind(Take("IDENTIFIER", s), LAMBDA name, r :
    IF At(r) = "." THEN Bind(colName(Tail(r)), LAMBDA c, q : Parsed(Col(name, c, "none", ""), q))
    ELSE Parsed(Col("", name, "none", ""), r))

value(s) ==
  CASE At(s) = "VALUE_INT" -> Parsed(IntLit(s[1].v.val, s[1].v.overflow), Tail(s))
    [] At(s) = "VALUE_FLOAT" -> Parsed(FloatLit(s[1].v), Tail(s))
    [] At(s) = "VALUE_STRING" -> Parsed(StringLit(s[1].v), Tail(s))
    [] At(s) = "VALUE_BOOL" -> Parsed(BoolLit(s[1].v), Tail(s))
    [] OTHER -> SyntaxError

op(s) == IF At(s) \in {"=", "<", ">", "<>", "<=", ">="} THEN Parsed(At(s), Tail(s)) ELSE SyntaxError

expr(s) == IF At(s) = "IDENTIFIER" THEN col(s) ELSE value(s)

condition(s) ==
  Bind(col(s), LAMBDA lhs, r :
    Bind(op(r), LAMBDA o, q :
      Bind(expr(q), LAMBDA rhs, p : Parsed(BinaryExpr(lhs, o, rhs), p))))

optWhereClause(s) == IF At(s) = "WHERE" THEN List(condition, {"AND"}, Tail(s)) ELSE Parsed(<<>>, s)

(* TypeLen keeps the length of a CHAR in an int.                           *)
type(s) ==
  CASE At(s) = "INT" -> Parsed(<<"INT", 4>>, Tail(s))
    [] At(s) = "FLOAT" -> Parsed(<<"FLOAT", 4>>, Tail(s))
    [] At(s) = "BIGINT" -> Parsed(<<"BIGINT", 8>>, Tail(s))
    [] At(s) = "DATETIME" -> Parsed(<<"DATETIME", 8>>, Tail(s))
    [] At(s) = "CHAR" ->
         Bind(Shift(<<"CHAR", "(">>, s), LAMBDA x, r :
           Bind(Take("VALUE_INT", r), LAMBDA n, q :
             Bind(Shift(<<")">>, q), LAMBDA y, p : Parsed(<<"STRING", Int32(n.val)>>, p))))
    [] OTHER -> SyntaxError

field(s) ==
  Bind(colName(s), LAMBDA c, r : Bind(type(r), LAMBDA t, q : Parsed(ColDef(c, t[1], t[2]), q)))

(* ( item , ... )                                                          *)
InParens(Item(_), s) ==
  Bind(Shift(<<"(">>, s), LAMBDA x, r :
    Bind(List(Item, {","}, r), LAMBDA items, q :
      Bind(Shift(<<")">>, q), LAMBDA y, p : Parsed(items, p))))

setClause(s) ==
  Bind(colName(s), LAMBDA c, r :
    Bind(Shift(<<"=">>, r), LAMBDA x, q : Bind(value(q), LAMBDA v, p : Parsed(SetClause(c, v), p))))

opt_as_alias(s) ==
  IF At(s) = "AS" THEN Take("IDENTIFIER", Tail(s)) ELSE Parsed("", s)

Aggregates == [SUM |-> "sum", MAX |-> "max", MIN |-> "min", COUNT |-> "count"]

aggItem(s) ==
  LET starred == Shift(<<"COUNT", "(", "*", ")">>, s).ok
      argument == IF starred THEN Parsed(Col("", "", "count*", ""), SubSeq(s, 5, Len(s)))
                  ELSE Bind(Shift(<<"(">>, Tail(s)), LAMBDA x, r :
                         Bind(col(r), LAMBDA c, q :
                           Bind(Shift(<<")">>, q), LAMBDA y, p :
                             Parsed([c EXCEPT !.agg = Aggregates[At(s)]], p))))
  IN  IF At(s) \in DOMAIN Aggregates
        THEN Bind(argument, LAMBDA c, r :
               Bind(opt_as_alias(r), LAMBDA a, q : Parsed([c EXCEPT !.alias = a], q)))
        ELSE col(s)

(* A plain column can start a colList or an aggItemList; bison takes the   *)
(* rule that comes first, so an aggregate cannot follow a plain column,    *)
(* while plain columns may follow an aggregate.                            *)
selector(s) ==
  CASE At(s) = "*" -> Parsed(<<>>, Tail(s))
    [] At(s) = "IDENTIFIER" -> List(col, {","}, s)
    [] OTHER -> List(aggItem, {","}, s)

(* Mutant: the direction is read and forgotten.                            *)
opt_asc_desc_Forget(s) == IF At(s) \in {"ASC", "DESC"} THEN Parsed("DEFAULT", Tail(s)) ELSE Parsed("DEFAULT", s)

opt_asc_desc(s) == IF At(s) \in {"ASC", "DESC"} THEN Parsed(At(s), Tail(s)) ELSE Parsed("DEFAULT", s)

OrderCol(s) ==
  Bind(col(s), LAMBDA c, r : Bind(opt_asc_desc(r), LAMBDA d, q : Parsed(OrderItem(c, d), q)))

opt_order_clause(s) ==
  IF At(s) = "ORDER"
    THEN Bind(Shift(<<"ORDER", "BY">>, s), LAMBDA x, r : List(OrderCol, {","}, r))
    ELSE Parsed(<<>>, s)

opt_limit_clause(s) ==
  IF At(s) = "LIMIT"
    THEN Bind(Take("VALUE_INT", Tail(s)), LAMBDA n, r : Parsed(n.val, r))
    ELSE Parsed(0, s)

(* The limit is cut to an int; one that is not positive is no limit.       *)
LimitOf(n) == IF Int32(n) > 0 THEN Int32(n) ELSE 0

SelectRule(s) ==
  Bind(selector(Tail(s)), LAMBDA cols, r1 :
    Bind(Shift(<<"FROM">>, r1), LAMBDA x, r2 :
      Bind(List(tbName, {",", "JOIN"}, r2), LAMBDA tabs, r3 :
        Bind(optWhereClause(r3), LAMBDA conds, r4 :
          Bind(opt_order_clause(r4), LAMBDA order, r5 :
            Bind(opt_limit_clause(r5), LAMBDA limit, r6 :
              Parsed(SelectStmt(cols, tabs, conds, order, LimitOf(limit)), r6)))))))

dml(s) ==
  CASE At(s) = "INSERT" ->
         Bind(Shift(<<"INSERT", "INTO">>, s), LAMBDA x, r :
           Bind(tbName(r), LAMBDA t, q :
             Bind(Shift(<<"VALUES">>, q), LAMBDA y, p :
               Bind(InParens(value, p), LAMBDA vals, o : Parsed(InsertStmt(t, vals), o)))))
    [] At(s) = "DELETE" ->
         Bind(Shift(<<"DELETE", "FROM">>, s), LAMBDA x, r :
           Bind(tbName(r), LAMBDA t, q :
             Bind(optWhereClause(q), LAMBDA conds, p : Parsed(DeleteStmt(t, conds), p))))
    [] At(s) = "UPDATE" ->
         Bind(tbName(Tail(s)), LAMBDA t, r :
           Bind(Shift(<<"SET">>, r), LAMBDA x, q :
             Bind(List(setClause, {","}, q), LAMBDA sets, p :
               Bind(optWhereClause(p), LAMBDA conds, o : Parsed(UpdateStmt(t, sets, conds), o)))))
    [] At(s) = "SELECT" -> SelectRule(s)

(* CREATE or DROP INDEX table ( column, ... )                              *)
IndexRule(n, s) ==
  Bind(tbName(s), LAMBDA t, r :
    Bind(InParens(colName, r), LAMBDA names, q : Parsed(IndexStmt(n, t, names), q)))

ddl(s) ==
  LET second == At(Tail(s))
      body == SubSeq(s, 3, Len(s))
  IN  CASE At(s) = "DESC" -> Bind(tbName(Tail(s)), LAMBDA t, r : Parsed(OnTable("DescTable", t), r))
        [] At(s) = "CREATE" /\ second = "TABLE" ->
             Bind(tbName(body), LAMBDA t, r :
               Bind(InParens(field, r), LAMBDA fields, q : Parsed(CreateTable(t, fields), q)))
        [] At(s) = "DROP" /\ second = "TABLE" ->
             Bind(tbName(body), LAMBDA t, r : Parsed(OnTable("DropTable", t), r))
        [] At(s) \in {"CREATE", "DROP"} /\ second = "INDEX" ->
             IndexRule(IF At(s) = "CREATE" THEN "CreateIndex" ELSE "DropIndex", body)
        [] At(s) \in {"CREATE", "DROP"} /\ second \notin {"TABLE", "INDEX"} -> SyntaxError

TxnNodes == [BEGIN |-> "TxnBegin", COMMIT |-> "TxnCommit", ABORT |-> "TxnAbort",
             ROLLBACK |-> "TxnRollback"]

dbStmt(s) ==
  IF At(Tail(s)) = "TABLES" THEN Parsed(Node("ShowTables"), SubSeq(s, 3, Len(s)))
  ELSE Bind(Shift(<<"SHOW", "INDEX", "FROM">>, s), LAMBDA x, r :
         Bind(tbName(r), LAMBDA t, q : Parsed(OnTable("ShowIndex", t), q)))

setStmt(s) ==
  IF At(Tail(s)) \in {"ENABLE_NESTLOOP", "ENABLE_SORTMERGE"}
    THEN Bind(Shift(<<"=">>, SubSeq(s, 3, Len(s))), LAMBDA x, r :
           Bind(Take("VALUE_BOOL", r), LAMBDA b, q : Parsed(SetStmt(At(Tail(s)), b), q)))
    ELSE SyntaxError

stmt(s) ==
  CASE At(s) = "SHOW" -> dbStmt(s)
    [] At(s) \in {"CREATE", "DROP", "DESC"} -> ddl(s)
    [] At(s) \in {"INSERT", "DELETE", "UPDATE", "SELECT"} -> dml(s)
    [] At(s) \in DOMAIN TxnNodes -> Parsed(Node(TxnNodes[At(s)]), Tail(s))
    [] At(s) = "SET" -> setStmt(s)
    [] OTHER -> SyntaxError

(* start: what follows the semicolon is not read.                          *)
yyparse(s) ==
  CASE At(s) = "HELP" -> Parsed(Node("Help"), Tail(s))
    [] At(s) \in {"EXIT", "T_EOF"} -> Parsed(NullTree, <<>>)
    [] OTHER -> Bind(stmt(s), LAMBDA tree, r :
                  Bind(Shift(<<";">>, r), LAMBDA x, q : Parsed(tree, q)))
=============================================================================
