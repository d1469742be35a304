------------------------------ MODULE SqlText -------------------------------
(***************************************************************************)
(* What a client writes to have a statement executed: the lexemes of the   *)
(* statement whose parse tree is given.  The reference for Parser, which   *)
(* must read the tree back.                                                *)
(***************************************************************************)
EXTENDS Integers, Sequences, SequencesExt

CONSTANT INT64_MAX

Word(w) == <<[kind |-> "word", text |-> w]>>
Sym(x) == <<[kind |-> "op", text |-> x]>>
Blank == <<[kind |-> "space", text |-> " "]>>

(* The texts of a list with a separator between them.                      *)
Separated(texts, sep) ==
  FoldLeft(LAMBDA acc, x : IF acc = <<>> THEN x ELSE acc \o sep \o x, <<>>, texts)

TextOfLiteral(lit) ==
  CASE lit.node = "IntLit" ->
         <<[kind |-> "int", text |-> IF lit.overflow THEN INT64_MAX + 1 ELSE lit.val]>>
    [] lit.node = "FloatLit" -> <<[kind |-> "float", text |-> lit.float]>>
    [] lit.node = "StringLit" -> <<[kind |-> "string", text |-> lit.str]>>
    [] lit.node = "BoolLit" -> Word(IF lit.bool THEN "TRUE" ELSE "FALSE")

TextOfName(c) == (IF c.tab = "" THEN <<>> ELSE Word(c.tab) \o Sym(".")) \o Word(c.col)

AggName == [sum |-> "SUM", max |-> "MAX", min |-> "MIN", count |-> "COUNT"]

TextOfColumn(c) ==
  (CASE c.agg = "none" -> TextOfName(c)
     [] c.agg = "count*" -> Word("COUNT") \o Sym("(") \o Sym("*") \o Sym(")")
     [] OTHER -> Word(AggName[c.agg]) \o Sym("(") \o TextOfName(c) \o Sym(")"))
  \o IF c.alias = "" THEN <<>> ELSE Word("AS") \o Word(c.alias)

TextOfCond(c) ==
  TextOfName(c.lhs) \o Sym(c.op) \o IF c.rhs.node = "Col" THEN TextOfName(c.rhs) ELSE TextOfLiteral(c.rhs)

TextOfOrder(o) == TextOfName(o.col) \o IF o.dir = "DEFAULT" THEN <<>> ELSE Word(o.dir)

(* ( item , ... ), keyword item sep ..., and nothing for an empty clause.  *)
TextOfClause(words, texts, sep) ==
  IF texts = <<>> THEN <<>> ELSE Separated([i \in DOMAIN words |-> Word(words[i])], Blank) \o Separated(texts, sep)

TextOfWhere(conds) ==
  TextOfClause(<<"WHERE">>, [i \in DOMAIN conds |-> TextOfCond(conds[i])], Word("AND"))

TextOfField(f) ==
  Word(f.name) \o IF f.type = "STRING"
                    THEN Word("CHAR") \o Sym("(") \o <<[kind |-> "int", text |-> f.len]>> \o Sym(")")
                    ELSE Word(f.type)

(* A request that opens a comment and does not close it, and one that only *)
(* closes a comment.                                                       *)
OpenComment == [node |-> "OpenComment"]
CloseComment == [node |-> "CloseComment"]
TextOfComment(s) ==
  IF s = OpenComment THEN <<[kind |-> "open", text |-> ""]>> \o Word("comment")
  ELSE <<[kind |-> "close", text |-> ""]>>

TextOfStatement(s) ==
  LET names(seq) == Sym("(") \o Separated([i \in DOMAIN seq |-> Word(seq[i])], Sym(",")) \o Sym(")")
  IN
  (CASE s.node = "SelectStmt" ->
          Word("SELECT")
          \o (IF s.cols = <<>> THEN Sym("*")
              ELSE Separated([i \in DOMAIN s.cols |-> TextOfColumn(s.cols[i])], Sym(",")))
          \o TextOfClause(<<"FROM">>, [i \in DOMAIN s.tabs |-> Word(s.tabs[i])], Word("JOIN"))
          \o TextOfWhere(s.conds)
          \o TextOfClause(<<"ORDER", "BY">>, [i \in DOMAIN s.order |-> TextOfOrder(s.order[i])], Sym(","))
          \o IF s.limit = 0 THEN <<>> ELSE Word("LIMIT") \o <<[kind |-> "int", text |-> s.limit]>>
     [] s.node = "InsertStmt" ->
          Word("INSERT") \o Word("INTO") \o Word(s.tab) \o Word("VALUES") \o Sym("(")
          \o Separated([i \in DOMAIN s.vals |-> TextOfLiteral(s.vals[i])], Sym(",")) \o Sym(")")
     [] s.node = "UpdateStmt" ->
          Word("UPDATE") \o Word(s.tab)
          \o TextOfClause(<<"SET">>, [i \in DOMAIN s.sets |->
                            Word(s.sets[i].col) \o Sym("=") \o TextOfLiteral(s.sets[i].val)], Sym(","))
          \o TextOfWhere(s.conds)
     [] s.node = "DeleteStmt" -> Word("DELETE") \o Word("FROM") \o Word(s.tab) \o TextOfWhere(s.conds)
     [] s.node = "CreateTable" ->
          Word("CREATE") \o Word("TABLE") \o Word(s.tab) \o Sym("(")
          \o Separated([i \in DOMAIN s.fields |-> TextOfField(s.fields[i])], Sym(",")) \o Sym(")")
     [] s.node = "DropTable" -> Word("DROP") \o Word("TABLE") \o Word(s.tab)
     [] s.node = "CreateIndex" -> Word("CREATE") \o Word("INDEX") \o Word(s.tab) \o names(s.names)
     [] s.node = "DropIndex" -> Word("DROP") \o Word("INDEX") \o Word(s.tab) \o names(s.names)
     [] s.node = "ShowTables" -> Word("SHOW") \o Word("TABLES")
     [] s.node = "ShowIndex" -> Word("SHOW") \o Word("INDEX") \o Word("FROM") \o Word(s.tab)
     [] s.node = "DescTable" -> Word("DESC") \o Word(s.tab)
     [] s.node = "SetStmt" ->
          Word("SET") \o Word(s.knob) \o Sym("=") \o Word(IF s.on THEN "TRUE" ELSE "FALSE")
     [] s.node = "TxnBegin" -> Word("BEGIN")
     [] s.node = "TxnCommit" -> Word("COMMIT")
     [] s.node = "TxnAbort" -> Word("ABORT")
     [] s.node = "TxnRollback" -> Word("ROLLBACK")
     [] s.node = "Help" -> Word("HELP"))
  \o Sym(";")

Text(s) == IF s.node \in {"OpenComment", "CloseComment"} THEN TextOfComment(s) ELSE TextOfStatement(s)
=============================================================================
