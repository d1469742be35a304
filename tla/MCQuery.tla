------------------------------ MODULE MCQuery -------------------------------
EXTENDS Query

(* Literals.                                                               *)
I(n) == P!IntLit(n, FALSE)
F(n) == P!FloatLit(n)
NoDate == [year |-> 0, month |-> 0, day |-> 0, hour |-> 0, minute |-> 0, second |-> 0]
S(rank) == P!StringLit([size |-> 1, rank |-> rank, form |-> "text", date |-> NoDate])
Date(y, mo, d, h, mi, s) ==
  [year |-> y, month |-> mo, day |-> d, hour |-> h, minute |-> mi, second |-> s]
D(date) == P!StringLit([size |-> 19, rank |-> 9, form |-> "date", date |-> date])
Loose == P!StringLit([size |-> 19, rank |-> 9, form |-> "loose", date |-> Date(2024, 2, 1, 0, 0, 0)])
Garbled == P!StringLit([size |-> 19, rank |-> 9, form |-> "garbled", date |-> NoDate])
TooBig == P!IntLit(INT64_MAX, TRUE)
Yes == P!BoolLit(TRUE)

D1 == Date(2024, 2, 29, 23, 59, 59)
D2 == Date(2024, 3, 1, 0, 0, 0)
D3 == Date(2023, 2, 29, 0, 0, 0)

(* Names and conditions.                                                   *)
N(tab, c) == P!Col(tab, c, "none", "")
A(agg, c) == P!Col("", c, agg, "")
C(l, o, r) == P!BinaryExpr(l, o, r)
O(c, dir) == P!OrderItem(c, dir)

(* Two tables: t(a INT, b FLOAT, s CHAR(2)), u(a INT, e INT, d DATETIME).  *)
Table(cols, indexes, rows) ==
  LET t == [cols |-> cols, indexes |-> indexes, rows |-> rows, held |-> <<>>]
  IN  [t EXCEPT !.held = [x \in Range(indexes) |->
                            {[key |-> KeyOf(t, x, rows[r]), rid |-> r] : r \in Live(t)}]]

ColsT == <<MkCol("t", "a", "INT", 4), MkCol("t", "b", "FLOAT", 4), MkCol("t", "s", "STRING", 2)>>
ColsU == <<MkCol("u", "a", "INT", 4), MkCol("u", "e", "INT", 4), MkCol("u", "d", "DATETIME", 8)>>
ColsV == <<MkCol("v", "w", "BIGINT", 8)>>

RowsT == {<<>>, <<<<2, 3, 1>>, <<1, 2, 2>>, <<3, 4, 1>>>>}
RowsU == {<<<<1, 2, pack(D2)>>, <<3, 3, pack(D1)>>>>}
IndexesT == {<<>>, <<<<"a">>>>, <<<<"s", "a">>, <<"b">>>>}
IndexesU == {<<>>, <<<<"d">>>>}

MCDatabases ==
  {[t |-> Table(ColsT, it, rt), u |-> Table(ColsU, iu, ru), v |-> Table(ColsV, <<>>, <<<<5>>>>)] :
     it \in IndexesT, rt \in RowsT, iu \in IndexesU, ru \in RowsU}

Select(cols, tabs, conds, order, limit) == P!SelectStmt(cols, tabs, conds, order, limit)

CondsT ==
  {C(N("", "a"), o, I(2)) : o \in CompOp} \cup {C(N("", "a"), ">", I(6)), C(N("", "a"), "=", F(4))}
  \cup {C(N("t", "b"), o, F(3)) : o \in {"<", "=", ">="}}
  \cup {C(N("", "s"), o, S(1)) : o \in {"=", ">", "<="}}
  \cup {C(N("", "a"), "<", F(3)), C(N("", "b"), "=", I(1)), C(N("", "b"), ">", N("", "a")),
        C(N("", "x"), "=", I(1)), C(N("", "s"), "=", I(1)), C(N("", "a"), "=", TooBig),
        C(N("", "a"), "=", Yes), C(N("", "a"), ">", I(INT32_MAX + 1))}

OneOrTwo(conds) == {<<>>} \cup {<<c>> : c \in conds} \cup {<<c, d>> : c, d \in conds}

(* Scans and sorts of one table.                                           *)
Scans ==
  {Select(<<>>, <<"t">>, w, o, l) :
     w \in OneOrTwo(CondsT), o \in {<<>>, <<O(N("", "s"), "DESC"), O(N("", "a"), "DEFAULT")>>}, l \in {0, 2}}

(* Bounds of an index scan in the wrong order, with and without rows that  *)
(* meet the conditions.                                                    *)
Inverted ==
  {Select(<<>>, <<"t">>, <<C(N("", "a"), ">=", I(3)), C(N("", "a"), "<=", I(1))>>, <<>>, 0),
   Select(<<>>, <<"t">>, <<C(N("", "b"), ">=", F(3)), C(N("", "b"), "<=", I(2))>>, <<>>, 0)}

(* Joins, with conditions on one table and between tables.                 *)
CondsTU ==
  {C(N("t", "a"), o, N("u", "a")) : o \in {"=", ">"}}
  \cup {C(N("", "e"), "<=", N("", "b")), C(N("u", "a"), "<", N("", "e")), C(N("", "s"), "=", S(1)),
        C(N("", "d"), "=", D(D1)), C(N("", "d"), ">", D(D1)), C(N("", "d"), "=", D(D3)),
        C(N("", "d"), "<", Garbled), C(N("", "d"), ">", Loose), C(N("", "a"), "=", I(1)), C(N("", "w"), "=", N("t", "a"))}

Joins ==
  {Select(<<N("", "d"), N("t", "a")>>, ts, w, o, 0) :
     ts \in {<<"t", "u">>, <<"u", "t">>}, w \in OneOrTwo(CondsTU),
     o \in {<<>>, <<O(N("", "d"), "ASC")>>, <<O(N("u", "a"), "DESC")>>}}
  \cup {Select(<<>>, <<"v", "t", "u">>, <<c, d>>, <<>>, 3) : c, d \in CondsTU}

Aggs ==
  {Select(<<a>>, <<"t">>, w, <<>>, 0) :
     a \in {A(g, c) : g \in DOMAIN AggName, c \in {"a", "b", "s"}} \cup {P!Col("", "", "count*", "n")},
     w \in {<<>>} \cup {<<c>> : c \in CondsT}}
  \cup {Select(<<A("sum", "w")>>, <<"v">>, <<>>, <<>>, 0), Select(<<A("max", "w")>>, <<"v">>, <<>>, <<>>, 0),
        Select(<<N("", "a"), A("sum", "b")>>, <<"t">>, <<>>, <<>>, 0),
        Select(<<A("sum", "b"), N("", "a")>>, <<"t">>, <<>>, <<>>, 0)}

(* Statements that change rows, each followed by one that reads or changes *)
(* them again.                                                             *)
Inserts ==
  {P!InsertStmt("t", <<x, y, z>>) : x \in {I(2), I(INT32_MAX), I(INT32_MAX + 1), F(2)}, y \in {F(5), I(1)}, z \in {S(1), S(0)}}
  \cup {P!InsertStmt("u", <<I(4), I(4), z>>) : z \in {D(D1), D(D3), S(1), Loose, Garbled}}
  \cup {P!InsertStmt("t", <<I(1)>>), P!InsertStmt("x", <<I(1)>>), P!InsertStmt("v", <<I(INT32_MAX + 1)>>)}

Sets == {<<P!SetClause("a", I(1))>>, <<P!SetClause("a", F(3))>>, <<P!SetClause("s", S(3)), P!SetClause("a", I(6))>>,
         <<P!SetClause("b", I(2))>>, <<P!SetClause("s", S(2)), P!SetClause("s", S(1))>>}
FewConds == {<<>>, <<C(N("", "a"), "=", I(2))>>, <<C(N("", "a"), "<", I(3)), C(N("", "s"), "=", S(1))>>}

Changes ==
  Inserts \cup {P!UpdateStmt("t", s, w) : s \in Sets, w \in FewConds}
  \cup {P!DeleteStmt("t", w) : w \in FewConds}
  \cup {P!UpdateStmt("u", <<P!SetClause("d", D(d))>>, <<C(N("", "a"), "=", I(1))>>) : d \in {D1, D2, D3}}

Again ==
  {P!InsertStmt("t", <<I(2), F(6), S(1)>>), P!UpdateStmt("t", <<P!SetClause("a", I(3))>>, <<C(N("", "a"), "=", I(6))>>),
   P!DeleteStmt("t", <<C(N("", "a"), ">=", I(2))>>),
   Select(<<N("", "b")>>, <<"t">>, <<C(N("", "s"), "=", S(1))>>, <<>>, 0),
   Select(<<>>, <<"t">>, <<C(N("", "a"), ">=", I(2))>>, <<O(N("", "b"), "ASC")>>, 0),
   Select(<<N("", "d")>>, <<"u">>, <<C(N("", "d"), ">=", D(D1))>>, <<>>, 0)}

Others ==
  {P!CreateTable("x", <<P!ColDef("a", "INT", 4), P!ColDef("s", "STRING", 3), P!ColDef("f", "FLOAT", 4),
                        P!ColDef("g", "BIGINT", 8), P!ColDef("d", "DATETIME", 8)>>),
   P!OnTable("DropTable", "t"), P!IndexStmt("CreateIndex", "t", <<"a", "b">>), P!IndexStmt("DropIndex", "t", <<"a">>),
   P!Node("ShowTables"), P!OnTable("ShowIndex", "t"), P!OnTable("DescTable", "t"), P!Node("TxnBegin"),
   P!Node("TxnCommit"), P!Node("TxnAbort"), P!Node("TxnRollback"), P!Node("Help")}

JoinTU == Select(<<>>, <<"t", "u">>, <<C(N("t", "a"), "=", N("u", "a"))>>, <<>>, 0)
Knobs ==
  {<<P!SetStmt("ENABLE_NESTLOOP", FALSE), JoinTU>>,
   <<P!SetStmt("ENABLE_NESTLOOP", FALSE), P!SetStmt("ENABLE_SORTMERGE", TRUE), JoinTU>>}

(* Comments left open, by this request or by an earlier one.               *)
Comments ==
  {<<OpenComment, JoinTU, CloseComment, JoinTU>>, <<OpenComment, OpenComment, JoinTU>>,
   <<CloseComment, JoinTU>>, <<JoinTU, OpenComment>>}

(* Limits and lengths beyond an INT, and one that is negative.             *)
Wrap(n) == 2 * (INT32_MAX + 1) + n
Wide ==
  {Select(<<N("", "a")>>, <<"t">>, <<>>, o, l) :
     o \in {<<>>, <<O(N("", "a"), "ASC")>>}, l \in {-1, INT32_MAX, INT32_MAX + 1, Wrap(0), Wrap(1), INT64_MAX}}
  \cup {P!CreateTable("x", <<P!ColDef("s", "STRING", Wrap(3)), P!ColDef("a", "INT", 4)>>)}

(* Numbers that are no FLOAT: 17 is 34 units, which is rounded to 32, and  *)
(* 33 units are too.                                                       *)
Roundings ==
  {<<P!InsertStmt("t", <<I(4), y, S(2)>>), s>> :
     y \in {F(32), F(33), F(34), F(-5)},
     s \in {Select(<<N("", "a")>>, <<"t">>, <<C(N("", "b"), o, z)>>, <<>>, 0) :
              o \in {"=", "<="}, z \in {I(16), I(17), F(33)}}
           \cup {Select(<<A(g, "b")>>, <<"t">>, <<>>, <<>>, 0) : g \in {"sum", "max", "min"}}
           \cup {P!UpdateStmt("t", <<P!SetClause("b", z)>>, <<C(N("", "a"), "=", I(1))>>) : z \in {I(17), F(33)}}}
  \cup {<<P!InsertStmt("t", <<I(4), F(32), S(2)>>), P!InsertStmt("u", <<I(5), n, D(D1)>>),
          Select(<<N("", "b")>>, <<"t", "u">>, <<C(N("", "e"), o, N("", "b"))>>, <<>>, 0)>> :
          n \in {I(16), I(17)}, o \in {"=", "<"}}

(* Sums beyond their type, from above and from below, and FLOATs beyond    *)
(* the result that MAX and MIN start from.                                 *)
Limits ==
  {<<P!InsertStmt("t", <<I(x), F(5), S(2)>>), P!InsertStmt("t", <<I(y), F(6), S(2)>>),
     Select(<<A("sum", "a")>>, <<"t">>, <<>>, <<>>, 0)>> :
     x \in {INT32_MAX, -INT32_MAX - 1, 9}, y \in {INT32_MAX - 1, -INT32_MAX}}
  \cup {<<P!InsertStmt("v", <<I(n)>>), Select(<<A("sum", "w")>>, <<"v">>, <<>>, <<>>, 0)>> : n \in {4, -6, 17}}
  \cup {<<P!InsertStmt("t", <<I(4), F(x), S(2)>>), Select(<<A(g, "b")>>, <<"t">>, w, <<>>, 0)>> :
          x \in {-448, 448}, g \in {"max", "min"}, w \in {<<>>, <<C(N("", "a"), "=", I(4))>>}}

MCScripts ==
  {<<s>> : s \in Scans \cup Inverted \cup Joins \cup Aggs \cup Others \cup Wide}
    \cup {<<c, d>> : c \in Changes, d \in Again}
    \cup Roundings \cup Limits \cup Knobs \cup Comments
=============================================================================
