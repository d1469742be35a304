------------------------------- MODULE Values -------------------------------
(***************************************************************************)
(* Column types, values and conditions (common/common.h, defs.h) and the   *)
(* meta data of tables (system/sm_meta.h).                                 *)
(*                                                                         *)
(* What is stored in a field: an INT or BIGINT is itself, a FLOAT is       *)
(* counted in units of 1/FloatUnit, a string is its rank in the            *)
(* lexicographic order (0 is the empty string), a DATETIME the packed      *)
(* number of pack.  A literal string is [size, rank, form, date]: form     *)
(* tells whether it is a date ("date"), is laid out like one with letters  *)
(* behind the digits of a field ("loose") or in place of all of them       *)
(* ("garbled"), or is not ("text"); date are the fields of the first two.  *)
(*                                                                         *)
(* An operator that may throw returns Err(what) or Ok(its result).         *)
(***************************************************************************)
EXTENDS Numbers, Sequences, SequencesExt, FiniteSets

CONSTANT
  FloatUnit   \* units in which a FLOAT is counted, a power of 2; 1 unit stands for any denormal

ASSUME ValuesAssumption == FloatUnit \in {2^k : k \in 1..10}

Ok(x) == [err |-> "", it |-> x]
Err(e) == [err |-> e]
IsErr(x) == x.err # ""
(* What follows an operation that may throw.                               *)
Then(x, Op(_)) == IF IsErr(x) THEN x ELSE Op(x.it)

(* sizeof of the fixed-size types; the length of a STRING is declared.     *)
SizeOf == [INT |-> 4, FLOAT |-> 4, BIGINT |-> 8, DATETIME |-> 8]

-----------------------------------------------------------------------------
(* DATETIME.  The packed 64-bit number is kept as the pair of its bits     *)
(* above and below bit 22, since TLC's integers are 32 bits wide.          *)

DatetimeFields == {"year", "month", "day", "hour", "minute", "second"}

days_in_month(year, month) ==
  LET leap == (year % 4 = 0 /\ year % 100 # 0) \/ year % 400 = 0
  IN  IF month = 2 /\ leap THEN 29
      ELSE <<31, 28, 31, 30, 31, 30, 31, 31, 30, 31, 30, 31>>[month]

ValidDatetime(d) ==
  /\ d.year \in 1000..9999 /\ d.month \in 1..12 /\ d.day \in 1..31
  /\ d.hour \in 0..23 /\ d.minute \in 0..59 /\ d.second \in 0..59
  /\ d.day <= days_in_month(d.year, d.month)

pack(d) ==
  <<d.year * 2^4 + d.month, d.day * 2^17 + d.hour * 2^12 + d.minute * 2^6 + d.second>>

(* Letters in place of digits make stoi throw invalid_argument, which is   *)
(* no RMDBError: nothing catches it.  stoi stops at a letter behind digits *)
(* (and takes a blank or a sign before them): the field is what it read.   *)
parse_datetime(str) ==
  CASE str.form = "text" -> Err("InvalidDatetime")
    [] str.form = "garbled" -> Err("terminate")
    [] str.form \in {"date", "loose"} -> IF ValidDatetime(str.date) THEN Ok(pack(str.date)) ELSE Err("InvalidDatetime")

(* format_datetime takes the fields out of the packed number again.        *)
format_datetime(dt) ==
  [second |-> dt[2] % 2^6, minute |-> (dt[2] \div 2^6) % 2^6,
   hour |-> (dt[2] \div 2^12) % 2^5, day |-> (dt[2] \div 2^17) % 2^5,
   month |-> dt[1] % 2^4, year |-> (dt[1] \div 2^4) % 2^14]

(* The order in time.                                                      *)
Earlier(c, d) ==
  LET k(x) == <<x.year, x.month, x.day, x.hour, x.minute, x.second>>
  IN  \E i \in 1..6 : k(c)[i] < k(d)[i] /\ \A j \in 1..(i - 1) : k(c)[j] = k(d)[j]

-----------------------------------------------------------------------------
(* struct Value.  raw is the buffer init_raw fills: what was written into  *)
(* it and as which type.                                                   *)

NoRaw == [type |-> "none", val |-> 0]
MkValue(type, val) == [type |-> type, val |-> val, raw |-> NoRaw]

set_datetime(v) == Then(parse_datetime(v.val), LAMBDA dt : Ok(MkValue("DATETIME", dt)))

(* init_raw(len): the assertions on len, and the only check that throws.   *)
init_raw(v, len) ==
  LET written(val) == Ok([v EXCEPT !.raw = [type |-> v.type, val |-> val]])
  IN  IF v.type = "STRING"
        THEN IF len < v.val.size THEN Err("StringOverflow") ELSE written(v.val.rank)
        ELSE IF len # SizeOf[v.type] THEN Err("assert")
             ELSE written(IF v.type = "INT" THEN Int32(v.val) ELSE v.val)

(* What reading a buffer as another type of its length gives: the bits of  *)
(* a FLOAT other than 0 are a huge INT, those of a small INT a denormal.   *)
ReadAs(raw, type) ==
  CASE raw.type = "FLOAT" /\ type = "INT" -> IF raw.val = 0 THEN 0 ELSE INT32_MAX
    [] raw.type = "INT" /\ type = "FLOAT" -> IF raw.val = 0 THEN 0 ELSE 1
    [] OTHER -> raw.val

Truncate(f) == IF f >= 0 THEN f \div FloatUnit ELSE -((-f) \div FloatUnit)

(* The FLOAT an integer becomes.                                           *)
FloatOf(n) == ToFloat(n * FloatUnit)

(* The conversions between the number types, as analysis and executors     *)
(* write them out: (float)n, (int64_t)f, and a change of tag otherwise.    *)
Convert(v, type) ==
  CASE v.type # "FLOAT" /\ type = "FLOAT" -> [v EXCEPT !.type = type, !.val = FloatOf(v.val)]
    [] v.type = "FLOAT" /\ type # "FLOAT" -> [v EXCEPT !.type = type, !.val = Truncate(v.val)]
    [] OTHER -> [v EXCEPT !.type = type]

Number == {"INT", "FLOAT", "BIGINT"}
Compatible(t1, t2) == t1 = t2 \/ {t1, t2} \subseteq Number

(* The field a literal is compared with or stored in.                      *)
Plain(v) == IF v.type = "STRING" THEN v.val.rank ELSE v.val

CompOp == {"=", "<>", "<", ">", "<=", ">="}

(* The order of two fields of one type; packed dates are 64-bit numbers.   *)
Less(type, x, y) ==
  IF type = "DATETIME" THEN x[1] < y[1] \/ (x[1] = y[1] /\ x[2] < y[2]) ELSE x < y

(* The six-way switch that every comparison in the executors ends in.      *)
Cmp(type, a, op, b) ==
  CASE op = "=" -> a = b
    [] op = "<>" -> a # b
    [] op = "<" -> Less(type, a, b)
    [] op = ">" -> Less(type, b, a)
    [] op = "<=" -> ~Less(type, b, a)
    [] op = ">=" -> ~Less(type, a, b)

(* Mutant: <= and >= are not exchanged.                                    *)
swap_op_Half(op) == CASE op = "<" -> ">" [] op = ">" -> "<" [] OTHER -> op

swap_op(op) ==
  CASE op = "<" -> ">" [] op = ">" -> "<" [] op = "<=" -> ">=" [] op = ">=" -> "<="
    [] OTHER -> op

-----------------------------------------------------------------------------
(* Meta data.  db maps a table name to [cols, indexes, rows, held]; a      *)
(* column is [tab, name, type, len], an index the sequence of its column   *)
(* names; rows are the slots of the table's file in the order of their     *)
(* Rids, a free one being NoRow; held[index] are the entries [key, rid]    *)
(* of the index.                                                           *)

NoRow == <<>>
MkCol(tab, name, type, len) == [tab |-> tab, name |-> name, type |-> type, len |-> len]

is_table(db, tab) == tab \in DOMAIN db
IsNamed(c, tab, name) == c.tab = tab /\ c.name = name
ColPos(cols, tab, name) == SelectInSeq(cols, LAMBDA c : IsNamed(c, tab, name))
get_col(t, name) == t.cols[SelectInSeq(t.cols, LAMBDA c : c.name = name)]
Live(t) == {r \in DOMAIN t.rows : t.rows[r] # NoRow}

(* The columns of an index, and the key of a row in it.                    *)
IndexCols(t, names) == [i \in DOMAIN names |-> get_col(t, names[i])]
KeyOf(t, names, row) ==
  [i \in DOMAIN names |-> row[SelectInSeq(t.cols, LAMBDA c : c.name = names[i])]]

(* ix_compare: column by column.                                           *)
KeyLess(icols, k, l) ==
  \E i \in DOMAIN k : Less(icols[i].type, k[i], l[i]) /\ \A j \in 1..(i - 1) : k[j] = l[j]
=============================================================================
