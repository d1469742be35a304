--------------------------- MODULE CatalogProofs ---------------------------
(***************************************************************************)
(* Proofs about Catalog: what DDL, crashes in the middle of it and the     *)
(* start-up after them do to the files, the rows and the indexes, for any  *)
(* number of tables, indexes, rows, statements and starts.                 *)
(***************************************************************************)
EXTENDS Catalog, NaturalsInduction, FiniteSetTheorems, SequenceTheorems, TLAPS

LEMMA LeastNat ==
  ASSUME NEW S, S \subseteq Nat, S # {}
  PROVE  \E x \in S : \A y \in S : x <= y
<1> DEFINE R == OpToRel(<, Nat)
<1>1. IsWellFoundedOn(OpToRel(<, Nat), Nat)
  BY NatLessThanWellFounded, Zenon
<1>2. \E x \in S : \A y \in S : ~(<<y, x>> \in OpToRel(<, Nat))
  BY <1>1, WFMin, Zenon
<1>3. \A x, y \in Nat : <<y, x>> \in OpToRel(<, Nat) <=> y < x
  BY DEF OpToRel
<1> HIDE DEF R
<1>4. \E x \in S : \A y \in S : ~(<<y, x>> \in R)
  BY <1>2, Zenon DEF R
<1>5. \A x, y \in Nat : <<y, x>> \in R <=> y < x
  BY <1>3, Zenon DEF R
<1>6. PICK x \in S : \A y \in S : ~(<<y, x>> \in R)
  BY <1>4
<1>7. x \in Nat /\ \A y \in S : y \in Nat /\ ~(y < x)
  BY <1>5, <1>6
<1>8. \A y \in S : x <= y
  BY <1>7
<1> QED BY <1>8

(* What every step keeps holds at the end.                                 *)
LEMMA StepsKeep ==
  ASSUME NEW N \in Nat, NEW Good \in SUBSET (0..N), 0 \in Good,
         \A n \in 1..N : n - 1 \in Good => n \in Good
  PROVE  N \in Good
<1>1. SUFFICES ASSUME N \notin Good PROVE FALSE
  OBVIOUS
<1> DEFINE Bad == (0..N) \ Good
<1>2. PICK k \in Bad : \A j \in Bad : k <= j
  <2>1. Bad \subseteq Nat /\ N \in Bad
    BY <1>1
  <2> HIDE DEF Bad
  <2> QED BY <2>1, LeastNat
<1>3. k # 0 /\ k \in 1..N
  OBVIOUS
<1>4. k - 1 \in Good
  BY <1>2, <1>3
<1> QED BY <1>3, <1>4

-----------------------------------------------------------------------------
(* The inductive invariant.                                                *)

Down == {"stopped", "terminated", "failed"}
Stage(op, steps) == ddl # NoDdl /\ ddl.op = op /\ ddl.at \in steps

(* What the answers promise, as a set of indexes.                          *)
Wanted == {x \in Table \X Index : want[x[1]] # NoTable /\ x[2] \in want[x[1]].ix}

Distinct(rows) == \A q, r \in Row : rows[q] = rows[r] /\ rows[q] # NoKey => q = r

(* An index that is in order: complete, and the next start can rebuild it. *)
Settled(x) ==
  /\ ihs[x] # NoIndex /\ Entries(tfile[x[1]]) \subseteq ihs[x] /\ ifile[x] = Ready
  /\ Distinct(tfile[x[1]]) /\ x[2] \notin Wide

(* Indexes that are in the catalog and not open, for the time being.       *)
Busy(x) ==
  \/ Stage("create_index", {"file", "header", "open"}) /\ x = X
  \/ Stage("drop_index", {"indexes"}) /\ x = X
  \/ Stage("drop_table", {"index", "tabs"}) /\ x[1] = T

(* No statement or start-up step has hit one of the events.                *)
Free(events) == hurt \cap events = {}
Half == {Refused, Partial}
Skew == {Refused, Partial, Missed}
Hard == Gaps \cup Tearing \cup Skew \cup {Logged}

-----------------------------------------------------------------------------
(* Stages of the statements.                                               *)
Stages ==
  \/ ddl.op = "create_table" /\ ddl.at \in {"file", "header", "tabs", "open", "flush", "write"}
  \/ ddl.op = "drop_table" /\ ddl.at \in {"file", "index", "tabs", "flush", "write"}
  \/ /\ ddl.op = "create_index" /\ ddl.ix \in Index
     /\ ddl.at \in {"push", "file", "header", "open", "fill", "flush", "write"}
  \/ ddl.op = "drop_index" /\ ddl.ix \in Index /\ ddl.at \in {"file", "indexes", "flush", "write"}

Shape ==
  /\ phase \in Down => db = NoCatalog /\ fhs = {} /\ ihs = NoHandles
  /\ ddl # NoDdl => phase = "up" /\ Stages
  /\ phase \in {"create", "header"} => todo # <<>>
  /\ phase \notin {"destroy", "create", "header"} => todo = <<>>
  /\ ToSet(todo) \subseteq Indexes(db)

(* The open files are those of the catalog in memory.                      *)
Opened ==
  /\ \A t \in fhs : tfile[t] \in RowFile
  /\ fhs = IF Stage("create_table", {"open"}) \/ Stage("drop_table", {"index", "tabs"})
             THEN Tables(db) \ {T} ELSE Tables(db)
  /\ \A x \in Table \X Index : ihs[x] # NoIndex => x \in Indexes(db)

(* The index that CREATE INDEX fills has the rows before the scan.         *)
Filling ==
  /\ ihs[X] # NoIndex
  /\ Free(Skew) => \A e \in Entries(tfile[T]) : e[2] < ddl.pos => e \in ihs[X]

CreatingTable ==
  /\ Stage("create_table", {"file", "header", "tabs"}) => db[T] = NoTable
  /\ Stage("create_table", {"open", "flush", "write"}) => db[T] = <<>>
  /\ Stage("create_table", {"tabs", "open", "flush", "write"}) => tfile[T] \in RowFile

DroppingTable ==
  /\ Stage("drop_table", {"file"}) => ddl.pos = 1
  /\ Stage("drop_table", {"file", "index", "tabs"}) => db[T] # NoTable
  /\ Stage("drop_table", {"flush", "write"}) => db[T] = NoTable
  /\ Stage("drop_table", {"index", "tabs", "flush", "write"}) => tfile[T] = Absent
  /\ Stage("drop_table", {"index"}) => \A n \in 1..Len(db[T]) : n < ddl.pos => ihs[<<T, db[T][n]>>] = NoIndex
  /\ Stage("drop_table", {"tabs"}) => \A i \in Index : ihs[<<T, i>>] = NoIndex

CreatingIndex ==
  /\ Stage("create_index", {"push", "file", "header", "open"}) => ddl.pos = 1
  /\ Stage("create_index", {"push"}) => db[T] # NoTable /\ X \notin Indexes(db)
  /\ Stage("create_index", {"file", "header", "open", "fill", "flush", "write"}) => X \in Indexes(db)
  /\ Stage("create_index", {"open", "fill", "flush", "write"}) => ddl.ix \notin Wide /\ ifile[X] = Ready
  /\ Stage("create_index", {"fill"}) => Filling

DroppingIndex ==
  /\ Stage("drop_index", {"file", "indexes"}) => X \in Indexes(db)
  /\ Stage("drop_index", {"indexes"}) => ihs[X] = NoIndex
  /\ Stage("drop_index", {"flush", "write"}) => db[T] # NoTable /\ X \notin Indexes(db)

(* Every index of the catalog has a handle.                                *)
Handled ==
  phase = "up" /\ Free({Refused}) => \A x \in Indexes(db) : ihs[x] # NoIndex \/ Busy(x)

Complete ==
  phase = "up" /\ Free(Skew) =>
    \A x \in Indexes(db) : Busy(x) \/ (Stage("create_index", {"fill"}) /\ x = X) \/ Settled(x)

Rebuilt ==
  phase \in {"destroy", "create", "header", "write", "truncate"} =>
    \A x \in Indexes(db) : x \in ToSet(todo) \/ Settled(x)

(* The tables in memory and on disk are those the answers promise.         *)
Named ==
  IF Stage("create_table", {"open", "flush", "write"}) THEN Tables(want) \cup {T}
  ELSE IF Stage("drop_table", {"flush", "write"}) THEN Tables(want) \ {T}
  ELSE Tables(want)

Owned ==
  /\ meta # Torn => Tables(meta) \subseteq Tables(want)
  /\ Tables(db) \subseteq Named

Matched ==
  Free(Tearing) =>
    /\ meta = Torn => phase = "write" \/ (ddl # NoDdl /\ ddl.at = "write")
    /\ meta # Torn => Tables(meta) = Tables(want)
    /\ phase \notin Down => Tables(db) = Named
    /\ Stage("create_table", {"open", "flush", "write"}) => want[T] = NoTable

(* Their rows are those the answers promise, and the log repeats them.     *)
Kept ==
  Free(Tearing \cup {Logged}) =>
    /\ \A t \in Tables(want) :
         \/ tfile[t] = want[t].rows
         \/ tfile[t] = Absent /\ (phase \in Down \/ (Stage("drop_table", {"index", "tabs", "flush", "write"}) /\ T = t))
    /\ \A n \in DOMAIN log :
         log[n].tab \in Tables(want) /\ want[log[n].tab].rows[log[n].row] = log[n].key
    /\ Stage("drop_table", {"index", "tabs", "flush", "write"}) => \A n \in DOMAIN log : log[n].tab # T

(* The indexes in memory and on disk are those the answers promise.        *)
Indexed ==
  IF Stage("create_index", {"file", "header", "open", "fill", "flush", "write"}) THEN Wanted \cup {X}
  ELSE IF Stage("drop_index", {"flush", "write"}) THEN Wanted \ {X}
  ELSE IF Stage("drop_table", {"flush", "write"}) THEN {x \in Wanted : x[1] # T}
  ELSE Wanted

(* The statement has not changed the catalog in memory yet.                *)
Quiet ==
  \/ ddl = NoDdl
  \/ Stage("create_table", {"file", "header", "tabs"}) \/ Stage("drop_table", {"file", "index", "tabs"})
  \/ Stage("create_index", {"push"}) \/ Stage("drop_index", {"file", "indexes"})

Listed ==
  Free(Tearing \cup Half) =>
    /\ meta # Torn => Indexes(meta) = Wanted
    /\ phase \notin Down => Indexes(db) = Indexed
    /\ phase \notin Down \cup {"write"} /\ Quiet => meta = db
    /\ Stage("create_index", {"file", "header", "open", "fill", "flush", "write"}) => X \notin Wanted

(* A start finds what it needs, and so does not fail.                      *)
Present ==
  Free(Hard) =>
    /\ phase # "failed"
    /\ phase # "up" =>
         /\ \A t \in Tables(want) : tfile[t] # Absent
         /\ \A x \in Wanted :
              /\ ifile[x] = Ready \/ (phase \in {"create", "header"} /\ x = Head(todo))
              /\ Distinct(tfile[x[1]]) /\ x[2] \notin Wide

(* No file without a name in the catalog, unless a CREATE is at work.      *)
Claimed ==
  Free(Tearing \cup Half \cup Orphans) =>
    /\ \A t \in Table : tfile[t] # Absent => \/ t \in Tables(want)
                                             \/ Stage("create_table", {"header", "tabs", "open", "flush", "write"}) /\ t = T
    /\ \A x \in Table \X Index : ifile[x] # Absent => \/ x \in Wanted
                                                      \/ Stage("create_index", {"header", "open", "fill", "flush", "write"}) /\ x = X
    /\ Stage("drop_table", {"index"}) => \A n \in 1..Len(db[T]) : n < ddl.pos => ifile[<<T, db[T][n]>>] = Absent
    /\ Stage("drop_table", {"tabs", "flush", "write"}) => \A i \in Index : ifile[<<T, i>>] = Absent
    /\ Stage("drop_index", {"indexes", "flush", "write"}) => ifile[X] = Absent

Staged == CreatingTable /\ DroppingTable /\ CreatingIndex /\ DroppingIndex
IInv ==
  /\ StateOK /\ Shape /\ Opened /\ Staged
  /\ Handled /\ Complete /\ Rebuilt
  /\ Owned /\ Matched /\ Kept /\ Listed /\ Present /\ Claimed

(* The other half: the INSERT at work and the entries of the open indexes. *)

(* A key has one entry.                                                    *)
Keyed == \A x \in Table \X Index : ihs[x] # NoIndex => \A e, f \in ihs[x] : e[1] = f[1] => e = f

(* An open index has its file.                                             *)
Backed == \A x \in Table \X Index : ihs[x] # NoIndex => ifile[x] = Ready

(* Nothing is in the indexes before they are rebuilt.                      *)
Fresh ==
  /\ phase = "redo" => \A x \in Table \X Index : ihs[x] \in {NoIndex, {}}
  /\ phase \in {"create", "header"} => ihs[Head(todo)] = NoIndex

(* Unless its table is gone, the INSERT has an open file and a free slot;  *)
(* past the check, if there was one, no committed row has its key.         *)
Working ==
  ins # NoInsert =>
    /\ phase = "up"
    /\ ins.at # "lost" => ins.tab \in fhs /\ \E q \in Row : tfile[ins.tab][q] = NoKey
    /\ ins.at \in {"write", "entries", "undo"} /\ ins.ix # <<>> => \A q \in Row : tfile[ins.tab][q] # ins.key
    /\ ins.at = "undo" => ins.ix # <<>>
    /\ ins.pos >= 1 /\ (ins.at \in {"check", "write"} => ins.pos = 1)

(* The entries are those of committed rows and of the INSERT.              *)
Hanging(t) == ins # NoInsert /\ ins.tab = t /\ ins.at \in {"entries", "undo"}
Only ==
  Free({Stray}) =>
    \A x \in Table \X Index : x[1] \in fhs /\ ihs[x] # NoIndex =>
      \A e \in ihs[x] : e \in Entries(tfile[x[1]]) \/ (Hanging(x[1]) /\ e = Pending)

(* The INSERT's entry is in the indexes it has been through, or CREATE     *)
(* INDEX is still to find its row.                                         *)
Made ==
  Inserts("entries") /\ Free(Skew) =>
    \A n \in 1..Len(ins.ix) :
      n < ins.pos => LET x == <<ins.tab, ins.ix[n]>>
                     IN  ihs[x] # NoIndex => Pending \in ihs[x] \/ Ahead(x, FreeRow(ins.tab))

JInv == ins \in Inserting \cup {NoInsert} /\ Keyed /\ Backed /\ Fresh /\ Working /\ Only /\ Made
-----------------------------------------------------------------------------
(* The operators of the model.                                             *)

List == {s \in Seq(Index) : IsInjective(s)}

LEMMA Marks ==
  /\ Absent # Blank /\ Ready # Absent /\ Ready # Blank
  /\ Absent \notin RowFile /\ Blank \notin RowFile
  /\ NoTable \notin List /\ NoTable \notin Promise /\ <<>> \in List
  /\ NoIndex \notin SUBSET Entry /\ Torn \notin Catalogs /\ NoDdl \notin Ddl
  /\ NoKey \notin Key /\ Slots \in Nat
<1>1. NoTable \notin Seq(Index) /\ NoTable \notin Promise /\ NoDdl \notin Ddl /\ NoKey \notin Key /\ Slots \in Nat
  BY CatalogConstants
<1>2. Absent # Blank /\ Ready # Absent /\ Ready # Blank /\ Absent \notin RowFile /\ Blank \notin RowFile
  BY CatalogConstants
<1>3. NoIndex \notin SUBSET Entry
  BY CatalogConstants
<1>4. Catalogs \subseteq [Table -> Seq(Index) \cup {NoTable}]
  BY DEF Catalogs
<1>5. Torn \notin Catalogs
  BY <1>4, CatalogConstants
<1>6. <<>> \in List
  BY DEF List, IsInjective
<1> QED BY <1>1, <1>2, <1>3, <1>5, <1>6 DEF List

LEMMA Cats == Catalogs = [Table -> {NoTable} \cup List]
BY DEF Catalogs, List

LEMMA Appended ==
  ASSUME NEW s \in List, NEW i \in Index, ~Contains(s, i)
  PROVE  Append(s, i) \in List /\ \A j : Contains(Append(s, i), j) <=> Contains(s, j) \/ j = i
<1>1. PICK u : u = Append(s, i)
  OBVIOUS
<1>2. s \in Seq(Index) /\ \A a, b \in 1..Len(s) : s[a] = s[b] => a = b
  BY DEF List, IsInjective
<1>3. u \in Seq(Index) /\ Len(u) = Len(s) + 1 /\ u[Len(s) + 1] = i /\ Len(s) \in Nat /\ DOMAIN u = 1..(Len(s) + 1)
  BY <1>1, <1>2
<1>4. \A a \in 1..Len(s) : u[a] = s[a]
  BY <1>1, <1>2
<1>5. \A a \in 1..(Len(s) + 1) : a = Len(s) + 1 \/ a \in 1..Len(s)
  BY <1>3
<1>6. \A a \in 1..Len(s) : s[a] # i
  BY DEF Contains
<1>7. IsInjective(u)
  BY <1>2, <1>3, <1>4, <1>5, <1>6 DEF IsInjective
<1>8. Len(s) + 1 \in 1..Len(u) /\ \A a \in 1..Len(s) : a \in 1..Len(u)
  BY <1>3
<1>9. \A j : Contains(u, j) <=> Contains(s, j) \/ j = i
  BY <1>3, <1>4, <1>5, <1>8 DEF Contains
<1> QED BY <1>1, <1>3, <1>7, <1>9 DEF List

LEMMA Erased ==
  ASSUME NEW s \in List, NEW i \in Index, Contains(s, i)
  PROVE  LET n == Min({m \in DOMAIN s : s[m] = i})
         IN  /\ RemoveAt(s, n) \in List
             /\ \A j : Contains(RemoveAt(s, n), j) <=> Contains(s, j) /\ j # i
<1>1. s \in Seq(Index) /\ Len(s) \in Nat /\ DOMAIN s = 1..Len(s) /\ \A a, b \in 1..Len(s) : s[a] = s[b] => a = b
  BY DEF List, IsInjective
<1>2. PICK M : M = {m \in DOMAIN s : s[m] = i}
  OBVIOUS
<1>3. M \subseteq Nat /\ M # {}
  BY <1>1, <1>2 DEF Contains
<1>4. \E m \in M : \A y \in M : m <= y
  BY <1>3, LeastNat
<1>5. PICK n \in M : n = Min(M)
  BY <1>4 DEF Min
<1>6. n \in 1..Len(s) /\ s[n] = i
  BY <1>1, <1>2
<1>7. PICK u : u = RemoveAt(s, n)
  OBVIOUS
<1>8. /\ u \in Seq(Index) /\ Len(u) = Len(s) - 1
      /\ \A a \in 1..Len(u) : u[a] = IF a < n THEN s[a] ELSE s[a + 1]
  <2>1. PICK v, w : v = SubSeq(s, 1, n - 1) /\ w = SubSeq(s, n + 1, Len(s))
    OBVIOUS
  <2>2. v \in Seq(Index) /\ Len(v) = n - 1 /\ \A a \in 1..(n - 1) : v[a] = s[a]
    BY <1>1, <1>6, <2>1
  <2>3. w \in Seq(Index) /\ Len(w) = Len(s) - n /\ \A a \in 1..(Len(s) - n) : w[a] = s[n + a]
    <3>1. n + 1 \in 1..(Len(s) + 1) /\ n \in Nat /\ \A a \in (n + 1)..Len(s) : a \in 1..Len(s)
      BY <1>1, <1>6
    <3>2. w \in Seq(Index)
      BY <1>1, <2>1, <3>1
    <3>3. Len(w) = Len(s) - n
      <4>1. n + 1 \in Int /\ Len(s) \in Int /\ \A a \in (n + 1)..Len(s) : s[a] \in Index
        BY <1>1, <3>1
      <4>2. Len(w) = IF n + 1 <= Len(s) THEN Len(s) - (n + 1) + 1 ELSE 0
        BY <2>1, <4>1, SubSeqProperties
      <4>3. n \in Nat /\ Len(s) \in Nat /\ n <= Len(s)
        BY <1>1, <1>6
      <4> QED BY <4>2, <4>3
    <3>4. ASSUME NEW a \in 1..(Len(s) - n) PROVE w[a] = s[n + a]
      <4>1. (n + 1) + a - 1 = n + a /\ a \in 1..(Len(s) - (n + 1) + 1)
        BY <1>1, <3>1
      <4> QED BY <1>1, <2>1, <3>1, <4>1
    <3> QED BY <3>2, <3>3, <3>4
  <2>4. u = v \o w
    BY <1>7, <2>1 DEF RemoveAt
  <2>5. u \in Seq(Index) /\ Len(u) = Len(v) + Len(w)
    <3>1. v \in Seq(Index) /\ w \in Seq(Index)
      BY <2>2, <2>3
    <3> QED BY <2>4, <3>1
  <2>6. \A a \in 1..Len(u) : u[a] = IF a <= Len(v) THEN v[a] ELSE w[a - Len(v)]
    <3>1. v \in Seq(Index) /\ w \in Seq(Index)
      BY <2>2, <2>3
    <3> QED BY <2>4, <2>5, <3>1
  <2>7. Len(u) = Len(s) - 1
    BY <1>1, <1>6, <2>2, <2>3, <2>5
  <2>8. ASSUME NEW a \in 1..Len(u) PROVE u[a] = IF a < n THEN s[a] ELSE s[a + 1]
    <3>1. CASE a < n
      BY <1>1, <1>6, <2>2, <2>6, <3>1
    <3>2. CASE ~(a < n)
      <4>1. a - (n - 1) \in 1..(Len(s) - n) /\ n + (a - (n - 1)) = a + 1 /\ ~(a <= n - 1)
        BY <1>1, <1>6, <2>7, <3>2
      <4> QED BY <2>2, <2>3, <2>6, <3>2, <4>1
    <3> QED BY <3>1, <3>2
  <2> QED BY <2>5, <2>7, <2>8
<1>9. IsInjective(u)
  <2>1. DOMAIN u = 1..Len(u)
    BY <1>8
  <2> SUFFICES ASSUME NEW a \in 1..Len(u), NEW b \in 1..Len(u), u[a] = u[b] PROVE a = b
    BY <2>1 DEF IsInjective
  <2>2. a \in 1..Len(s) /\ a + 1 \in 1..Len(s) /\ b \in 1..Len(s) /\ b + 1 \in 1..Len(s)
    BY <1>1, <1>8
  <2> QED BY <1>1, <1>6, <1>8, <2>2
<1>10. ASSUME NEW j PROVE Contains(u, j) <=> Contains(s, j) /\ j # i
  <2>1. ASSUME Contains(u, j) PROVE Contains(s, j) /\ j # i
    <3>1. PICK a \in 1..Len(u) : u[a] = j
      BY <2>1 DEF Contains
    <3>2. (a \in 1..Len(s) /\ a + 1 \in 1..Len(s) /\ a + 1 # n) \/ a < n
      BY <1>1, <1>6, <1>8
    <3>3. PICK b \in 1..Len(s) : s[b] = j /\ b # n
      BY <1>1, <1>6, <1>8, <3>1
    <3> QED BY <1>1, <1>6, <3>3 DEF Contains
  <2>2. ASSUME Contains(s, j), j # i PROVE Contains(u, j)
    <3>1. PICK b \in 1..Len(s) : s[b] = j
      BY <2>2 DEF Contains
    <3>2. b # n
      BY <1>6, <2>2, <3>1
    <3>3. CASE b < n
      <4>1. b \in 1..Len(u) /\ u[b] = j
        BY <1>1, <1>6, <1>8, <3>1, <3>3
      <4> QED BY <4>1 DEF Contains
    <3>4. CASE b > n
      <4>1. b - 1 \in 1..Len(u) /\ ~(b - 1 < n) /\ (b - 1) + 1 = b
        BY <1>1, <1>6, <1>8, <3>4
      <4>2. u[b - 1] = j
        BY <1>8, <3>1, <4>1
      <4> QED BY <4>1, <4>2 DEF Contains
    <3> QED BY <1>1, <1>6, <3>2, <3>3, <3>4
  <2> QED BY <2>1, <2>2
<1> QED BY <1>2, <1>5, <1>7, <1>8, <1>9, <1>10 DEF List

(* The catalog with another list for one table.                            *)
LEMMA TableSet ==
  ASSUME NEW cat \in Catalogs, NEW t \in Table, NEW s \in List
  PROVE  /\ [cat EXCEPT ![t] = s] \in Catalogs
         /\ Tables([cat EXCEPT ![t] = s]) = Tables(cat) \cup {t}
         /\ \A x \in Table \X Index :
              x \in Indexes([cat EXCEPT ![t] = s]) <=> IF x[1] = t THEN Contains(s, x[2]) ELSE x \in Indexes(cat)
<1>1. PICK c : c = [cat EXCEPT ![t] = s]
  OBVIOUS
<1>2. c \in Catalogs /\ c[t] = s /\ s # NoTable /\ \A u \in Table : u # t => c[u] = cat[u]
  BY <1>1, Cats, Marks
<1>3. Tables(c) = Tables(cat) \cup {t}
  BY <1>2 DEF Tables
<1>4. \A x \in Table \X Index : x \in Indexes(c) <=> IF x[1] = t THEN Contains(s, x[2]) ELSE x \in Indexes(cat)
  BY <1>2 DEF Indexes
<1> QED BY <1>1, <1>2, <1>3, <1>4

LEMMA TableGone ==
  ASSUME NEW cat \in Catalogs, NEW t \in Table
  PROVE  /\ [cat EXCEPT ![t] = NoTable] \in Catalogs
         /\ Tables([cat EXCEPT ![t] = NoTable]) = Tables(cat) \ {t}
         /\ \A x \in Table \X Index : x \in Indexes([cat EXCEPT ![t] = NoTable]) <=> x[1] # t /\ x \in Indexes(cat)
<1>1. PICK c : c = [cat EXCEPT ![t] = NoTable]
  OBVIOUS
<1>2. c \in Catalogs /\ c[t] = NoTable /\ \A u \in Table : u # t => c[u] = cat[u]
  BY <1>1, Cats
<1>3. Tables(c) = Tables(cat) \ {t}
  BY <1>2 DEF Tables
<1>4. \A x \in Table \X Index : x \in Indexes(c) <=> x[1] # t /\ x \in Indexes(cat)
  BY <1>2 DEF Indexes
<1> QED BY <1>1, <1>2, <1>3, <1>4

LEMMA EmptyCatalog ==
  NoCatalog \in Catalogs /\ Tables(NoCatalog) = {} /\ Indexes(NoCatalog) = {}
BY Cats DEF NoCatalog, Tables, Indexes

(* The list of the indexes that rebuild_indexes goes through.              *)
LEMMA ListOf ==
  ASSUME NEW S \in SUBSET (Table \X Index)
  PROVE  SetToSeq(S) \in Seq(Table \X Index) /\ ToSet(SetToSeq(S)) = S
<1>1. IsFiniteSet(S)
  <2>1. IsFiniteSet(Table \X Index)
    BY CatalogConstants, FS_Product
  <2> QED BY <2>1, FS_Subset
<1>2. PICK n \in Nat : n = Cardinality(S)
  BY <1>1, FS_CardinalityType
<1>3. ExistsBijection(1..n, S)
  BY <1>1, <1>2, FS_CardinalityType
<1>4. PICK g \in [1..n -> S] : \A a, b \in 1..n : g[a] = g[b] => a = b
  BY <1>3 DEF ExistsBijection, Bijection, Injection, IsInjective
<1>5. \E h \in [1..n -> S] : IsInjective(h)
  BY <1>4 DEF IsInjective
<1>6. PICK f \in [1..n -> S] : f = SetToSeq(S) /\ IsInjective(f)
  BY <1>2, <1>5 DEF SetToSeq
<1>7. f \in Injection(1..n, S)
  BY <1>6 DEF Injection
<1>8. Cardinality(1..n) = n
  BY <1>2, FS_Interval
<1>9. f \in Surjection(1..n, S)
  BY <1>1, <1>2, <1>7, <1>8, FS_Injection
<1>10. \A x \in S : \E a \in 1..n : f[a] = x
  BY <1>9 DEF Surjection
<1>11. f \in Seq(Table \X Index) /\ DOMAIN f = 1..n
  BY <1>2, <1>6
<1>12. ToSet(f) = S
  BY <1>10, <1>11 DEF ToSet
<1> QED BY <1>6, <1>11, <1>12

LEMMA HeadTail ==
  ASSUME NEW s \in Seq(Table \X Index), s # <<>>
  PROVE  /\ Head(s) \in Table \X Index /\ Tail(s) \in Seq(Table \X Index)
         /\ ToSet(s) = ToSet(Tail(s)) \cup {Head(s)}
<1>1. PICK u : u = Tail(s)
  OBVIOUS
<1>2. u \in Seq(Table \X Index) /\ Len(u) = Len(s) - 1 /\ Len(s) \in Nat /\ Len(s) >= 1 /\ Head(s) = s[1]
  BY <1>1
<1>3. DOMAIN s = 1..Len(s) /\ DOMAIN u = 1..Len(u) /\ s[1] \in Table \X Index
  BY <1>2
<1>4. \A a \in 1..Len(u) : u[a] = s[a + 1] /\ a + 1 \in 1..Len(s)
  BY <1>1, <1>2
<1>5. \A a \in 1..Len(s) : a = 1 \/ (a - 1 \in 1..Len(u) /\ u[a - 1] = s[a])
  BY <1>1, <1>2
<1>6. 1 \in 1..Len(s)
  BY <1>2
<1>7. ToSet(s) = ToSet(u) \cup {s[1]}
  <2>1. ASSUME NEW x \in ToSet(s) PROVE x \in ToSet(u) \cup {s[1]}
    BY <1>3, <1>5 DEF ToSet
  <2>2. ASSUME NEW x \in ToSet(u) PROVE x \in ToSet(s)
    BY <1>3, <1>4 DEF ToSet
  <2>3. s[1] \in ToSet(s)
    BY <1>3, <1>6 DEF ToSet
  <2> QED BY <2>1, <2>2, <2>3
<1> QED BY <1>1, <1>2, <1>3, <1>7
-----------------------------------------------------------------------------
(* Rows.                                                                   *)

LEMMA Row1 == Row \subseteq Nat /\ \A r : r \in Row <=> r \in Nat /\ 1 <= r /\ r <= Slots
BY Marks DEF Row

LEMMA EntryOf ==
  ASSUME NEW rows \in RowFile, NEW e
  PROVE  e \in Entries(rows) <=> \E r \in Row : rows[r] # NoKey /\ e = <<rows[r], r>>
<1>1. ASSUME e \in Entries(rows) PROVE \E r \in Row : rows[r] # NoKey /\ e = <<rows[r], r>>
  <2>1. e \in Key \X Row /\ rows[e[2]] = e[1]
    BY <1>1 DEF Entries, Entry
  <2>2. e[1] \in Key /\ e[2] \in Row /\ e = <<e[1], e[2]>>
    BY <2>1
  <2> QED BY <2>1, <2>2, Marks
<1>2. ASSUME NEW r \in Row, rows[r] # NoKey, e = <<rows[r], r>> PROVE e \in Entries(rows)
  <2>1. rows[r] \in Key
    BY <1>2 DEF RowFile
  <2> QED BY <1>2, <2>1 DEF Entries, Entry
<1> QED BY <1>1, <1>2

(* A row in a free slot.                                                   *)
LEMMA RowAdded ==
  ASSUME NEW rows \in RowFile, NEW r \in Row, rows[r] = NoKey, NEW k \in Key
  PROVE  /\ [rows EXCEPT ![r] = k] \in RowFile
         /\ Entries([rows EXCEPT ![r] = k]) = Entries(rows) \cup {<<k, r>>}
         /\ Distinct(rows) /\ (\A q \in Row : rows[q] # k) => Distinct([rows EXCEPT ![r] = k])
<1>1. PICK u : u = [rows EXCEPT ![r] = k]
  OBVIOUS
<1>2. u \in RowFile /\ u[r] = k /\ k # NoKey /\ \A q \in Row : q # r => u[q] = rows[q]
  BY <1>1, Marks DEF RowFile
<1>3. ASSUME NEW e PROVE e \in Entries(u) <=> e \in Entries(rows) \cup {<<k, r>>}
  BY <1>2, EntryOf
<1>4. Distinct(rows) /\ (\A q \in Row : rows[q] # k) => Distinct(u)
  BY <1>2 DEF Distinct
<1> QED BY <1>1, <1>2, <1>3, <1>4

(* Rows with an entry each in an index have different keys.                *)
LEMMA FromKeys ==
  ASSUME NEW rows \in RowFile, NEW S, Entries(rows) \subseteq S, \A e, f \in S : e[1] = f[1] => e = f
  PROVE  Distinct(rows)
<1> SUFFICES ASSUME NEW q \in Row, NEW r \in Row, rows[q] = rows[r], rows[q] # NoKey PROVE q = r
  BY DEF Distinct
<1>1. <<rows[q], q>> \in S /\ <<rows[r], r>> \in S
  BY EntryOf
<1>2. <<rows[q], q>> = <<rows[r], r>>
  BY <1>1
<1> QED BY <1>2

LEMMA FreeRowIs ==
  ASSUME NEW rows, \E q \in Row : rows[q] = NoKey
  PROVE  Min({q \in Row : rows[q] = NoKey}) \in Row /\ rows[Min({q \in Row : rows[q] = NoKey})] = NoKey
<1>1. PICK M : M = {q \in Row : rows[q] = NoKey}
  OBVIOUS
<1>2. M \subseteq Nat /\ M # {}
  BY <1>1, Row1
<1>3. \E m \in M : \A y \in M : m <= y
  BY <1>2, LeastNat
<1>4. Min(M) \in M
  BY <1>3 DEF Min
<1> QED BY <1>1, <1>4

LEMMA NextRowIs ==
  ASSUME NEW rows \in RowFile, NEW p \in Nat, NEW r, r = NextRow(rows, p)
  PROVE  /\ r \in Nat /\ (r <= Slots => r \in Row /\ rows[r] # NoKey)
         /\ \A q \in Row : rows[q] # NoKey /\ p <= q => r <= q
<1>1. PICK M : M = {q \in Rows(rows) : q >= p} \cup {Slots + 1}
  OBVIOUS
<1>2. M \subseteq Nat /\ M # {} /\ Slots \in Nat
  BY <1>1, Row1, Marks DEF Rows
<1>3. \E m \in M : \A y \in M : m <= y
  BY <1>2, LeastNat
<1>4. r \in M /\ \A y \in M : r <= y
  BY <1>1, <1>3 DEF Min, NextRow
<1>5. \A q \in Row : rows[q] # NoKey /\ p <= q => q \in M
  BY <1>1, Row1 DEF Rows
<1>6. r <= Slots => r \in Row /\ rows[r] # NoKey
  BY <1>1, <1>2, <1>4 DEF Rows
<1> QED BY <1>2, <1>4, <1>5, <1>6

-----------------------------------------------------------------------------
(* redo.                                                                   *)

Record == [tab: Table, row: Row, key: Key]
Replay(rows, n, t) == IF log[n].tab = t THEN [rows EXCEPT ![log[n].row] = log[n].key] ELSE rows

(* The records of the log one after the other.                             *)
Replays(f, t, n) == f[0] = tfile[t] /\ \A m \in 1..n : f[m] = Replay(f[m - 1], m, t)

LEMMA ReplayType ==
  ASSUME StateOK, NEW t, NEW n \in 1..Len(log), NEW rows \in RowFile
  PROVE  Replay(rows, n, t) \in RowFile
<1>1. log[n] \in Record
  <2>1. log \in Seq(Record)
    BY DEF StateOK, Record
  <2> QED BY <2>1
<1>2. log[n].row \in Row /\ log[n].key \in Key
  BY <1>1 DEF Record
<1> QED BY <1>2 DEF Replay, RowFile

LEMMA SomeReplay ==
  ASSUME StateOK, NEW t, tfile[t] \in RowFile
  PROVE  \E f \in [0..Len(log) -> RowFile] : Replays(f, t, Len(log))
<1>1. PICK N \in Nat : N = Len(log)
  BY DEF StateOK
<1>2. PICK Good : Good = {n \in 0..N : \E f \in [0..n -> RowFile] : Replays(f, t, n)}
  OBVIOUS
<1>3. 0 \in Good
  <2>1. PICK f : f = [m \in 0..0 |-> tfile[t]]
    OBVIOUS
  <2>2. f \in [0..0 -> RowFile] /\ f[0] = tfile[t] /\ 0 \in 0..N
    BY <2>1
  <2>3. Replays(f, t, 0)
    BY <2>2 DEF Replays
  <2> QED BY <1>2, <2>2, <2>3
<1>4. ASSUME NEW n \in 1..N, n - 1 \in Good PROVE n \in Good
  <2>1. PICK f \in [0..(n - 1) -> RowFile] : Replays(f, t, n - 1)
    BY <1>2, <1>4
  <2>2. n - 1 \in 0..(n - 1) /\ 0 \in 0..n /\ n \in 0..n /\ n \in 0..N /\ n # 0 /\ n \in 1..Len(log)
    BY <1>1
  <2>3. PICK last \in RowFile : last = Replay(f[n - 1], n, t)
    BY <2>1, <2>2, ReplayType
  <2>4. PICK g : g = [m \in 0..n |-> IF m = n THEN last ELSE f[m]]
    OBVIOUS
  <2>5. \A m \in 0..n : m = n \/ m \in 0..(n - 1)
    BY <1>1
  <2>6. g \in [0..n -> RowFile] /\ g[n] = last /\ \A m \in 0..n : m # n => g[m] = f[m]
    BY <2>1, <2>2, <2>4, <2>5
  <2>7. g[0] = tfile[t]
    BY <2>1, <2>2, <2>6 DEF Replays
  <2>8. ASSUME NEW m \in 1..n PROVE g[m] = Replay(g[m - 1], m, t)
    <3>1. m - 1 \in 0..n /\ m - 1 # n /\ m \in 0..n /\ (m # n => m \in 1..(n - 1))
      BY <1>1
    <3>2. g[m - 1] = f[m - 1]
      BY <2>6, <3>1
    <3>3. CASE m = n
      BY <2>3, <2>6, <3>2, <3>3
    <3>4. CASE m # n
      BY <2>1, <2>6, <3>1, <3>2, <3>4 DEF Replays
    <3> QED BY <3>3, <3>4
  <2> QED BY <1>2, <2>2, <2>6, <2>7, <2>8 DEF Replays
<1>5. N \in Good
  BY <1>2, <1>3, <1>4, StepsKeep
<1> QED BY <1>1, <1>2, <1>5

LEMMA ReplayedIs ==
  ASSUME StateOK, NEW t, tfile[t] \in RowFile
  PROVE  \E f : Replayed(t) = f[Len(log)] /\ Replays(f, t, Len(log))
<1>1. PICK N \in Nat : N = Len(log)
  BY DEF StateOK
<1> DEFINE Body(f) == [n \in 0..N |-> IF n = 0 THEN tfile[t] ELSE Replay(f[n - 1], n, t)]
<1>2. PICK h \in [0..N -> RowFile] : Replays(h, t, N)
  BY <1>1, SomeReplay
<1>3. h = Body(h)
  <2>1. \A n \in 0..N : n = 0 \/ n \in 1..N
    BY <1>1
  <2>2. \A n \in 0..N : h[n] = IF n = 0 THEN tfile[t] ELSE Replay(h[n - 1], n, t)
    BY <1>2, <2>1 DEF Replays
  <2> QED BY <2>2
<1>4. Replayed(t) = (CHOOSE f : f = Body(f))[N]
  BY <1>1 DEF Replayed, Replay
<1>5. PICK g : g = CHOOSE f : f = Body(f)
  OBVIOUS
<1>6. Replayed(t) = g[N]
  BY <1>4, <1>5
<1> HIDE DEF Body
<1>7. g = Body(g)
  BY <1>3, <1>5
<1>8. g[0] = tfile[t] /\ \A n \in 1..N : g[n] = Replay(g[n - 1], n, t)
  BY <1>7 DEF Body
<1> QED BY <1>1, <1>6, <1>8 DEF Replays

LEMMA ReplayedRows ==
  ASSUME StateOK, NEW t, tfile[t] \in RowFile
  PROVE  Replayed(t) \in RowFile
<1>1. PICK N \in Nat : N = Len(log)
  BY DEF StateOK
<1>2. PICK f : Replayed(t) = f[N] /\ Replays(f, t, N)
  BY <1>1, ReplayedIs
<1>3. PICK Good : Good = {n \in 0..N : f[n] \in RowFile}
  OBVIOUS
<1>4. 0 \in Good
  BY <1>1, <1>2, <1>3 DEF Replays
<1>5. ASSUME NEW n \in 1..N, n - 1 \in Good PROVE n \in Good
  BY <1>1, <1>2, <1>3, <1>5, ReplayType DEF Replays
<1> QED BY <1>2, <1>3, <1>4, <1>5, StepsKeep

(* Records of what is there change nothing.                                *)
LEMMA ReplayedSame ==
  ASSUME StateOK, NEW t, tfile[t] \in RowFile,
         \A n \in 1..Len(log) : log[n].tab = t => tfile[t][log[n].row] = log[n].key
  PROVE  Replayed(t) = tfile[t]
<1>1. PICK N \in Nat : N = Len(log)
  BY DEF StateOK
<1>2. PICK f : Replayed(t) = f[N] /\ Replays(f, t, N)
  BY <1>1, ReplayedIs
<1>3. PICK Good : Good = {n \in 0..N : f[n] = tfile[t]}
  OBVIOUS
<1>4. 0 \in Good
  BY <1>1, <1>2, <1>3 DEF Replays
<1>5. ASSUME NEW n \in 1..N, n - 1 \in Good PROVE n \in Good
  <2>1. f[n] = Replay(tfile[t], n, t) /\ n \in 0..N
    BY <1>2, <1>3, <1>5 DEF Replays
  <2>2. Replay(tfile[t], n, t) = tfile[t]
    BY <1>1 DEF Replay, RowFile
  <2> QED BY <1>3, <2>1, <2>2
<1> QED BY <1>2, <1>3, <1>4, <1>5, StepsKeep
-----------------------------------------------------------------------------
(* Steps of a statement.                                                   *)

LEMMA Running ==
  ASSUME StateOK, Shape, ddl # NoDdl
  PROVE  ddl \in Ddl /\ T \in Table /\ phase = "up" /\ Stages /\ ddl.pos \in Nat
BY DEF StateOK, Shape, T, Ddl

LEMMA NextStage ==
  ASSUME StateOK, Shape, ddl # NoDdl, UNCHANGED <<phase, todo, count, want>>,
         NEW step, ddl' = [ddl EXCEPT !.at = step],
         step \in {"file", "header", "tabs", "open", "index", "push", "fill", "indexes", "flush", "write"}
  PROVE  /\ ddl' \in Ddl /\ ddl' # NoDdl /\ ddl'.op = ddl.op /\ ddl'.at = step /\ ddl'.tab = ddl.tab
         /\ ddl'.ix = ddl.ix /\ ddl'.pos = ddl.pos /\ T' = T /\ X' = X
         /\ phase' = "up" /\ todo' = todo /\ count' = count /\ want' = want
<1>1. ddl \in Ddl /\ phase = "up"
  BY Running
<1>2. /\ ddl' \in Ddl /\ ddl'.op = ddl.op /\ ddl'.at = step /\ ddl'.tab = ddl.tab
      /\ ddl'.ix = ddl.ix /\ ddl'.pos = ddl.pos
  BY <1>1 DEF Ddl
<1>3. ddl' # NoDdl
  BY <1>2, Marks
<1> QED BY <1>1, <1>2, <1>3 DEF T, X

LEMMA SettledSame ==
  ASSUME NEW x, ihs'[x] = ihs[x], ifile'[x] = ifile[x], tfile'[x[1]] = tfile[x[1]], Settled(x)
  PROVE  Settled(x)'
BY DEF Settled, Entries, Distinct


LEMMA NextPos ==
  ASSUME StateOK, Shape, ddl # NoDdl, NEW p \in Nat, ddl' = [ddl EXCEPT !.pos = p]
  PROVE  /\ ddl' \in Ddl /\ ddl' # NoDdl /\ ddl'.op = ddl.op /\ ddl'.at = ddl.at /\ ddl'.tab = ddl.tab
         /\ ddl'.ix = ddl.ix /\ ddl'.pos = p /\ T' = T /\ X' = X
<1>1. ddl \in Ddl /\ phase = "up"
  BY Running
<1>2. /\ ddl' \in Ddl /\ ddl'.op = ddl.op /\ ddl'.at = ddl.at /\ ddl'.tab = ddl.tab
      /\ ddl'.ix = ddl.ix /\ ddl'.pos = p
  BY <1>1 DEF Ddl
<1>3. ddl' # NoDdl
  BY <1>2, Marks
<1> QED BY <1>1, <1>2, <1>3 DEF T, X

-----------------------------------------------------------------------------
(* CREATE TABLE.                                                           *)

(* The new file, first empty, then with its header.                        *)
LEMMA NewFile ==
  ASSUME IInv, ddl # NoDdl, ddl.op = "create_table", ddl.at \in {"file", "header"},
         NEW v \in {Blank} \cup RowFile, tfile' = [tfile EXCEPT ![T] = v], hurt' = hurt,
         NEW step, Then(step), step = "header" \/ (step = "tabs" /\ v \in RowFile),
         UNCHANGED <<meta, ifile, log, mem>>
  PROVE  IInv'
<1>1. StateOK /\ Shape /\ ddl \in Ddl /\ T \in Table /\ phase = "up" /\ Stages
  BY Running DEF IInv
<1>2. meta' = meta /\ ifile' = ifile /\ log' = log /\ db' = db /\ fhs' = fhs /\ ihs' = ihs
  BY DEF mem
<1>3. /\ ddl' \in Ddl /\ ddl' # NoDdl /\ ddl'.op = "create_table" /\ ddl'.at = step /\ ddl'.tab = ddl.tab
      /\ ddl'.ix = ddl.ix /\ ddl'.pos = ddl.pos /\ T' = T /\ X' = X
      /\ phase' = "up" /\ todo' = todo /\ count' = count /\ want' = want
  BY <1>1, NextStage DEF Then
<1>4. tfile \in [Table -> {Absent, Blank} \cup RowFile]
  BY <1>1 DEF StateOK
<1>5. /\ tfile' \in [Table -> {Absent, Blank} \cup RowFile] /\ tfile'[T] = v
      /\ \A t \in Table : t # T => tfile'[t] = tfile[t]
  BY <1>1, <1>4
<1>6. db[T] = NoTable /\ T \notin Tables(db) /\ fhs = Tables(db)
  BY <1>1 DEF IInv, Staged, CreatingTable, Stage, Opened, Tables
<1>7. StateOK'
  BY <1>1, <1>2, <1>3, <1>5 DEF StateOK
<1>8. Shape'
  BY <1>1, <1>2, <1>3 DEF Shape, Stages
<1>9. Opened'
  BY <1>1, <1>2, <1>3, <1>5, <1>6 DEF Opened, IInv, Stage, Tables
<1>10. Staged'
  BY <1>1, <1>2, <1>3, <1>5, <1>6 DEF Staged, CreatingTable, DroppingTable, CreatingIndex, DroppingIndex, Stage
<1>11. \A x \in Indexes(db) : x \in Table \X Index /\ x[1] # T
  BY <1>6 DEF Indexes
<1>12. Handled'
  BY <1>1, <1>2, <1>3 DEF IInv, Handled, Busy, Stage, Free
<1>13. Complete'
  BY <1>1, <1>2, <1>3, <1>5, <1>11, SettledSame DEF IInv, Complete, Busy, Stage, Free
<1>14. Rebuilt' /\ Present'
  BY <1>3 DEF Rebuilt, Present
<1>15. Owned'
  BY <1>1, <1>2, <1>3 DEF IInv, Owned, Named, Stage
<1>16. Matched'
  BY <1>1, <1>2, <1>3 DEF IInv, Matched, Named, Stage, Free, Down
<1>17. Kept'
  BY <1>1, <1>2, <1>3, <1>5, <1>6 DEF IInv, Kept, Matched, Named, Stage, Free, Tables, Down
<1>18. Listed'
  BY <1>1, <1>2, <1>3 DEF IInv, Listed, Indexed, Quiet, Stage, Free, Wanted
<1>19. Claimed'
  BY <1>1, <1>2, <1>3, <1>5 DEF IInv, Claimed, Stage, Free, Wanted
<1> QED BY <1>7, <1>8, <1>9, <1>10, <1>12, <1>13, <1>14, <1>15, <1>16, <1>17, <1>18, <1>19 DEF IInv

LEMMA CreateTableMetaKeeps == ASSUME IInv, CreateTableMeta PROVE IInv'
<1>1. /\ StateOK /\ Shape /\ ddl \in Ddl /\ T \in Table /\ phase = "up" /\ Stages
      /\ ddl # NoDdl /\ ddl.op = "create_table" /\ ddl.at = "tabs"
  BY Running DEF IInv, CreateTableMeta, At
<1>2. /\ db' = [db EXCEPT ![T] = <<>>] /\ hurt' = hurt /\ meta' = meta /\ tfile' = tfile /\ ifile' = ifile
      /\ log' = log /\ fhs' = fhs /\ ihs' = ihs
  BY DEF CreateTableMeta, files
<1>3. /\ ddl' \in Ddl /\ ddl' # NoDdl /\ ddl'.op = "create_table" /\ ddl'.at = "open" /\ ddl'.tab = ddl.tab
      /\ ddl'.ix = ddl.ix /\ ddl'.pos = ddl.pos /\ T' = T /\ X' = X
      /\ phase' = "up" /\ todo' = todo /\ count' = count /\ want' = want
  BY <1>1, NextStage DEF CreateTableMeta, Then
<1>4. db \in Catalogs /\ db[T] = NoTable /\ T \notin Tables(db) /\ fhs = Tables(db) /\ tfile[T] \in RowFile
  BY <1>1 DEF IInv, StateOK, Staged, CreatingTable, Stage, Opened, Tables
<1>5. db' \in Catalogs /\ db'[T] = <<>> /\ Tables(db') = Tables(db) \cup {T}
  BY <1>1, <1>2, <1>4, TableSet, Marks DEF Catalogs
<1>6. Indexes(db') = Indexes(db)
  <2>1. \A x \in Indexes(db) : x \in Table \X Index /\ x[1] # T
    BY <1>4 DEF Indexes
  <2>2. \A x \in Indexes(db') : x \in Table \X Index
    BY DEF Indexes
  <2>3. \A i : ~Contains(<<>>, i)
    BY DEF Contains
  <2>4. \A x \in Table \X Index : x \in Indexes(db') <=> IF x[1] = T THEN Contains(<<>>, x[2]) ELSE x \in Indexes(db)
    BY <1>1, <1>2, <1>4, Marks, TableSet
  <2> QED BY <2>1, <2>2, <2>3, <2>4
<1>7. StateOK'
  BY <1>1, <1>2, <1>3, <1>5 DEF StateOK
<1>8. Shape'
  BY <1>1, <1>2, <1>3, <1>6 DEF Shape, Stages, Down
<1>9. Opened'
  BY <1>1, <1>2, <1>3, <1>4, <1>5, <1>6 DEF Opened, IInv, Stage
<1>10. Staged'
  BY <1>1, <1>2, <1>3, <1>4, <1>5 DEF Staged, CreatingTable, DroppingTable, CreatingIndex, DroppingIndex, Stage
<1>12. Handled'
  BY <1>1, <1>2, <1>3, <1>6 DEF IInv, Handled, Busy, Stage, Free
<1>13. Complete'
  BY <1>1, <1>2, <1>3, <1>6, SettledSame DEF IInv, Complete, Busy, Stage, Free
<1>14. Rebuilt' /\ Present'
  BY <1>3 DEF Rebuilt, Present
<1>15. Owned'
  BY <1>1, <1>2, <1>3, <1>5 DEF IInv, Owned, Named, Stage
<1>16. Matched'
  BY <1>1, <1>2, <1>3, <1>4, <1>5 DEF IInv, Matched, Named, Stage, Free, Down, Tables
<1>17. Kept'
  BY <1>1, <1>2, <1>3 DEF IInv, Kept, Stage, Free
<1>18. Listed'
  BY <1>1, <1>2, <1>3, <1>6 DEF IInv, Listed, Indexed, Quiet, Stage, Free, Wanted, Down
<1>19. Claimed'
  BY <1>1, <1>2, <1>3 DEF IInv, Claimed, Stage, Free, Wanted
<1> QED BY <1>7, <1>8, <1>9, <1>10, <1>12, <1>13, <1>14, <1>15, <1>16, <1>17, <1>18, <1>19 DEF IInv

LEMMA CreateTableOpenKeeps == ASSUME IInv, CreateTableOpen PROVE IInv'
<1>1. /\ StateOK /\ Shape /\ ddl \in Ddl /\ T \in Table /\ phase = "up" /\ Stages
      /\ ddl # NoDdl /\ ddl.op = "create_table" /\ ddl.at = "open"
  BY Running DEF IInv, CreateTableOpen, At
<1>2. /\ fhs' = fhs \cup {T} /\ hurt' = hurt /\ meta' = meta /\ tfile' = tfile /\ ifile' = ifile
      /\ log' = log /\ db' = db /\ ihs' = ihs
  BY DEF CreateTableOpen, files
<1>3. /\ ddl' \in Ddl /\ ddl' # NoDdl /\ ddl'.op = "create_table" /\ ddl'.at = "flush" /\ ddl'.tab = ddl.tab
      /\ ddl'.ix = ddl.ix /\ ddl'.pos = ddl.pos /\ T' = T /\ X' = X
      /\ phase' = "up" /\ todo' = todo /\ count' = count /\ want' = want
  BY <1>1, NextStage DEF CreateTableOpen, Then
<1>4. T \in Tables(db) /\ fhs = Tables(db) \ {T} /\ tfile[T] \in RowFile
  BY <1>1, Marks DEF IInv, Staged, CreatingTable, Stage, Opened, Tables
<1>7. StateOK'
  BY <1>1, <1>2, <1>3 DEF StateOK
<1>8. Shape'
  BY <1>1, <1>2, <1>3 DEF Shape, Stages, Down
<1>9. Opened'
  BY <1>1, <1>2, <1>3, <1>4 DEF Opened, IInv, Stage
<1>10. Staged'
  BY <1>1, <1>2, <1>3, <1>4 DEF IInv, Staged, CreatingTable, DroppingTable, CreatingIndex, DroppingIndex, Stage
<1>12. Handled'
  BY <1>1, <1>2, <1>3 DEF IInv, Handled, Busy, Stage, Free
<1>13. Complete'
  BY <1>1, <1>2, <1>3, SettledSame DEF IInv, Complete, Busy, Stage, Free
<1>14. Rebuilt' /\ Present'
  BY <1>3 DEF Rebuilt, Present
<1>15. Owned'
  BY <1>1, <1>2, <1>3 DEF IInv, Owned, Named, Stage
<1>16. Matched'
  BY <1>1, <1>2, <1>3 DEF IInv, Matched, Named, Stage, Free, Down
<1>17. Kept'
  BY <1>1, <1>2, <1>3 DEF IInv, Kept, Stage, Free
<1>18. Listed'
  BY <1>1, <1>2, <1>3 DEF IInv, Listed, Indexed, Quiet, Stage, Free, Wanted, Down
<1>19. Claimed'
  BY <1>1, <1>2, <1>3 DEF IInv, Claimed, Stage, Free, Wanted
<1> QED BY <1>7, <1>8, <1>9, <1>10, <1>12, <1>13, <1>14, <1>15, <1>16, <1>17, <1>18, <1>19 DEF IInv

-----------------------------------------------------------------------------
(* DROP TABLE.                                                             *)

LEMMA DropTableFileKeeps == ASSUME IInv, DropTableFile PROVE IInv'
<1>1. /\ StateOK /\ Shape /\ ddl \in Ddl /\ T \in Table /\ phase = "up" /\ Stages
      /\ ddl # NoDdl /\ ddl.op = "drop_table" /\ ddl.at = "file"
  BY Running DEF IInv, DropTableFile, At
<1>2. /\ tfile' = [tfile EXCEPT ![T] = Absent] /\ fhs' = fhs \ {T}
      /\ hurt' = IF \E n \in DOMAIN log : log[n].tab = T THEN hurt \cup {Logged} ELSE hurt
      /\ meta' = meta /\ ifile' = ifile /\ log' = log /\ db' = db /\ ihs' = ihs
  BY DEF DropTableFile
<1>3. /\ ddl' \in Ddl /\ ddl' # NoDdl /\ ddl'.op = "drop_table" /\ ddl'.at = "index" /\ ddl'.tab = ddl.tab
      /\ ddl'.ix = ddl.ix /\ ddl'.pos = ddl.pos /\ T' = T /\ X' = X
      /\ phase' = "up" /\ todo' = todo /\ count' = count /\ want' = want
  BY <1>1, NextStage DEF DropTableFile
<1>4. /\ T \in Tables(db) /\ fhs = Tables(db) /\ db[T] # NoTable /\ ddl.pos = 1
      /\ tfile \in [Table -> {Absent, Blank} \cup RowFile]
  BY <1>1 DEF IInv, StateOK, Staged, DroppingTable, Stage, Opened, Tables
<1>5. /\ tfile' \in [Table -> {Absent, Blank} \cup RowFile] /\ tfile'[T] = Absent
      /\ \A t \in Table : t # T => tfile'[t] = tfile[t]
  BY <1>1, <1>2, <1>4
<1>6. hurt \subseteq hurt' /\ hurt' \subseteq hurt \cup {Logged} /\ \A E : Free(E)' => Free(E)
  BY <1>2 DEF Free
<1>7. StateOK'
  BY <1>1, <1>2, <1>3, <1>5, <1>6 DEF StateOK
<1>8. Shape'
  BY <1>1, <1>2, <1>3 DEF Shape, Stages, Down
<1>9. Opened'
  BY <1>1, <1>2, <1>3, <1>4, <1>5 DEF Opened, IInv, Stage, Tables
<1>10. Staged'
  <2>1. \A n \in 1..Len(db[T]) : ~(n < 1)
    BY <1>4 
  <2> QED BY <1>1, <1>2, <1>3, <1>4, <1>5, <2>1 DEF IInv, Staged, CreatingTable, DroppingTable, CreatingIndex, DroppingIndex, Stage
<1>12. Handled'
  BY <1>1, <1>2, <1>3, <1>6 DEF IInv, Handled, Busy, Stage
<1>13. Complete'
  <2>1. \A x \in Indexes(db) : x \in Table \X Index
    BY DEF Indexes
  <2> QED BY <1>1, <1>2, <1>3, <1>5, <1>6, <2>1, SettledSame DEF IInv, Complete, Busy, Stage
<1>14. Rebuilt' /\ Present'
  BY <1>3 DEF Rebuilt, Present
<1>15. Owned'
  BY <1>1, <1>2, <1>3 DEF IInv, Owned, Named, Stage
<1>16. Matched'
  BY <1>1, <1>2, <1>3, <1>6 DEF IInv, Matched, Named, Stage, Down
<1>17. Kept'
  BY <1>1, <1>2, <1>3, <1>5, <1>6 DEF IInv, Kept, Stage, Free, Tables
<1>18. Listed'
  BY <1>1, <1>2, <1>3, <1>6 DEF IInv, Listed, Indexed, Quiet, Stage, Wanted, Down
<1>19. Claimed'
  <2>1. \A n \in 1..Len(db[T]) : ~(n < 1)
    BY <1>4
  <2> QED BY <1>1, <1>2, <1>3, <1>4, <1>5, <1>6, <2>1 DEF IInv, Claimed, Stage, Wanted
<1> QED BY <1>7, <1>8, <1>9, <1>10, <1>12, <1>13, <1>14, <1>15, <1>16, <1>17, <1>18, <1>19 DEF IInv

(* All its indexes are gone.                                               *)
LEMMA DropTableIndexEnds ==
  ASSUME IInv, At("drop_table", "index"), ddl.pos > Len(db[T]), Then("tabs"), UNCHANGED <<files, mem, hurt>>
  PROVE  IInv'
<1>1. /\ StateOK /\ Shape /\ ddl \in Ddl /\ T \in Table /\ phase = "up" /\ Stages
      /\ ddl # NoDdl /\ ddl.op = "drop_table" /\ ddl.at = "index" /\ ddl.pos \in Nat
  BY Running DEF IInv, At
<1>2. /\ tfile' = tfile /\ fhs' = fhs /\ hurt' = hurt
      /\ meta' = meta /\ ifile' = ifile /\ log' = log /\ db' = db /\ ihs' = ihs
  BY DEF files, mem
<1>3. /\ ddl' \in Ddl /\ ddl' # NoDdl /\ ddl'.op = "drop_table" /\ ddl'.at = "tabs" /\ ddl'.tab = ddl.tab
      /\ ddl'.ix = ddl.ix /\ ddl'.pos = ddl.pos /\ T' = T /\ X' = X
      /\ phase' = "up" /\ todo' = todo /\ count' = count /\ want' = want
  BY <1>1, NextStage DEF Then
<1>4. db[T] \in Seq(Index) /\ db[T] # NoTable /\ \A n \in 1..Len(db[T]) : n < ddl.pos
  BY <1>1, Cats DEF IInv, StateOK, Staged, DroppingTable, Stage, List
<1>5. \A i \in Index : <<T, i>> \in Indexes(db) <=> Contains(db[T], i)
  BY <1>1, <1>4 DEF Indexes
<1>6. ASSUME NEW i \in Index PROVE ihs[<<T, i>>] = NoIndex
  <2>1. CASE Contains(db[T], i)
    BY <1>1, <1>4, <2>1 DEF IInv, Staged, DroppingTable, Stage, Contains
  <2>2. CASE ~Contains(db[T], i)
    BY <1>1, <1>5, <2>2 DEF IInv, Opened
  <2> QED BY <2>1, <2>2
<1>7. StateOK'
  BY <1>1, <1>2, <1>3 DEF StateOK
<1>8. Shape'
  BY <1>1, <1>2, <1>3 DEF Shape, Stages, Down
<1>9. Opened'
  BY <1>1, <1>2, <1>3 DEF Opened, IInv, Stage
<1>10. Staged'
  BY <1>1, <1>2, <1>3, <1>6 DEF IInv, Staged, CreatingTable, DroppingTable, CreatingIndex, DroppingIndex, Stage
<1>12. Handled'
  BY <1>1, <1>2, <1>3 DEF IInv, Handled, Busy, Stage, Free
<1>13. Complete'
  BY <1>1, <1>2, <1>3, SettledSame DEF IInv, Complete, Busy, Stage, Free
<1>14. Rebuilt' /\ Present'
  BY <1>3 DEF Rebuilt, Present
<1>15. Owned'
  BY <1>1, <1>2, <1>3 DEF IInv, Owned, Named, Stage
<1>16. Matched'
  BY <1>1, <1>2, <1>3 DEF IInv, Matched, Named, Stage, Free, Down
<1>17. Kept'
  BY <1>1, <1>2, <1>3 DEF IInv, Kept, Stage, Free
<1>18. Listed'
  BY <1>1, <1>2, <1>3 DEF IInv, Listed, Indexed, Quiet, Stage, Free, Wanted, Down
<1>19. Claimed'
  <2> SUFFICES ASSUME Free(Tearing \cup Half \cup Orphans)' PROVE Claimed'
    BY DEF Claimed
  <2>1. Free(Tearing \cup Half \cup Orphans) /\ Free(Tearing \cup Half)
    BY <1>2 DEF Free
  <2>2. Indexes(db) = Wanted
    BY <1>1, <2>1 DEF IInv, Listed, Indexed, Stage, Down
  <2>3. ASSUME NEW i \in Index PROVE ifile[<<T, i>>] = Absent
    <3>1. CASE Contains(db[T], i)
      BY <1>1, <1>4, <2>1, <3>1 DEF IInv, Claimed, Stage, Contains
    <3>2. CASE ~Contains(db[T], i)
      BY <1>1, <1>5, <2>1, <2>2, <3>2 DEF IInv, Claimed, Stage
    <3> QED BY <3>1, <3>2
  <2> QED BY <1>1, <1>2, <1>3, <2>1, <2>3 DEF IInv, Claimed, Stage, Wanted
<1> QED BY <1>7, <1>8, <1>9, <1>10, <1>12, <1>13, <1>14, <1>15, <1>16, <1>17, <1>18, <1>19 DEF IInv

(* The next of its indexes goes.                                           *)
LEMMA DropTableIndexOne ==
  ASSUME IInv, At("drop_table", "index"), ddl.pos <= Len(db[T]), NEW x, x = <<T, db[T][ddl.pos]>>,
         ifile' = [ifile EXCEPT ![x] = Absent], ihs' = [ihs EXCEPT ![x] = NoIndex],
         ddl' = [ddl EXCEPT !.pos = @ + 1],
         UNCHANGED <<meta, tfile, log, db, fhs, phase, todo, count, want, hurt>>
  PROVE  IInv'
<1>1. /\ StateOK /\ Shape /\ ddl \in Ddl /\ T \in Table /\ phase = "up" /\ Stages
      /\ ddl # NoDdl /\ ddl.op = "drop_table" /\ ddl.at = "index" /\ ddl.pos \in Nat
  BY Running DEF IInv, At
<1>2. /\ tfile' = tfile /\ fhs' = fhs /\ hurt' = hurt /\ meta' = meta /\ log' = log /\ db' = db
      /\ phase' = "up" /\ todo' = todo /\ count' = count /\ want' = want
  BY <1>1
<1>3. /\ ddl' \in Ddl /\ ddl' # NoDdl /\ ddl'.op = "drop_table" /\ ddl'.at = "index" /\ ddl'.tab = ddl.tab
      /\ ddl'.ix = ddl.ix /\ ddl'.pos = ddl.pos + 1 /\ T' = T /\ X' = X
  <2>1. PICK p \in Nat : p = ddl.pos + 1 /\ ddl' = [ddl EXCEPT !.pos = p]
    <3>1. ddl.pos + 1 \in Nat /\ ddl' = [ddl EXCEPT !.pos = ddl.pos + 1]
      BY <1>1
    <3> QED BY <3>1
  <2> QED BY <1>1, <2>1, NextPos
<1>4. /\ db[T] \in Seq(Index) /\ \A n \in 1..Len(db[T]) : n < ddl.pos + 1 => n < ddl.pos \/ n = ddl.pos
      /\ \A n \in 1..Len(db[T]) : <<T, db[T][n]>> \in Table \X Index
  BY <1>1, Cats DEF IInv, StateOK, Staged, DroppingTable, Stage, List
<1>5. /\ ihs' \in [Table \X Index -> {NoIndex} \cup SUBSET Entry] /\ ihs \in [Table \X Index -> {NoIndex} \cup SUBSET Entry]
      /\ ifile' \in [Table \X Index -> {Absent, Blank, Ready}] /\ ifile \in [Table \X Index -> {Absent, Blank, Ready}]
  BY <1>1 DEF StateOK
<1>6. \A y \in Table \X Index : /\ ihs'[y] = IF y = x THEN NoIndex ELSE ihs[y]
                                /\ ifile'[y] = IF y = x THEN Absent ELSE ifile[y]
  BY <1>5
<1>7. StateOK'
  BY <1>1, <1>2, <1>3, <1>5 DEF StateOK
<1>8. Shape'
  BY <1>1, <1>2, <1>3 DEF Shape, Stages, Down
<1>9. Opened'
  BY <1>1, <1>2, <1>3, <1>6 DEF Opened, IInv, Stage
<1>10. Staged'
  BY <1>1, <1>2, <1>3, <1>4, <1>6 DEF IInv, Staged, CreatingTable, DroppingTable, CreatingIndex, DroppingIndex, Stage
<1>11. x[1] = T /\ \A y \in Indexes(db) : y \in Table \X Index /\ (y[1] = T \/ y # x)
  BY DEF Indexes
<1>12. Handled'
  BY <1>1, <1>2, <1>3, <1>6, <1>11 DEF IInv, Handled, Busy, Stage, Free
<1>13. Complete'
  BY <1>1, <1>2, <1>3, <1>6, <1>11, SettledSame DEF IInv, Complete, Busy, Stage, Free
<1>14. Rebuilt' /\ Present'
  BY <1>2 DEF Rebuilt, Present
<1>15. Owned'
  BY <1>1, <1>2, <1>3 DEF IInv, Owned, Named, Stage
<1>16. Matched'
  BY <1>1, <1>2, <1>3 DEF IInv, Matched, Named, Stage, Free, Down
<1>17. Kept'
  BY <1>1, <1>2, <1>3 DEF IInv, Kept, Stage, Free
<1>18. Listed'
  BY <1>1, <1>2, <1>3 DEF IInv, Listed, Indexed, Quiet, Stage, Free, Wanted, Down
<1>19. Claimed'
  BY <1>1, <1>2, <1>3, <1>4, <1>6 DEF IInv, Claimed, Stage, Wanted, Free
<1> QED BY <1>7, <1>8, <1>9, <1>10, <1>12, <1>13, <1>14, <1>15, <1>16, <1>17, <1>18, <1>19 DEF IInv

LEMMA DropTableMetaKeeps == ASSUME IInv, DropTableMeta PROVE IInv'
<1>1. /\ StateOK /\ Shape /\ ddl \in Ddl /\ T \in Table /\ phase = "up" /\ Stages
      /\ ddl # NoDdl /\ ddl.op = "drop_table" /\ ddl.at = "tabs"
  BY Running DEF IInv, DropTableMeta, At
<1>2. /\ db' = [db EXCEPT ![T] = NoTable] /\ hurt' = hurt /\ meta' = meta /\ tfile' = tfile /\ ifile' = ifile
      /\ log' = log /\ fhs' = fhs /\ ihs' = ihs
  BY DEF DropTableMeta, files
<1>3. /\ ddl' \in Ddl /\ ddl' # NoDdl /\ ddl'.op = "drop_table" /\ ddl'.at = "flush" /\ ddl'.tab = ddl.tab
      /\ ddl'.ix = ddl.ix /\ ddl'.pos = ddl.pos /\ T' = T /\ X' = X
      /\ phase' = "up" /\ todo' = todo /\ count' = count /\ want' = want
  BY <1>1, NextStage DEF DropTableMeta, Then
<1>4. db \in Catalogs /\ fhs = Tables(db) \ {T} /\ \A i \in Index : ihs[<<T, i>>] = NoIndex
  BY <1>1 DEF IInv, StateOK, Staged, DroppingTable, Stage, Opened
<1>5. db' \in Catalogs /\ db'[T] = NoTable /\ Tables(db') = Tables(db) \ {T}
  BY <1>1, <1>2, <1>4, TableGone DEF Catalogs
<1>6. /\ \A x \in Table \X Index : x \in Indexes(db') <=> x[1] # T /\ x \in Indexes(db)
      /\ \A x \in Indexes(db) : x \in Table \X Index
      /\ \A x \in Indexes(db') : x \in Table \X Index
  BY <1>1, <1>2, <1>4, TableGone DEF Indexes
<1>7. StateOK'
  BY <1>1, <1>2, <1>3, <1>5 DEF StateOK
<1>8. Shape'
  <2>1. todo = <<>> /\ ToSet(<<>>) = {}
    BY <1>1 DEF Shape, ToSet
  <2> QED BY <1>1, <1>2, <1>3, <2>1 DEF Shape, Stages, Down
<1>9. Opened'
  <2>1. \A x \in Table \X Index : ihs[x] # NoIndex => x[1] # T
    BY <1>4
  <2> QED BY <1>1, <1>2, <1>3, <1>4, <1>5, <1>6, <2>1 DEF Opened, IInv, Stage
<1>10. Staged'
  BY <1>1, <1>2, <1>3, <1>5 DEF IInv, Staged, CreatingTable, DroppingTable, CreatingIndex, DroppingIndex, Stage
<1>12. Handled'
  BY <1>1, <1>2, <1>3, <1>6 DEF IInv, Handled, Busy, Stage, Free
<1>13. Complete'
  BY <1>1, <1>2, <1>3, <1>6, SettledSame DEF IInv, Complete, Busy, Stage, Free
<1>14. Rebuilt' /\ Present'
  BY <1>3 DEF Rebuilt, Present
<1>15. Owned'
  BY <1>1, <1>2, <1>3, <1>5 DEF IInv, Owned, Named, Stage
<1>16. Matched'
  BY <1>1, <1>2, <1>3, <1>5 DEF IInv, Matched, Named, Stage, Free, Down
<1>17. Kept'
  BY <1>1, <1>2, <1>3 DEF IInv, Kept, Stage, Free
<1>18. Listed'
  BY <1>1, <1>2, <1>3, <1>6 DEF IInv, Listed, Indexed, Quiet, Stage, Free, Wanted, Down
<1>19. Claimed'
  BY <1>1, <1>2, <1>3 DEF IInv, Claimed, Stage, Free, Wanted
<1> QED BY <1>7, <1>8, <1>9, <1>10, <1>12, <1>13, <1>14, <1>15, <1>16, <1>17, <1>18, <1>19 DEF IInv

-----------------------------------------------------------------------------
(* CREATE INDEX.                                                           *)

LEMMA CreateIndexMetaKeeps == ASSUME IInv, CreateIndexMeta PROVE IInv'
<1>1. /\ StateOK /\ Shape /\ ddl \in Ddl /\ T \in Table /\ phase = "up" /\ Stages
      /\ ddl # NoDdl /\ ddl.op = "create_index" /\ ddl.at = "push"
  BY Running DEF IInv, CreateIndexMeta, At
<1>2. /\ db' = [db EXCEPT ![T] = Append(db[T], ddl.ix)] /\ hurt' = hurt /\ meta' = meta /\ tfile' = tfile
      /\ ifile' = ifile /\ log' = log /\ fhs' = fhs /\ ihs' = ihs
  BY DEF CreateIndexMeta, files
<1>3. /\ ddl' \in Ddl /\ ddl' # NoDdl /\ ddl'.op = "create_index" /\ ddl'.at = "file" /\ ddl'.tab = ddl.tab
      /\ ddl'.ix = ddl.ix /\ ddl'.pos = ddl.pos /\ T' = T /\ X' = X
      /\ phase' = "up" /\ todo' = todo /\ count' = count /\ want' = want
  BY <1>1, NextStage DEF CreateIndexMeta, Then
<1>4. /\ db \in Catalogs /\ fhs = Tables(db) /\ db[T] # NoTable /\ X \notin Indexes(db) /\ ddl.pos = 1
      /\ ddl.ix \in Index /\ X \in Table \X Index /\ X[1] = T /\ X[2] = ddl.ix /\ T \in Tables(db)
  BY <1>1 DEF IInv, StateOK, Staged, CreatingIndex, Stage, Stages, Opened, X, T, Tables
<1>5. db[T] \in List /\ ~Contains(db[T], ddl.ix)
  BY <1>1, <1>4, Cats DEF Indexes
<1>6. PICK s \in List : s = Append(db[T], ddl.ix) /\ \A j : Contains(s, j) <=> Contains(db[T], j) \/ j = ddl.ix
  <2>1. PICK u \in List, i \in Index : u = db[T] /\ i = ddl.ix
    BY <1>4, <1>5
  <2>2. Append(u, i) \in List /\ \A j : Contains(Append(u, i), j) <=> Contains(u, j) \/ j = i
    BY <1>5, <2>1, Appended
  <2> QED BY <2>1, <2>2
<1>7. /\ db' \in Catalogs /\ db'[T] # NoTable /\ Tables(db') = Tables(db)
      /\ \A x \in Table \X Index : x \in Indexes(db') <=> IF x[1] = T THEN Contains(s, x[2]) ELSE x \in Indexes(db)
  <2>1. db' = [db EXCEPT ![T] = s]
    BY <1>2, <1>6
  <2>2. /\ db' \in Catalogs /\ Tables(db') = Tables(db) \cup {T}
        /\ \A x \in Table \X Index : x \in Indexes(db') <=> IF x[1] = T THEN Contains(s, x[2]) ELSE x \in Indexes(db)
    BY <1>1, <1>4, <2>1, TableSet
  <2>3. db'[T] = s /\ s # NoTable
    BY <1>1, <1>4, <2>1, Cats, Marks
  <2> QED BY <1>4, <2>2, <2>3
<1>8. Indexes(db') = Indexes(db) \cup {X}
  <2>1. \A x \in Table \X Index : x[1] = T => (x \in Indexes(db) <=> Contains(db[T], x[2]))
    BY <1>4 DEF Indexes
  <2>2. \A x \in Table \X Index : x = X <=> x[1] = T /\ x[2] = ddl.ix
    BY <1>4
  <2>3. (\A x \in Indexes(db) : x \in Table \X Index) /\ \A x \in Indexes(db') : x \in Table \X Index
    BY DEF Indexes
  <2> QED BY <1>4, <1>6, <1>7, <2>1, <2>2, <2>3
<1>9. StateOK'
  BY <1>1, <1>2, <1>3, <1>7 DEF StateOK
<1>10. Shape'
  BY <1>1, <1>2, <1>3, <1>8 DEF Shape, Stages, Down
<1>11. Opened'
  BY <1>1, <1>2, <1>3, <1>4, <1>7, <1>8 DEF Opened, IInv, Stage
<1>12. Staged'
  BY <1>1, <1>2, <1>3, <1>4, <1>8 DEF IInv, Staged, CreatingTable, DroppingTable, CreatingIndex, DroppingIndex, Stage
<1>13. Handled'
  BY <1>1, <1>2, <1>3, <1>8 DEF IInv, Handled, Busy, Stage, Free
<1>14. Complete'
  BY <1>1, <1>2, <1>3, <1>8, SettledSame DEF IInv, Complete, Busy, Stage, Free
<1>15. Rebuilt' /\ Present'
  BY <1>3 DEF Rebuilt, Present
<1>16. Owned'
  BY <1>1, <1>2, <1>3, <1>7 DEF IInv, Owned, Named, Stage
<1>17. Matched'
  BY <1>1, <1>2, <1>3, <1>7 DEF IInv, Matched, Named, Stage, Free, Down
<1>18. Kept'
  BY <1>1, <1>2, <1>3 DEF IInv, Kept, Stage, Free
<1>19. Listed'
  BY <1>1, <1>2, <1>3, <1>4, <1>8 DEF IInv, Listed, Indexed, Quiet, Stage, Free, Wanted, Down
<1>20. Claimed'
  BY <1>1, <1>2, <1>3 DEF IInv, Claimed, Stage, Free, Wanted
<1> QED BY <1>9, <1>10, <1>11, <1>12, <1>13, <1>14, <1>15, <1>16, <1>17, <1>18, <1>19, <1>20 DEF IInv

(* The new file, first empty, then with its header.                        *)
LEMMA NewIndexFile ==
  ASSUME IInv, ddl # NoDdl, ddl.op = "create_index", hurt' = hurt,
         NEW v, ifile' = [ifile EXCEPT ![X] = v], NEW step, Then(step),
         \/ ddl.at = "file" /\ v = Blank /\ step = "header"
         \/ ddl.at = "header" /\ v = Ready /\ step = "open" /\ ddl.ix \notin Wide,
         UNCHANGED <<meta, tfile, log, mem>>
  PROVE  IInv'
<1>1. /\ StateOK /\ Shape /\ ddl \in Ddl /\ T \in Table /\ phase = "up" /\ Stages
      /\ X \in Table \X Index /\ step \in {"header", "open"}
  BY Running DEF IInv, Stages, X, T
<1>2. meta' = meta /\ tfile' = tfile /\ log' = log /\ db' = db /\ fhs' = fhs /\ ihs' = ihs
  BY DEF mem
<1>3. /\ ddl' \in Ddl /\ ddl' # NoDdl /\ ddl'.op = "create_index" /\ ddl'.at = step /\ ddl'.tab = ddl.tab
      /\ ddl'.ix = ddl.ix /\ ddl'.pos = ddl.pos /\ T' = T /\ X' = X
      /\ phase' = "up" /\ todo' = todo /\ count' = count /\ want' = want
  BY <1>1, NextStage DEF Then
<1>4. ifile' \in [Table \X Index -> {Absent, Blank, Ready}] /\ ifile \in [Table \X Index -> {Absent, Blank, Ready}]
  BY <1>1 DEF StateOK
<1>5. ifile'[X] = v /\ \A x \in Table \X Index : x # X => ifile'[x] = ifile[x]
  BY <1>1, <1>4
<1>6. X \in Indexes(db) /\ \A x \in Indexes(db) : x \in Table \X Index
  BY <1>1 DEF IInv, Staged, CreatingIndex, Stage, Indexes
<1>7. StateOK'
  BY <1>1, <1>2, <1>3, <1>4 DEF StateOK
<1>8. Shape'
  BY <1>1, <1>2, <1>3 DEF Shape, Stages, Down
<1>9. Opened'
  BY <1>1, <1>2, <1>3 DEF Opened, IInv, Stage
<1>10. Staged'
  BY <1>1, <1>2, <1>3, <1>5, <1>6 DEF IInv, Staged, CreatingTable, DroppingTable, CreatingIndex, DroppingIndex, Stage
<1>12. Handled'
  BY <1>1, <1>2, <1>3 DEF IInv, Handled, Busy, Stage, Free
<1>13. Complete'
  BY <1>1, <1>2, <1>3, <1>5, <1>6, SettledSame DEF IInv, Complete, Busy, Stage, Free
<1>14. Rebuilt' /\ Present'
  BY <1>3 DEF Rebuilt, Present
<1>15. Owned'
  BY <1>1, <1>2, <1>3 DEF IInv, Owned, Named, Stage
<1>16. Matched'
  BY <1>1, <1>2, <1>3 DEF IInv, Matched, Named, Stage, Free, Down
<1>17. Kept'
  BY <1>1, <1>2, <1>3 DEF IInv, Kept, Stage, Free
<1>18. Listed'
  BY <1>1, <1>2, <1>3 DEF IInv, Listed, Indexed, Quiet, Stage, Free, Wanted, Down
<1>19. Claimed'
  BY <1>1, <1>2, <1>3, <1>5 DEF IInv, Claimed, Stage, Free, Wanted
<1> QED BY <1>7, <1>8, <1>9, <1>10, <1>12, <1>13, <1>14, <1>15, <1>16, <1>17, <1>18, <1>19 DEF IInv

LEMMA CreateIndexOpenKeeps == ASSUME IInv, CreateIndexOpen PROVE IInv'
<1>1. /\ StateOK /\ Shape /\ ddl \in Ddl /\ T \in Table /\ phase = "up" /\ Stages /\ X \in Table \X Index
      /\ ddl # NoDdl /\ ddl.op = "create_index" /\ ddl.at = "open"
  BY Running DEF IInv, CreateIndexOpen, At, Stages, X, T
<1>2. /\ ihs' = [ihs EXCEPT ![X] = {}] /\ hurt' = hurt /\ meta' = meta /\ tfile' = tfile
      /\ ifile' = ifile /\ log' = log /\ fhs' = fhs /\ db' = db
  BY DEF CreateIndexOpen, files
<1>3. /\ ddl' \in Ddl /\ ddl' # NoDdl /\ ddl'.op = "create_index" /\ ddl'.at = "fill" /\ ddl'.tab = ddl.tab
      /\ ddl'.ix = ddl.ix /\ ddl'.pos = ddl.pos /\ T' = T /\ X' = X
      /\ phase' = "up" /\ todo' = todo /\ count' = count /\ want' = want
  BY <1>1, NextStage DEF CreateIndexOpen, Then
<1>4. /\ X \in Indexes(db) /\ ddl.pos = 1 /\ ddl.ix \notin Wide /\ ifile[X] = Ready
      /\ ihs \in [Table \X Index -> {NoIndex} \cup SUBSET Entry] /\ \A x \in Indexes(db) : x \in Table \X Index
  BY <1>1 DEF IInv, Staged, CreatingIndex, Stage, StateOK, Indexes
<1>5. /\ ihs' \in [Table \X Index -> {NoIndex} \cup SUBSET Entry] /\ ihs'[X] = {} /\ ihs'[X] # NoIndex
      /\ \A x \in Table \X Index : x # X => ihs'[x] = ihs[x]
  <2>1. {} \in SUBSET Entry /\ {} # NoIndex
    BY Marks
  <2> QED BY <1>1, <1>2, <1>4, <2>1
<1>6. Filling'
  <2>1. \A e \in Entries(tfile[T]) : ~(e[2] < 1)
    BY Row1 DEF Entries, Entry
  <2> QED BY <1>2, <1>3, <1>4, <1>5, <2>1 DEF Filling, Entries
<1>7. StateOK'
  BY <1>1, <1>2, <1>3, <1>5 DEF StateOK
<1>8. Shape'
  BY <1>1, <1>2, <1>3 DEF Shape, Stages, Down
<1>9. Opened'
  BY <1>1, <1>2, <1>3, <1>4, <1>5 DEF Opened, IInv, Stage
<1>10. Staged'
  BY <1>1, <1>2, <1>3, <1>4, <1>6 DEF IInv, Staged, CreatingTable, DroppingTable, CreatingIndex, DroppingIndex, Stage
<1>12. Handled'
  BY <1>1, <1>2, <1>3, <1>4, <1>5 DEF IInv, Handled, Busy, Stage, Free
<1>13. Complete'
  BY <1>1, <1>2, <1>3, <1>4, <1>5, SettledSame DEF IInv, Complete, Busy, Stage, Free
<1>14. Rebuilt' /\ Present'
  BY <1>3 DEF Rebuilt, Present
<1>15. Owned'
  BY <1>1, <1>2, <1>3 DEF IInv, Owned, Named, Stage
<1>16. Matched'
  BY <1>1, <1>2, <1>3 DEF IInv, Matched, Named, Stage, Free, Down
<1>17. Kept'
  BY <1>1, <1>2, <1>3 DEF IInv, Kept, Stage, Free
<1>18. Listed'
  BY <1>1, <1>2, <1>3 DEF IInv, Listed, Indexed, Quiet, Stage, Free, Wanted, Down
<1>19. Claimed'
  BY <1>1, <1>2, <1>3 DEF IInv, Claimed, Stage, Free, Wanted
<1> QED BY <1>7, <1>8, <1>9, <1>10, <1>12, <1>13, <1>14, <1>15, <1>16, <1>17, <1>18, <1>19 DEF IInv

(* The slot and the entry of the INSERT at work.                           *)
LEMMA PendingIs ==
  ASSUME IInv, JInv, ins # NoInsert, ins.at # "lost"
  PROVE  /\ phase = "up" /\ ins.tab \in Table /\ ins.tab \in fhs /\ ins.key \in Key /\ tfile[ins.tab] \in RowFile
         /\ FreeRow(ins.tab) \in Row /\ tfile[ins.tab][FreeRow(ins.tab)] = NoKey
         /\ Pending \in Entry /\ Pending[1] = ins.key /\ Pending[2] = FreeRow(ins.tab)
<1>1. ins \in Inserting /\ phase = "up" /\ ins.tab \in fhs /\ \E q \in Row : tfile[ins.tab][q] = NoKey
  BY DEF JInv, Working
<1>2. ins.tab \in Table /\ ins.key \in Key
  BY <1>1 DEF Inserting
<1>3. tfile[ins.tab] \in RowFile
  BY <1>1 DEF IInv, Opened
<1>4. FreeRow(ins.tab) \in Row /\ tfile[ins.tab][FreeRow(ins.tab)] = NoKey
  BY <1>1, FreeRowIs DEF FreeRow
<1>5. Pending \in Entry /\ Pending[1] = ins.key /\ Pending[2] = FreeRow(ins.tab)
  BY <1>2, <1>4 DEF Pending, Entry
<1> QED BY <1>1, <1>2, <1>3, <1>4, <1>5

(* The table as a scan reads it.                                           *)
LEMMA ShownIs ==
  ASSUME IInv, JInv, NEW t \in fhs
  PROVE  /\ tfile[t] \in RowFile /\ Shown(t) \in RowFile
         /\ \A q \in Row : tfile[t][q] # NoKey => Shown(t)[q] = tfile[t][q]
         /\ \A q \in Row : Shown(t)[q] # tfile[t][q] => Written(t) /\ q = FreeRow(t)
         /\ Written(t) => FreeRow(t) \in Row /\ Shown(t)[FreeRow(t)] = ins.key /\ ins.key # NoKey /\ ins.tab = t
         /\ Entries(tfile[t]) \subseteq Entries(Shown(t)) /\ (Written(t) => Pending \in Entries(Shown(t)))
<1>1. tfile[t] \in RowFile
  BY DEF IInv, Opened
<1>2. CASE ~Written(t)
  BY <1>1, <1>2 DEF Shown
<1>3. CASE Written(t)
  <2>1. ins # NoInsert /\ ins.at # "lost" /\ ins.tab = t /\ ins.key \in Key /\ FreeRow(t) \in Row
        /\ tfile[t][FreeRow(t)] = NoKey /\ ins.key # NoKey /\ Pending = <<ins.key, FreeRow(t)>>
    BY <1>3, PendingIs, Marks DEF Written, Pending
  <2>2. PICK rows \in RowFile, r \in Row, k \in Key : rows = tfile[t] /\ r = FreeRow(t) /\ k = ins.key
    BY <1>1, <2>1
  <2>3. Shown(t) = [rows EXCEPT ![r] = k]
    BY <1>3, <2>2 DEF Shown
  <2>4. Shown(t) \in RowFile /\ Entries(Shown(t)) = Entries(rows) \cup {<<k, r>>}
    BY <2>1, <2>2, <2>3, RowAdded
  <2>5. Shown(t)[r] = k /\ \A q \in Row : q # r => Shown(t)[q] = rows[q]
    BY <2>3 DEF RowFile
  <2> QED BY <1>1, <1>3, <2>1, <2>2, <2>4, <2>5
<1> QED BY <1>2, <1>3

(* What the scan of CREATE INDEX works on.                                 *)
LEMMA FillFacts ==
  ASSUME IInv, At("create_index", "fill")
  PROVE  /\ StateOK /\ Shape /\ ddl \in Ddl /\ T \in Table /\ phase = "up" /\ Stages /\ X \in Table \X Index
         /\ ddl # NoDdl /\ ddl.op = "create_index" /\ ddl.at = "fill" /\ ddl.pos \in Nat
         /\ X \in Indexes(db) /\ X[1] = T /\ X[2] = ddl.ix /\ ddl.ix \notin Wide /\ ifile[X] = Ready /\ Filling
         /\ tfile[T] \in RowFile /\ ihs[X] \in SUBSET Entry /\ T \in fhs
         /\ ihs \in [Table \X Index -> {NoIndex} \cup SUBSET Entry] /\ \A x \in Indexes(db) : x \in Table \X Index
<1>1. /\ StateOK /\ Shape /\ ddl \in Ddl /\ T \in Table /\ phase = "up" /\ Stages /\ X \in Table \X Index
      /\ ddl # NoDdl /\ ddl.op = "create_index" /\ ddl.at = "fill" /\ ddl.pos \in Nat
  BY Running DEF IInv, At, Stages, X, T
<1>2. X \in Indexes(db) /\ ddl.ix \notin Wide /\ ifile[X] = Ready /\ Filling
  BY <1>1 DEF IInv, Staged, CreatingIndex, Stage
<1>3. X[1] = T /\ X[2] = ddl.ix
  BY DEF X, T
<1>4. T \in fhs
  BY <1>1, <1>2, <1>3 DEF IInv, Opened, Stage, Tables, Indexes
<1>5. tfile[T] \in RowFile
  BY <1>4 DEF IInv, Opened
<1>6. ihs[X] \in SUBSET Entry
  BY <1>1, <1>2 DEF Filling, StateOK
<1>7. ihs \in [Table \X Index -> {NoIndex} \cup SUBSET Entry] /\ \A x \in Indexes(db) : x \in Table \X Index
  BY <1>1 DEF StateOK, Indexes
<1> QED BY <1>1, <1>2, <1>3, <1>4, <1>5, <1>6, <1>7

LEMMA FillEnds ==
  ASSUME IInv, JInv, At("create_index", "fill"), NextRow(Shown(T), ddl.pos) > Slots, Then("flush"),
         UNCHANGED <<ihs, hurt, files, db, fhs>>
  PROVE  IInv'
<1>1. /\ StateOK /\ Shape /\ ddl \in Ddl /\ T \in Table /\ phase = "up" /\ Stages /\ X \in Table \X Index
      /\ ddl # NoDdl /\ ddl.op = "create_index" /\ ddl.at = "fill" /\ ddl.pos \in Nat
      /\ X \in Indexes(db) /\ X[1] = T /\ X[2] = ddl.ix /\ ddl.ix \notin Wide /\ ifile[X] = Ready /\ Filling
      /\ tfile[T] \in RowFile /\ T \in fhs /\ \A x \in Indexes(db) : x \in Table \X Index
  BY FillFacts
<1>2. /\ ihs' = ihs /\ hurt' = hurt /\ meta' = meta /\ tfile' = tfile
      /\ ifile' = ifile /\ log' = log /\ fhs' = fhs /\ db' = db
  BY DEF files
<1>3. /\ ddl' \in Ddl /\ ddl' # NoDdl /\ ddl'.op = "create_index" /\ ddl'.at = "flush" /\ ddl'.tab = ddl.tab
      /\ ddl'.ix = ddl.ix /\ ddl'.pos = ddl.pos /\ T' = T /\ X' = X
      /\ phase' = "up" /\ todo' = todo /\ count' = count /\ want' = want
  BY <1>1, NextStage DEF Then
<1>4. PICK rows \in RowFile, shown \in RowFile, p \in Nat : rows = tfile[T] /\ shown = Shown(T) /\ p = ddl.pos
  BY <1>1, ShownIs
<1>5. PICK r \in Nat : r = NextRow(shown, p) /\ r > Slots /\ \A q \in Row : shown[q] # NoKey /\ p <= q => r <= q
  BY <1>4, NextRowIs
<1>6. \A q \in Row : rows[q] # NoKey => q < p
  <2>1. \A q \in Row : rows[q] # NoKey => shown[q] # NoKey
    BY <1>1, <1>4, ShownIs
  <2> QED BY <1>5, <2>1, Row1, Marks
<1>7. Free(Skew) => Entries(rows) \subseteq ihs[X]
  <2>1. \A e \in Entries(rows) : e[2] \in Row /\ rows[e[2]] # NoKey
    BY Marks DEF Entries, Entry
  <2> QED BY <1>1, <1>4, <1>6, <2>1 DEF Filling
<1>8. Free(Skew) => Distinct(rows)
  <2>1. \A e, f \in ihs[X] : e[1] = f[1] => e = f
    BY <1>1 DEF JInv, Keyed, Filling
  <2> QED BY <1>7, <2>1, FromKeys
<1>9. Free(Skew) => Settled(X)
  BY <1>1, <1>4, <1>7, <1>8 DEF Settled, Filling
<1>10. StateOK'
  BY <1>1, <1>2, <1>3 DEF StateOK
<1>11. Shape'
  BY <1>1, <1>2, <1>3 DEF Shape, Stages, Down
<1>12. Opened'
  BY <1>1, <1>2, <1>3 DEF Opened, IInv, Stage
<1>13. Staged'
  BY <1>1, <1>2, <1>3 DEF IInv, Staged, CreatingTable, DroppingTable, CreatingIndex, DroppingIndex, Stage
<1>14. Handled'
  BY <1>1, <1>2, <1>3 DEF IInv, Handled, Busy, Stage, Free
<1>15. Complete'
  BY <1>1, <1>2, <1>3, <1>9, SettledSame DEF IInv, Complete, Busy, Stage, Free
<1>16. Rebuilt' /\ Present'
  BY <1>3 DEF Rebuilt, Present
<1>17. Owned' /\ Matched'
  BY <1>1, <1>2, <1>3 DEF IInv, Owned, Matched, Named, Stage, Free, Down
<1>18. Kept'
  BY <1>1, <1>2, <1>3 DEF IInv, Kept, Stage, Free
<1>19. Listed'
  BY <1>1, <1>2, <1>3 DEF IInv, Listed, Indexed, Quiet, Stage, Free, Wanted, Down
<1>20. Claimed'
  BY <1>1, <1>2, <1>3 DEF IInv, Claimed, Stage, Free, Wanted
<1> QED BY <1>10, <1>11, <1>12, <1>13, <1>14, <1>15, <1>16, <1>17, <1>18, <1>19, <1>20 DEF IInv

LEMMA FillAdds ==
  ASSUME IInv, JInv, At("create_index", "fill"), NEW r, r = NextRow(Shown(T), ddl.pos), r <= Slots,
         ihs' = [ihs EXCEPT ![X] = @ \cup {<<Shown(T)[r], r>>}], ddl' = [ddl EXCEPT !.pos = r + 1],
         hurt \subseteq hurt', hurt' \subseteq hurt \cup {Stray},
         UNCHANGED <<phase, todo, count, want, files, db, fhs>>
  PROVE  IInv'
<1>1. /\ StateOK /\ Shape /\ ddl \in Ddl /\ T \in Table /\ phase = "up" /\ Stages /\ X \in Table \X Index
      /\ ddl # NoDdl /\ ddl.op = "create_index" /\ ddl.at = "fill" /\ ddl.pos \in Nat
      /\ X \in Indexes(db) /\ X[1] = T /\ X[2] = ddl.ix /\ ddl.ix \notin Wide /\ ifile[X] = Ready /\ Filling
      /\ tfile[T] \in RowFile /\ ihs[X] \in SUBSET Entry /\ T \in fhs
      /\ ihs \in [Table \X Index -> {NoIndex} \cup SUBSET Entry] /\ \A x \in Indexes(db) : x \in Table \X Index
  BY FillFacts
<1>2. /\ (\A E : Free(E)' => Free(E)) /\ meta' = meta /\ tfile' = tfile /\ ifile' = ifile /\ log' = log /\ fhs' = fhs /\ db' = db
      /\ phase' = "up" /\ todo' = todo /\ count' = count /\ want' = want
  BY <1>1 DEF files, Free
<1>3. PICK rows \in RowFile, shown \in RowFile, p \in Nat : rows = tfile[T] /\ shown = Shown(T) /\ p = ddl.pos
  BY <1>1, ShownIs
<1>4. /\ r \in Row /\ r \in Nat /\ shown[r] # NoKey /\ \A q \in Row : shown[q] # NoKey /\ p <= q => r <= q
      /\ \A q \in Row : rows[q] # NoKey => shown[q] = rows[q]
  <2>1. r \in Nat /\ (r <= Slots => r \in Row /\ shown[r] # NoKey) /\ \A q \in Row : shown[q] # NoKey /\ p <= q => r <= q
    BY <1>3, NextRowIs
  <2>2. \A q \in Row : rows[q] # NoKey => shown[q] = rows[q]
    BY <1>1, <1>3, ShownIs
  <2> QED BY <2>1, <2>2
<1>5. /\ ddl' \in Ddl /\ ddl' # NoDdl /\ ddl'.op = "create_index" /\ ddl'.at = "fill" /\ ddl'.tab = ddl.tab
      /\ ddl'.ix = ddl.ix /\ ddl'.pos = r + 1 /\ T' = T /\ X' = X
  <2>1. PICK n \in Nat : n = r + 1 /\ ddl' = [ddl EXCEPT !.pos = n]
    BY <1>4
  <2> QED BY <1>1, <2>1, NextPos
<1>6. PICK new \in Entries(shown) : new = <<shown[r], r>> /\ new[1] = shown[r] /\ new[2] = r /\ new \in Entry
  <2>1. <<shown[r], r>> \in Entries(shown)
    BY <1>4, EntryOf
  <2>2. <<shown[r], r>>[1] = shown[r] /\ <<shown[r], r>>[2] = r /\ <<shown[r], r>> \in Entry
    BY <2>1 DEF Entries
  <2> QED BY <2>1, <2>2
<1>7. PICK old \in SUBSET Entry : old = ihs[X]
  BY <1>1
<1>8. /\ ihs' \in [Table \X Index -> {NoIndex} \cup SUBSET Entry] /\ ihs'[X] = old \cup {new} /\ ihs'[X] # NoIndex
      /\ \A x \in Table \X Index : x # X => ihs'[x] = ihs[x]
  <2>1. old \cup {new} \in SUBSET Entry /\ ihs' = [ihs EXCEPT ![X] = old \cup {new}]
    BY <1>3, <1>6, <1>7
  <2>2. old \cup {new} # NoIndex
    BY <2>1, Marks
  <2> QED BY <1>1, <2>1, <2>2
<1>9. Filling'
  <2>1. ASSUME Free(Skew), NEW e \in Entries(rows), e[2] < r + 1 PROVE e \in old \cup {new}
    <3>1. PICK q \in Row : rows[q] # NoKey /\ e = <<rows[q], q>>
      BY EntryOf
    <3>2. e[2] = q /\ q \in Nat
      BY <3>1, Row1
    <3>3. shown[q] = rows[q] /\ (q < p \/ q = r)
      BY <1>4, <2>1, <3>1, <3>2
    <3> QED BY <1>1, <1>3, <1>6, <1>7, <2>1, <3>1, <3>2, <3>3 DEF Filling
  <2>2. tfile'[T'] = rows
    BY <1>2, <1>3, <1>5
  <2> QED BY <1>2, <1>5, <1>8, <2>1, <2>2 DEF Filling
<1>10. StateOK'
  <2>1. hurt' \subseteq Gaps \cup Orphans \cup Tearing \cup {Refused, Partial, Logged, Missed, Stray, Dangling}
    BY <1>1 DEF StateOK
  <2> QED BY <1>1, <1>2, <1>5, <1>8, <2>1 DEF StateOK
<1>11. Shape'
  BY <1>1, <1>2, <1>5 DEF Shape, Stages, Down
<1>12. Opened'
  BY <1>1, <1>2, <1>5, <1>8 DEF Opened, IInv, Stage
<1>13. Staged'
  BY <1>1, <1>2, <1>5, <1>9 DEF IInv, Staged, CreatingTable, DroppingTable, CreatingIndex, DroppingIndex, Stage
<1>14. Handled'
  BY <1>1, <1>2, <1>5, <1>8 DEF IInv, Handled, Busy, Stage
<1>15. Complete'
  BY <1>1, <1>2, <1>5, <1>8, SettledSame DEF IInv, Complete, Busy, Stage
<1>16. Rebuilt' /\ Present'
  BY <1>2 DEF Rebuilt, Present
<1>17. Owned' /\ Matched'
  BY <1>1, <1>2, <1>5 DEF IInv, Owned, Matched, Named, Stage, Down
<1>18. Kept'
  BY <1>1, <1>2, <1>5 DEF IInv, Kept, Stage
<1>19. Listed'
  BY <1>1, <1>2, <1>5 DEF IInv, Listed, Indexed, Quiet, Stage, Wanted, Down
<1>20. Claimed'
  BY <1>1, <1>2, <1>5 DEF IInv, Claimed, Stage, Wanted
<1> QED BY <1>10, <1>11, <1>12, <1>13, <1>14, <1>15, <1>16, <1>17, <1>18, <1>19, <1>20 DEF IInv
-----------------------------------------------------------------------------
(* DROP INDEX.                                                             *)

LEMMA DropIndexFileKeeps ==
  ASSUME IInv, At("drop_index", "file"),
         ifile' = [ifile EXCEPT ![X] = Absent], ihs' = [ihs EXCEPT ![X] = NoIndex], Then("indexes"),
         UNCHANGED <<meta, tfile, log, db, fhs, hurt>>
  PROVE  IInv'
<1>1. /\ StateOK /\ Shape /\ ddl \in Ddl /\ T \in Table /\ phase = "up" /\ Stages /\ X \in Table \X Index
      /\ ddl # NoDdl /\ ddl.op = "drop_index" /\ ddl.at = "file"
  BY Running DEF IInv, At, Stages, X, T
<1>2. /\ hurt' = hurt /\ meta' = meta /\ tfile' = tfile /\ log' = log /\ fhs' = fhs /\ db' = db
  OBVIOUS
<1>3. /\ ddl' \in Ddl /\ ddl' # NoDdl /\ ddl'.op = "drop_index" /\ ddl'.at = "indexes" /\ ddl'.tab = ddl.tab
      /\ ddl'.ix = ddl.ix /\ ddl'.pos = ddl.pos /\ T' = T /\ X' = X
      /\ phase' = "up" /\ todo' = todo /\ count' = count /\ want' = want
  BY <1>1, NextStage DEF Then
<1>4. /\ ihs' \in [Table \X Index -> {NoIndex} \cup SUBSET Entry] /\ ihs \in [Table \X Index -> {NoIndex} \cup SUBSET Entry]
      /\ ifile' \in [Table \X Index -> {Absent, Blank, Ready}] /\ ifile \in [Table \X Index -> {Absent, Blank, Ready}]
  BY <1>1 DEF StateOK
<1>5. \A y \in Table \X Index : /\ ihs'[y] = IF y = X THEN NoIndex ELSE ihs[y]
                                /\ ifile'[y] = IF y = X THEN Absent ELSE ifile[y]
  BY <1>4
<1>6. X \in Indexes(db) /\ \A x \in Indexes(db) : x \in Table \X Index
  BY <1>1 DEF IInv, Staged, DroppingIndex, Stage, Indexes
<1>7. StateOK'
  BY <1>1, <1>2, <1>3, <1>4 DEF StateOK
<1>8. Shape'
  BY <1>1, <1>2, <1>3 DEF Shape, Stages, Down
<1>9. Opened'
  BY <1>1, <1>2, <1>3, <1>5 DEF Opened, IInv, Stage
<1>10. Staged'
  BY <1>1, <1>2, <1>3, <1>5, <1>6 DEF IInv, Staged, CreatingTable, DroppingTable, CreatingIndex, DroppingIndex, Stage
<1>12. Handled'
  BY <1>1, <1>2, <1>3, <1>5, <1>6 DEF IInv, Handled, Busy, Stage, Free
<1>13. Complete'
  BY <1>1, <1>2, <1>3, <1>5, <1>6, SettledSame DEF IInv, Complete, Busy, Stage, Free
<1>14. Rebuilt' /\ Present'
  BY <1>3 DEF Rebuilt, Present
<1>15. Owned' /\ Matched'
  BY <1>1, <1>2, <1>3 DEF IInv, Owned, Matched, Named, Stage, Free, Down
<1>17. Kept'
  BY <1>1, <1>2, <1>3 DEF IInv, Kept, Stage, Free
<1>18. Listed'
  BY <1>1, <1>2, <1>3 DEF IInv, Listed, Indexed, Quiet, Stage, Free, Wanted, Down
<1>19. Claimed'
  BY <1>1, <1>2, <1>3, <1>5 DEF IInv, Claimed, Stage, Free, Wanted
<1> QED BY <1>7, <1>8, <1>9, <1>10, <1>12, <1>13, <1>14, <1>15, <1>17, <1>18, <1>19 DEF IInv

LEMMA DropIndexMetaKeeps == ASSUME IInv, DropIndexMeta PROVE IInv'
<1>1. /\ StateOK /\ Shape /\ ddl \in Ddl /\ T \in Table /\ phase = "up" /\ Stages /\ X \in Table \X Index
      /\ ddl # NoDdl /\ ddl.op = "drop_index" /\ ddl.at = "indexes" /\ ddl.ix \in Index
  BY Running DEF IInv, DropIndexMeta, At, Stages, X, T
<1>2. /\ hurt' = hurt /\ meta' = meta /\ tfile' = tfile
      /\ ifile' = ifile /\ log' = log /\ fhs' = fhs /\ ihs' = ihs
      /\ db' = [db EXCEPT ![T] = RemoveAt(db[T], Min({n \in DOMAIN db[T] : db[T][n] = ddl.ix}))]
  BY DEF DropIndexMeta, files
<1>3. /\ ddl' \in Ddl /\ ddl' # NoDdl /\ ddl'.op = "drop_index" /\ ddl'.at = "flush" /\ ddl'.tab = ddl.tab
      /\ ddl'.ix = ddl.ix /\ ddl'.pos = ddl.pos /\ T' = T /\ X' = X
      /\ phase' = "up" /\ todo' = todo /\ count' = count /\ want' = want
  BY <1>1, NextStage DEF DropIndexMeta, Then
<1>4. /\ db \in Catalogs /\ fhs = Tables(db) /\ X \in Indexes(db) /\ ihs[X] = NoIndex
      /\ X[1] = T /\ X[2] = ddl.ix
  BY <1>1 DEF IInv, StateOK, Staged, DroppingIndex, Stage, Opened, X, T
<1>5. db[T] \in List /\ Contains(db[T], ddl.ix) /\ T \in Tables(db)
  BY <1>1, <1>4, Cats DEF Indexes, Tables
<1>6. PICK s \in List : db' = [db EXCEPT ![T] = s] /\ \A j : Contains(s, j) <=> Contains(db[T], j) /\ j # ddl.ix
  <2>1. PICK u \in List, i \in Index : u = db[T] /\ i = ddl.ix
    BY <1>1, <1>5
  <2>2. PICK s : s = RemoveAt(u, Min({n \in DOMAIN u : u[n] = i}))
    OBVIOUS
  <2>3. s \in List /\ \A j : Contains(s, j) <=> Contains(u, j) /\ j # i
    BY <1>5, <2>1, <2>2, Erased
  <2> QED BY <1>2, <2>1, <2>2, <2>3
<1>7. /\ db' \in Catalogs /\ db'[T] # NoTable /\ Tables(db') = Tables(db)
      /\ \A x \in Table \X Index : x \in Indexes(db') <=> IF x[1] = T THEN Contains(s, x[2]) ELSE x \in Indexes(db)
  <2>2. /\ db' \in Catalogs /\ Tables(db') = Tables(db) \cup {T}
        /\ \A x \in Table \X Index : x \in Indexes(db') <=> IF x[1] = T THEN Contains(s, x[2]) ELSE x \in Indexes(db)
    BY <1>1, <1>4, <1>6, TableSet
  <2>3. db'[T] = s /\ s # NoTable
    BY <1>1, <1>4, <1>6, Cats, Marks
  <2> QED BY <1>5, <2>2, <2>3
<1>8. Indexes(db') = Indexes(db) \ {X}
  <2>1. \A x \in Table \X Index : x[1] = T => (x \in Indexes(db) <=> Contains(db[T], x[2]))
    BY <1>5 DEF Indexes, Tables
  <2>2. \A x \in Table \X Index : x = X <=> x[1] = T /\ x[2] = ddl.ix
    BY <1>1, <1>4
  <2>3. (\A x \in Indexes(db) : x \in Table \X Index) /\ \A x \in Indexes(db') : x \in Table \X Index
    BY DEF Indexes
  <2> QED BY <1>4, <1>6, <1>7, <2>1, <2>2, <2>3
<1>9. StateOK'
  BY <1>1, <1>2, <1>3, <1>7 DEF StateOK
<1>10. Shape'
  <2>1. todo = <<>> /\ ToSet(<<>>) = {}
    BY <1>1 DEF Shape, ToSet
  <2> QED BY <1>1, <1>2, <1>3, <2>1 DEF Shape, Stages, Down
<1>11. Opened'
  BY <1>1, <1>2, <1>3, <1>4, <1>7, <1>8 DEF Opened, IInv, Stage
<1>12. Staged'
  BY <1>1, <1>2, <1>3, <1>4, <1>7, <1>8 DEF IInv, Staged, CreatingTable, DroppingTable, CreatingIndex, DroppingIndex, Stage
<1>13. Handled'
  BY <1>1, <1>2, <1>3, <1>8 DEF IInv, Handled, Busy, Stage, Free
<1>14. Complete'
  BY <1>1, <1>2, <1>3, <1>8, SettledSame DEF IInv, Complete, Busy, Stage, Free
<1>15. Rebuilt' /\ Present'
  BY <1>3 DEF Rebuilt, Present
<1>16. Owned' /\ Matched'
  BY <1>1, <1>2, <1>3, <1>7 DEF IInv, Owned, Matched, Named, Stage, Free, Down
<1>18. Kept'
  BY <1>1, <1>2, <1>3 DEF IInv, Kept, Stage, Free
<1>19. Listed'
  BY <1>1, <1>2, <1>3, <1>4, <1>8 DEF IInv, Listed, Indexed, Quiet, Stage, Free, Wanted, Down
<1>20. Claimed'
  BY <1>1, <1>2, <1>3 DEF IInv, Claimed, Stage, Free, Wanted
<1> QED BY <1>9, <1>10, <1>11, <1>12, <1>13, <1>14, <1>15, <1>16, <1>18, <1>19, <1>20 DEF IInv

-----------------------------------------------------------------------------
(* The end of a statement.                                                 *)

LEMMA FlushMetaKeeps == ASSUME IInv, FlushMeta PROVE IInv'
<1>1. /\ StateOK /\ Shape /\ ddl \in Ddl /\ T \in Table /\ phase = "up" /\ Stages
      /\ ddl # NoDdl /\ ddl.at = "flush"
  BY Running DEF IInv, FlushMeta
<1>2. /\ meta' = Torn /\ hurt' = hurt /\ tfile' = tfile /\ ifile' = ifile /\ log' = log
      /\ fhs' = fhs /\ db' = db /\ ihs' = ihs
  BY DEF FlushMeta, mem
<1>3. /\ ddl' \in Ddl /\ ddl' # NoDdl /\ ddl'.op = ddl.op /\ ddl'.at = "write" /\ ddl'.tab = ddl.tab
      /\ ddl'.ix = ddl.ix /\ ddl'.pos = ddl.pos /\ T' = T /\ X' = X
      /\ phase' = "up" /\ todo' = todo /\ count' = count /\ want' = want
  BY <1>1, NextStage DEF FlushMeta, Then
<1>4. StateOK'
  BY <1>1, <1>2, <1>3 DEF StateOK
<1>5. Shape'
  BY <1>1, <1>2, <1>3 DEF Shape, Stages, Down
<1>6. Opened'
  BY <1>1, <1>2, <1>3 DEF Opened, IInv, Stage
<1>7. CreatingTable' /\ DroppingTable'
  BY <1>1, <1>2, <1>3 DEF IInv, Staged, CreatingTable, DroppingTable, Stage
<1>8. CreatingIndex' /\ DroppingIndex'
  BY <1>1, <1>2, <1>3 DEF IInv, Staged, CreatingIndex, DroppingIndex, Stage
<1>9. Handled'
  BY <1>1, <1>2, <1>3 DEF IInv, Handled, Busy, Stage, Free
<1>10. Complete'
  BY <1>1, <1>2, <1>3, SettledSame DEF IInv, Complete, Busy, Stage, Free
<1>11. Rebuilt' /\ Present'
  BY <1>3 DEF Rebuilt, Present
<1>12. Owned' /\ Matched'
  BY <1>1, <1>2, <1>3 DEF IInv, Owned, Matched, Named, Stage, Free, Down
<1>13. Kept'
  BY <1>1, <1>2, <1>3 DEF IInv, Kept, Stage, Free
<1>14. Listed'
  BY <1>1, <1>2, <1>3 DEF IInv, Listed, Indexed, Quiet, Stage, Free, Wanted, Down
<1>15. Claimed'
  BY <1>1, <1>2, <1>3 DEF IInv, Claimed, Stage, Free, Wanted
<1> QED BY <1>4, <1>5, <1>6, <1>7, <1>8, <1>9, <1>10, <1>11, <1>12, <1>13, <1>14, <1>15 DEF IInv, Staged

(* What the answer promises about the statement's table.                   *)
LEMMA NewPromise ==
  ASSUME IInv, EndDdl
  PROVE  /\ want' \in [Table -> {NoTable} \cup Promise] /\ want \in [Table -> {NoTable} \cup Promise]
         /\ \A t \in Table : t # T => want'[t] = want[t]
         /\ ddl.op = "create_table" => want'[T] # NoTable /\ want'[T].ix = {} /\ want'[T].rows = tfile[T]
         /\ ddl.op = "drop_table" => want'[T] = NoTable
         /\ ddl.op \in {"create_index", "drop_index"} =>
              want[T] # NoTable /\ want'[T] # NoTable /\ want'[T].rows = want[T].rows
         /\ ddl.op = "create_index" => want'[T].ix = want[T].ix \cup {ddl.ix}
         /\ ddl.op = "drop_index" => want'[T].ix = want[T].ix \ {ddl.ix}
<1>1. /\ StateOK /\ Shape /\ ddl \in Ddl /\ T \in Table /\ phase = "up" /\ Stages
      /\ ddl # NoDdl /\ ddl.at = "write"
  BY Running DEF IInv, EndDdl
<1>2. want \in [Table -> {NoTable} \cup Promise] /\ want' = [want EXCEPT ![T] = Promised]
  BY <1>1 DEF StateOK, EndDdl
<1>3. want'[T] = Promised /\ \A t \in Table : t # T => want'[t] = want[t]
  BY <1>1, <1>2
<1>4. CASE ddl.op = "create_table"
  <2>1. tfile[T] \in RowFile
    BY <1>1, <1>4 DEF IInv, Staged, CreatingTable, Stage
  <2>2. PICK p \in Promise : p = [rows |-> tfile[T], ix |-> {}] /\ p.rows = tfile[T] /\ p.ix = {}
    <3>1. [rows |-> tfile[T], ix |-> {}] \in Promise
      BY <2>1 DEF Promise
    <3> QED BY <3>1
  <2>3. Promised = p
    BY <1>4, <2>2 DEF Promised
  <2>4. p # NoTable
    BY Marks
  <2> QED BY <1>1, <1>2, <1>3, <1>4, <2>2, <2>3, <2>4
<1>5. CASE ddl.op = "drop_table"
  <2>1. Promised = NoTable
    BY <1>5 DEF Promised
  <2> QED BY <1>1, <1>2, <1>3, <1>5, <2>1
<1>6. CASE ddl.op \in {"create_index", "drop_index"}
  <2>1. T \in Tables(db)
    BY <1>1, <1>6 DEF IInv, Staged, CreatingIndex, DroppingIndex, Stage, Tables, Indexes, X, T
  <2>2. want[T] # NoTable
    BY <1>1, <1>6, <2>1 DEF IInv, Owned, Named, Stage, Tables
  <2>3. PICK w \in Promise : w = want[T]
    BY <1>1, <1>2, <2>2
  <2>4. ddl.ix \in Index
    BY <1>1, <1>6 DEF Stages
  <2>5. CASE ddl.op = "create_index"
    <3>1. Promised = [w EXCEPT !.ix = w.ix \cup {ddl.ix}]
      BY <2>3, <2>5 DEF Promised
    <3>2. PICK p \in Promise : p = Promised /\ p.rows = w.rows /\ p.ix = w.ix \cup {ddl.ix}
      BY <2>4, <3>1 DEF Promise
    <3>3. p # NoTable
      BY Marks
    <3> QED BY <1>1, <1>2, <1>3, <2>2, <2>3, <2>5, <3>2, <3>3
  <2>6. CASE ddl.op = "drop_index"
    <3>1. Promised = [w EXCEPT !.ix = w.ix \ {ddl.ix}]
      BY <2>3, <2>6 DEF Promised
    <3>2. PICK p \in Promise : p = Promised /\ p.rows = w.rows /\ p.ix = w.ix \ {ddl.ix}
      BY <3>1 DEF Promise
    <3>3. p # NoTable
      BY Marks
    <3> QED BY <1>1, <1>2, <1>3, <2>2, <2>3, <2>6, <3>2, <3>3
  <2> QED BY <1>6, <2>5, <2>6
<1> QED BY <1>1, <1>4, <1>5, <1>6 DEF Stages

LEMMA EndDdlKeeps == ASSUME IInv, EndDdl PROVE IInv'
<1>1. /\ StateOK /\ Shape /\ ddl \in Ddl /\ T \in Table /\ phase = "up" /\ Stages
      /\ ddl # NoDdl /\ ddl.at = "write"
  BY Running DEF IInv, EndDdl
<1>2. /\ meta' = db /\ ddl' = NoDdl /\ hurt' = hurt /\ tfile' = tfile /\ ifile' = ifile /\ log' = log
      /\ fhs' = fhs /\ db' = db /\ ihs' = ihs /\ phase' = "up" /\ todo' = todo /\ count' = count
  BY <1>1 DEF EndDdl, mem
<1>3. /\ want' \in [Table -> {NoTable} \cup Promise] /\ want \in [Table -> {NoTable} \cup Promise]
      /\ \A t \in Table : t # T => want'[t] = want[t]
      /\ ddl.op = "create_table" => want'[T] # NoTable /\ want'[T].ix = {} /\ want'[T].rows = tfile[T]
      /\ ddl.op = "drop_table" => want'[T] = NoTable
      /\ ddl.op \in {"create_index", "drop_index"} =>
           want[T] # NoTable /\ want'[T] # NoTable /\ want'[T].rows = want[T].rows
      /\ ddl.op = "create_index" => want'[T].ix = want[T].ix \cup {ddl.ix}
      /\ ddl.op = "drop_index" => want'[T].ix = want[T].ix \ {ddl.ix}
  BY NewPromise
<1>4. db \in Catalogs /\ db # Torn
  BY <1>1, Marks DEF StateOK
<1>5. Tables(want') = Named
  BY <1>1, <1>3 DEF Tables, Named, Stage, Stages
<1>6. /\ \A x \in Table \X Index : x[1] # T => (x \in Wanted' <=> x \in Wanted)
      /\ \A x \in Table \X Index : x[1] = T => (x \in Wanted' <=> want'[T] # NoTable /\ x[2] \in want'[T].ix)
      /\ \A x \in Table \X Index : x[1] = T => (x \in Wanted <=> want[T] # NoTable /\ x[2] \in want[T].ix)
      /\ (\A x \in Wanted : x \in Table \X Index) /\ \A x \in Wanted' : x \in Table \X Index
  BY <1>3 DEF Wanted
<1>7. ASSUME ddl.op = "create_table" => want[T] = NoTable PROVE Wanted' = Indexed
  <2>1. CASE ddl.op \in {"create_table", "drop_table"}
    BY <1>1, <1>3, <1>6, <1>7, <2>1 DEF Indexed, Stage
  <2>2. CASE ddl.op \in {"create_index", "drop_index"}
    <3>1. X \in Table \X Index /\ X[1] = T /\ X[2] = ddl.ix
      BY <1>1, <2>2 DEF Stages, X, T
    <3>2. \A x \in Table \X Index : x = X <=> x[1] = T /\ x[2] = ddl.ix
      BY <3>1
    <3>3. CASE ddl.op = "create_index"
      <4>1. \A x \in Table \X Index : x \in Wanted' <=> x \in Wanted \/ x = X
        BY <1>3, <1>6, <3>2, <3>3
      <4> QED BY <1>1, <1>6, <3>1, <3>3, <4>1 DEF Indexed, Stage
    <3>4. CASE ddl.op = "drop_index"
      <4>1. \A x \in Table \X Index : x \in Wanted' <=> x \in Wanted /\ x # X
        BY <1>3, <1>6, <3>2, <3>4
      <4> QED BY <1>1, <1>6, <3>1, <3>4, <4>1 DEF Indexed, Stage
    <3> QED BY <2>2, <3>3, <3>4
  <2> QED BY <1>1, <2>1, <2>2 DEF Stages
<1>8. StateOK'
  BY <1>1, <1>2, <1>3, <1>4 DEF StateOK
<1>9. Shape'
  BY <1>1, <1>2 DEF Shape, Down
<1>10. Opened'
  BY <1>1, <1>2 DEF Opened, IInv, Stage
<1>11. Staged'
  BY <1>2 DEF Staged, CreatingTable, DroppingTable, CreatingIndex, DroppingIndex, Stage
<1>12. Handled'
  BY <1>1, <1>2 DEF IInv, Handled, Busy, Stage, Free
<1>13. Complete'
  BY <1>1, <1>2, SettledSame DEF IInv, Complete, Busy, Stage, Free
<1>14. Rebuilt' /\ Present'
  BY <1>2 DEF Rebuilt, Present
<1>15. Owned'
  <2>1. Named' = Tables(want')
    BY <1>2 DEF Named, Stage
  <2> QED BY <1>2, <1>5, <2>1 DEF IInv, Owned
<1>16. Matched'
  <2>1. Named' = Tables(want')
    BY <1>2 DEF Named, Stage
  <2> QED BY <1>1, <1>2, <1>4, <1>5, <2>1 DEF IInv, Matched, Free, Down, Stage
<1>17. Kept'
  <2> SUFFICES ASSUME Free(Tearing \cup {Logged})' PROVE Kept'
    BY DEF Kept
  <2>1. Free(Tearing \cup {Logged}) /\ Free(Tearing)
    BY <1>2 DEF Free
  <2>2. ddl.op = "create_table" => want[T] = NoTable
    BY <1>1, <2>1 DEF IInv, Matched, Stage
  <2>3. ASSUME NEW t \in Tables(want') PROVE tfile'[t] = want'[t].rows
    <3>1. t \in Table /\ want'[t] # NoTable
      BY DEF Tables
    <3>2. CASE t # T
      <4>1. t \in Tables(want) /\ want'[t] = want[t]
        BY <1>3, <3>1, <3>2 DEF Tables
      <4> QED BY <1>1, <1>2, <2>1, <3>2, <4>1 DEF IInv, Kept, Stage, Down
    <3>3. CASE t = T
      <4>1. CASE ddl.op = "create_table"
        BY <1>2, <1>3, <3>3, <4>1
      <4>2. CASE ddl.op \in {"create_index", "drop_index"}
        <5>1. T \in Tables(want) /\ want'[T].rows = want[T].rows
          BY <1>1, <1>3, <4>2 DEF Tables
        <5> QED BY <1>1, <1>2, <2>1, <3>3, <4>2, <5>1 DEF IInv, Kept, Stage, Down
      <4> QED BY <1>1, <1>3, <3>1, <3>3, <4>1, <4>2 DEF Stages
    <3> QED BY <3>2, <3>3
  <2>4. ASSUME NEW n \in DOMAIN log
        PROVE  log[n].tab \in Tables(want') /\ want'[log[n].tab].rows[log[n].row] = log[n].key
    <3>1. log[n].tab \in Tables(want) /\ want[log[n].tab].rows[log[n].row] = log[n].key
      BY <2>1 DEF IInv, Kept
    <3>2. log[n].tab \in Table /\ want[log[n].tab] # NoTable
      BY <3>1 DEF Tables
    <3>3. CASE log[n].tab # T
      BY <1>3, <3>1, <3>2, <3>3 DEF Tables
    <3>4. CASE log[n].tab = T
      <4>1. ddl.op \in {"create_index", "drop_index"}
        BY <1>1, <2>1, <2>2, <3>2, <3>4 DEF IInv, Kept, Stage, Stages
      <4> QED BY <1>1, <1>3, <3>1, <3>4, <4>1 DEF Tables
    <3> QED BY <3>3, <3>4
  <2> QED BY <1>2, <2>3, <2>4 DEF Kept, Stage
<1>18. Listed'
  <2> SUFFICES ASSUME Free(Tearing \cup Half)' PROVE Listed'
    BY DEF Listed
  <2>1. Free(Tearing \cup Half) /\ Free(Tearing)
    BY <1>2 DEF Free
  <2>2. Wanted' = Indexed
    BY <1>1, <1>7, <2>1 DEF IInv, Matched, Stage
  <2>3. Indexes(db) = Wanted'
    BY <1>1, <2>1, <2>2 DEF IInv, Listed, Down
  <2>4. Indexed' = Wanted'
    BY <1>2 DEF Indexed, Stage
  <2> QED BY <1>2, <2>3, <2>4 DEF Listed, Stage, Down
<1>19. Claimed'
  <2> SUFFICES ASSUME Free(Tearing \cup Half \cup Orphans)' PROVE Claimed'
    BY DEF Claimed
  <2>1. Free(Tearing \cup Half \cup Orphans) /\ Free(Tearing)
    BY <1>2 DEF Free
  <2>2. ddl.op = "create_table" => want[T] = NoTable
    BY <1>1, <2>1 DEF IInv, Matched, Stage
  <2>3. Wanted' = Indexed
    BY <1>7, <2>2
  <2>4. ASSUME NEW t \in Table, tfile[t] # Absent PROVE t \in Named
    BY <1>1, <2>1, <2>4 DEF IInv, Claimed, Named, Stage, Staged, DroppingTable
  <2>5. ASSUME NEW x \in Table \X Index, ifile[x] # Absent PROVE x \in Indexed
    <3>1. x \in Wanted \/ (ddl.op = "create_index" /\ x = X)
      BY <1>1, <2>1, <2>5 DEF IInv, Claimed, Stage
    <3>2. ddl.op = "drop_index" => x # X
      BY <1>1, <2>1, <2>5 DEF IInv, Claimed, Stage
    <3>3. ddl.op = "drop_table" => x[1] # T
      <4>1. x = <<x[1], x[2]>> /\ x[2] \in Index
        OBVIOUS
      <4> QED BY <1>1, <2>1, <2>5, <4>1 DEF IInv, Claimed, Stage
    <3> QED BY <1>1, <3>1, <3>2, <3>3 DEF Indexed, Stage
  <2> QED BY <1>2, <1>5, <2>3, <2>4, <2>5 DEF Claimed, Stage
<1> QED BY <1>8, <1>9, <1>10, <1>11, <1>12, <1>13, <1>14, <1>15, <1>16, <1>17, <1>18, <1>19 DEF IInv

(* A statement that fails: CREATE TABLE before it has done anything, or    *)
(* CREATE INDEX after its entry is in the catalog.                         *)
LEMMA FailKeeps ==
  ASSUME IInv, ddl # NoDdl, NEW damage, Fail(damage),
         \/ ddl.op = "create_table" /\ ddl.at = "file" /\ damage = {}
         \/ ddl.op = "create_index" /\ ddl.at \in {"file", "header"} /\ damage = {Refused}
         \/ ddl.op = "create_index" /\ ddl.at = "fill" /\ damage = {Partial},
         UNCHANGED <<files, mem>>
  PROVE  IInv'
<1>1. StateOK /\ Shape /\ ddl \in Ddl /\ T \in Table /\ phase = "up" /\ Stages
  BY Running DEF IInv
<1>2. /\ ddl' = NoDdl /\ hurt' = hurt \cup damage /\ meta' = meta /\ tfile' = tfile /\ ifile' = ifile /\ log' = log
      /\ fhs' = fhs /\ db' = db /\ ihs' = ihs /\ phase' = "up" /\ todo' = todo /\ count' = count /\ want' = want
  BY <1>1 DEF Fail, mem, files
<1>3. damage \subseteq Half /\ \A E : Free(E)' => Free(E)
  BY <1>2 DEF Half, Free
<1>4. Refused # Partial /\ (ddl.op = "create_index" => ~Free(Skew)' /\ ~Free(Tearing \cup Half)' /\ ~Free(Tearing \cup Half \cup Orphans)')
  BY <1>2 DEF Free, Half, Skew, Refused, Partial
<1>5. StateOK'
  BY <1>1, <1>2, <1>3 DEF StateOK, Half
<1>6. Shape'
  BY <1>1, <1>2 DEF Shape, Down
<1>7. Opened'
  BY <1>1, <1>2 DEF Opened, IInv, Stage
<1>8. Staged'
  BY <1>2 DEF Staged, CreatingTable, DroppingTable, CreatingIndex, DroppingIndex, Stage
<1>9. Handled'
  <2>1. CASE damage = {Refused}
    BY <1>2, <2>1 DEF Handled, Free
  <2>2. CASE damage # {Refused}
    BY <1>1, <1>2, <1>3, <1>4, <2>2 DEF IInv, Handled, Busy, Stage
  <2> QED BY <2>1, <2>2
<1>10. Complete'
  BY <1>1, <1>2, <1>3, <1>4, SettledSame DEF IInv, Complete, Busy, Stage
<1>11. Rebuilt' /\ Present'
  BY <1>2 DEF Rebuilt, Present
<1>12. Owned'
  BY <1>1, <1>2 DEF IInv, Owned, Named, Stage
<1>13. Matched'
  BY <1>1, <1>2, <1>3 DEF IInv, Matched, Named, Stage, Down
<1>14. Kept'
  BY <1>1, <1>2, <1>3 DEF IInv, Kept, Stage
<1>15. Listed'
  BY <1>1, <1>2, <1>3, <1>4 DEF IInv, Listed, Indexed, Quiet, Stage, Wanted, Down
<1>16. Claimed'
  BY <1>1, <1>2, <1>3, <1>4 DEF IInv, Claimed, Stage, Wanted
<1> QED BY <1>5, <1>6, <1>7, <1>8, <1>9, <1>10, <1>11, <1>12, <1>13, <1>14, <1>15, <1>16 DEF IInv

-----------------------------------------------------------------------------
LEMMA BeginDdlKeeps == ASSUME IInv, NEW t \in Table, NEW i \in Index, BeginDdl(t, i) PROVE IInv'
<1>1. PICK op \in {"create_table", "drop_table", "create_index", "drop_index"}, ix \in Index \cup {NoIndex},
           first \in {"file", "push"} :
        /\ Issue(op, t, ix, first)
        /\ \/ op = "create_table" /\ db[t] = NoTable /\ first = "file"
           \/ op = "drop_table" /\ db[t] # NoTable /\ first = "file"
           \/ op = "create_index" /\ db[t] # NoTable /\ first = "push" /\ ix = i /\ ~Contains(db[t], i)
           \/ op = "drop_index" /\ db[t] # NoTable /\ first = "file" /\ ix = i /\ Contains(db[t], i)
  <2>1. CASE db[t] = NoTable /\ Issue("create_table", t, NoIndex, "file")
    BY <2>1
  <2>2. CASE db[t] # NoTable /\ Issue("drop_table", t, NoIndex, "file")
    BY <2>2
  <2>3. CASE db[t] # NoTable /\ ~Contains(db[t], i) /\ Issue("create_index", t, i, "push")
    BY <2>3
  <2>4. CASE db[t] # NoTable /\ Contains(db[t], i) /\ Issue("drop_index", t, i, "file")
    BY <2>4
  <2> QED BY <2>1, <2>2, <2>3, <2>4 DEF BeginDdl
<1>2. /\ StateOK /\ Shape /\ ddl = NoDdl /\ phase = "up" /\ phase' = "up" /\ hurt' = hurt
      /\ meta' = meta /\ tfile' = tfile /\ ifile' = ifile /\ log' = log
      /\ fhs' = fhs /\ db' = db /\ ihs' = ihs /\ todo' = todo /\ want' = want
      /\ ddl' = [op |-> op, tab |-> t, ix |-> ix, at |-> first, pos |-> 1]
      /\ count' = [count EXCEPT !.ddl = @ + 1]
  BY <1>1 DEF IInv, Issue, files, mem
<1>3. /\ ddl' \in Ddl /\ ddl'.op = op /\ ddl'.tab = t /\ ddl'.ix = ix /\ ddl'.at = first /\ ddl'.pos = 1
  BY <1>2 DEF Ddl
<1>4. ddl' # NoDdl /\ T' = t /\ X' = <<t, ix>>
  BY <1>3, Marks DEF T, X
<1>5. op \in {"create_index", "drop_index"} => X' \in Table \X Index /\ (X' \in Indexes(db) <=> op = "drop_index")
  BY <1>1, <1>4 DEF Indexes
<1>6. StateOK'
  <2>1. count' \in [ddl: Nat, starts: Nat]
    BY <1>2 DEF StateOK
  <2> QED BY <1>2, <1>3, <2>1 DEF StateOK
<1>7. Shape'
  BY <1>1, <1>2, <1>3, <1>4 DEF Shape, Stages, Down
<1>8. Opened'
  BY <1>1, <1>2, <1>3, <1>4 DEF Opened, IInv, Stage
<1>9. Staged'
  BY <1>1, <1>2, <1>3, <1>4, <1>5 DEF Staged, CreatingTable, DroppingTable, CreatingIndex, DroppingIndex, Stage
<1>10. Handled'
  BY <1>1, <1>2, <1>3, <1>4 DEF IInv, Handled, Busy, Stage, Free
<1>11. Complete'
  BY <1>1, <1>2, <1>3, <1>4, SettledSame DEF IInv, Complete, Busy, Stage, Free
<1>12. Rebuilt' /\ Present'
  BY <1>2 DEF Rebuilt, Present
<1>13. Owned' /\ Matched'
  BY <1>1, <1>2, <1>3, <1>4 DEF IInv, Owned, Matched, Named, Stage, Free, Down
<1>14. Kept'
  BY <1>1, <1>2, <1>3, <1>4 DEF IInv, Kept, Stage, Free
<1>15. Listed'
  BY <1>1, <1>2, <1>3, <1>4 DEF IInv, Listed, Indexed, Quiet, Stage, Free, Wanted, Down
<1>16. Claimed'
  BY <1>1, <1>2, <1>3, <1>4 DEF IInv, Claimed, Stage, Free, Wanted
<1> QED BY <1>6, <1>7, <1>8, <1>9, <1>10, <1>11, <1>12, <1>13, <1>14, <1>15, <1>16 DEF IInv

-----------------------------------------------------------------------------
(* INSERT by another session.                                              *)

(* A step that leaves the catalog, the files and the statement alone, and  *)
(* the entries of committed rows.                                          *)
LEMMA EntriesKeep ==
  ASSUME IInv, ihs' \in [Table \X Index -> {NoIndex} \cup SUBSET Entry],
         \A x \in Table \X Index :
           /\ ihs'[x] = NoIndex <=> ihs[x] = NoIndex
           /\ ihs[x] # NoIndex => \A e \in Entries(tfile[x[1]]) : e \in ihs[x] => e \in ihs'[x],
         hurt \subseteq hurt',
         hurt' \subseteq Gaps \cup Orphans \cup Tearing \cup {Refused, Partial, Logged, Missed, Stray, Dangling},
         UNCHANGED <<meta, tfile, ifile, log, db, fhs, phase, ddl, todo, count, want>>,
         ihs' = ihs \/ phase = "up"
  PROVE  IInv'
<1>1. /\ meta' = meta /\ tfile' = tfile /\ ifile' = ifile /\ log' = log /\ db' = db /\ fhs' = fhs
      /\ phase' = phase /\ ddl' = ddl /\ todo' = todo /\ count' = count /\ want' = want /\ T' = T /\ X' = X
      /\ \A E : Free(E)' => Free(E)
  BY DEF T, X, Free
<1>2. Wanted' = Wanted
  BY <1>1 DEF Wanted
<1>3. /\ \A x \in Indexes(db) : x \in Table \X Index
      /\ \A x \in Indexes(db) : Settled(x) => Settled(x)'
  <2>1. ASSUME NEW x \in Indexes(db), Settled(x) PROVE Settled(x)'
    <3>1. x \in Table \X Index
      BY DEF Indexes
    <3> QED BY <1>1, <2>1, <3>1 DEF Settled, Entries, Distinct
  <2> QED BY <2>1 DEF Indexes
<1>4. StateOK'
  BY <1>1 DEF IInv, StateOK
<1>5. Shape'
  <2>1. phase \in Down => ihs' = ihs
    BY DEF Down
  <2> QED BY <1>1, <2>1 DEF IInv, Shape, Stages
<1>6. Opened'
  BY <1>1 DEF IInv, Opened, Stage
<1>7. CreatingTable' /\ DroppingTable'
  <2>1. CreatingTable'
    BY <1>1 DEF IInv, Staged, CreatingTable, Stage
  <2>2. ASSUME Stage("drop_table", {"index"}), NEW n \in 1..Len(db[T]) PROVE <<T, db[T][n]>> \in Table \X Index
    <3>1. T \in Table /\ db[T] # NoTable /\ db \in Catalogs
      BY <2>2, Running DEF IInv, Staged, DroppingTable, Stage, StateOK
    <3>2. db[T] \in Seq(Index)
      BY <3>1, Cats DEF List
    <3> QED BY <3>1, <3>2
  <2>3. ASSUME Stage("drop_table", {"tabs"}), NEW i \in Index PROVE <<T, i>> \in Table \X Index
    BY <2>3, Running DEF IInv, Stage
  <2> QED BY <1>1, <2>1, <2>2, <2>3 DEF IInv, Staged, DroppingTable, Stage
<1>8. CreatingIndex'
  <2>1. Stage("create_index", {"fill"}) => Filling'
    <3> SUFFICES ASSUME Stage("create_index", {"fill"}) PROVE Filling'
      OBVIOUS
    <3>1. X \in Table \X Index /\ X[1] = T /\ Filling
      BY FillFacts DEF Stage, At, IInv, Shape
    <3> QED BY <1>1, <3>1 DEF Filling
  <2> QED BY <1>1, <2>1 DEF IInv, Staged, CreatingIndex, Stage
<1>9. DroppingIndex'
  <2>1. Stage("drop_index", {"indexes"}) => X \in Table \X Index
    BY <1>3 DEF IInv, Staged, DroppingIndex, Stage
  <2> QED BY <1>1, <2>1 DEF IInv, Staged, DroppingIndex, Stage
<1>10. Handled' /\ Complete' /\ Rebuilt'
  BY <1>1, <1>3 DEF IInv, Handled, Complete, Rebuilt, Busy, Stage
<1>11. Owned' /\ Matched' /\ Kept'
  BY <1>1 DEF IInv, Owned, Matched, Named, Kept, Stage
<1>12. Listed'
  BY <1>1, <1>2 DEF IInv, Listed, Indexed, Quiet, Stage
<1>13. Present'
  BY <1>1, <1>2 DEF IInv, Present, Distinct
<1>14. Claimed'
  BY <1>1, <1>2 DEF IInv, Claimed, Stage
<1> QED BY <1>4, <1>5, <1>6, <1>7, <1>8, <1>9, <1>10, <1>11, <1>12, <1>13, <1>14 DEF IInv, Staged

(* The row is in every index of the table that CREATE INDEX has filled.    *)
LEMMA CommitHas ==
  ASSUME IInv, JInv, InsertCommit, Free(Skew)', NEW x \in Indexes(db), x[1] = ins.tab, ihs[x] # NoIndex
  PROVE  Pending \in ihs[x] \/ Ahead(x, FreeRow(ins.tab))
<1>1. /\ Inserts("entries") /\ ins # NoInsert /\ ins.at = "entries" /\ ins \in Inserting /\ ins.pos > Len(ins.ix)
      /\ ins.ix \in Seq(Index) /\ ins.pos \in Nat
  BY DEF InsertCommit, Inserts, JInv, Inserting
<1>2. Free(Skew) /\ Missed \notin hurt'
  BY DEF InsertCommit, Free, Skew
<1>3. x \in Table \X Index /\ x = <<ins.tab, x[2]>> /\ Contains(db[ins.tab], x[2]) /\ db[ins.tab] # NoTable /\ ins.tab \in Table
  BY DEF Indexes
<1>4. CASE x[2] \in Range(ins.ix)
  <2>1. PICK n \in 1..Len(ins.ix) : ins.ix[n] = x[2]
    BY <1>1, <1>4 DEF Range
  <2>2. n < ins.pos
    BY <1>1, <2>1
  <2> QED BY <1>1, <1>2, <1>3, <2>1, <2>2 DEF JInv, Made
<1>5. CASE x[2] \notin Range(ins.ix)
  <2>1. db[ins.tab] \in Seq(Index)
    BY <1>3, Cats DEF IInv, StateOK, List
  <2>2. x[2] \in Range(db[ins.tab])
    BY <1>3, <2>1 DEF Contains, Range
  <2>3. ~(\E i \in Range(db[ins.tab]) \ Range(ins.ix) :
            ihs[<<ins.tab, i>>] # NoIndex /\ Pending \notin ihs[<<ins.tab, i>>] /\ ~Ahead(<<ins.tab, i>>, FreeRow(ins.tab)))
    BY <1>2 DEF InsertCommit
  <2> QED BY <1>3, <1>5, <2>2, <2>3
<1> QED BY <1>4, <1>5

LEMMA InsertCommitKeeps == ASSUME IInv, JInv, InsertCommit PROVE IInv'
<1>1. PICK t \in Table, k \in Key :
        /\ t = ins.tab /\ k = ins.key /\ StateOK /\ Shape /\ phase = "up" /\ t \in fhs /\ db[t] # NoTable
        /\ ins # NoInsert /\ ins.at = "entries" /\ tfile[t] \in RowFile /\ FreeRow(t) \in Row /\ tfile[t][FreeRow(t)] = NoKey
        /\ Pending = <<k, FreeRow(t)>>
  <2>1. ins # NoInsert /\ ins.at = "entries"
    BY DEF InsertCommit, Inserts
  <2>2. ins.tab \in Tables(db)
    BY <2>1, PendingIs DEF IInv, Opened, Tables
  <2> QED BY <2>1, <2>2, PendingIs DEF IInv, Tables, Pending
<1>2. PICK rows \in RowFile : rows = tfile[t]
  BY <1>1
<1>3. PICK r \in Row : r = FreeRow(t) /\ rows[r] = NoKey
  BY <1>1, <1>2
<1>4. PICK new \in RowFile : new = [rows EXCEPT ![r] = k] /\ Entries(new) = Entries(rows) \cup {<<k, r>>}
  BY <1>3, RowAdded
<1>5. /\ meta' = meta /\ ifile' = ifile /\ db' = db /\ fhs' = fhs /\ ihs' = ihs /\ phase' = "up" /\ ddl' = ddl
      /\ todo' = todo /\ count' = count /\ T' = T /\ X' = X
      /\ tfile' = [tfile EXCEPT ![t] = new] /\ log' = Append(log, [tab |-> t, row |-> r, key |-> k])
      /\ want' = IF want[t] = NoTable THEN want ELSE [want EXCEPT ![t].rows[r] = k]
      /\ hurt \subseteq hurt' /\ hurt' \subseteq hurt \cup {Logged, Missed}
      /\ want[t] = NoTable => Logged \in hurt'
  <2>1. tfile' = [tfile EXCEPT ![t][r] = k]
    BY <1>1, <1>3 DEF InsertCommit
  <2>2. tfile' = [tfile EXCEPT ![t] = new]
    BY <1>2, <1>4, <2>1
  <2>3. hurt \subseteq hurt' /\ hurt' \subseteq hurt \cup {Logged, Missed} /\ (want[t] = NoTable => Logged \in hurt')
    BY <1>1 DEF InsertCommit
  <2> QED BY <1>1, <1>3, <2>2, <2>3 DEF InsertCommit, T, X, mem
<1>6. /\ tfile \in [Table -> {Absent, Blank} \cup RowFile] /\ tfile' \in [Table -> {Absent, Blank} \cup RowFile]
      /\ tfile'[t] = new /\ \A u \in Table : u # t => tfile'[u] = tfile[u]
  BY <1>1, <1>5 DEF StateOK
<1>8. \A x \in Indexes(db) : x \in Table \X Index
  BY DEF Indexes
<1>9. ASSUME Free(Skew)', NEW x \in Indexes(db), x[1] = t, ihs[x] # NoIndex PROVE <<k, r>> \in ihs[x] \/ Ahead(x, r)
  BY <1>1, <1>3, <1>9, CommitHas
<1>10. /\ want \in [Table -> {NoTable} \cup Promise] /\ want' \in [Table -> {NoTable} \cup Promise]
       /\ \A u \in Table : u # t => want'[u] = want[u]
       /\ want[t] = NoTable => want'[t] = NoTable
       /\ want[t] # NoTable => /\ want'[t] # NoTable /\ want'[t].ix = want[t].ix
                               /\ want'[t].rows = [want[t].rows EXCEPT ![r] = k] /\ want[t].rows \in RowFile
  <2>1. want \in [Table -> {NoTable} \cup Promise]
    BY <1>1 DEF StateOK
  <2>2. CASE want[t] = NoTable
    BY <1>5, <2>1, <2>2
  <2>3. CASE want[t] # NoTable
    <3>1. PICK w \in Promise : w = want[t]
      BY <2>1, <2>3
    <3>2. PICK v : v = [w.rows EXCEPT ![r] = k]
      OBVIOUS
    <3>3. v \in RowFile /\ w.rows \in RowFile
      BY <3>1, <3>2 DEF Promise, RowFile
    <3>4. PICK p : p = [w EXCEPT !.rows = v]
      OBVIOUS
    <3>5. p \in Promise /\ p.rows = v /\ p.ix = w.ix
      BY <3>3, <3>4 DEF Promise
    <3>6. want' = [want EXCEPT ![t] = p]
      BY <1>5, <2>3, <3>1, <3>2, <3>4
    <3>7. p # NoTable
      BY <3>5, Marks
    <3> QED BY <2>1, <2>3, <3>1, <3>2, <3>3, <3>5, <3>6, <3>7
  <2> QED BY <2>2, <2>3
<1>11. Tables(want') = Tables(want) /\ Wanted' = Wanted
  <2>1. Tables(want') = Tables(want)
    BY <1>10 DEF Tables
  <2>2. \A x \in Table \X Index : x \in Wanted' <=> x \in Wanted
    BY <1>10 DEF Wanted
  <2> QED BY <2>1, <2>2 DEF Wanted
<1>12. hurt \subseteq hurt' /\ (\A E : Free(E)' => Free(E)) /\ (\A E : Free(E \cup {Logged})' => want[t] # NoTable)
  BY <1>5 DEF Free
<1>13. Stage("drop_table", {"index", "tabs", "flush", "write"}) => T # t
  <2>1. CASE Stage("drop_table", {"index", "tabs"})
    BY <1>1, <2>1 DEF IInv, Opened
  <2>2. CASE Stage("drop_table", {"flush", "write"})
    BY <1>1, <2>2 DEF IInv, Staged, DroppingTable
  <2> QED BY <2>1, <2>2 DEF Stage
<1>14. StateOK'
  <2>1. hurt' \subseteq Gaps \cup Orphans \cup Tearing \cup {Refused, Partial, Logged, Missed, Stray, Dangling}
    BY <1>1, <1>5 DEF StateOK
  <2>2. log' \in Seq([tab: Table, row: Row, key: Key])
    <3>1. [tab |-> t, row |-> r, key |-> k] \in [tab: Table, row: Row, key: Key]
      OBVIOUS
    <3> QED BY <1>1, <1>5, <3>1 DEF StateOK
  <2> QED BY <1>1, <1>5, <1>6, <1>10, <1>12, <2>1, <2>2 DEF StateOK
<1>15. Shape'
  BY <1>1, <1>5 DEF Shape, Stages, Down
<1>16. Opened'
  BY <1>1, <1>5, <1>6 DEF IInv, StateOK, Opened, Stage
<1>17. CreatingTable'
  BY <1>5, <1>6 DEF IInv, Staged, CreatingTable, Stage
<1>18. DroppingTable'
  <2>1. Stage("drop_table", {"index", "tabs", "flush", "write"}) => tfile'[T] = tfile[T]
    BY <1>1, <1>6, <1>13, Running DEF Stage
  <2> QED BY <1>5, <2>1 DEF IInv, Staged, DroppingTable, Stage
<1>19. Stage("create_index", {"fill"}) => Filling'
  <2> SUFFICES ASSUME Stage("create_index", {"fill"}) PROVE Filling'
    OBVIOUS
  <2>1. /\ ddl # NoDdl /\ T \in Table /\ X \in Table \X Index /\ X \in Indexes(db) /\ X[1] = T /\ Filling /\ ddl.pos \in Nat
    BY <1>1, FillFacts DEF Stage, At
  <2>2. ASSUME Free(Skew)', NEW e \in Entries(tfile'[T]), e[2] < ddl.pos PROVE e \in ihs[X]
    <3>1. CASE T # t
      BY <1>6, <1>12, <2>1, <2>2, <3>1 DEF Filling
    <3>2. CASE T = t /\ e \in Entries(rows)
      BY <1>2, <1>12, <2>1, <2>2, <3>2 DEF Filling
    <3>3. CASE T = t /\ e = <<k, r>>
      <4>1. e[2] = r /\ r \in Nat
        BY <3>3, Row1
      <4>2. ~Ahead(X, r)
        BY <2>1, <2>2, <4>1 DEF Ahead
      <4> QED BY <1>9, <2>1, <2>2, <3>3, <4>2 DEF Filling
    <3> QED BY <1>4, <1>6, <2>2, <3>1, <3>2, <3>3
  <2> QED BY <1>5, <2>1, <2>2 DEF Filling
<1>20. CreatingIndex' /\ DroppingIndex'
  <2>1. DroppingIndex /\ (Stage("drop_index", {"indexes"}) => X \in Table \X Index)
    BY <1>1, Running DEF IInv, Staged, DroppingIndex, Indexes, Stage
  <2> QED BY <1>5, <1>19, <2>1 DEF IInv, Staged, CreatingIndex, DroppingIndex, Stage
<1>21. Handled'
  BY <1>1, <1>5, <1>12 DEF IInv, Handled, Busy, Stage
<1>22. ASSUME NEW x \in Indexes(db), Settled(x), Free(Skew)', ~(Stage("create_index", {"fill"}) /\ x = X)
       PROVE  Settled(x)'
  <2>1. CASE x[1] # t
    BY <1>5, <1>6, <1>8, <1>22, <2>1, SettledSame
  <2>2. CASE x[1] = t
    <3>1. ihs[x] # NoIndex /\ Entries(rows) \subseteq ihs[x] /\ ifile[x] = Ready /\ x[2] \notin Wide
      BY <1>2, <1>22, <2>2 DEF Settled
    <3>2. ~Ahead(x, r)
      BY <1>22 DEF Ahead, Stage
    <3>3. Entries(new) \subseteq ihs[x]
      BY <1>4, <1>9, <1>22, <2>2, <3>1, <3>2
    <3>4. \A e, f \in ihs[x] : e[1] = f[1] => e = f
      BY <1>8, <3>1 DEF JInv, Keyed
    <3>5. Distinct(new)
      BY <3>3, <3>4, FromKeys
    <3> QED BY <1>5, <1>6, <2>2, <3>1, <3>3, <3>5 DEF Settled, Distinct, Entries
  <2> QED BY <2>1, <2>2
<1>23. Complete'
  BY <1>1, <1>5, <1>12, <1>22 DEF IInv, Complete, Busy, Stage
<1>24. Rebuilt' /\ Present'
  BY <1>5 DEF Rebuilt, Present
<1>25. Owned' /\ Matched'
  <2>1. Named' = Named
    BY <1>5, <1>11 DEF Named, Stage
  <2>2. Stage("create_table", {"open", "flush", "write"}) /\ want[T] = NoTable => want'[T] = NoTable
    BY <1>1, <1>10, Running DEF Stage
  <2> QED BY <1>1, <1>5, <1>11, <1>12, <2>1, <2>2 DEF IInv, Owned, Matched, Stage, Down
<1>26. Kept'
  <2> SUFFICES ASSUME Free(Tearing \cup {Logged})' PROVE Kept'
    BY DEF Kept
  <2>1. Free(Tearing \cup {Logged}) /\ want[t] # NoTable /\ t \in Tables(want)
    BY <1>12 DEF Tables
  <2>2. rows = want[t].rows
    BY <1>2, <2>1, Marks DEF IInv, Kept
  <2>3. tfile'[t] = want'[t].rows /\ want'[t].rows[r] = k /\ \A q \in Row : q # r => want'[t].rows[q] = want[t].rows[q]
    BY <1>4, <1>6, <1>10, <2>1, <2>2 DEF RowFile
  <2>4. \A u \in Tables(want) : u \in Table
    BY DEF Tables
  <2>5. ASSUME NEW u \in Tables(want)
        PROVE  \/ tfile'[u] = want'[u].rows
               \/ tfile'[u] = Absent /\ Stage("drop_table", {"index", "tabs", "flush", "write"})' /\ T' = u
    <3>1. CASE u = t
      BY <2>3, <3>1
    <3>2. CASE u # t
      BY <1>1, <1>5, <1>6, <1>10, <2>1, <2>4, <3>2 DEF IInv, Kept, Stage, Down
    <3> QED BY <3>1, <3>2
  <2>6. PICK e : e = [tab |-> t, row |-> r, key |-> k] /\ e.tab = t /\ e.row = r /\ e.key = k
    <3>1. PICK e : e = [tab |-> t, row |-> r, key |-> k]
      OBVIOUS
    <3>2. e.tab = t /\ e.row = r /\ e.key = k
      BY <3>1
    <3> QED BY <3>1, <3>2
  <2>7. log \in Seq(Record) /\ log' = Append(log, e)
    BY <1>1, <1>5, <2>6 DEF StateOK, Record
  <2>8. DOMAIN log' = 1..(Len(log) + 1) /\ log'[Len(log) + 1] = e /\ Len(log) \in Nat /\ DOMAIN log = 1..Len(log)
        /\ \A n \in 1..Len(log) : log'[n] = log[n] /\ log[n] \in Record
    BY <2>7
  <2>9. ASSUME NEW n \in DOMAIN log'
        PROVE  /\ log'[n].tab \in Tables(want) /\ want'[log'[n].tab].rows[log'[n].row] = log'[n].key
               /\ Stage("drop_table", {"index", "tabs", "flush", "write"}) => log'[n].tab # T
    <3>1. CASE n = Len(log) + 1
      BY <1>13, <2>1, <2>3, <2>6, <2>8, <3>1
    <3>2. CASE n # Len(log) + 1
      <4>1. n \in DOMAIN log /\ log'[n] = log[n] /\ log[n] \in Record
        BY <2>8, <3>2
      <4>2. /\ log[n].tab \in Tables(want) /\ want[log[n].tab].rows[log[n].row] = log[n].key
            /\ Stage("drop_table", {"index", "tabs", "flush", "write"}) => log[n].tab # T
        BY <2>1, <4>1 DEF IInv, Kept
      <4>3. log[n].row \in Row /\ log[n].key \in Key
        BY <4>1 DEF Record
      <4>4. want'[log[n].tab].rows[log[n].row] = log[n].key
        <5>1. CASE log[n].tab = t
          <6>1. log[n].row # r
            BY <1>3, <2>2, <4>2, <4>3, <5>1, Marks
          <6> QED BY <2>3, <4>2, <4>3, <5>1, <6>1
        <5>2. CASE log[n].tab # t
          BY <1>10, <2>4, <4>2, <5>2
        <5> QED BY <5>1, <5>2
      <4> QED BY <4>1, <4>2, <4>4
    <3> QED BY <3>1, <3>2
  <2> QED BY <1>5, <1>11, <2>5, <2>9 DEF Kept, Stage
<1>27. Listed'
  BY <1>1, <1>5, <1>11, <1>12 DEF IInv, Listed, Indexed, Quiet, Stage, Down
<1>28. Claimed'
  <2>1. \A u \in Table : tfile'[u] # Absent => tfile[u] # Absent
    BY <1>2, <1>6, Marks
  <2> QED BY <1>5, <1>11, <1>12, <2>1 DEF IInv, Claimed, Stage
<1> QED BY <1>14, <1>15, <1>16, <1>17, <1>18, <1>20, <1>21, <1>23, <1>24, <1>25, <1>26, <1>27, <1>28 DEF IInv, Staged

-----------------------------------------------------------------------------
(* The process ends.                                                       *)

(* What the files must be like for the next start is Present'; a torn      *)
(* db.meta and a file without a name are events of the history.            *)
LEMMA EndKeeps ==
  ASSUME IInv, NEW how \in Down, End(how), UNCHANGED <<tfile, ifile, log>>,
         hurt \subseteq hurt', hurt' \subseteq hurt \cup Gaps \cup Orphans \cup Tearing,
         meta' = meta \/ (meta' = db /\ phase = "up" /\ ddl = NoDdl),
         Free(Tearing)' => meta' # Torn,
         Free(Tearing \cup Half \cup Orphans)' =>
           ~Stage("create_table", {"header", "tabs", "open", "flush", "write"})
             /\ ~Stage("create_index", {"header", "open", "fill", "flush", "write"}),
         Present'
  PROVE  IInv'
<1>1. /\ phase' = how /\ ddl' = NoDdl /\ todo' = <<>> /\ db' = NoCatalog /\ fhs' = {} /\ ihs' = NoHandles
      /\ count' = count /\ want' = want /\ tfile' = tfile /\ ifile' = ifile /\ log' = log
  BY DEF End
<1>2. StateOK /\ \A E : Free(E)' => Free(E)
  BY DEF IInv, Free
<1>3. NoCatalog \in Catalogs /\ Tables(NoCatalog) = {} /\ Indexes(NoCatalog) = {} /\ ToSet(<<>>) = {}
  BY EmptyCatalog DEF ToSet
<1>4. phase' \in Down /\ phase' \notin {"up", "write", "destroy", "create", "header", "truncate"}
  BY <1>1 DEF Down
<1>5. StateOK'
  <2>1. NoHandles \in [Table \X Index -> {NoIndex} \cup SUBSET Entry]
    BY DEF NoHandles
  <2>2. meta' \in Catalogs \cup {Torn}
    BY <1>2 DEF StateOK
  <2>3. hurt' \subseteq Gaps \cup Orphans \cup Tearing \cup {Refused, Partial, Logged, Missed, Stray, Dangling}
    BY <1>2 DEF StateOK
  <2>4. todo' \in Seq(Table \X Index)
    BY <1>1
  <2> QED BY <1>1, <1>2, <1>3, <2>1, <2>2, <2>3, <2>4 DEF StateOK, Down
<1>6. Shape'
  BY <1>1, <1>3, <1>4 DEF Shape
<1>7. Opened'
  <2>1. \A x \in Table \X Index : NoHandles[x] = NoIndex
    BY DEF NoHandles
  <2> QED BY <1>1, <1>3, <2>1 DEF Opened, Stage
<1>8. Staged'
  BY <1>1 DEF Staged, CreatingTable, DroppingTable, CreatingIndex, DroppingIndex, Stage
<1>9. Handled' /\ Complete' /\ Rebuilt'
  BY <1>4 DEF Handled, Complete, Rebuilt
<1>10. \/ meta' = meta
       \/ /\ meta' = db /\ db # Torn /\ Tables(db) \subseteq Tables(want)
          /\ Free(Tearing) => Tables(db) = Tables(want)
          /\ Free(Tearing \cup Half) => Indexes(db) = Wanted
  BY <1>2, Marks DEF IInv, StateOK, Owned, Matched, Listed, Named, Indexed, Stage, Down
<1>11. Owned'
  BY <1>1, <1>3, <1>10 DEF IInv, Owned, Named, Stage
<1>12. Matched'
  BY <1>1, <1>2, <1>4, <1>10 DEF IInv, Matched, Stage
<1>13. Kept'
  BY <1>1, <1>2, <1>4 DEF IInv, Kept, Stage
<1>14. Listed'
  <2>1. Wanted' = Wanted
    BY <1>1 DEF Wanted
  <2> QED BY <1>1, <1>2, <1>4, <1>10, <2>1 DEF IInv, Listed, Stage
<1>15. Claimed'
  <2>1. Wanted' = Wanted
    BY <1>1 DEF Wanted
  <2> QED BY <1>1, <1>2, <2>1 DEF IInv, Claimed, Stage
<1> QED BY <1>5, <1>6, <1>7, <1>8, <1>9, <1>11, <1>12, <1>13, <1>14, <1>15 DEF IInv

(* The steps at which something is amiss are noted.                        *)
LEMMA Noted ==
  ASSUME IInv, phase \notin Down, Note(Step)
  PROVE  /\ hurt \subseteq hurt' /\ hurt' \subseteq hurt \cup Gaps \cup Orphans \cup Tearing
         /\ Free(Tearing)' => phase # "write" /\ (ddl # NoDdl => ddl.at # "write")
         /\ Free(Gaps)' =>
              /\ phase \notin {"create", "header"}
              /\ ~Stage("drop_table", {"index", "tabs", "flush"}) /\ ~Stage("drop_index", {"indexes", "flush"})
         /\ Free(Orphans)' =>
              /\ ~Stage("create_table", {"header", "tabs", "open", "flush"})
              /\ ~Stage("create_index", {"header", "open", "fill", "flush"})
<1>1. hurt' = hurt \cup ({Step} \cap (Gaps \cup Orphans \cup Tearing))
  BY DEF Note
<1>2. /\ Step \in Tearing => ~Free(Tearing)'
      /\ Step \in Gaps => ~Free(Gaps)'
      /\ Step \in Orphans => ~Free(Orphans)'
  BY <1>1 DEF Free
<1>3. ddl # NoDdl => phase = "up" /\ Stages /\ Step = <<ddl.op, ddl.at>>
  BY DEF IInv, Shape, Step
<1>4. ddl = NoDdl => Step = <<"start", phase>>
  BY DEF Step
<1>5. (phase = "write" \/ (ddl # NoDdl /\ ddl.at = "write")) => Step \in Tearing
  <2>1. CASE ddl # NoDdl
    BY <1>3, <2>1 DEF Stages, Tearing
  <2>2. CASE ddl = NoDdl
    BY <1>4, <2>2 DEF Tearing
  <2> QED BY <2>1, <2>2
<1>6. phase \in {"create", "header"} => Step \in Gaps
  BY <1>3, <1>4 DEF Gaps
<1>7. Stage("drop_table", {"index", "tabs", "flush"}) \/ Stage("drop_index", {"indexes", "flush"}) => Step \in Gaps
  BY <1>3 DEF Gaps, Stage
<1>8. /\ Stage("create_table", {"header", "tabs", "open", "flush"}) => Step \in Orphans
      /\ Stage("create_index", {"header", "open", "fill", "flush"}) => Step \in Orphans
  BY <1>3 DEF Orphans, Stage
<1> QED BY <1>1, <1>2, <1>5, <1>6, <1>7, <1>8

LEMMA DieKeeps ==
  ASSUME IInv, phase \notin Down, NEW how \in {"stopped", "terminated"}, Die(how)
  PROVE  IInv'
<1>1. End(how) /\ how \in Down /\ UNCHANGED <<meta, tfile, ifile, log>> /\ Note(Step)
  BY DEF Die, files, Down
<1>2. /\ hurt \subseteq hurt' /\ hurt' \subseteq hurt \cup Gaps \cup Orphans \cup Tearing
      /\ Free(Tearing)' => phase # "write" /\ (ddl # NoDdl => ddl.at # "write")
      /\ Free(Gaps)' =>
           /\ phase \notin {"create", "header"}
           /\ ~Stage("drop_table", {"index", "tabs", "flush"}) /\ ~Stage("drop_index", {"indexes", "flush"})
      /\ Free(Orphans)' =>
           /\ ~Stage("create_table", {"header", "tabs", "open", "flush"})
           /\ ~Stage("create_index", {"header", "open", "fill", "flush"})
  BY <1>1, Noted
<1>3. \A E : Free(E)' => Free(E)
  BY <1>2 DEF Free
<1>4. Free(Tearing)' => meta' # Torn
  BY <1>1, <1>2, <1>3 DEF IInv, Matched
<1>5. Free(Tearing \cup Half \cup Orphans)' =>
        ~Stage("create_table", {"header", "tabs", "open", "flush", "write"})
          /\ ~Stage("create_index", {"header", "open", "fill", "flush", "write"})
  <2>1. Free(Tearing \cup Half \cup Orphans)' => Free(Tearing)' /\ Free(Orphans)'
    BY DEF Free
  <2> QED BY <1>2, <2>1 DEF Stage
<1>6. Present'
  <2> SUFFICES ASSUME Free(Hard)' PROVE Present'
    BY DEF Present
  <2>1. Free(Tearing)' /\ Free(Gaps)'
    BY DEF Free, Hard
  <2>2. Free(Hard) /\ Free(Skew) /\ Free(Tearing \cup {Logged}) /\ Free(Tearing \cup Half)
    BY <1>3 DEF Free, Hard, Half, Skew
  <2>3. phase' \in {"stopped", "terminated"} /\ tfile' = tfile /\ ifile' = ifile /\ want' = want /\ Wanted' = Wanted
    BY <1>1 DEF End, Wanted
  <2>4. /\ phase \notin {"create", "header", "write"} /\ (ddl # NoDdl => ddl.at # "write")
        /\ ~Stage("drop_table", {"index", "tabs", "flush"}) /\ ~Stage("drop_index", {"indexes", "flush"})
    BY <1>2, <2>1
  <2>5. ASSUME NEW t \in Tables(want) PROVE tfile[t] # Absent
    <3>1. tfile[t] = want[t].rows
      BY <2>2, <2>4 DEF IInv, Kept, Stage
    <3>2. want[t].rows \in RowFile
      <4>1. want[t] \in Promise
        BY DEF IInv, StateOK, Tables
      <4> QED BY <4>1 DEF Promise
    <3> QED BY <3>1, <3>2, Marks
  <2>6. ASSUME NEW x \in Wanted PROVE ifile[x] = Ready /\ Distinct(tfile[x[1]]) /\ x[2] \notin Wide
    <3>1. CASE phase # "up"
      BY <2>2, <2>4, <3>1 DEF IInv, Present
    <3>2. CASE phase = "up"
      <4>1. ~Stage("drop_table", {"flush", "write"}) /\ ~Stage("drop_index", {"flush", "write"})
        BY <2>4 DEF Stage
      <4>2. x \in Indexes(db)
        BY <2>2, <3>2, <4>1 DEF IInv, Listed, Indexed, Down
      <4>3. Stage("create_index", {"file", "header", "open", "fill", "flush", "write"}) => x # X
        BY <2>2 DEF IInv, Listed
      <4>4. ~Busy(x) /\ ~(Stage("create_index", {"fill"}) /\ x = X)
        BY <2>4, <4>3 DEF Busy, Stage
      <4> QED BY <2>2, <3>2, <4>2, <4>4 DEF IInv, Complete, Settled
    <3> QED BY <3>1, <3>2
  <2> QED BY <2>3, <2>5, <2>6 DEF Present, Distinct
<1> QED BY <1>1, <1>2, <1>4, <1>5, <1>6, EndKeeps

LEMMA close_dbKeeps == ASSUME IInv, close_db PROVE IInv'
<1>1. /\ phase = "up" /\ ddl = NoDdl /\ meta' = db /\ End("stopped") /\ "stopped" \in Down /\ hurt' = hurt
      /\ UNCHANGED <<tfile, ifile, log>> /\ db # Torn
  BY Marks DEF close_db, Down, IInv, StateOK
<1>2. Present'
  <2> SUFFICES ASSUME Free(Hard)' PROVE Present'
    BY DEF Present
  <2>2. Free(Skew) /\ Free(Tearing \cup {Logged}) /\ Free(Tearing \cup Half)
    BY <1>1 DEF Free, Hard, Half, Skew
  <2>3. phase' = "stopped" /\ tfile' = tfile /\ ifile' = ifile /\ want' = want /\ Wanted' = Wanted
    BY <1>1 DEF End, Wanted
  <2>5. ASSUME NEW t \in Tables(want) PROVE tfile[t] # Absent
    <3>1. tfile[t] = want[t].rows
      BY <1>1, <2>2 DEF IInv, Kept, Stage, Down
    <3>2. want[t].rows \in RowFile
      <4>1. want[t] \in Promise
        BY DEF IInv, StateOK, Tables
      <4> QED BY <4>1 DEF Promise
    <3> QED BY <3>1, <3>2, Marks
  <2>6. ASSUME NEW x \in Wanted PROVE ifile[x] = Ready /\ Distinct(tfile[x[1]]) /\ x[2] \notin Wide
    <3>1. x \in Indexes(db)
      BY <1>1, <2>2 DEF IInv, Listed, Indexed, Down, Stage
    <3> QED BY <1>1, <2>2, <3>1 DEF IInv, Complete, Settled, Busy, Stage
  <2> QED BY <2>3, <2>5, <2>6 DEF Present, Distinct
<1> QED BY <1>1, <1>2, EndKeeps DEF Stage

(* Start-up fails only after one of the events.                            *)
LEMMA StartFailsKeeps ==
  ASSUME IInv, ddl = NoDdl, phase # "write", StartFails, ~Free(Hard)
  PROVE  IInv'
<1>1. End("failed") /\ "failed" \in Down /\ UNCHANGED <<meta, tfile, ifile, log, hurt>>
  BY DEF StartFails, files, Down
<1>2. Present'
  BY <1>1 DEF Present, Free
<1>3. Free(Tearing)' => meta' # Torn
  BY <1>1 DEF IInv, Matched, Free
<1> QED BY <1>1, <1>2, <1>3, EndKeeps DEF Stage

-----------------------------------------------------------------------------
(* Start-up.                                                               *)

LEMMA StartUp ==
  ASSUME IInv, phase \notin Down \cup {"up"}
  PROVE  /\ StateOK /\ Shape /\ ddl = NoDdl /\ fhs = Tables(db) /\ Named = Tables(want)
         /\ Free(Tearing) => Tables(db) = Tables(want)
         /\ Free(Tearing \cup Half) => Indexes(db) = Wanted
<1>1. StateOK /\ Shape /\ ddl = NoDdl
  BY DEF IInv, Shape
<1>2. fhs = Tables(db) /\ Named = Tables(want) /\ Indexed = Wanted
  BY <1>1 DEF IInv, Opened, Named, Indexed, Stage
<1> QED BY <1>1, <1>2 DEF IInv, Matched, Listed

(* With no event, a table that is promised has its rows.                   *)
LEMMA RowsThere ==
  ASSUME IInv, phase # "up", Free(Hard), NEW t \in Tables(want)
  PROVE  tfile[t] = want[t].rows /\ tfile[t] \in RowFile
<1>1. Free(Tearing \cup {Logged})
  BY DEF Free, Hard
<1>2. tfile[t] # Absent
  BY DEF IInv, Present
<1>3. want[t] \in Promise
  BY DEF IInv, StateOK, Tables
<1> QED BY <1>1, <1>2, <1>3 DEF IInv, Kept, Promise

LEMMA OpenedKeeps ==
  ASSUME IInv, phase \in {"stopped", "terminated"}, NEW cat \in Catalogs, Opens(cat),
         Tables(cat) \subseteq Tables(want),
         Free(Tearing) => meta = cat,
         db' = cat, fhs' = Tables(cat),
         ihs' = [x \in Table \X Index |-> IF x \in Indexes(cat) /\ ifile[x] = Ready THEN {} ELSE NoIndex],
         phase' = "redo", count' = [count EXCEPT !.starts = @ + 1],
         UNCHANGED <<files, ddl, todo, want, hurt>>
  PROVE  IInv'
<1>1. /\ StateOK /\ Shape /\ ddl = NoDdl /\ phase \in Down /\ todo = <<>>
      /\ meta' = meta /\ tfile' = tfile /\ ifile' = ifile /\ log' = log /\ ddl' = NoDdl /\ todo' = <<>> /\ want' = want
      /\ hurt' = hurt /\ Wanted' = Wanted
  BY DEF IInv, Shape, Down, files, Wanted
<1>2. StateOK'
  <2>1. ihs' \in [Table \X Index -> {NoIndex} \cup SUBSET Entry]
    OBVIOUS
  <2>2. count' \in [ddl: Nat, starts: Nat]
    BY <1>1 DEF StateOK
  <2>3. Tables(cat) \subseteq Table
    BY DEF Tables
  <2> QED BY <1>1, <2>1, <2>2, <2>3 DEF StateOK
<1>3. Shape'
  <2>1. ToSet(<<>>) = {}
    BY DEF ToSet
  <2> QED BY <1>1, <2>1 DEF Shape, Down
<1>4. Opened'
  <2>1. \A t \in Tables(cat) : tfile[t] \in RowFile
    BY <1>1 DEF Opens, StateOK, Tables
  <2> QED BY <1>1, <2>1 DEF Opened, Stage
<1>5. Staged'
  BY <1>1 DEF Staged, CreatingTable, DroppingTable, CreatingIndex, DroppingIndex, Stage
<1>6. Handled' /\ Complete' /\ Rebuilt'
  BY DEF Handled, Complete, Rebuilt
<1>7. Owned'
  BY <1>1 DEF IInv, Owned, Named, Stage
<1>8. Matched'
  BY <1>1, Marks DEF IInv, Matched, Named, Stage, Free
<1>9. Kept'
  <2> SUFFICES ASSUME Free(Tearing \cup {Logged})' PROVE Kept'
    BY DEF Kept
  <2>1. Free(Tearing \cup {Logged}) /\ Free(Tearing)
    BY <1>1 DEF Free
  <2>2. Tables(want) = Tables(cat)
    BY <2>1, Marks DEF IInv, Matched
  <2>3. \A t \in Tables(want) : tfile[t] # Absent
    BY <2>2 DEF Opens
  <2> QED BY <1>1, <2>1, <2>3 DEF IInv, Kept, Stage
<1>10. Listed'
  <2> SUFFICES ASSUME Free(Tearing \cup Half)' PROVE Listed'
    BY DEF Listed
  <2>1. Free(Tearing \cup Half) /\ Free(Tearing)
    BY <1>1 DEF Free
  <2>2. Indexed' = Wanted /\ meta = cat /\ meta # Torn /\ Indexes(meta) = Wanted
    BY <1>1, <2>1, Marks DEF IInv, Listed, Indexed, Stage
  <2> QED BY <1>1, <2>2 DEF Listed, Stage
<1>11. Present'
  BY <1>1 DEF IInv, Present, Free, Distinct, Down
<1>12. Claimed'
  BY <1>1 DEF IInv, Claimed, Free, Stage
<1> QED BY <1>2, <1>3, <1>4, <1>5, <1>6, <1>7, <1>8, <1>9, <1>10, <1>11, <1>12 DEF IInv

LEMMA StartKeeps == ASSUME IInv, Start PROVE IInv'
<1>1. /\ phase \in {"stopped", "terminated"} /\ phase \in Down /\ ddl = NoDdl /\ meta \in Catalogs \cup {Torn}
      /\ phase # "write" /\ phase # "up"
  BY DEF Start, open_db, IInv, StateOK, Shape, Down
<1>2. meta = Torn => ~Free(Tearing) /\ ~Free(Hard)
  BY <1>1 DEF IInv, Matched, Free, Hard
<1>3. CASE meta # Torn /\ open_db(meta)
  <2>1. CASE Opens(meta)
    <3>1. Tables(meta) \subseteq Tables(want)
      BY <1>3 DEF IInv, Owned
    <3> QED BY <1>1, <1>3, <2>1, <3>1, OpenedKeeps DEF open_db
  <2>2. CASE ~Opens(meta)
    <3>1. ASSUME Free(Hard) PROVE Opens(meta)
      <4>1. Free(Tearing) /\ Free(Tearing \cup Half)
        BY <3>1 DEF Free, Hard, Skew, Half
      <4>2. Tables(meta) = Tables(want) /\ Indexes(meta) = Wanted
        BY <1>3, <4>1 DEF IInv, Matched, Listed
      <4>3. \A t \in Tables(want) : tfile[t] \notin {Absent, Blank}
        BY <1>1, <3>1, RowsThere, Marks
      <4>4. \A x \in Wanted : ifile[x] # Blank
        BY <1>1, <3>1, Marks DEF IInv, Present
      <4> QED BY <4>2, <4>3, <4>4 DEF Opens
    <3> QED BY <1>1, <1>3, <2>2, <3>1, StartFailsKeeps DEF open_db
  <2> QED BY <2>1, <2>2
<1>4. CASE meta = Torn /\ open_db(NoCatalog)
  <2>1. NoCatalog \in Catalogs /\ Tables(NoCatalog) = {} /\ Indexes(NoCatalog) = {}
    BY EmptyCatalog
  <2>2. Opens(NoCatalog)
    BY <2>1 DEF Opens
  <2> QED BY <1>1, <1>2, <1>4, <2>1, <2>2, OpenedKeeps DEF open_db
<1>5. CASE meta = Torn /\ StartFails
  BY <1>1, <1>2, <1>5, StartFailsKeeps
<1> QED BY <1>3, <1>4, <1>5 DEF Start

LEMMA RedoKeeps == ASSUME IInv, Redo PROVE IInv'
<1>1. /\ StateOK /\ Shape /\ phase = "redo" /\ phase \notin Down \cup {"up"} /\ ddl = NoDdl /\ fhs = Tables(db)
      /\ Named = Tables(want) /\ todo = <<>>
      /\ Free(Tearing) => Tables(db) = Tables(want)
      /\ Free(Tearing \cup Half) => Indexes(db) = Wanted
  <2>1. phase = "redo" /\ phase \notin Down \cup {"up"}
    BY DEF Redo, Down
  <2> QED BY <2>1, StartUp DEF Shape
<1>2. CASE ~(\A n \in DOMAIN log : log[n].tab \in fhs)
  <2>1. ASSUME Free(Hard) PROVE FALSE
    <3>1. Free(Tearing) /\ Free(Tearing \cup {Logged})
      BY <2>1 DEF Free, Hard
    <3>2. \A n \in DOMAIN log : log[n].tab \in fhs
      BY <1>1, <3>1 DEF IInv, Kept
    <3> QED BY <1>2, <3>2
  <2> QED BY <1>1, <1>2, <2>1, StartFailsKeeps DEF Redo
<1>3. CASE \A n \in DOMAIN log : log[n].tab \in fhs
  <2>1. /\ tfile' = [t \in Table |-> IF t \in fhs THEN Replayed(t) ELSE tfile[t]]
        /\ phase' = "destroy" /\ todo' = SetToSeq(Indexes(db))
        /\ meta' = meta /\ ifile' = ifile /\ log' = log /\ db' = db /\ fhs' = fhs /\ ihs' = ihs /\ ddl' = NoDdl
        /\ count' = count /\ want' = want /\ hurt' = hurt /\ Wanted' = Wanted
    BY <1>1, <1>3 DEF Redo, mem, Wanted
  <2>2. \A t \in fhs : t \in Table /\ tfile[t] \in RowFile /\ tfile'[t] = Replayed(t) /\ tfile'[t] \in RowFile
    <3> SUFFICES ASSUME NEW t \in fhs
                 PROVE  t \in Table /\ tfile[t] \in RowFile /\ tfile'[t] = Replayed(t) /\ tfile'[t] \in RowFile
      OBVIOUS
    <3>1. t \in Table /\ tfile[t] \in RowFile
      BY <1>1 DEF IInv, StateOK, Opened
    <3>2. Replayed(t) \in RowFile
      BY <1>1, <3>1, ReplayedRows
    <3> QED BY <2>1, <3>1, <3>2
  <2>3. \A t \in Table : t \notin fhs => tfile'[t] = tfile[t]
    BY <2>1
  <2>4. todo' \in Seq(Table \X Index) /\ ToSet(todo') = Indexes(db)
    <3>1. PICK S \in SUBSET (Table \X Index) : S = Indexes(db)
      BY DEF Indexes
    <3> QED BY <2>1, <3>1, ListOf
  <2>5. StateOK'
    <3>1. tfile' \in [Table -> {Absent, Blank} \cup RowFile]
      <4>1. \A t \in Table : tfile'[t] \in {Absent, Blank} \cup RowFile
        BY <1>1, <2>2, <2>3 DEF StateOK
      <4> QED BY <2>1, <4>1
    <3> QED BY <1>1, <2>1, <2>4, <3>1 DEF StateOK
  <2>6. Shape'
    BY <1>1, <2>1, <2>4 DEF Shape, Down
  <2>7. Opened'
    BY <1>1, <2>1, <2>2 DEF IInv, Opened, Stage
  <2>8. Staged'
    BY <2>1 DEF Staged, CreatingTable, DroppingTable, CreatingIndex, DroppingIndex, Stage
  <2>9. Handled' /\ Complete' /\ Rebuilt'
    BY <2>1, <2>4 DEF Handled, Complete, Rebuilt
  <2>10. Owned' /\ Matched'
    BY <1>1, <2>1 DEF IInv, Owned, Matched, Named, Stage, Free
  <2>11. ASSUME Free(Tearing \cup {Logged}), NEW t \in Tables(want)
         PROVE  tfile[t] = want[t].rows /\ tfile'[t] = tfile[t]
    <3>1. Free(Tearing) /\ t \in fhs
      BY <1>1, <2>11 DEF Free
    <3>2. tfile[t] \in RowFile
      BY <2>2, <3>1
    <3>3. tfile[t] = want[t].rows
      BY <2>11, <3>2, Marks DEF IInv, Kept
    <3>4. \A n \in 1..Len(log) : log[n].tab = t => tfile[t][log[n].row] = log[n].key
      <4>1. DOMAIN log = 1..Len(log)
        BY <1>1 DEF StateOK
      <4> QED BY <2>11, <3>3, <4>1 DEF IInv, Kept
    <3>5. Replayed(t) = tfile[t]
      BY <1>1, <3>2, <3>4, ReplayedSame
    <3> QED BY <2>2, <3>1, <3>3, <3>5
  <2>12. Kept'
    BY <2>1, <2>11 DEF IInv, Kept, Stage, Free
  <2>13. Listed'
    BY <1>1, <2>1 DEF IInv, Listed, Indexed, Quiet, Stage, Free
  <2>14. Present'
    <3> SUFFICES ASSUME Free(Hard)' PROVE Present'
      BY DEF Present
    <3>1. Free(Hard) /\ Free(Tearing \cup {Logged})
      BY <2>1 DEF Free, Hard
    <3>2. \A x \in Wanted : x[1] \in Tables(want)
      BY DEF Wanted, Tables
    <3> QED BY <1>1, <2>1, <2>11, <3>1, <3>2 DEF IInv, Present, Distinct
  <2>15. Claimed'
    <3>1. \A t \in Table : tfile'[t] # Absent => tfile[t] # Absent
      BY <2>2, <2>3, Marks
    <3> QED BY <1>1, <2>1, <3>1 DEF IInv, Claimed, Free, Stage
  <2> QED BY <2>5, <2>6, <2>7, <2>8, <2>9, <2>10, <2>12, <2>13, <2>14, <2>15 DEF IInv
<1> QED BY <1>2, <1>3

(* rebuild_indexes: the index at the head of the list is the only one that *)
(* is not as it was.                                                       *)
LEMMA RebuildStep ==
  ASSUME IInv, phase \in {"destroy", "create", "header"}, todo # <<>>, NEW x, x = Head(todo),
         NEW v \in {Absent, Blank, Ready}, ifile' = [ifile EXCEPT ![x] = v],
         NEW h \in {NoIndex} \cup SUBSET Entry, ihs' = [ihs EXCEPT ![x] = h],
         \/ phase' \in {"create", "header"} /\ todo' = todo
         \/ phase' = "destroy" /\ todo' = Tail(todo) /\ Settled(x)',
         UNCHANGED <<meta, tfile, log, db, fhs, ddl, count, want, hurt>>
  PROVE  IInv'
<1>1. /\ StateOK /\ Shape /\ ddl = NoDdl /\ fhs = Tables(db) /\ Named = Tables(want)
      /\ phase \notin Down \cup {"up", "redo", "write", "truncate"}
      /\ Free(Tearing) => Tables(db) = Tables(want)
      /\ Free(Tearing \cup Half) => Indexes(db) = Wanted
  <2>1. phase \notin Down \cup {"up", "redo", "write", "truncate"}
    BY DEF Down
  <2> QED BY <2>1, StartUp
<1>2. /\ meta' = meta /\ tfile' = tfile /\ log' = log /\ db' = db /\ fhs' = fhs /\ ddl' = NoDdl /\ count' = count
      /\ want' = want /\ hurt' = hurt /\ Wanted' = Wanted
  BY <1>1 DEF Wanted
<1>3. todo \in Seq(Table \X Index) /\ ToSet(todo) \subseteq Indexes(db)
  BY <1>1 DEF StateOK, Shape
<1>4. /\ x \in Table \X Index /\ Tail(todo) \in Seq(Table \X Index) /\ ToSet(todo) = ToSet(Tail(todo)) \cup {x}
  BY <1>3, HeadTail
<1>5. x \in Indexes(db) /\ todo' \in Seq(Table \X Index) /\ ToSet(todo) = ToSet(todo') \cup {x}
      /\ phase' \in {"destroy", "create", "header"} /\ (phase' \in {"create", "header"} => todo' # <<>> /\ Head(todo') = x)
  BY <1>3, <1>4
<1>6. /\ \A y \in Table \X Index : y # x => ihs'[y] = ihs[y] /\ ifile'[y] = ifile[y]
      /\ \A y \in Indexes(db) : y \in Table \X Index
  BY <1>1 DEF StateOK, Indexes
<1>7. StateOK'
  BY <1>1, <1>2, <1>5 DEF StateOK
<1>8. Shape'
  BY <1>1, <1>2, <1>3, <1>5 DEF Shape, Down
<1>9. Opened'
  BY <1>1, <1>2, <1>5, <1>6 DEF IInv, Opened, Stage
<1>10. Staged'
  BY <1>2 DEF Staged, CreatingTable, DroppingTable, CreatingIndex, DroppingIndex, Stage
<1>11. Handled' /\ Complete'
  BY <1>5 DEF Handled, Complete
<1>12. Rebuilt'
  <2> SUFFICES ASSUME NEW y \in Indexes(db) PROVE y \in ToSet(todo') \/ Settled(y)'
    BY <1>2 DEF Rebuilt
  <2>1. CASE y = x
    BY <1>3, <1>4, <2>1
  <2>2. CASE y # x
    <3>1. y \in ToSet(todo) \/ Settled(y)
      BY DEF IInv, Rebuilt
    <3> QED BY <1>2, <1>5, <1>6, <2>2, <3>1, SettledSame
  <2> QED BY <2>1, <2>2
<1>13. Owned' /\ Matched'
  BY <1>1, <1>2, <1>5 DEF IInv, Owned, Matched, Named, Stage, Free
<1>14. Kept'
  BY <1>1, <1>2, <1>5 DEF IInv, Kept, Stage, Free, Down
<1>15. Listed'
  BY <1>1, <1>2, <1>5 DEF IInv, Listed, Indexed, Quiet, Stage, Free, Down
<1>16. Present'
  <2> SUFFICES ASSUME Free(Hard)' PROVE Present'
    BY DEF Present
  <2>1. Free(Hard) /\ phase # "up"
    BY <1>1, <1>2 DEF Free
  <2>2. ASSUME NEW y \in Wanted
        PROVE  /\ ifile'[y] = Ready \/ (phase' \in {"create", "header"} /\ y = Head(todo'))
               /\ Distinct(tfile[y[1]]) /\ y[2] \notin Wide
    <3>1. /\ ifile[y] = Ready \/ y = x
          /\ Distinct(tfile[y[1]]) /\ y[2] \notin Wide
      BY <2>1 DEF IInv, Present
    <3>2. y \in Table \X Index
      BY DEF Wanted
    <3>3. y = x => ifile'[y] = Ready \/ (phase' \in {"create", "header"} /\ y = Head(todo'))
      BY <1>5 DEF Settled
    <3> QED BY <1>6, <3>1, <3>2, <3>3
  <2> QED BY <1>2, <1>5, <2>1, <2>2 DEF IInv, Present, Distinct
<1>17. Claimed'
  <2> SUFFICES ASSUME Free(Tearing \cup Half \cup Orphans)' PROVE Claimed'
    BY DEF Claimed
  <2>1. Free(Tearing \cup Half \cup Orphans) /\ x \in Wanted
    BY <1>1, <1>2, <1>5 DEF Free
  <2> QED BY <1>1, <1>2, <1>6, <2>1 DEF IInv, Claimed, Stage
<1> QED BY <1>7, <1>8, <1>9, <1>10, <1>11, <1>12, <1>13, <1>14, <1>15, <1>16, <1>17 DEF IInv

(* What the head of the list is when no event has happened.                *)
LEMMA HeadThere ==
  ASSUME IInv, phase \in {"destroy", "create", "header"}, todo # <<>>
  PROVE  /\ Head(todo) \in Table \X Index /\ Head(todo) \in Indexes(db) /\ ddl = NoDdl /\ StateOK
         /\ phase = "destroy" /\ Free(Hard) => ifile[Head(todo)] # Absent
         /\ Free(Hard) => Distinct(tfile[Head(todo)[1]]) /\ Head(todo)[2] \notin Wide
<1>1. /\ StateOK /\ Shape /\ ddl = NoDdl
      /\ Free(Tearing \cup Half) => Indexes(db) = Wanted
  <2>1. phase \notin Down \cup {"up"}
    BY DEF Down
  <2> QED BY <2>1, StartUp
<1>2. todo \in Seq(Table \X Index) /\ ToSet(todo) \subseteq Indexes(db)
  BY <1>1 DEF StateOK, Shape
<1>3. Head(todo) \in Table \X Index /\ Head(todo) \in Indexes(db)
  BY <1>2, HeadTail
<1>4. Free(Hard) => Head(todo) \in Wanted
  BY <1>1, <1>3 DEF Free, Hard, Skew, Half
<1> QED BY <1>1, <1>3, <1>4, Marks DEF IInv, Present

LEMMA RebuildDestroyKeeps == ASSUME IInv, RebuildDestroy PROVE IInv'
<1>1. phase = "destroy" /\ todo # <<>>
  BY DEF RebuildDestroy
<1>2. CASE ifile[Head(todo)] = Absent
  <2>1. StartFails /\ ddl = NoDdl /\ ~Free(Hard)
    BY <1>1, <1>2, HeadThere DEF RebuildDestroy
  <2> QED BY <1>1, <2>1, StartFailsKeeps
<1>3. CASE ifile[Head(todo)] # Absent
  BY <1>1, <1>3, RebuildStep DEF RebuildDestroy
<1> QED BY <1>2, <1>3

LEMMA RebuildCreateKeeps == ASSUME IInv, RebuildCreate PROVE IInv'
<1>1. /\ phase = "create" /\ phase' = "header" /\ ifile' = [ifile EXCEPT ![Head(todo)] = Blank] /\ todo' = todo
      /\ ihs' = ihs /\ UNCHANGED <<meta, tfile, log, db, fhs, ddl, count, want, hurt>>
  BY DEF RebuildCreate, mem
<1>2. todo # <<>>
  BY <1>1 DEF IInv, Shape
<1>3. Head(todo) \in Table \X Index /\ StateOK
  BY <1>1, <1>2, HeadThere
<1>4. PICK x : x = Head(todo)
  OBVIOUS
<1>5. PICK h \in {NoIndex} \cup SUBSET Entry : h = ihs[x]
  BY <1>3, <1>4 DEF StateOK
<1>6. ihs' = [ihs EXCEPT ![x] = h]
  BY <1>1, <1>3, <1>4, <1>5 DEF StateOK
<1> QED BY <1>1, <1>2, <1>4, <1>6, RebuildStep

LEMMA RebuildFillKeeps == ASSUME IInv, RebuildFill PROVE IInv'
<1>1. phase = "header" /\ todo # <<>>
  BY DEF RebuildFill, IInv, Shape
<1>2. PICK x \in Table \X Index : x = Head(todo)
  BY <1>1, HeadThere
<1>3. PICK rows : rows = tfile[x[1]]
  OBVIOUS
<1>4. (\E q, r \in Rows(rows) : q # r /\ rows[q] = rows[r]) <=> ~Distinct(rows)
  BY DEF Rows, Distinct
<1>5. CASE x[2] \in Wide \/ ~Distinct(rows)
  <2>1. StartFails
    BY <1>2, <1>3, <1>4, <1>5 DEF RebuildFill
  <2>2. ddl = NoDdl /\ ~Free(Hard)
    BY <1>1, <1>2, <1>3, <1>5, HeadThere
  <2> QED BY <1>1, <2>1, <2>2, StartFailsKeeps
<1>6. CASE ~(x[2] \in Wide \/ ~Distinct(rows))
  <2>1. /\ ifile' = [ifile EXCEPT ![x] = Ready] /\ ihs' = [ihs EXCEPT ![x] = Entries(rows)]
        /\ phase' = "destroy" /\ todo' = Tail(todo) /\ UNCHANGED <<meta, tfile, log, db, fhs, ddl, count, want, hurt>>
    BY <1>2, <1>3, <1>4, <1>6 DEF RebuildFill
  <2>2. Entries(rows) \in {NoIndex} \cup SUBSET Entry /\ Entries(rows) # NoIndex
    <3>1. Entries(rows) \in SUBSET Entry
      BY DEF Entries
    <3> QED BY <3>1, Marks
  <2>3. ihs'[x] = Entries(rows) /\ ifile'[x] = Ready /\ ihs'[x] # NoIndex
    BY <1>2, <2>1, <2>2 DEF IInv, StateOK
  <2>4. Settled(x)'
    BY <1>3, <1>6, <2>1, <2>3 DEF Settled, Distinct, Entries
  <2> QED BY <1>1, <1>2, <2>1, <2>2, <2>4, RebuildStep
<1> QED BY <1>5, <1>6

(* The end of start-up.                                                    *)
LEMMA StartMetaKeeps ==
  ASSUME IInv,
         \/ phase = "destroy" /\ meta' = Torn /\ phase' = "write"
         \/ phase = "write" /\ meta' = db /\ phase' = "truncate",
         todo = <<>>, UNCHANGED <<tfile, ifile, log, mem, ddl, todo, count, want, hurt>>
  PROVE  IInv'
<1>1. /\ StateOK /\ Shape /\ ddl = NoDdl /\ fhs = Tables(db) /\ Named = Tables(want)
      /\ phase \notin Down \cup {"up"}
      /\ Free(Tearing) => Tables(db) = Tables(want)
      /\ Free(Tearing \cup Half) => Indexes(db) = Wanted
  <2>1. phase \notin Down \cup {"up"}
    BY DEF Down
  <2> QED BY <2>1, StartUp
<1>2. /\ tfile' = tfile /\ ifile' = ifile /\ log' = log /\ db' = db /\ fhs' = fhs /\ ihs' = ihs /\ ddl' = NoDdl
      /\ count' = count /\ want' = want /\ hurt' = hurt /\ todo' = <<>> /\ Wanted' = Wanted
      /\ phase' \notin Down \cup {"up"}
  BY <1>1 DEF Wanted, mem, Down
<1>3. db \in Catalogs /\ db # Torn /\ ToSet(<<>>) = {}
  BY <1>1, Marks DEF StateOK, ToSet
<1>4. StateOK'
  BY <1>1, <1>2, <1>3 DEF StateOK
<1>5. Shape'
  BY <1>1, <1>2, <1>3 DEF Shape
<1>6. Opened'
  BY <1>1, <1>2 DEF IInv, Opened, Stage
<1>7. Staged'
  BY <1>2 DEF Staged, CreatingTable, DroppingTable, CreatingIndex, DroppingIndex, Stage
<1>8. Handled' /\ Complete'
  BY <1>2 DEF Handled, Complete
<1>9. Rebuilt'
  BY <1>2, <1>3, SettledSame DEF IInv, Rebuilt
<1>10. Named' = Tables(want)
  BY <1>2 DEF Named, Stage
<1>11. Owned' /\ Matched'
  BY <1>1, <1>2, <1>3, <1>10 DEF IInv, Owned, Matched, Stage, Free
<1>12. Kept'
  BY <1>1, <1>2 DEF IInv, Kept, Stage, Free
<1>13. Listed'
  BY <1>1, <1>2, <1>3 DEF IInv, Listed, Indexed, Quiet, Stage, Free
<1>14. Present'
  BY <1>1, <1>2 DEF IInv, Present, Distinct, Free, Down
<1>15. Claimed'
  BY <1>1, <1>2 DEF IInv, Claimed, Free, Stage
<1> QED BY <1>4, <1>5, <1>6, <1>7, <1>8, <1>9, <1>11, <1>12, <1>13, <1>14, <1>15 DEF IInv

LEMMA truncate_logKeeps == ASSUME IInv, truncate_log PROVE IInv'
<1>1. /\ StateOK /\ Shape /\ ddl = NoDdl /\ fhs = Tables(db) /\ Named = Tables(want)
      /\ phase = "truncate" /\ phase \notin Down \cup {"up"} /\ todo = <<>>
      /\ Free(Tearing) => Tables(db) = Tables(want)
      /\ Free(Tearing \cup Half) => Indexes(db) = Wanted
  <2>1. phase = "truncate" /\ phase \notin Down \cup {"up"}
    BY DEF Down, truncate_log
  <2> QED BY <2>1, StartUp DEF Shape
<1>2. /\ meta' = meta /\ tfile' = tfile /\ ifile' = ifile /\ log' = <<>> /\ db' = db /\ fhs' = fhs /\ ihs' = ihs
      /\ ddl' = NoDdl /\ count' = count /\ want' = want /\ hurt' = hurt /\ todo' = <<>> /\ Wanted' = Wanted
      /\ phase' = "up"
  BY <1>1 DEF Wanted, mem, truncate_log
<1>3. \A x \in Indexes(db) : Settled(x) /\ ihs[x] # NoIndex
  <2>1. ASSUME NEW x \in Indexes(db) PROVE Settled(x)
    BY <1>1 DEF IInv, Rebuilt, ToSet
  <2>2. ASSUME NEW x PROVE Entries(tfile[x[1]]) \in SUBSET Entry
    BY DEF Entries
  <2> QED BY <2>1, <2>2, Marks DEF Settled
<1>4. StateOK'
  <2>1. log' \in Seq([tab: Table, row: Row, key: Key])
    BY <1>2
  <2> QED BY <1>1, <1>2, <2>1 DEF StateOK
<1>5. Shape'
  BY <1>1, <1>2 DEF Shape, Down
<1>6. Opened'
  BY <1>1, <1>2 DEF IInv, Opened, Stage
<1>7. Staged'
  BY <1>2 DEF Staged, CreatingTable, DroppingTable, CreatingIndex, DroppingIndex, Stage
<1>8. Handled' /\ Complete'
  BY <1>2, <1>3, SettledSame DEF Handled, Complete
<1>9. Rebuilt' /\ Present'
  BY <1>2 DEF Rebuilt, Present
<1>10. Named' = Tables(want)
  BY <1>2 DEF Named, Stage
<1>11. Owned' /\ Matched'
  BY <1>1, <1>2, <1>10 DEF IInv, Owned, Matched, Stage, Free
<1>12. Kept'
  BY <1>1, <1>2 DEF IInv, Kept, Stage, Free
<1>13. Listed'
  BY <1>1, <1>2 DEF IInv, Listed, Indexed, Quiet, Stage, Free, Down
<1>14. Claimed'
  BY <1>1, <1>2 DEF IInv, Claimed, Free, Stage
<1> QED BY <1>4, <1>5, <1>6, <1>7, <1>8, <1>9, <1>11, <1>12, <1>13, <1>14 DEF IInv

-----------------------------------------------------------------------------
(* The invariant is inductive.                                             *)

LEMMA InitIInv == Init => IInv
<1> SUFFICES ASSUME Init PROVE IInv
  OBVIOUS
<1>1. /\ meta = NoCatalog /\ log = <<>> /\ db = NoCatalog /\ fhs = {} /\ ihs = NoHandles /\ phase = "stopped"
      /\ ddl = NoDdl /\ todo = <<>> /\ want = NoCatalog /\ hurt = {} /\ phase \in Down
      /\ tfile = [t \in Table |-> Absent] /\ ifile = [x \in Table \X Index |-> Absent]
      /\ count = [ddl |-> 0, starts |-> 0]
  BY DEF Init, Down
<1>2. NoCatalog \in Catalogs /\ Tables(NoCatalog) = {} /\ Indexes(NoCatalog) = {} /\ NoCatalog # Torn /\ ToSet(<<>>) = {}
  BY EmptyCatalog, Marks DEF ToSet
<1>3. Wanted = {} /\ Tables(want) = {}
  BY <1>1, <1>2 DEF Wanted, NoCatalog
<1>4. StateOK
  <2>1. want \in [Table -> {NoTable} \cup Promise]
    BY <1>1 DEF NoCatalog
  <2>2. ihs \in [Table \X Index -> {NoIndex} \cup SUBSET Entry]
    BY <1>1 DEF NoHandles
  <2>3. log \in Seq([tab: Table, row: Row, key: Key]) /\ todo \in Seq(Table \X Index)
    BY <1>1
  <2>4. count \in [ddl: Nat, starts: Nat]
    BY <1>1
  <2> QED BY <1>1, <1>2, <2>1, <2>2, <2>3, <2>4 DEF StateOK
<1>5. Shape
  BY <1>1, <1>2 DEF Shape
<1>6. Opened
  BY <1>1, <1>2 DEF Opened, NoHandles, Stage
<1>7. Staged
  BY <1>1 DEF Staged, CreatingTable, DroppingTable, CreatingIndex, DroppingIndex, Stage
<1>8. Handled /\ Complete /\ Rebuilt
  BY <1>1 DEF Handled, Complete, Rebuilt
<1>9. Owned /\ Matched
  BY <1>1, <1>2, <1>3 DEF Owned, Matched, Stage
<1>10. Kept
  BY <1>1, <1>3 DEF Kept, Stage
<1>11. Listed
  BY <1>1, <1>2, <1>3 DEF Listed, Stage
<1>12. Present
  BY <1>1, <1>3 DEF Present
<1>13. Claimed
  BY <1>1, <1>3 DEF Claimed, Stage
<1> QED BY <1>4, <1>5, <1>6, <1>7, <1>8, <1>9, <1>10, <1>11, <1>12, <1>13 DEF IInv

LEMMA CreateTableKeeps ==
  ASSUME IInv, CreateTableFile \/ CreateTableHeader \/ CreateTableMeta \/ CreateTableOpen PROVE IInv'
<1>1. CASE CreateTableFile
  <2>1. ddl # NoDdl /\ ddl.op = "create_table" /\ ddl.at = "file" /\ UNCHANGED <<meta, ifile, log, mem>>
    BY <1>1 DEF CreateTableFile, At
  <2>2. CASE tfile[T] = Absent
    <3>1. tfile' = [tfile EXCEPT ![T] = Blank] /\ Then("header") /\ hurt' = hurt
      BY <1>1, <2>2 DEF CreateTableFile
    <3> QED BY <2>1, <3>1, NewFile
  <2>3. CASE tfile[T] # Absent
    <3>1. tfile' = tfile /\ Fail({})
      BY <1>1, <2>3 DEF CreateTableFile
    <3> QED BY <2>1, <3>1, FailKeeps DEF files
  <2> QED BY <2>2, <2>3
<1>2. CASE CreateTableHeader
  <2>1. NoRows \in RowFile
    BY DEF NoRows, RowFile
  <2>2. /\ ddl # NoDdl /\ ddl.op = "create_table" /\ ddl.at = "header" /\ UNCHANGED <<meta, ifile, log, mem>>
        /\ tfile' = [tfile EXCEPT ![T] = NoRows] /\ Then("tabs") /\ hurt' = hurt
    BY <1>2 DEF CreateTableHeader, At
  <2> QED BY <2>1, <2>2, NewFile
<1> QED BY <1>1, <1>2, CreateTableMetaKeeps, CreateTableOpenKeeps

LEMMA DropTableKeeps ==
  ASSUME IInv, DropTableFile \/ DropTableIndex \/ DropTableMeta PROVE IInv'
<1>1. CASE DropTableIndex
  <2>1. At("drop_table", "index") /\ phase \notin Down
    BY <1>1 DEF DropTableIndex, At, Down
  <2>2. CASE ddl.pos > Len(db[T]) /\ Then("tabs") /\ UNCHANGED <<files, mem, hurt>>
    BY <2>1, <2>2, DropTableIndexEnds
  <2>3. CASE /\ ddl.pos <= Len(db[T])
             /\ ifile' = [ifile EXCEPT ![<<T, db[T][ddl.pos]>>] = Absent]
             /\ ihs' = [ihs EXCEPT ![<<T, db[T][ddl.pos]>>] = NoIndex]
             /\ ddl' = [ddl EXCEPT !.pos = @ + 1]
             /\ UNCHANGED <<meta, tfile, log, db, fhs, phase, ins, todo, count, want, hurt>>
    BY <2>1, <2>3, DropTableIndexOne
  <2>4. CASE Die("terminated")
    BY <2>1, <2>4, DieKeeps
  <2> QED BY <1>1, <2>2, <2>3, <2>4 DEF DropTableIndex
<1> QED BY <1>1, DropTableFileKeeps, DropTableMetaKeeps

LEMMA CreateIndexKeeps ==
  ASSUME IInv, JInv,
         CreateIndexMeta \/ CreateIndexFile \/ CreateIndexHeader \/ CreateIndexOpen \/ CreateIndexFill
  PROVE  IInv'
<1>1. CASE CreateIndexFile
  <2>1. ddl # NoDdl /\ ddl.op = "create_index" /\ ddl.at = "file" /\ UNCHANGED <<meta, tfile, log, mem>>
    BY <1>1 DEF CreateIndexFile, At
  <2>2. CASE ifile[X] = Absent
    <3>1. ifile' = [ifile EXCEPT ![X] = Blank] /\ Then("header") /\ hurt' = hurt
      BY <1>1, <2>2 DEF CreateIndexFile
    <3> QED BY <2>1, <3>1, NewIndexFile
  <2>3. CASE ifile[X] # Absent
    <3>1. ifile' = ifile /\ Fail({Refused})
      BY <1>1, <2>3 DEF CreateIndexFile
    <3> QED BY <2>1, <3>1, FailKeeps DEF files
  <2> QED BY <2>2, <2>3
<1>2. CASE CreateIndexHeader
  <2>1. ddl # NoDdl /\ ddl.op = "create_index" /\ ddl.at = "header" /\ UNCHANGED <<meta, tfile, log, mem>>
    BY <1>2 DEF CreateIndexHeader, At
  <2>2. CASE ddl.ix \notin Wide
    <3>1. ifile' = [ifile EXCEPT ![X] = Ready] /\ Then("open") /\ hurt' = hurt
      BY <1>2, <2>2 DEF CreateIndexHeader
    <3> QED BY <2>1, <2>2, <3>1, NewIndexFile
  <2>3. CASE ddl.ix \in Wide
    <3>1. ifile' = ifile /\ Fail({Refused})
      BY <1>2, <2>3 DEF CreateIndexHeader
    <3> QED BY <2>1, <3>1, FailKeeps DEF files
  <2> QED BY <2>2, <2>3
<1>3. CASE CreateIndexFill
  <2>1. PICK r : r = NextRow(Shown(T), ddl.pos)
    OBVIOUS
  <2>2. At("create_index", "fill") /\ ddl # NoDdl /\ ddl.op = "create_index" /\ ddl.at = "fill" /\ UNCHANGED <<files, db, fhs>>
    BY <1>3 DEF CreateIndexFill, At
  <2>3. CASE r > Slots /\ Then("flush") /\ UNCHANGED <<ihs, hurt>>
    BY <2>1, <2>2, <2>3, FillEnds
  <2>4. CASE Fail({Partial}) /\ UNCHANGED ihs
    BY <2>2, <2>4, FailKeeps DEF mem
  <2>5. CASE /\ r <= Slots
             /\ ihs' = [ihs EXCEPT ![X] = @ \cup {<<Shown(T)[r], r>>}]
             /\ ddl' = [ddl EXCEPT !.pos = r + 1]
             /\ hurt' = IF Written(T) /\ ins.at = "delete" /\ r = FreeRow(T) THEN hurt \cup {Stray} ELSE hurt
             /\ UNCHANGED <<phase, ins, todo, count, want>>
    BY <2>1, <2>2, <2>5, FillAdds
  <2> QED BY <1>3, <2>1, <2>3, <2>4, <2>5 DEF CreateIndexFill
<1> QED BY <1>1, <1>2, <1>3, CreateIndexMetaKeeps, CreateIndexOpenKeeps

LEMMA DropIndexKeeps ==
  ASSUME IInv, DropIndexFile \/ DropIndexMeta PROVE IInv'
<1>1. CASE DropIndexFile
  <2>1. At("drop_index", "file") /\ phase \notin Down
    BY <1>1 DEF DropIndexFile, At, Down
  <2> QED BY <1>1, <2>1, DropIndexFileKeeps, DieKeeps DEF DropIndexFile
<1> QED BY <1>1, DropIndexMetaKeeps

LEMMA StartStepKeeps == ASSUME IInv, StartStep PROVE IInv'
<1>1. CASE StartFlushMeta
  BY <1>1, StartMetaKeeps DEF StartFlushMeta
<1>2. CASE StartWriteMeta
  BY <1>2, StartMetaKeeps DEF StartWriteMeta, IInv, Shape
<1> QED BY <1>1, <1>2, StartKeeps, RedoKeeps, RebuildDestroyKeeps, RebuildCreateKeeps, RebuildFillKeeps, truncate_logKeeps
        DEF StartStep

(* A step of the INSERT that changes nothing but where it is.              *)
LEMMA InsertMoves ==
  ASSUME IInv, UNCHANGED <<files, mem, phase, ddl, todo, count, want>>,
         hurt' = hurt \/ hurt' = hurt \cup {Dangling}
  PROVE  IInv'
<1>1. hurt \subseteq hurt' /\ hurt' \subseteq Gaps \cup Orphans \cup Tearing \cup {Refused, Partial, Logged, Missed, Stray, Dangling}
  BY DEF IInv, StateOK
<1>2. UNCHANGED <<meta, tfile, ifile, log, db, fhs, phase, ddl, todo, count, want>> /\ ihs' = ihs
  BY DEF files, mem
<1>3. ihs' \in [Table \X Index -> {NoIndex} \cup SUBSET Entry]
  BY <1>2 DEF IInv, StateOK
<1> QED BY <1>1, <1>2, <1>3, EntriesKeep

LEMMA InsertEntryKeeps == ASSUME IInv, JInv, InsertEntry PROVE IInv'
<1>1. /\ ins # NoInsert /\ ins.at = "entries" /\ phase = "up" /\ phase \notin Down /\ ins.tab \in Table /\ Pending \in Entry
      /\ ins \in Inserting /\ ins.pos <= Len(ins.ix)
  BY PendingIs DEF InsertEntry, Inserts, Down, JInv
<1>2. PICK x : x = <<ins.tab, ins.ix[ins.pos]>>
  OBVIOUS
<1>3. CASE Die("terminated")
  BY <1>1, <1>3, DieKeeps
<1>4. CASE Onto("undo") /\ UNCHANGED <<files, mem, phase, ddl, todo, count, want, hurt>>
  BY <1>4, InsertMoves
<1>5. CASE /\ ihs[x] # NoIndex /\ ihs' = [ihs EXCEPT ![x] = @ \cup {Pending}]
           /\ UNCHANGED <<files, db, fhs, phase, ddl, todo, count, want, hurt>>
  <2>1. ihs \in [Table \X Index -> {NoIndex} \cup SUBSET Entry]
    BY DEF IInv, StateOK
  <2>2. \A y \in Table \X Index : y # x => ihs'[y] = ihs[y]
    BY <1>5, <2>1
  <2>3. ASSUME x \in Table \X Index PROVE ihs'[x] = ihs[x] \cup {Pending} /\ ihs[x] \in SUBSET Entry
    BY <1>5, <2>1, <2>3
  <2>4. \A y \in Table \X Index : /\ ihs'[y] \in {NoIndex} \cup SUBSET Entry
                                  /\ ihs'[y] = NoIndex <=> ihs[y] = NoIndex
                                  /\ ihs[y] # NoIndex => \A e \in ihs[y] : e \in ihs'[y]
    <3> SUFFICES ASSUME NEW y \in Table \X Index
                 PROVE  /\ ihs'[y] \in {NoIndex} \cup SUBSET Entry
                        /\ ihs'[y] = NoIndex <=> ihs[y] = NoIndex
                        /\ ihs[y] # NoIndex => \A e \in ihs[y] : e \in ihs'[y]
      OBVIOUS
    <3>1. CASE y # x
      BY <2>1, <2>2, <3>1
    <3>2. CASE y = x
      <4>1. ihs'[y] \in SUBSET Entry /\ ihs[y] # NoIndex /\ \A e \in ihs[y] : e \in ihs'[y]
        BY <1>1, <1>5, <2>3, <3>2
      <4> QED BY <4>1, Marks
    <3> QED BY <3>1, <3>2
  <2>5. ihs' \in [Table \X Index -> {NoIndex} \cup SUBSET Entry]
    <3>1. DOMAIN ihs' = Table \X Index /\ ihs' = [y \in Table \X Index |-> ihs'[y]]
      BY <1>5, <2>1
    <3> QED BY <2>4, <3>1
  <2>6. hurt \subseteq hurt' /\ hurt' \subseteq Gaps \cup Orphans \cup Tearing \cup {Refused, Partial, Logged, Missed, Stray, Dangling}
    BY <1>5 DEF IInv, StateOK
  <2>7. UNCHANGED <<meta, tfile, ifile, log, db, fhs, phase, ddl, todo, count, want>>
    BY <1>5 DEF files
  <2> QED BY <1>1, <2>4, <2>5, <2>6, <2>7, EntriesKeep
<1> QED BY <1>2, <1>3, <1>4, <1>5 DEF InsertEntry

LEMMA InsertUndoKeeps == ASSUME IInv, JInv, InsertUndo PROVE IInv'
<1>1. /\ ins # NoInsert /\ ins.at = "undo" /\ phase = "up" /\ phase \notin Down /\ ins.tab \in Table
      /\ tfile[ins.tab] \in RowFile /\ \A q \in Row : tfile[ins.tab][q] # ins.key
  <2>1. ins # NoInsert /\ ins.at = "undo"
    BY DEF InsertUndo, Inserts
  <2> QED BY <2>1, PendingIs DEF JInv, Working, Down
<1>2. CASE Die("terminated")
  BY <1>1, <1>2, DieKeeps
<1>3. CASE /\ ihs' = [x \in Table \X Index |-> IF x[1] = ins.tab /\ Contains(db[ins.tab], x[2])
                                               THEN {e \in ihs[x] : e[1] # ins.key} ELSE ihs[x]]
           /\ \A i \in Range(db[ins.tab]) : ihs[<<ins.tab, i>>] # NoIndex
           /\ UNCHANGED <<files, db, fhs, phase, ddl, todo, count, want, hurt>>
  <2>1. ihs \in [Table \X Index -> {NoIndex} \cup SUBSET Entry]
    BY DEF IInv, StateOK
  <2>2. \A e \in Entries(tfile[ins.tab]) : e[1] # ins.key
    BY <1>1, EntryOf
  <2>3. ASSUME NEW x \in Table \X Index
        PROVE  /\ ihs'[x] \in {NoIndex} \cup SUBSET Entry /\ (ihs'[x] = NoIndex <=> ihs[x] = NoIndex)
               /\ ihs[x] # NoIndex => \A e \in Entries(tfile[x[1]]) : e \in ihs[x] => e \in ihs'[x]
    <3>1. CASE ~(x[1] = ins.tab /\ Contains(db[ins.tab], x[2]))
      BY <1>3, <2>1, <3>1
    <3>2. CASE x[1] = ins.tab /\ Contains(db[ins.tab], x[2])
      <4>1. ihs'[x] = {e \in ihs[x] : e[1] # ins.key} /\ x = <<ins.tab, x[2]>>
        BY <1>3, <3>2
      <4>2. ihs[x] # NoIndex
        <5>1. x[2] \in Range(db[ins.tab])
          BY <3>2 DEF Contains, Range
        <5> QED BY <1>3, <4>1, <5>1
      <4>3. ihs[x] \in SUBSET Entry /\ ihs'[x] \in SUBSET Entry
        BY <2>1, <4>1, <4>2
      <4>4. ihs'[x] # NoIndex
        BY <4>3, Marks
      <4> QED BY <2>2, <3>2, <4>1, <4>2, <4>3, <4>4
    <3> QED BY <3>1, <3>2
  <2>4. ihs' \in [Table \X Index -> {NoIndex} \cup SUBSET Entry]
    BY <1>3, <2>3
  <2>5. hurt \subseteq hurt' /\ hurt' \subseteq Gaps \cup Orphans \cup Tearing \cup {Refused, Partial, Logged, Missed, Stray, Dangling}
    BY <1>3 DEF IInv, StateOK
  <2>6. UNCHANGED <<meta, tfile, ifile, log, db, fhs, phase, ddl, todo, count, want>>
    BY <1>3 DEF files
  <2> QED BY <1>1, <2>3, <2>4, <2>5, <2>6, EntriesKeep
<1> QED BY <1>2, <1>3 DEF InsertUndo

LEMMA InsertStepKeeps == ASSUME IInv, JInv, InsertStep PROVE IInv'
<1>1. CASE InsertCheck
  BY <1>1, InsertMoves DEF InsertCheck
<1>2. CASE InsertWrite
  BY <1>2, InsertMoves DEF InsertWrite
<1>3. CASE InsertDelete
  BY <1>3, InsertMoves DEF InsertDelete
<1>4. CASE InsertLost
  <2>1. phase \notin Down
    BY <1>4 DEF InsertLost, Inserts, JInv, Working, Down
  <2> QED BY <1>4, <2>1, InsertMoves, DieKeeps DEF InsertLost
<1> QED BY <1>1, <1>2, <1>3, <1>4, InsertEntryKeeps, InsertCommitKeeps, InsertUndoKeeps DEF InsertStep

LEMMA NextKeeps == ASSUME IInv, JInv, [Next]_vars PROVE IInv'
<1>1. ASSUME NEW t \in Table, NEW i \in Index, BeginDdl(t, i) PROVE IInv'
  BY <1>1, BeginDdlKeeps
<1>2. ASSUME NEW t \in Table, NEW k \in Key, InsertBuild(t, k) PROVE IInv'
  <2>1. phase \notin Down
    BY <1>2 DEF InsertBuild, Down
  <2> QED BY <1>2, <2>1, InsertMoves, DieKeeps DEF InsertBuild
<1>3. CASE InsertStep
  BY <1>3, InsertStepKeeps
<1>4. CASE DdlStep
  BY <1>4, CreateTableKeeps, DropTableKeeps, CreateIndexKeeps, DropIndexKeeps, FlushMetaKeeps, EndDdlKeeps DEF DdlStep
<1>5. CASE StartStep
  BY <1>5, StartStepKeeps
<1>6. CASE Crash
  <2>1. Die("stopped") /\ phase \notin Down
    BY <1>6 DEF Crash, Down
  <2> QED BY <2>1, DieKeeps
<1>7. CASE close_db
  BY <1>7, close_dbKeeps
<1>8. CASE UNCHANGED vars
  BY <1>8, InsertMoves DEF vars
<1> QED BY <1>1, <1>2, <1>3, <1>4, <1>5, <1>6, <1>7, <1>8 DEF Next

-----------------------------------------------------------------------------
(* The INSERT at work and the entries of the open indexes: the steps keep  *)
(* JInv.  The lemmas are named like those for IInv, with a 2.              *)

LEMMA NoIns == NoInsert \notin Inserting
BY CatalogConstants

LEMMA InsAt ==
  ASSUME ins \in Inserting, NEW step \in {"check", "write", "entries", "undo", "delete", "lost"},
         ins' = [ins EXCEPT !.at = step]
  PROVE  /\ ins' \in Inserting /\ ins' # NoInsert /\ ins'.at = step /\ ins'.tab = ins.tab /\ ins'.key = ins.key
         /\ ins'.ix = ins.ix /\ ins'.pos = ins.pos
<1>1. /\ ins' \in Inserting /\ ins'.at = step /\ ins'.tab = ins.tab /\ ins'.key = ins.key
      /\ ins'.ix = ins.ix /\ ins'.pos = ins.pos
  BY DEF Inserting
<1> QED BY <1>1, NoIns

(* A step of another session, or of start-up.                              *)
LEMMA OthersKeep ==
  ASSUME IInv, JInv, ins' = ins, phase' = phase \/ ins = NoInsert, hurt \subseteq hurt', fhs \subseteq fhs',
         \A t \in fhs : tfile'[t] = tfile[t],
         \A x \in Table \X Index :
           /\ x[1] \in fhs' \ fhs => ihs'[x] = NoIndex
           /\ \/ ihs'[x] = ihs[x] /\ (ihs[x] # NoIndex => ifile'[x] = Ready)
              \/ ihs'[x] = NoIndex
              \/ ihs'[x] = {} /\ ifile'[x] = Ready /\ \A r \in Row : Ahead(x, r)',
         \A x, r : Inserts("entries") /\ Free(Skew)' /\ x[1] = ins.tab /\ r = FreeRow(ins.tab) /\ Ahead(x, r) => Ahead(x, r)',
         Fresh'
  PROVE  JInv'
<1>1. ASSUME ins # NoInsert, ins.at # "lost"
      PROVE  ins.tab \in fhs /\ tfile'[ins.tab] = tfile[ins.tab] /\ FreeRow(ins.tab)' = FreeRow(ins.tab) /\ Pending' = Pending
  <2>1. ins.tab \in fhs /\ tfile'[ins.tab] = tfile[ins.tab]
    BY <1>1 DEF JInv, Working
  <2>2. tfile'[ins'.tab] = tfile[ins.tab] /\ ins'.tab = ins.tab /\ ins'.key = ins.key
    BY <2>1
  <2>3. FreeRow(ins.tab)' = FreeRow(ins.tab)
    BY <2>2 DEF FreeRow
  <2> QED BY <2>1, <2>2, <2>3 DEF Pending
<1>2. Keyed'
  BY DEF JInv, Keyed
<1>3. Backed'
  BY DEF JInv, Backed
<1>4. Working'
  BY <1>1 DEF JInv, Working
<1>5. Only'
  <2> SUFFICES ASSUME Free({Stray})', NEW x \in Table \X Index, x[1] \in fhs', ihs'[x] # NoIndex, NEW e \in ihs'[x]
               PROVE  e \in Entries(tfile'[x[1]]) \/ (Hanging(x[1])' /\ e = Pending')
    BY DEF Only, Entries
  <2>1. x[1] \in fhs /\ ihs'[x] = ihs[x] /\ Free({Stray})
    BY DEF Free
  <2>2. e \in Entries(tfile[x[1]]) \/ (Hanging(x[1]) /\ e = Pending)
    BY <2>1 DEF JInv, Only
  <2>3. Hanging(x[1]) => Hanging(x[1])' /\ Pending' = Pending
    BY <1>1 DEF Hanging
  <2> QED BY <2>1, <2>2, <2>3
<1>6. Made'
  <2> SUFFICES ASSUME Inserts("entries")', Free(Skew)', NEW n \in 1..Len(ins.ix), n < ins.pos,
                      ihs'[<<ins.tab, ins.ix[n]>>] # NoIndex
               PROVE  Pending' \in ihs'[<<ins.tab, ins.ix[n]>>] \/ Ahead(<<ins.tab, ins.ix[n]>>, FreeRow(ins.tab))'
    BY DEF Made
  <2>1. PICK x : x = <<ins.tab, ins.ix[n]>> /\ x[1] = ins.tab
    OBVIOUS
  <2>2. Inserts("entries") /\ Free(Skew) /\ ins # NoInsert /\ ins.at # "lost"
    BY DEF Inserts, Free
  <2>3. x \in Table \X Index
    BY <2>1, <2>2 DEF JInv, Inserting
  <2>4. PICK r \in Row : r = FreeRow(ins.tab) /\ r = FreeRow(ins.tab)' /\ Pending' = Pending
    BY <1>1, <2>2, PendingIs
  <2>5. CASE ihs'[x] = ihs[x]
    <3>1. Pending \in ihs[x] \/ Ahead(x, r)
      BY <2>1, <2>2, <2>4, <2>5 DEF JInv, Made
    <3>2. Ahead(x, r) => Ahead(x, r)'
      BY <2>1, <2>2, <2>4
    <3>3. Ahead(x, r)' = Ahead(<<ins.tab, ins.ix[n]>>, FreeRow(ins.tab))'
      BY <2>1, <2>4 DEF Ahead
    <3> QED BY <2>1, <2>4, <2>5, <3>1, <3>2, <3>3
  <2>6. CASE \A q \in Row : Ahead(x, q)'
    BY <2>1, <2>4, <2>6 DEF Ahead
  <2> QED BY <2>1, <2>3, <2>5, <2>6
<1> QED BY <1>2, <1>3, <1>4, <1>5, <1>6 DEF JInv

(* A process that has ended, or has just begun, has no INSERT.             *)
LEMMA EndedKeeps ==
  ASSUME ins' = NoInsert, \A x \in Table \X Index : ihs'[x] = NoIndex \/ (ihs'[x] = {} /\ ifile'[x] = Ready),
         phase' \notin {"create", "header"}
  PROVE  JInv'
<1>1. Keyed' /\ Backed' /\ Fresh' /\ Only'
  BY DEF Keyed, Backed, Fresh, Only
<1> QED BY <1>1 DEF JInv, Working, Made, Inserts

LEMMA EndsKeep ==
  ASSUME NEW how \in Down, End(how)
  PROVE  JInv'
<1>1. ins' = NoInsert /\ phase' \notin {"create", "header"} /\ ihs' = NoHandles
  BY DEF End, Down
<1>2. \A x \in Table \X Index : ihs'[x] = NoIndex
  BY <1>1 DEF NoHandles
<1> QED BY <1>1, <1>2, EndedKeeps

LEMMA DiesKeep == ASSUME NEW how \in {"stopped", "terminated"}, Die(how) PROVE JInv'
<1>1. how \in Down
  BY DEF Down
<1> QED BY <1>1, EndsKeep DEF Die

(* A step of the INSERT that changes nothing but where it is.              *)
LEMMA MovesKeep ==
  ASSUME IInv, JInv, UNCHANGED <<files, mem, phase, ddl, todo>>, hurt \subseteq hurt',
         ins' \in Inserting \cup {NoInsert}, Working',
         Inserts("entries") \/ Inserts("undo") => ins' # NoInsert /\ ins'.at = "undo" /\ ins'.tab = ins.tab /\ ins'.key = ins.key,
         Inserts("entries")' => ins'.pos <= 1
  PROVE  JInv'
<1>1. tfile' = tfile /\ ifile' = ifile /\ fhs' = fhs /\ ihs' = ihs /\ phase' = phase /\ ddl' = ddl /\ todo' = todo
  BY DEF files, mem
<1>2. Keyed' /\ Backed' /\ Fresh'
  BY <1>1 DEF JInv, Keyed, Backed, Fresh
<1>3. Only'
  <2> SUFFICES ASSUME Free({Stray})', NEW x \in Table \X Index, x[1] \in fhs, ihs[x] # NoIndex, NEW e \in ihs[x]
               PROVE  e \in Entries(tfile[x[1]]) \/ (Hanging(x[1])' /\ e = Pending')
    BY <1>1 DEF Only, Entries
  <2>1. e \in Entries(tfile[x[1]]) \/ (Hanging(x[1]) /\ e = Pending)
    BY DEF JInv, Only, Free
  <2>2. ASSUME Hanging(x[1]) PROVE Hanging(x[1])' /\ Pending' = Pending
    <3>1. ins' # NoInsert /\ ins'.at = "undo" /\ ins'.tab = ins.tab /\ ins'.key = ins.key /\ ins.tab = x[1]
      BY <2>2 DEF Hanging, Inserts
    <3>2. FreeRow(ins.tab)' = FreeRow(ins.tab)
      BY <1>1, <3>1 DEF FreeRow
    <3> QED BY <3>1, <3>2 DEF Hanging, Pending
  <2> QED BY <2>1, <2>2
<1>4. Made'
  <2> SUFFICES ASSUME Inserts("entries")', NEW n \in 1..Len(ins'.ix), n < ins'.pos PROVE FALSE
    BY DEF Made
  <2>1. ins' \in Inserting /\ ins'.pos <= 1
    BY DEF Inserts
  <2> QED BY <2>1 DEF Inserting
<1> QED BY <1>2, <1>3, <1>4 DEF JInv

LEMMA InsertBuildKeeps2 == ASSUME IInv, JInv, NEW t \in Table, NEW k \in Key, InsertBuild(t, k) PROVE JInv'
<1>1. CASE Die("terminated")
  BY <1>1, DiesKeep
<1>2. CASE /\ t \in fhs /\ \E q \in Row : tfile[t][q] = NoKey
           /\ ins' = [tab |-> t, key |-> k, ix |-> db[t], at |-> "check", pos |-> 1]
           /\ UNCHANGED <<files, mem, phase, ddl, todo, count, want, hurt>>
  <2>1. phase = "up" /\ ins = NoInsert /\ db[t] # NoTable
    BY DEF InsertBuild
  <2>2. db[t] \in Seq(Index)
    BY <2>1, Cats DEF IInv, StateOK, List
  <2>3. ins' \in Inserting /\ ins'.tab = t /\ ins'.key = k /\ ins'.at = "check" /\ ins'.pos = 1
    BY <1>2, <2>2 DEF Inserting
  <2>4. Working'
    BY <1>2, <2>1, <2>3 DEF Working, files, mem
  <2> QED BY <1>2, <2>1, <2>3, <2>4, MovesKeep DEF Inserts
<1> QED BY <1>1, <1>2 DEF InsertBuild

LEMMA InsertMovesKeep ==
  ASSUME IInv, JInv, InsertCheck \/ InsertWrite \/ InsertDelete \/ InsertLost PROVE JInv'
<1>1. CASE InsertCheck
  <2>1. /\ ins # NoInsert /\ ins.at = "check" /\ ins \in Inserting /\ UNCHANGED <<files, mem, phase, ddl, todo, hurt>>
    BY <1>1 DEF InsertCheck, Inserts, JInv
  <2>2. phase' = phase /\ fhs' = fhs /\ tfile' = tfile
    BY <2>1 DEF files, mem
  <2>3. CASE ins' = NoInsert
    BY <2>1, <2>3, MovesKeep DEF Inserts, Working
  <2>4. CASE ins' = [ins EXCEPT !.at = "write"] /\ ~(ins.ix # <<>> /\ \E q \in Row : tfile[ins.tab][q] = ins.key)
    <3>1. /\ ins' \in Inserting /\ ins' # NoInsert /\ ins'.at = "write" /\ ins'.tab = ins.tab /\ ins'.key = ins.key
          /\ ins'.ix = ins.ix /\ ins'.pos = ins.pos
      BY <2>1, <2>4, InsAt
    <3>2. Working'
      BY <2>1, <2>2, <2>4, <3>1 DEF JInv, Working
    <3> QED BY <2>1, <3>1, <3>2, MovesKeep DEF Inserts
  <2> QED BY <1>1, <2>3, <2>4 DEF InsertCheck, Onto
<1>2. CASE InsertWrite
  <2>1. /\ ins # NoInsert /\ ins.at = "write" /\ ins \in Inserting /\ UNCHANGED <<files, mem, phase, ddl, todo, hurt>>
        /\ ins' = [ins EXCEPT !.at = "entries"]
    BY <1>2 DEF InsertWrite, Inserts, JInv, Onto
  <2>2. phase' = phase /\ fhs' = fhs /\ tfile' = tfile
    BY <2>1 DEF files, mem
  <2>3. /\ ins' \in Inserting /\ ins' # NoInsert /\ ins'.at = "entries" /\ ins'.tab = ins.tab /\ ins'.key = ins.key
        /\ ins'.ix = ins.ix /\ ins'.pos = ins.pos
    BY <2>1, InsAt
  <2>4. Working' /\ ins.pos = 1
    BY <2>1, <2>2, <2>3 DEF JInv, Working
  <2> QED BY <2>1, <2>3, <2>4, MovesKeep DEF Inserts
<1>3. CASE InsertDelete
  BY <1>3, MovesKeep DEF InsertDelete, Inserts, Working
<1>4. CASE InsertLost
  <2>1. CASE Die("terminated")
    BY <2>1, DiesKeep
  <2>2. CASE ~Die("terminated")
    BY <1>4, <2>2, MovesKeep DEF InsertLost, Inserts, Working
  <2> QED BY <2>1, <2>2
<1> QED BY <1>1, <1>2, <1>3, <1>4

LEMMA InsertEntryKeeps2 == ASSUME IInv, JInv, InsertEntry PROVE JInv'
<1>1. /\ ins # NoInsert /\ ins.at = "entries" /\ ins \in Inserting /\ ins.pos <= Len(ins.ix) /\ phase = "up"
      /\ ins.tab \in fhs /\ Pending[1] = ins.key /\ ins.pos \in Nat /\ ins.ix \in Seq(Index)
  <2>1. ins # NoInsert /\ ins.at = "entries" /\ ins.pos <= Len(ins.ix)
    BY DEF InsertEntry, Inserts
  <2> QED BY <2>1, PendingIs DEF JInv, Inserting
<1> DEFINE x == <<ins.tab, ins.ix[ins.pos]>>
<1>2. x[1] = ins.tab
  OBVIOUS
<1>3. CASE Die("terminated")
  BY <1>3, DiesKeep
<1> HIDE DEF x
<1>4. CASE Onto("undo") /\ UNCHANGED <<files, mem, phase, ddl, todo, count, want, hurt>>
  <2>1. /\ ins' \in Inserting /\ ins' # NoInsert /\ ins'.at = "undo" /\ ins'.tab = ins.tab /\ ins'.key = ins.key
        /\ ins'.ix = ins.ix /\ ins'.pos = ins.pos
    BY <1>1, <1>4, InsAt DEF Onto
  <2>2. phase' = phase /\ fhs' = fhs /\ tfile' = tfile
    BY <1>4 DEF files, mem
  <2>3. ins.ix # <<>>
    <3>1. ins.pos >= 1
      BY <1>1 DEF JInv, Working
    <3> QED BY <1>1, <3>1
  <2>4. Working'
    BY <1>1, <2>1, <2>2, <2>3 DEF JInv, Working
  <2> QED BY <1>4, <2>1, <2>4, MovesKeep DEF Inserts
<1>5. CASE /\ ihs[x] # NoIndex /\ \A e \in ihs[x] : e[1] # ins.key
           /\ ihs' = [ihs EXCEPT ![x] = @ \cup {Pending}] /\ ins' = [ins EXCEPT !.pos = @ + 1]
           /\ UNCHANGED <<files, db, fhs, phase, ddl, todo, count, want, hurt>>
  <2>1. /\ ins' \in Inserting /\ ins'.at = "entries" /\ ins'.tab = ins.tab /\ ins'.key = ins.key
        /\ ins'.ix = ins.ix /\ ins'.pos = ins.pos + 1
    BY <1>1, <1>5 DEF Inserting
  <2>2. /\ phase' = "up" /\ fhs' = fhs /\ tfile' = tfile /\ ifile' = ifile /\ ddl' = ddl /\ hurt' = hurt /\ ins' # NoInsert
        /\ FreeRow(ins.tab)' = FreeRow(ins.tab) /\ Pending' = Pending
    <3>1. phase' = "up" /\ fhs' = fhs /\ tfile' = tfile /\ ifile' = ifile /\ ddl' = ddl /\ hurt' = hurt /\ ins' # NoInsert
      BY <1>1, <1>5, <2>1, NoIns DEF files
    <3>2. FreeRow(ins.tab)' = FreeRow(ins.tab)
      BY <2>1, <3>1 DEF FreeRow
    <3> QED BY <2>1, <3>1, <3>2 DEF Pending
  <2>3. ihs \in [Table \X Index -> {NoIndex} \cup SUBSET Entry]
    BY DEF IInv, StateOK
  <2>4. /\ \A y \in Table \X Index : y # x => ihs'[y] = ihs[y]
        /\ x \in Table \X Index => ihs'[x] = ihs[x] \cup {Pending}
    BY <1>5, <2>3
  <2>5. Keyed'
    <3> SUFFICES ASSUME NEW y \in Table \X Index, ihs'[y] # NoIndex, NEW e \in ihs'[y], NEW f \in ihs'[y], e[1] = f[1]
                 PROVE  e = f
      BY DEF Keyed
    <3>1. CASE y # x
      BY <2>4, <3>1 DEF JInv, Keyed
    <3>2. CASE y = x
      BY <1>1, <1>5, <2>4, <3>2 DEF JInv, Keyed
    <3> QED BY <3>1, <3>2
  <2>6. Backed' /\ Fresh'
    BY <1>5, <2>2, <2>4 DEF JInv, Backed, Fresh
  <2>7. Working'
    BY <1>1, <2>1, <2>2 DEF JInv, Working
  <2>8. Only'
    <3> SUFFICES ASSUME Free({Stray}), NEW y \in Table \X Index, y[1] \in fhs, ihs'[y] # NoIndex, NEW e \in ihs'[y]
                 PROVE  e \in Entries(tfile[y[1]]) \/ (Hanging(y[1])' /\ e = Pending)
      BY <2>2 DEF Only, Free, Entries
    <3>1. Hanging(y[1])' <=> Hanging(y[1])
      BY <1>1, <2>1, <2>2 DEF Hanging
    <3>2. CASE y = x /\ e = Pending
      BY <1>1, <1>2, <2>1, <2>2, <3>2 DEF Hanging
    <3>3. CASE ~(y = x /\ e = Pending)
      <4>1. ihs[y] # NoIndex /\ e \in ihs[y]
        BY <1>5, <2>4, <3>3
      <4> QED BY <3>1, <4>1 DEF JInv, Only
    <3> QED BY <3>2, <3>3
  <2>9. Made'
    <3> SUFFICES ASSUME Free(Skew), NEW n \in 1..Len(ins.ix), n < ins.pos + 1, ihs'[<<ins.tab, ins.ix[n]>>] # NoIndex
                 PROVE  Pending \in ihs'[<<ins.tab, ins.ix[n]>>] \/ Ahead(<<ins.tab, ins.ix[n]>>, FreeRow(ins.tab))
      BY <2>1, <2>2 DEF Made, Free, Ahead, X
    <3>1. PICK y : y = <<ins.tab, ins.ix[n]>>
      OBVIOUS
    <3>2. y \in Table \X Index
      BY <1>1, <3>1 DEF Inserting
    <3>3. CASE y = x
      BY <2>4, <3>1, <3>2, <3>3
    <3>4. CASE y # x
      <4>1. n < ins.pos
        BY <1>1, <3>1, <3>4 DEF x
      <4>2. ihs'[y] = ihs[y]
        BY <2>4, <3>2, <3>4
      <4> QED BY <1>1, <3>1, <4>1, <4>2 DEF JInv, Made, Inserts
    <3> QED BY <3>3, <3>4
  <2> QED BY <2>1, <2>5, <2>6, <2>7, <2>8, <2>9 DEF JInv
<1> QED BY <1>3, <1>4, <1>5 DEF InsertEntry, x

LEMMA InsertCommitKeeps2 == ASSUME IInv, JInv, InsertCommit PROVE JInv'
<1>1. ins # NoInsert /\ ins.at = "entries"
  BY DEF InsertCommit, Inserts
<1>2. PICK t \in Table, k \in Key, r \in Row, rows \in RowFile :
        /\ t = ins.tab /\ k = ins.key /\ r = FreeRow(t) /\ rows = tfile[t] /\ rows[r] = NoKey /\ phase = "up"
        /\ Pending = <<k, r>>
  BY <1>1, PendingIs DEF Pending
<1> DEFINE new == [rows EXCEPT ![r] = k]
<1>3. new \in RowFile /\ Entries(new) = Entries(rows) \cup {<<k, r>>}
  BY <1>2, RowAdded
<1>4. ihs' = ihs /\ ifile' = ifile /\ fhs' = fhs /\ phase' = phase /\ ins' = NoInsert /\ hurt \subseteq hurt' /\ todo' = todo
      /\ tfile' = [tfile EXCEPT ![t] = new]
  <2>1. tfile' = [tfile EXCEPT ![t][r] = k]
    BY <1>2 DEF InsertCommit
  <2> QED BY <1>2, <1>3, <2>1 DEF InsertCommit, mem
<1>5. tfile \in [Table -> {Absent, Blank} \cup RowFile]
  BY DEF IInv, StateOK
<1>6. tfile'[t] = new /\ \A u \in Table : u # t => tfile'[u] = tfile[u]
  BY <1>4, <1>5
<1>7. Keyed' /\ Backed' /\ Fresh'
  BY <1>4 DEF JInv, Keyed, Backed, Fresh
<1>8. Only'
  <2> SUFFICES ASSUME Free({Stray})', NEW x \in Table \X Index, x[1] \in fhs, ihs[x] # NoIndex, NEW e \in ihs[x]
               PROVE  e \in Entries(tfile'[x[1]])
    BY <1>4 DEF Only, Entries
  <2>1. e \in Entries(tfile[x[1]]) \/ (Hanging(x[1]) /\ e = Pending)
    BY <1>4 DEF JInv, Only, Free
  <2>2. CASE x[1] = t
    BY <1>2, <1>3, <1>6, <2>1, <2>2
  <2>3. CASE x[1] # t
    <3>1. ~Hanging(x[1])
      BY <1>2, <2>3 DEF Hanging
    <3>2. tfile'[x[1]] = tfile[x[1]]
      BY <1>6, <2>3
    <3> QED BY <2>1, <3>1, <3>2
  <2> QED BY <2>2, <2>3
<1> QED BY <1>4, <1>7, <1>8 DEF JInv, Working, Made, Inserts

LEMMA InsertUndoKeeps2 == ASSUME IInv, JInv, InsertUndo PROVE JInv'
<1>1. ins # NoInsert /\ ins.at = "undo" /\ ins \in Inserting /\ Pending[1] = ins.key /\ phase = "up"
  <2>1. ins # NoInsert /\ ins.at = "undo"
    BY DEF InsertUndo, Inserts
  <2> QED BY <2>1, PendingIs DEF JInv
<1>2. CASE Die("terminated")
  BY <1>2, DiesKeep
<1>3. CASE /\ ihs' = [x \in Table \X Index |-> IF x[1] = ins.tab /\ Contains(db[ins.tab], x[2])
                                               THEN {e \in ihs[x] : e[1] # ins.key} ELSE ihs[x]]
           /\ \A i \in Range(db[ins.tab]) : ihs[<<ins.tab, i>>] # NoIndex
           /\ Onto("delete") /\ UNCHANGED <<files, db, fhs, phase, ddl, todo, count, want, hurt>>
  <2>1. /\ ins' \in Inserting /\ ins' # NoInsert /\ ins'.at = "delete" /\ ins'.tab = ins.tab /\ ins'.key = ins.key
        /\ ins'.pos = ins.pos
    BY <1>1, <1>3, InsAt DEF Onto
  <2>2. phase' = "up" /\ fhs' = fhs /\ tfile' = tfile /\ ifile' = ifile /\ hurt' = hurt
    BY <1>1, <1>3 DEF files
  <2>3. ASSUME NEW x \in Table \X Index, ihs'[x] # NoIndex
        PROVE  /\ ihs[x] # NoIndex /\ \A e \in ihs'[x] : e \in ihs[x]
               /\ x[1] = ins.tab => \A e \in ihs'[x] : e[1] # ins.key
    <3>1. CASE x[1] = ins.tab /\ Contains(db[ins.tab], x[2])
      <4>1. x[2] \in Range(db[ins.tab]) /\ x = <<ins.tab, x[2]>>
        BY <3>1 DEF Contains, Range
      <4> QED BY <1>3, <3>1, <4>1
    <3>2. CASE ~(x[1] = ins.tab /\ Contains(db[ins.tab], x[2]))
      <4>1. ihs'[x] = ihs[x]
        BY <1>3, <3>2
      <4>2. x \in Indexes(db)
        BY <2>3, <4>1 DEF IInv, Opened
      <4> QED BY <2>3, <3>2, <4>1, <4>2 DEF Indexes
    <3> QED BY <3>1, <3>2
  <2>4. Keyed' /\ Backed' /\ Fresh'
    BY <2>2, <2>3 DEF JInv, Keyed, Backed, Fresh
  <2>5. Working'
    BY <1>1, <2>1, <2>2 DEF JInv, Working
  <2>6. Only'
    <3> SUFFICES ASSUME Free({Stray}), NEW x \in Table \X Index, x[1] \in fhs, ihs'[x] # NoIndex, NEW e \in ihs'[x]
                 PROVE  e \in Entries(tfile[x[1]])
      BY <2>2 DEF Only, Free, Entries
    <3>1. e \in Entries(tfile[x[1]]) \/ (Hanging(x[1]) /\ e = Pending)
      BY <2>3 DEF JInv, Only
    <3> QED BY <1>1, <2>3, <3>1 DEF Hanging
  <2>7. Made'
    BY <2>1 DEF Made, Inserts
  <2> QED BY <2>1, <2>4, <2>5, <2>6, <2>7 DEF JInv
<1> QED BY <1>2, <1>3 DEF InsertUndo

LEMMA DropTableFileKeeps2 == ASSUME IInv, JInv, DropTableFile PROVE JInv'
<1>1. /\ phase = "up" /\ ddl # NoDdl /\ ddl.op = "drop_table" /\ T \in Table /\ StateOK
  BY Running DEF DropTableFile, At, IInv
<1>2. /\ tfile' = [tfile EXCEPT ![T] = Absent] /\ fhs' = fhs \ {T} /\ ihs' = ihs /\ ifile' = ifile /\ phase' = phase
      /\ hurt \subseteq hurt' /\ todo' = todo
      /\ ins' = IF ins # NoInsert /\ ins.tab = T THEN [ins EXCEPT !.at = "lost"] ELSE ins
  BY DEF DropTableFile
<1>3. tfile \in [Table -> {Absent, Blank} \cup RowFile]
  BY <1>1 DEF StateOK
<1>4. \A t \in Table : t # T => tfile'[t] = tfile[t]
  BY <1>2, <1>3
<1>5. Keyed' /\ Backed' /\ Fresh'
  BY <1>2 DEF JInv, Keyed, Backed, Fresh
<1>6. ASSUME NEW x \in Table \X Index, x[1] \in fhs', ihs'[x] # NoIndex, Free({Stray})', NEW e \in ihs'[x]
      PROVE  e \in Entries(tfile[x[1]]) \/ (Hanging(x[1]) /\ e = Pending)
  BY <1>2, <1>6 DEF JInv, Only, Free
<1>7. CASE ins # NoInsert /\ ins.tab = T
  <2>1. ins' \in Inserting /\ ins' # NoInsert /\ ins'.at = "lost" /\ ins'.pos = ins.pos
    BY <1>2, <1>7, InsAt DEF JInv
  <2>2. Working' /\ Made'
    BY <1>1, <1>2, <1>7, <2>1 DEF JInv, Working, Made, Inserts
  <2>3. Only'
    <3> SUFFICES ASSUME NEW x \in Table \X Index, x[1] \in fhs', ihs'[x] # NoIndex, Free({Stray})', NEW e \in ihs'[x]
                 PROVE  e \in Entries(tfile'[x[1]])
      BY DEF Only, Entries
    <3>1. x[1] # T /\ ~Hanging(x[1])
      BY <1>2, <1>7 DEF Hanging
    <3>2. tfile'[x[1]] = tfile[x[1]]
      BY <1>4, <3>1
    <3> QED BY <1>6, <3>1, <3>2
  <2> QED BY <1>5, <2>1, <2>2, <2>3 DEF JInv
<1>8. CASE ~(ins # NoInsert /\ ins.tab = T)
  <2>1. ins' = ins
    BY <1>2, <1>8
  <2>2. ASSUME ins # NoInsert, ins.at # "lost"
        PROVE  ins.tab \in fhs' /\ tfile'[ins.tab] = tfile[ins.tab] /\ FreeRow(ins.tab)' = FreeRow(ins.tab) /\ Pending' = Pending
    <3>1. ins.tab \in fhs /\ ins.tab # T /\ ins.tab \in Table
      BY <1>8, <2>2 DEF JInv, Working, Inserting
    <3>2. tfile'[ins.tab] = tfile[ins.tab] /\ ins.tab \in fhs'
      BY <1>2, <1>4, <3>1
    <3>3. FreeRow(ins.tab)' = FreeRow(ins.tab)
      BY <2>1, <3>2 DEF FreeRow
    <3> QED BY <2>1, <3>2, <3>3 DEF Pending
  <2>3. Working'
    BY <1>2, <2>1, <2>2 DEF JInv, Working
  <2>4. Only'
    <3> SUFFICES ASSUME NEW x \in Table \X Index, x[1] \in fhs', ihs'[x] # NoIndex, Free({Stray})', NEW e \in ihs'[x]
                 PROVE  e \in Entries(tfile'[x[1]]) \/ (Hanging(x[1])' /\ e = Pending')
      BY DEF Only, Entries
    <3>1. tfile'[x[1]] = tfile[x[1]]
      BY <1>2, <1>4
    <3>2. Hanging(x[1]) => Hanging(x[1])' /\ Pending' = Pending
      BY <2>1, <2>2 DEF Hanging
    <3> QED BY <1>6, <3>1, <3>2
  <2>5. Made'
    <3> SUFFICES ASSUME Inserts("entries"), Free(Skew)', NEW n \in 1..Len(ins.ix), n < ins.pos,
                        ihs[<<ins.tab, ins.ix[n]>>] # NoIndex
                 PROVE  Pending' \in ihs[<<ins.tab, ins.ix[n]>>]
      BY <1>2, <2>1 DEF Made, Inserts
    <3>1. Free(Skew) /\ ins # NoInsert /\ ins.at # "lost"
      BY <1>2 DEF Free, Inserts
    <3>2. ~Ahead(<<ins.tab, ins.ix[n]>>, FreeRow(ins.tab))
      BY <1>1 DEF Ahead
    <3> QED BY <2>2, <3>1, <3>2 DEF JInv, Made
  <2> QED BY <1>5, <2>1, <2>3, <2>4, <2>5 DEF JInv
<1> QED BY <1>7, <1>8

(* A step of the DDL session, other than one of the scan that fills an     *)
(* index.                                                                  *)
LEMMA DdlOthers ==
  ASSUME IInv, JInv, phase = "up", phase' = "up", ins' = ins, hurt \subseteq hurt', fhs' = fhs,
         \A t \in fhs : tfile'[t] = tfile[t], ~Stage("create_index", {"fill"}),
         \A x \in Table \X Index :
           \/ ihs'[x] = ihs[x] /\ (ihs[x] # NoIndex => ifile'[x] = Ready)
           \/ ihs'[x] = NoIndex
           \/ ihs'[x] = {} /\ ifile'[x] = Ready /\ \A r \in Row : Ahead(x, r)'
  PROVE  JInv'
<1>1. Fresh'
  BY DEF Fresh
<1>2. \A x, r : ~Ahead(x, r)
  BY DEF Ahead, Stage
<1> QED BY <1>1, <1>2, OthersKeep

LEMMA DdlCalm ==
  ASSUME IInv, JInv, phase = "up", phase' = "up", ~Stage("create_index", {"fill"}), hurt \subseteq hurt',
         UNCHANGED <<ins, tfile, ifile, fhs, ihs>>
  PROVE  JInv'
<1>1. \A x \in Table \X Index : ihs'[x] = ihs[x] /\ (ihs[x] # NoIndex => ifile'[x] = Ready)
  BY DEF JInv, Backed
<1> QED BY <1>1, DdlOthers

LEMMA TableKeeps2 ==
  ASSUME IInv, JInv,
         \/ CreateTableFile \/ CreateTableHeader \/ CreateTableMeta \/ CreateTableOpen
         \/ DropTableIndex \/ DropTableMeta
  PROVE  JInv'
<1>1. /\ ddl # NoDdl /\ phase = "up" /\ ddl.op \in {"create_table", "drop_table"} /\ ~Stage("create_index", {"fill"})
      /\ T \in Table /\ StateOK
  <2>1. ddl # NoDdl /\ phase = "up" /\ ddl.op \in {"create_table", "drop_table"} /\ StateOK /\ Shape
    BY DEF CreateTableFile, CreateTableHeader, CreateTableMeta, CreateTableOpen, DropTableIndex, DropTableMeta, At, IInv
  <2> QED BY <2>1, Running DEF Stage
<1>2. CASE CreateTableMeta \/ DropTableMeta
  BY <1>1, <1>2, DdlCalm DEF CreateTableMeta, DropTableMeta, Then, files
<1>3. CASE CreateTableFile \/ CreateTableHeader
  <2>1. T \notin fhs
    <3>1. db[T] = NoTable
      BY <1>1, <1>3 DEF CreateTableFile, CreateTableHeader, At, IInv, Staged, CreatingTable, Stage
    <3> QED BY <3>1 DEF IInv, Opened, Tables
  <2>2. /\ \A t \in fhs : tfile'[t] = tfile[t]
        /\ phase' = "up" /\ hurt' = hurt /\ ins' = ins /\ fhs' = fhs /\ ihs' = ihs /\ ifile' = ifile
    <3>1. /\ phase' = "up" /\ hurt' = hurt /\ ins' = ins /\ fhs' = fhs /\ ihs' = ihs /\ ifile' = ifile
          /\ tfile' = tfile \/ tfile' = [tfile EXCEPT ![T] = Blank] \/ tfile' = [tfile EXCEPT ![T] = NoRows]
      BY <1>1, <1>3 DEF CreateTableFile, CreateTableHeader, Then, Fail, mem
    <3>2. fhs \subseteq Table /\ tfile \in [Table -> {Absent, Blank} \cup RowFile]
      BY <1>1 DEF StateOK
    <3> QED BY <2>1, <3>1, <3>2
  <2>3. \A x \in Table \X Index : ihs'[x] = ihs[x] /\ (ihs[x] # NoIndex => ifile'[x] = Ready)
    BY <2>2 DEF JInv, Backed
  <2> QED BY <1>1, <2>2, <2>3, DdlOthers
<1>4. CASE CreateTableOpen
  <2>1. /\ fhs' = fhs \cup {T} /\ ihs' = ihs /\ tfile' = tfile /\ ifile' = ifile /\ phase' = phase /\ ins' = ins
        /\ hurt' = hurt
    BY <1>4 DEF CreateTableOpen, Then, files
  <2>2. db[T] = <<>>
    BY <1>1, <1>4 DEF CreateTableOpen, At, IInv, Staged, CreatingTable, Stage
  <2>3. ASSUME NEW x \in Table \X Index PROVE x[1] \in fhs' \ fhs => ihs'[x] = NoIndex
    <3>1. x[1] = T => x \notin Indexes(db)
      BY <2>2 DEF Indexes, Contains
    <3> QED BY <2>1, <3>1 DEF IInv, Opened
  <2>4. \A x \in Table \X Index : ihs'[x] = ihs[x] /\ (ihs[x] # NoIndex => ifile'[x] = Ready)
    BY <2>1 DEF JInv, Backed
  <2>5. \A x, r : ~Ahead(x, r)
    BY <1>1 DEF Ahead
  <2>6. Fresh'
    BY <1>1, <2>1 DEF Fresh
  <2> QED BY <2>1, <2>3, <2>4, <2>5, <2>6, OthersKeep
<1>5. CASE DropTableIndex
  <2>1. CASE Die("terminated")
    BY <2>1, DiesKeep
  <2>2. CASE Then("tabs") /\ UNCHANGED <<files, mem, hurt>>
    BY <1>1, <2>2, DdlCalm DEF Then, files, mem
  <2>3. CASE /\ ifile' = [ifile EXCEPT ![<<T, db[T][ddl.pos]>>] = Absent]
             /\ ihs' = [ihs EXCEPT ![<<T, db[T][ddl.pos]>>] = NoIndex]
             /\ UNCHANGED <<meta, tfile, log, db, fhs, phase, ins, todo, count, want, hurt>>
    <3>1. PICK y : y = <<T, db[T][ddl.pos]>>
      OBVIOUS
    <3>2. ifile' = [ifile EXCEPT ![y] = Absent] /\ ihs' = [ihs EXCEPT ![y] = NoIndex]
      BY <2>3, <3>1
    <3>3. \A x \in Table \X Index : (ihs'[x] = ihs[x] /\ (ihs[x] # NoIndex => ifile'[x] = Ready)) \/ ihs'[x] = NoIndex
      BY <1>1, <3>2 DEF StateOK, JInv, Backed
    <3> QED BY <1>1, <2>3, <3>3, DdlOthers
  <2> QED BY <1>5, <2>1, <2>2, <2>3 DEF DropTableIndex
<1> QED BY <1>2, <1>3, <1>4, <1>5

LEMMA IndexKeeps2 ==
  ASSUME IInv, JInv,
         \/ CreateIndexMeta \/ CreateIndexFile \/ CreateIndexHeader \/ CreateIndexOpen
         \/ DropIndexFile \/ DropIndexMeta \/ FlushMeta \/ EndDdl
  PROVE  JInv'
<1>1. ddl # NoDdl /\ phase = "up" /\ ~Stage("create_index", {"fill"}) /\ StateOK /\ Shape
  BY DEF CreateIndexMeta, CreateIndexFile, CreateIndexHeader, CreateIndexOpen, DropIndexFile, DropIndexMeta, FlushMeta,
         EndDdl, At, IInv, Stage
<1>2. CASE CreateIndexMeta \/ DropIndexMeta
  BY <1>1, <1>2, DdlCalm DEF CreateIndexMeta, DropIndexMeta, Then, files
<1>3. CASE FlushMeta \/ EndDdl
  BY <1>1, <1>3, DdlCalm DEF FlushMeta, EndDdl, Then, mem
<1>4. CASE CreateIndexFile \/ CreateIndexHeader
  <2>1. /\ phase' = "up" /\ hurt \subseteq hurt' /\ ins' = ins /\ fhs' = fhs /\ ihs' = ihs /\ tfile' = tfile
        /\ \/ ifile' = ifile
           \/ ifile[X] = Absent /\ ifile' = [ifile EXCEPT ![X] = Blank]
           \/ ifile' = [ifile EXCEPT ![X] = Ready]
    BY <1>1, <1>4 DEF CreateIndexFile, CreateIndexHeader, Then, Fail, mem
  <2>2. \A x \in Table \X Index : ihs'[x] = ihs[x] /\ (ihs[x] # NoIndex => ifile'[x] = Ready)
    BY <1>1, <2>1, Marks DEF StateOK, JInv, Backed
  <2> QED BY <1>1, <2>1, <2>2, DdlOthers
<1>5. CASE CreateIndexOpen
  <2>1. /\ ddl.op = "create_index" /\ ddl.at = "open" /\ ihs' = [ihs EXCEPT ![X] = {}] /\ fhs' = fhs /\ hurt' = hurt
        /\ ins' = ins /\ tfile' = tfile /\ ifile' = ifile /\ UNCHANGED <<phase, todo, count, want>>
        /\ ddl' = [ddl EXCEPT !.at = "fill"]
    BY <1>5 DEF CreateIndexOpen, At, Then, files
  <2>2. ddl.pos = 1 /\ ifile[X] = Ready
    BY <1>1, <2>1 DEF IInv, Staged, CreatingIndex, Stage
  <2>3. ddl' # NoDdl /\ ddl'.op = "create_index" /\ ddl'.at = "fill" /\ ddl'.pos = 1 /\ X' = X
    BY <1>1, <2>1, <2>2, NextStage
  <2>4. \A r \in Row : Ahead(X, r)'
    BY <2>3, Row1 DEF Ahead
  <2>5. ASSUME NEW x \in Table \X Index, x = X PROVE ihs'[x] = {} /\ ifile'[x] = Ready /\ \A r \in Row : Ahead(x, r)'
    <3>1. ihs'[x] = {} /\ ifile'[x] = Ready
      BY <1>1, <2>1, <2>2, <2>5 DEF StateOK
    <3>2. \A r \in Row : Ahead(x, r)'
      BY <2>3, <2>5, Row1 DEF Ahead
    <3> QED BY <3>1, <3>2
  <2>6. ASSUME NEW x \in Table \X Index, x # X PROVE ihs'[x] = ihs[x] /\ (ihs[x] # NoIndex => ifile'[x] = Ready)
    BY <1>1, <2>1, <2>6 DEF StateOK, JInv, Backed
  <2> QED BY <1>1, <2>1, <2>5, <2>6, DdlOthers
<1>6. CASE DropIndexFile
  <2>1. CASE Die("terminated")
    BY <2>1, DiesKeep
  <2>2. CASE ~Die("terminated")
    <3>1. /\ phase' = "up" /\ hurt' = hurt /\ ins' = ins /\ fhs' = fhs /\ tfile' = tfile
          /\ ifile' = [ifile EXCEPT ![X] = Absent] /\ ihs' = [ihs EXCEPT ![X] = NoIndex]
      BY <1>1, <1>6, <2>2 DEF DropIndexFile, Then
    <3>2. \A x \in Table \X Index : (ihs'[x] = ihs[x] /\ (ihs[x] # NoIndex => ifile'[x] = Ready)) \/ ihs'[x] = NoIndex
      BY <1>1, <3>1 DEF StateOK, JInv, Backed
    <3> QED BY <1>1, <3>1, <3>2, DdlOthers
  <2> QED BY <2>1, <2>2
<1> QED BY <1>2, <1>3, <1>4, <1>5, <1>6

(* The row of an INSERT that the scan of CREATE INDEX has not come to.     *)
LEMMA ScanComes ==
  ASSUME IInv, JInv, At("create_index", "fill"), NEW r \in Nat, r = NextRow(Shown(T), ddl.pos),
         NEW y, Inserts("entries"), Ahead(y, FreeRow(ins.tab)), y[1] = ins.tab
  PROVE  y = X /\ ins.tab = T /\ FreeRow(T) \in Row /\ r <= FreeRow(T) /\ Shown(T)[FreeRow(T)] = ins.key
<1>1. y = X /\ ddl.pos <= FreeRow(ins.tab) /\ T \in fhs /\ X[1] = T /\ ddl.pos \in Nat
  BY FillFacts DEF Ahead
<1>2. ins.tab = T /\ Written(T)
  BY <1>1 DEF Inserts, Written
<1>3. FreeRow(T) \in Row /\ Shown(T)[FreeRow(T)] = ins.key /\ ins.key # NoKey /\ Shown(T) \in RowFile
  BY <1>1, <1>2, ShownIs
<1>4. r <= FreeRow(T)
  BY <1>1, <1>2, <1>3, NextRowIs
<1> QED BY <1>1, <1>2, <1>3, <1>4

LEMMA FillAdds2 ==
  ASSUME IInv, JInv, At("create_index", "fill"), NEW r, r = NextRow(Shown(T), ddl.pos), r <= Slots,
         \A e \in ihs[X] : e[1] # Shown(T)[r],
         ihs' = [ihs EXCEPT ![X] = @ \cup {<<Shown(T)[r], r>>}], ddl' = [ddl EXCEPT !.pos = r + 1],
         hurt' = IF Written(T) /\ ins.at = "delete" /\ r = FreeRow(T) THEN hurt \cup {Stray} ELSE hurt,
         UNCHANGED <<phase, ins, todo, count, want, files, db, fhs>>
  PROVE  JInv'
<1>1. /\ StateOK /\ Shape /\ ddl \in Ddl /\ T \in Table /\ phase = "up" /\ X \in Table \X Index
      /\ ddl # NoDdl /\ ddl.op = "create_index" /\ ddl.at = "fill" /\ ddl.pos \in Nat
      /\ X[1] = T /\ ifile[X] = Ready /\ Filling
      /\ tfile[T] \in RowFile /\ ihs[X] \in SUBSET Entry /\ T \in fhs
      /\ ihs \in [Table \X Index -> {NoIndex} \cup SUBSET Entry]
  BY FillFacts
<1>2. /\ (\A E : Free(E)' => Free(E)) /\ tfile' = tfile /\ ifile' = ifile /\ fhs' = fhs /\ phase' = "up" /\ ins' = ins
  BY <1>1 DEF files, Free
<1>3. PICK rows \in RowFile, shown \in RowFile, p \in Nat : rows = tfile[T] /\ shown = Shown(T) /\ p = ddl.pos
  BY <1>1, ShownIs
<1>4. r \in Row /\ r \in Nat /\ shown[r] # NoKey
  BY <1>3, NextRowIs
<1>5. ddl' # NoDdl /\ ddl'.op = "create_index" /\ ddl'.at = "fill" /\ ddl'.pos = r + 1 /\ X' = X
  <2>1. PICK n \in Nat : n = r + 1 /\ ddl' = [ddl EXCEPT !.pos = n]
    BY <1>4
  <2> QED BY <1>1, <2>1, NextPos
<1> DEFINE new == <<shown[r], r>>
<1>6. new = <<shown[r], r>> /\ new[1] = shown[r] /\ new[2] = r
  OBVIOUS
<1> HIDE DEF new
<1>7. PICK old \in SUBSET Entry : old = ihs[X]
  BY <1>1
<1>8. /\ ihs'[X] = old \cup {new} /\ \A x \in Table \X Index : x # X => ihs'[x] = ihs[x]
  BY <1>1, <1>3, <1>6, <1>7
<1>9. \A t : FreeRow(t)' = FreeRow(t) /\ Hanging(t)' = Hanging(t) /\ Pending' = Pending
  BY <1>2 DEF FreeRow, Hanging, Pending
<1>10. ihs[X] # NoIndex
  BY <1>1 DEF Filling
<1>11. Keyed'
  <2> SUFFICES ASSUME NEW x \in Table \X Index, ihs'[x] # NoIndex, NEW e \in ihs'[x], NEW f \in ihs'[x], e[1] = f[1]
               PROVE  e = f
    BY DEF Keyed
  <2>1. CASE x # X
    BY <1>8, <2>1 DEF JInv, Keyed
  <2>2. CASE x = X
    <3>1. e \in old /\ f \in old => e = f
      BY <1>7, <1>10, <2>2 DEF JInv, Keyed
    <3>2. \A g \in old : g[1] # new[1]
      BY <1>3, <1>6, <1>7
    <3> QED BY <1>8, <2>2, <3>1, <3>2
  <2> QED BY <2>1, <2>2
<1>12. Backed' /\ Fresh' /\ Working'
  <2>1. Backed'
    BY <1>1, <1>2, <1>8 DEF JInv, Backed
  <2>2. Fresh' /\ Working'
    BY <1>2 DEF JInv, Fresh, Working
  <2> QED BY <2>1, <2>2
<1>13. Only'
  <2> SUFFICES ASSUME Free({Stray})', NEW x \in Table \X Index, x[1] \in fhs, ihs'[x] # NoIndex, NEW e \in ihs'[x]
               PROVE  e \in Entries(tfile[x[1]]) \/ (Hanging(x[1]) /\ e = Pending)
    BY <1>2, <1>9 DEF Only, Entries
  <2>1. CASE ~(x = X /\ e = new)
    <3>1. e \in ihs[x] /\ ihs[x] # NoIndex
      BY <1>7, <1>8, <1>10, <2>1
    <3> QED BY <1>2, <3>1 DEF JInv, Only
  <2>2. CASE x = X /\ e = new
    <3>1. CASE shown[r] = rows[r]
      <4>1. e = <<rows[r], r>> /\ rows[r] # NoKey
        BY <1>4, <1>6, <2>2, <3>1
      <4> QED BY <1>1, <1>3, <1>4, <2>2, <4>1, EntryOf
    <3>2. CASE shown[r] # rows[r]
      <4>1. Written(T) /\ r = FreeRow(T) /\ shown[r] = ins.key /\ ins.tab = T
        BY <1>1, <1>3, <1>4, <3>2, ShownIs
      <4>2. ins.at # "delete"
        BY <4>1 DEF Free
      <4> QED BY <1>1, <1>6, <2>2, <4>1, <4>2 DEF Written, Hanging, Pending
    <3> QED BY <3>1, <3>2
  <2> QED BY <2>1, <2>2
<1>14. Made'
  <2> SUFFICES ASSUME Inserts("entries"), Free(Skew), NEW n \in 1..Len(ins.ix), n < ins.pos,
                      ihs'[<<ins.tab, ins.ix[n]>>] # NoIndex
               PROVE  Pending \in ihs'[<<ins.tab, ins.ix[n]>>] \/ Ahead(<<ins.tab, ins.ix[n]>>, FreeRow(ins.tab))'
    BY <1>2, <1>9 DEF Made, Inserts
  <2>1. PICK y : y = <<ins.tab, ins.ix[n]>> /\ y[1] = ins.tab
    OBVIOUS
  <2>2. y \in Table \X Index
    BY <2>1 DEF JInv, Inserting, Inserts
  <2>3. ihs[y] # NoIndex
    BY <1>8, <1>10, <2>1, <2>2
  <2>4. Pending \in ihs[y] \/ Ahead(y, FreeRow(ins.tab))
    BY <2>1, <2>3 DEF JInv, Made
  <2>5. CASE Pending \in ihs[y]
    BY <1>7, <1>8, <2>1, <2>2, <2>5
  <2>6. CASE Ahead(y, FreeRow(ins.tab))
    <3>1. y = X /\ ins.tab = T /\ FreeRow(T) \in Row /\ r <= FreeRow(T) /\ shown[FreeRow(T)] = ins.key
      BY <1>3, <1>4, <2>1, <2>6, ScanComes
    <3>2. CASE r = FreeRow(T)
      BY <1>6, <1>8, <2>1, <3>1, <3>2 DEF Pending
    <3>3. CASE r # FreeRow(T)
      <4>1. FreeRow(T) \in Nat /\ r + 1 <= FreeRow(T)
        BY <1>4, <3>1, <3>3, Row1
      <4> QED BY <1>2, <1>5, <1>9, <2>1, <3>1, <4>1 DEF Ahead
    <3> QED BY <3>2, <3>3
  <2> QED BY <2>4, <2>5, <2>6
<1> QED BY <1>2, <1>11, <1>12, <1>13, <1>14 DEF JInv

LEMMA CreateIndexFillKeeps2 == ASSUME IInv, JInv, CreateIndexFill PROVE JInv'
<1>1. PICK r : r = NextRow(Shown(T), ddl.pos)
  OBVIOUS
<1>2. At("create_index", "fill") /\ phase = "up" /\ UNCHANGED <<files, db, fhs>> /\ T \in fhs /\ ddl.pos \in Nat
  <2>1. At("create_index", "fill") /\ UNCHANGED <<files, db, fhs>>
    BY DEF CreateIndexFill
  <2> QED BY <2>1, FillFacts
<1>3. r \in Nat
  BY <1>1, <1>2, ShownIs, NextRowIs
<1>4. CASE r > Slots /\ Then("flush") /\ UNCHANGED <<ihs, hurt>>
  <2>1. phase' = phase /\ ins' = ins /\ fhs' = fhs /\ ihs' = ihs /\ tfile' = tfile /\ ifile' = ifile /\ hurt' = hurt
    BY <1>2, <1>4 DEF Then, files
  <2>2. ASSUME NEW x, NEW q, Inserts("entries"), x[1] = ins.tab, q = FreeRow(ins.tab), Ahead(x, q) PROVE FALSE
    <3>1. FreeRow(T) \in Row /\ r <= FreeRow(T)
      BY <1>1, <1>2, <1>3, <2>2, ScanComes
    <3> QED BY <1>3, <1>4, <3>1, Row1, Marks
  <2>3. \A x \in Table \X Index : ihs'[x] = ihs[x] /\ (ihs[x] # NoIndex => ifile'[x] = Ready)
    BY <2>1 DEF JInv, Backed
  <2>4. Fresh'
    BY <1>2, <2>1 DEF Fresh
  <2> QED BY <2>1, <2>2, <2>3, <2>4, OthersKeep
<1>5. CASE Fail({Partial}) /\ UNCHANGED ihs
  <2>1. /\ phase' = phase /\ ins' = ins /\ fhs' = fhs /\ ihs' = ihs /\ tfile' = tfile /\ ifile' = ifile
        /\ hurt' = hurt \cup {Partial} /\ ~Free(Skew)'
    BY <1>2, <1>5 DEF Fail, files, Free, Skew
  <2>2. \A x \in Table \X Index : ihs'[x] = ihs[x] /\ (ihs[x] # NoIndex => ifile'[x] = Ready)
    BY <2>1 DEF JInv, Backed
  <2>3. Fresh'
    BY <1>2, <2>1 DEF Fresh
  <2> QED BY <2>1, <2>2, <2>3, OthersKeep
<1>6. CASE /\ r <= Slots /\ \A e \in ihs[X] : e[1] # Shown(T)[r]
           /\ ihs' = [ihs EXCEPT ![X] = @ \cup {<<Shown(T)[r], r>>}]
           /\ ddl' = [ddl EXCEPT !.pos = r + 1]
           /\ hurt' = IF Written(T) /\ ins.at = "delete" /\ r = FreeRow(T) THEN hurt \cup {Stray} ELSE hurt
           /\ UNCHANGED <<phase, ins, todo, count, want>>
  BY <1>1, <1>2, <1>6, FillAdds2
<1> QED BY <1>1, <1>4, <1>5, <1>6 DEF CreateIndexFill

(* Start-up.                                                               *)
LEMMA StartOthers ==
  ASSUME IInv, JInv, ins = NoInsert, ins' = ins, fhs' = fhs, tfile' = tfile, hurt' = hurt,
         \A x \in Table \X Index :
           \/ ihs'[x] = ihs[x] /\ (ihs[x] # NoIndex => ifile'[x] = Ready)
           \/ ihs'[x] = NoIndex,
         Fresh'
  PROVE  JInv'
BY OthersKeep DEF Inserts

LEMMA StartStepKeeps2 == ASSUME IInv, JInv, StartStep PROVE JInv'
<1>1. phase # "up" /\ ins = NoInsert /\ StateOK /\ Shape
  <2>1. phase # "up"
    BY DEF StartStep, Start, open_db, Redo, RebuildDestroy, RebuildCreate, RebuildFill, StartFlushMeta, StartWriteMeta,
           truncate_log
  <2> QED BY <2>1 DEF JInv, Working, IInv
<1>2. CASE StartFails
  <2>1. End("failed") /\ "failed" \in Down
    BY <1>2 DEF StartFails, Down
  <2> QED BY <2>1, EndsKeep
<1>3. ASSUME NEW cat, open_db(cat) PROVE JInv'
  <2>1. CASE ~StartFails
    <3>1. /\ ihs' = [x \in Table \X Index |-> IF x \in Indexes(cat) /\ ifile[x] = Ready THEN {} ELSE NoIndex]
          /\ phase' = "redo" /\ ins' = ins /\ ifile' = ifile
      BY <1>3, <2>1 DEF open_db, files
    <3>2. \A x \in Table \X Index : ihs'[x] = NoIndex \/ (ihs'[x] = {} /\ ifile'[x] = Ready)
      BY <3>1
    <3> QED BY <1>1, <3>1, <3>2, EndedKeeps
  <2> QED BY <1>2, <2>1
<1>4. CASE Start
  BY <1>2, <1>3, <1>4 DEF Start
<1>5. CASE Redo
  <2>1. CASE ~StartFails
    <3>1. phase = "redo" /\ phase' = "destroy" /\ ihs' = ihs /\ ifile' = ifile /\ ins' = ins
      BY <1>5, <2>1 DEF Redo, mem
    <3>2. \A x \in Table \X Index : ihs'[x] = NoIndex \/ (ihs'[x] = {} /\ ifile'[x] = Ready)
      BY <3>1 DEF JInv, Fresh, Backed
    <3> QED BY <1>1, <3>1, <3>2, EndedKeeps
  <2> QED BY <1>2, <2>1
<1>6. CASE RebuildDestroy
  <2>1. CASE ~StartFails
    <3>1. /\ phase = "destroy" /\ todo # <<>> /\ phase' = "create" /\ todo' = todo /\ ins' = ins /\ hurt' = hurt
          /\ ihs' = [ihs EXCEPT ![Head(todo)] = NoIndex] /\ ifile' = [ifile EXCEPT ![Head(todo)] = Absent]
          /\ tfile' = tfile /\ fhs' = fhs
      BY <1>6, <2>1 DEF RebuildDestroy
    <3>2. PICK h \in Table \X Index : h = Head(todo)
      BY <3>1, HeadThere
    <3>3. ihs'[h] = NoIndex
      BY <1>1, <3>1, <3>2 DEF StateOK
    <3>4. \A x \in Table \X Index : (ihs'[x] = ihs[x] /\ (ihs[x] # NoIndex => ifile'[x] = Ready)) \/ ihs'[x] = NoIndex
      BY <1>1, <3>1, <3>2 DEF StateOK, JInv, Backed
    <3>5. Fresh'
      BY <3>1, <3>2, <3>3 DEF Fresh
    <3> QED BY <1>1, <3>1, <3>4, <3>5, StartOthers
  <2> QED BY <1>2, <2>1
<1>7. CASE RebuildCreate
  <2>1. /\ phase = "create" /\ phase' = "header" /\ todo' = todo /\ ins' = ins /\ hurt' = hurt /\ ihs' = ihs
        /\ ifile' = [ifile EXCEPT ![Head(todo)] = Blank] /\ tfile' = tfile /\ fhs' = fhs
    BY <1>7 DEF RebuildCreate, mem
  <2>2. ihs[Head(todo)] = NoIndex
    BY <2>1 DEF JInv, Fresh
  <2>3. \A x \in Table \X Index : ihs'[x] = ihs[x] /\ (ihs[x] # NoIndex => ifile'[x] = Ready)
    BY <1>1, <2>1, <2>2 DEF StateOK, JInv, Backed
  <2>4. Fresh'
    BY <2>1, <2>2 DEF Fresh
  <2> QED BY <1>1, <2>1, <2>3, <2>4, StartOthers
<1>8. CASE StartFlushMeta \/ StartWriteMeta \/ truncate_log
  <2>1. /\ phase' \in {"write", "truncate", "up"} /\ ins' = ins /\ hurt' = hurt /\ ihs' = ihs /\ ifile' = ifile
        /\ tfile' = tfile /\ fhs' = fhs
    BY <1>8 DEF StartFlushMeta, StartWriteMeta, truncate_log, mem
  <2>2. \A x \in Table \X Index : ihs'[x] = ihs[x] /\ (ihs[x] # NoIndex => ifile'[x] = Ready)
    BY <2>1 DEF JInv, Backed
  <2>3. Fresh'
    BY <2>1 DEF Fresh
  <2> QED BY <1>1, <2>1, <2>2, <2>3, StartOthers
<1>9. CASE RebuildFill
  <2>1. CASE ~StartFails
    <3>1. phase = "header" /\ todo # <<>>
      BY <1>1, <1>9 DEF RebuildFill, Shape
    <3>2. PICK h \in Table \X Index : h = Head(todo)
      BY <3>1, HeadThere
    <3>3. PICK rows : rows = tfile[h[1]]
      OBVIOUS
    <3>4. /\ ifile' = [ifile EXCEPT ![h] = Ready] /\ ihs' = [ihs EXCEPT ![h] = Entries(rows)] /\ phase' = "destroy"
          /\ tfile' = tfile /\ fhs' = fhs /\ hurt' = hurt /\ ins' = ins /\ \A q, r \in Rows(rows) : rows[q] = rows[r] => q = r
      BY <1>9, <2>1, <3>2, <3>3 DEF RebuildFill
    <3>5. /\ ihs'[h] = Entries(rows) /\ ifile'[h] = Ready
          /\ \A x \in Table \X Index : x # h => ihs'[x] = ihs[x] /\ ifile'[x] = ifile[x]
      BY <1>1, <3>4 DEF StateOK
    <3>6. ASSUME NEW e \in Entries(rows), NEW f \in Entries(rows), e[1] = f[1] PROVE e = f
      <4>1. /\ e \in Key \X Row /\ f \in Key \X Row /\ rows[e[2]] = e[1] /\ rows[f[2]] = f[1]
        BY DEF Entries, Entry
      <4>2. e[2] \in Rows(rows) /\ f[2] \in Rows(rows)
        BY <4>1, Marks DEF Rows
      <4>3. e[2] = f[2]
        BY <3>4, <3>6, <4>1, <4>2
      <4> QED BY <3>6, <4>1, <4>3
    <3>7. Keyed' /\ Backed'
      <4>1. Keyed'
        BY <3>5, <3>6 DEF JInv, Keyed
      <4>2. Backed'
        BY <3>5 DEF JInv, Backed
      <4> QED BY <4>1, <4>2
    <3>8. Only'
      <4> SUFFICES ASSUME Free({Stray}), NEW x \in Table \X Index, x[1] \in fhs, ihs'[x] # NoIndex, NEW e \in ihs'[x]
                   PROVE  e \in Entries(tfile[x[1]])
        BY <3>4 DEF Only, Free, Entries
      <4>1. CASE x = h
        BY <3>3, <3>5, <4>1
      <4>2. CASE x # h
        BY <1>1, <3>5, <4>2 DEF JInv, Only, Hanging
      <4> QED BY <4>1, <4>2
    <3> QED BY <1>1, <3>4, <3>7, <3>8 DEF JInv, Fresh, Working, Made, Inserts
  <2> QED BY <1>2, <2>1
<1> QED BY <1>4, <1>5, <1>6, <1>7, <1>8, <1>9 DEF StartStep

LEMMA InitJInv == Init => JInv
<1> SUFFICES ASSUME Init PROVE JInv
  OBVIOUS
<1>1. ins = NoInsert /\ phase = "stopped" /\ \A x \in Table \X Index : ihs[x] = NoIndex
  BY DEF Init, NoHandles
<1> QED BY <1>1 DEF JInv, Keyed, Backed, Fresh, Working, Only, Made, Inserts

LEMMA NextKeeps2 == ASSUME IInv, JInv, [Next]_vars PROVE JInv'
<1>1. ASSUME NEW t \in Table, NEW i \in Index, BeginDdl(t, i) PROVE JInv'
  <2>1. phase = "up" /\ ddl = NoDdl /\ phase' = phase /\ UNCHANGED <<files, mem, ins, hurt>>
    BY <1>1 DEF BeginDdl, Issue
  <2> QED BY <2>1, DdlCalm DEF Stage, files, mem
<1>2. ASSUME NEW t \in Table, NEW k \in Key, InsertBuild(t, k) PROVE JInv'
  BY <1>2, InsertBuildKeeps2
<1>3. CASE InsertStep
  BY <1>3, InsertMovesKeep, InsertEntryKeeps2, InsertCommitKeeps2, InsertUndoKeeps2 DEF InsertStep
<1>4. CASE DdlStep
  BY <1>4, TableKeeps2, DropTableFileKeeps2, IndexKeeps2, CreateIndexFillKeeps2 DEF DdlStep
<1>5. CASE StartStep
  BY <1>5, StartStepKeeps2
<1>6. CASE Crash
  BY <1>6, DiesKeep DEF Crash
<1>7. CASE close_db
  <2>1. End("stopped") /\ "stopped" \in Down
    BY <1>7 DEF close_db, Down
  <2> QED BY <2>1, EndsKeep
<1>8. CASE UNCHANGED vars
  <2>1. /\ ins' = ins /\ phase' = phase /\ hurt' = hurt /\ fhs' = fhs /\ tfile' = tfile /\ ihs' = ihs /\ ifile' = ifile
        /\ todo' = todo /\ ddl' = ddl
    BY <1>8 DEF vars, files, mem
  <2>2. \A x \in Table \X Index : ihs'[x] = ihs[x] /\ (ihs[x] # NoIndex => ifile'[x] = Ready)
    BY <2>1 DEF JInv, Backed
  <2>3. Fresh' /\ \A x, r : Ahead(x, r) => Ahead(x, r)'
    BY <2>1 DEF JInv, Fresh, Ahead, X
  <2> QED BY <2>1, <2>2, <2>3, OthersKeep
<1> QED BY <1>1, <1>2, <1>3, <1>4, <1>5, <1>6, <1>7, <1>8 DEF Next

LEMMA Inductive == Spec => [](IInv /\ JInv)
<1>1. Init => IInv /\ JInv
  BY InitIInv, InitJInv
<1>2. IInv /\ JInv /\ [Next]_vars => IInv' /\ JInv'
  BY NextKeeps, NextKeeps2
<1> QED BY <1>1, <1>2, PTL DEF Spec

-----------------------------------------------------------------------------
(* For any tables, indexes, rows, statements and starts, with INSERTs of   *)
(* another session between the steps: between two DDL statements the       *)
(* catalog in memory, db.meta, the open files and the files on disk agree  *)
(* with the answers of create_table, drop_table, create_index and          *)
(* drop_index, unless a crash tore db.meta, a CREATE INDEX failed half-way *)
(* or an INSERT outlived its table.                                        *)
THEOREM FilesExactAlways == Spec => []FilesExact
<1>1. ASSUME IInv, JInv PROVE FilesExact
  <2>1. TypeOK
    BY <1>1 DEF IInv, JInv, TypeOK
  <2> SUFFICES ASSUME phase = "up", ddl = NoDdl, hurt \cap (Tearing \cup {Refused, Partial, Dangling}) = {}
               PROVE  CatalogExact
    BY <2>1 DEF FilesExact, CatalogExact
  <2>2. Free(Tearing) /\ Free(Half) /\ Free(Tearing \cup Half) /\ Free({Refused})
    BY DEF Free, Half
  <2>3. meta = db
    BY <1>1, <2>2 DEF IInv, Listed, Quiet, Down
  <2>4. Tables(db) = Tables(want) /\ fhs = Tables(db)
    BY <1>1, <2>2 DEF IInv, Matched, Named, Opened, Stage, Down
  <2>5. Indexes(db) = Wanted
    BY <1>1, <2>2 DEF IInv, Listed, Indexed, Stage, Down
  <2>6. \A x \in Table \X Index : ihs[x] # NoIndex <=> x \in Indexes(db)
    BY <1>1, <2>2 DEF IInv, Opened, Handled, Busy, Stage
  <2>7. ASSUME hurt \cap Orphans = {}
        PROVE  /\ \A t \in Table : tfile[t] # Absent <=> t \in Tables(db)
               /\ \A x \in Table \X Index : ifile[x] # Absent <=> x \in Indexes(db)
    <3>1. Free(Tearing \cup Half \cup Orphans)
      BY <2>2, <2>7 DEF Free
    <3>2. \A t \in Table : tfile[t] # Absent <=> t \in Tables(db)
      BY <1>1, <2>4, <3>1, Marks DEF IInv, Claimed, Opened, Stage
    <3>3. \A x \in Table \X Index : x \in Indexes(db) => ifile[x] = Ready
      BY <1>1, <2>6 DEF JInv, Backed
    <3>4. \A x \in Table \X Index : ifile[x] # Absent <=> x \in Indexes(db)
      BY <1>1, <2>5, <3>1, <3>3, Marks DEF IInv, Claimed, Stage
    <3> QED BY <3>2, <3>4
  <2> QED BY <2>3, <2>4, <2>5, <2>6, <2>7 DEF CatalogExact, Wanted
<1> QED BY <1>1, Inductive, PTL

(* A start of the server fails (main: open_db, redo, rebuild_indexes) only *)
(* after a crash that left a gap or tore db.meta, a CREATE INDEX that      *)
(* failed, an INSERT or DROP TABLE whose records redo cannot place, or an  *)
(* INSERT that worked with a copy of the catalog older than an index and   *)
(* committed a row the index had not checked.                              *)
THEOREM OpensAgainAlways == Spec => []OpensAgain
<1>1. ASSUME IInv PROVE OpensAgain
  BY <1>1 DEF IInv, Present, Free, Hard, Skew, OpensAgain
<1> QED BY <1>1, Inductive, PTL

(* Whatever the crashes, redo and rebuild_indexes, a served table has      *)
(* exactly the rows that were committed.                                   *)
THEOREM RowsKeptAlways == Spec => []RowsKept
<1>1. ASSUME IInv PROVE RowsKept
  <2> SUFFICES ASSUME phase = "up", hurt \cap (Tearing \cup {Logged, Dangling}) = {}, NEW t \in Table,
                      want[t] # NoTable, ddl # NoDdl => ddl.op # "drop_table" \/ ddl.tab # t
               PROVE  tfile[t] = want[t].rows
    BY DEF RowsKept
  <2>1. Free(Tearing \cup {Logged}) /\ t \in Tables(want) /\ phase \notin Down
    BY DEF Free, Tables, Down
  <2> QED BY <1>1, <2>1 DEF IInv, Kept, Stage, T
<1> QED BY <1>1, Inductive, PTL

(* An index the planner may use has an entry for each committed row of its *)
(* table and none besides but that of the INSERT at work: whatever steps   *)
(* of InsertExecutor and of abort fall between those of create_index, and  *)
(* after every rebuild_indexes, unless the executor's copy of the catalog  *)
(* missed the index or the scan read a row that was being taken back.      *)
THEOREM IndexCompleteAlways == Spec => []IndexComplete
<1>1. ASSUME IInv, JInv PROVE IndexComplete
  <2> SUFFICES ASSUME phase = "up", hurt \cap {Refused, Partial, Missed, Stray, Dangling} = {}, NEW x \in Indexes(db),
                      ddl = NoDdl \/ ddl.tab # x[1] \/ (ddl.op \in {"create_index", "drop_index"} /\ ddl.ix # x[2])
               PROVE  Entries(tfile[x[1]]) \subseteq ihs[x] /\ ihs[x] \subseteq Entries(Shown(x[1]))
    BY DEF IndexComplete
  <2>1. Free(Skew) /\ Free({Stray})
    BY DEF Free, Skew
  <2>2. ddl # NoDdl /\ x = X => x[1] = ddl.tab /\ x[2] = ddl.ix
    BY DEF X
  <2>3. ~Busy(x) /\ ~(Stage("create_index", {"fill"}) /\ x = X)
    BY <2>2 DEF Busy, Stage, T
  <2>4. Entries(tfile[x[1]]) \subseteq ihs[x] /\ ihs[x] # NoIndex
    BY <1>1, <2>1, <2>3 DEF IInv, Complete, Settled
  <2>5. x \in Table \X Index /\ x[1] \in fhs
    <3>1. x \in Table \X Index /\ x[1] \in Tables(db)
      BY DEF Indexes, Tables
    <3> QED BY <1>1, <3>1 DEF IInv, Opened, Stage, T
  <2>6. ASSUME NEW e \in ihs[x] PROVE e \in Entries(Shown(x[1]))
    <3>1. e \in Entries(tfile[x[1]]) \/ (Hanging(x[1]) /\ e = Pending)
      BY <1>1, <2>1, <2>4, <2>5 DEF JInv, Only
    <3>2. Hanging(x[1]) => Written(x[1])
      BY DEF Hanging, Written
    <3> QED BY <1>1, <2>5, <3>1, <3>2, ShownIs
  <2> QED BY <2>4, <2>6
<1> QED BY <1>1, Inductive, PTL

(* The server terminates on a statement only while a DDL statement stands  *)
(* between the catalog and the open files of its table, after a            *)
(* CREATE INDEX failed, or when InsertExecutor's copy of the catalog names *)
(* an index or its table has been dropped since: fhs_.at and ihs_.at find  *)
(* what they look up at every other moment.                                *)
THEOREM SurvivesDdlAlways == Spec => SurvivesDdl
<1>1. ASSUME IInv, JInv, Next, phase' = "terminated", phase # "terminated", hurt \cap {Refused, Dangling} = {}
      PROVE  Step \in Exposed \/ Outdated
  <2>1. Free({Refused})
    BY <1>1 DEF Free
  <2>2. ddl # NoDdl => Step = <<ddl.op, ddl.at>>
    BY DEF Step
  <2>3. ASSUME phase = "up", NEW x \in Indexes(db), ihs[x] = NoIndex PROVE Step \in Exposed
    <3>1. Busy(x)
      BY <1>1, <2>1, <2>3 DEF IInv, Handled
    <3> QED BY <2>2, <3>1 DEF Busy, Stage, Exposed
  <2>4. CASE \E t \in Table : \E k \in Key : InsertBuild(t, k)
    <3>1. PICK t \in Table, k \in Key : InsertBuild(t, k)
      BY <2>4
    <3>2. phase = "up" /\ db[t] # NoTable /\ t \in Tables(db) /\ t \notin fhs
      BY <1>1, <3>1 DEF InsertBuild, Tables
    <3>3. Stage("create_table", {"open"}) \/ Stage("drop_table", {"index", "tabs"})
      BY <1>1, <3>2 DEF IInv, Opened
    <3> QED BY <2>2, <3>3 DEF Stage, Exposed
  <2>5. CASE InsertEntry
    <3>1. /\ Inserts("entries") /\ ins \in Inserting /\ ins.pos <= Len(ins.ix) /\ phase = "up" /\ ins.at = "entries"
      BY <1>1, <2>5 DEF InsertEntry, Inserts, JInv, Working
    <3> DEFINE x == <<ins.tab, ins.ix[ins.pos]>>
    <3>2. x[1] = ins.tab /\ x[2] = ins.ix[ins.pos]
      OBVIOUS
    <3>3. ihs[x] = NoIndex
      BY <1>1, <2>5, <3>2 DEF InsertEntry
    <3>4. CASE ~Contains(db[ins.tab], ins.ix[ins.pos])
      BY <3>1, <3>4 DEF Outdated
    <3>5. CASE Contains(db[ins.tab], ins.ix[ins.pos])
      <4>1. ins.tab \in Table /\ ins.tab \in Tables(db)
        <5>1. ins.tab \in fhs /\ ins.tab \in Table
          BY <1>1, <3>1, PendingIs DEF Inserts
        <5> QED BY <1>1, <5>1 DEF IInv, Opened
      <4>2. x[2] \in Index
        <5>1. db[ins.tab] \in Seq(Index)
          BY <1>1, <4>1, Cats DEF IInv, StateOK, List, Tables
        <5> QED BY <3>2, <3>5, <5>1 DEF Contains
      <4>3. x \in Indexes(db)
        BY <3>2, <3>5, <4>1, <4>2 DEF Indexes, Tables
      <4> QED BY <2>3, <3>1, <3>3, <4>3
    <3> QED BY <3>4, <3>5
  <2>6. CASE InsertUndo
    <3>1. phase = "up" /\ ins # NoInsert /\ ins.at = "undo"
      BY <1>1, <2>6 DEF InsertUndo, Inserts, JInv, Working
    <3>2. PICK i \in Range(db[ins.tab]) : ihs[<<ins.tab, i>>] = NoIndex
      BY <1>1, <2>6 DEF InsertUndo
    <3>3. ins.tab \in Table /\ ins.tab \in Tables(db)
      <4>1. ins.tab \in fhs /\ ins.tab \in Table
        BY <1>1, <3>1, PendingIs
      <4> QED BY <1>1, <4>1 DEF IInv, Opened
    <3>4. db[ins.tab] \in Seq(Index)
      BY <1>1, <3>3, Cats DEF IInv, StateOK, List, Tables
    <3>5. i \in Index /\ Contains(db[ins.tab], i)
      BY <3>4 DEF Range, Contains
    <3>6. <<ins.tab, i>> \in Indexes(db)
      BY <3>3, <3>5 DEF Indexes, Tables
    <3> QED BY <2>3, <3>1, <3>2, <3>6
  <2>7. CASE InsertLost
    BY <2>7 DEF InsertLost, Outdated
  <2>8. CASE DropTableIndex
    BY <2>2, <2>8 DEF DropTableIndex, At, Exposed
  <2>9. CASE DropIndexFile
    <3>1. At("drop_index", "file") /\ (ihs[X] = NoIndex \/ phase' = "up")
      BY <2>9 DEF DropIndexFile, Then, At
    <3>2. X \in Indexes(db) /\ phase = "up"
      BY <1>1, <3>1 DEF IInv, Staged, DroppingIndex, Stage, At
    <3> QED BY <1>1, <2>3, <3>1, <3>2
  <2>10. CASE \/ \E t \in Table : \E i \in Index : BeginDdl(t, i)
              \/ InsertCheck \/ InsertWrite \/ InsertCommit \/ InsertDelete
    <3>1. phase' = phase
      BY <2>10 DEF BeginDdl, Issue, InsertCheck, InsertWrite, InsertCommit, InsertDelete
    <3> QED BY <1>1, <3>1
  <2>11. CASE \/ CreateTableFile \/ CreateTableHeader \/ CreateTableMeta \/ CreateTableOpen
              \/ DropTableFile \/ DropTableMeta
              \/ CreateIndexMeta \/ CreateIndexFile \/ CreateIndexHeader \/ CreateIndexOpen \/ CreateIndexFill
              \/ DropIndexMeta \/ FlushMeta \/ EndDdl
    <3>1. phase' = phase
      BY <2>11 DEF CreateTableFile, CreateTableHeader, CreateTableMeta, CreateTableOpen, DropTableFile, DropTableMeta,
                   CreateIndexMeta, CreateIndexFile, CreateIndexHeader, CreateIndexOpen, CreateIndexFill, DropIndexMeta,
                   FlushMeta, EndDdl, Then, Fail
    <3> QED BY <1>1, <3>1
  <2>12. CASE StartStep \/ Crash \/ close_db
    <3>1. phase' # "terminated"
      BY <2>12 DEF StartStep, Start, open_db, StartFails, End, Redo, RebuildDestroy, RebuildCreate, RebuildFill,
                   StartFlushMeta, StartWriteMeta, truncate_log, Crash, Die, close_db
    <3> QED BY <1>1, <3>1
  <2> QED BY <1>1, <2>4, <2>5, <2>6, <2>7, <2>8, <2>9, <2>10, <2>11, <2>12 DEF Next, DdlStep, InsertStep
<1>2. ASSUME IInv, JInv, [Next]_vars
      PROVE  [phase' = "terminated" => \/ phase = "terminated" \/ Step \in Exposed \/ Outdated
                                       \/ hurt \cap {Refused, Dangling} # {}]_vars
  BY <1>1, <1>2
<1>3. Spec => [][Next]_vars
  BY PTL DEF Spec
<1> QED BY <1>2, <1>3, Inductive, PTL DEF SurvivesDdl
=============================================================================
