------------------------------- MODULE Catalog -------------------------------
(***************************************************************************)
(* The catalog and its files: CREATE and DROP of tables and indexes        *)
(* (system/sm_manager.cpp, with rm_manager.h, ix_manager.h and the file    *)
(* calls of disk_manager.cpp), a crash at any of their steps, and the      *)
(* start-up of main in rmdb.cpp: open_db, redo, rebuild_indexes,           *)
(* flush_meta, truncate_log.                                               *)
(*                                                                         *)
(* One session runs DDL, one step per change of a file or of the catalog.  *)
(* Another runs INSERTs, from the executor's copy of the catalog to the    *)
(* commit.  DDL takes no lock, so the steps of the two fall between each   *)
(* other.  tfile has the committed rows: what a crash leaves of the others *)
(* is in Recovery, what two INSERTs do to each other in Transactions.      *)
(***************************************************************************)
EXTENDS Naturals, Sequences, SequencesExt, FiniteSets, FiniteSetsExt

CONSTANTS
  Table, Index,    \* names of tables and, on each of them, of indexes
  Wide,            \* the indexes longer than IX_MAX_COL_LEN
  Key, NoKey,      \* a row, which is also its index key; a free slot
  Slots,           \* bound: slots of a table
  NoTable, Absent, Blank, Ready, Torn, NoDdl, NoInsert, NoIndex,
  MaxDdl, MaxStarts, MaxLog   \* bounds: DDL statements, starts of the server, log records

Row == 1..Slots
Entry == Key \X Row
RowFile == [Row -> Key \cup {NoKey}]
Promise == [rows: RowFile, ix: SUBSET Index]
Ddl == [op: {"create_table", "drop_table", "create_index", "drop_index"}, tab: Table, ix: Index \cup {NoIndex},
        at: {"file", "header", "tabs", "open", "index", "push", "fill", "indexes", "flush", "write"}, pos: Nat]
Inserting == [tab: Table, key: Key, ix: Seq(Index), at: {"check", "write", "entries", "undo", "delete", "lost"},
              pos: Nat]

ASSUME CatalogConstants ==
  /\ {Slots, MaxDdl, MaxStarts, MaxLog} \subseteq Nat
  /\ IsFiniteSet(Table) /\ IsFiniteSet(Index)
  /\ Wide \subseteq Index /\ NoKey \notin Key
  /\ Absent # Blank /\ Ready \notin {Absent, Blank} /\ {Absent, Blank} \cap RowFile = {}
  /\ NoTable \notin Seq(Index) \cup Promise /\ \A S \in SUBSET Entry : S # NoIndex
  /\ Torn \notin [Table -> Seq(Index) \cup {NoTable}] /\ NoDdl \notin Ddl
  /\ NoInsert \notin Inserting

VARIABLES
  meta,     \* db.meta: the indexes of every table, or Torn between truncation and writing
  tfile,    \* table files: Absent, Blank (no header yet), or the slots
  ifile,    \* index files: Absent, Blank or Ready; their content is rebuilt at every start
  log,      \* the log file
  db,       \* SmManager::db_
  fhs, ihs, \* SmManager::fhs_, ihs_: open tables, the entries of open indexes
  phase,    \* where the process is
  ddl,      \* the DDL statement being executed, and its next step
  ins,      \* the INSERT being executed: its copy of the table's indexes, and its next step
  todo,     \* start-up: indexes still to be rebuilt
  count,    \* DDL statements and starts so far
  want,     \* history: the tables, rows and indexes the answers promise
  hurt      \* history: the steps a crash has hit, and statements that leave damage

files == <<meta, tfile, ifile, log>>
mem == <<db, fhs, ihs>>
vars == <<files, mem, phase, ddl, ins, todo, count, want, hurt>>

NoRows == [r \in Row |-> NoKey]
Entries(rows) == {e \in Entry : rows[e[2]] = e[1]}
Rows(rows) == {r \in Row : rows[r] # NoKey}
NoCatalog == [t \in Table |-> NoTable]
Tables(cat) == {t \in Table : cat[t] # NoTable}
Indexes(cat) == {x \in Table \X Index : cat[x[1]] # NoTable /\ Contains(cat[x[1]], x[2])}
NoHandles == [x \in Table \X Index |-> NoIndex]

Init ==
  /\ meta = NoCatalog /\ log = <<>>
  /\ tfile = [t \in Table |-> Absent] /\ ifile = [x \in Table \X Index |-> Absent]
  /\ db = NoCatalog /\ fhs = {} /\ ihs = NoHandles
  /\ phase = "stopped" /\ ddl = NoDdl /\ ins = NoInsert /\ todo = <<>>
  /\ count = [ddl |-> 0, starts |-> 0]
  /\ want = NoCatalog /\ hurt = {}

-----------------------------------------------------------------------------
(* The process ends: killed ("stopped"), on an exception nobody catches or *)
(* a null pointer ("terminated"), or because start-up fails ("failed").    *)
End(how) ==
  /\ phase' = how /\ ddl' = NoDdl /\ ins' = NoInsert /\ todo' = <<>>
  /\ db' = NoCatalog /\ fhs' = {} /\ ihs' = NoHandles
  /\ UNCHANGED <<count, want>>

(* History: the step a crash hit.  Gaps: a file is gone that the catalog   *)
(* on disk still names.  Orphans: a file is there that it does not name    *)
(* yet.  Tearing: the catalog itself is half written.  And events without  *)
(* a crash: CREATE INDEX fails before or after the index is open; the log  *)
(* has records of a table that is dropped or not yet in db.meta; an INSERT *)
(* commits a row that a new index does not have (Missed), or takes a row   *)
(* back whose entry a new index keeps (Stray), or goes on with the table   *)
(* dropped (Dangling).                                                     *)
Gaps == {<<"drop_table", "index">>, <<"drop_table", "tabs">>, <<"drop_table", "flush">>,
         <<"drop_index", "indexes">>, <<"drop_index", "flush">>,
         <<"start", "create">>, <<"start", "header">>}
Orphans == {"create_table", "create_index"} \X {"header", "tabs", "open", "fill", "flush"}
Tearing == {"create_table", "drop_table", "create_index", "drop_index", "start"} \X {"write"}
Refused == <<"create_index", "refused">>
Partial == <<"create_index", "partial">>
Logged == <<"table", "logged">>
Missed == <<"insert", "missed">>
Stray == <<"insert", "stray">>
Dangling == <<"insert", "dangling">>
Step == IF ddl # NoDdl THEN <<ddl.op, ddl.at>> ELSE <<"start", phase>>
Note(event) == hurt' = hurt \cup ({event} \cap (Gaps \cup Orphans \cup Tearing))

Die(how) == End(how) /\ Note(Step) /\ UNCHANGED files

Crash ==
  /\ phase \notin {"stopped", "terminated", "failed"}
  /\ Die("stopped")

(* Ctrl+C: close_db writes the catalog and closes the files; the log stays.*)
close_db ==
  /\ phase = "up" /\ ddl = NoDdl
  /\ meta' = db
  /\ End("stopped")
  /\ UNCHANGED <<tfile, ifile, log, hurt>>

-----------------------------------------------------------------------------
(* DDL.  at is the step to run next.                                       *)

Issue(op, t, i, first) ==
  /\ phase = "up" /\ ddl = NoDdl /\ count.ddl < MaxDdl
  /\ ddl' = [op |-> op, tab |-> t, ix |-> i, at |-> first, pos |-> 1]
  /\ count' = [count EXCEPT !.ddl = @ + 1]
  /\ UNCHANGED <<files, mem, phase, ins, todo, want, hurt>>

(* The checks at the beginning of the statements.  A statement that fails  *)
(* them leaves everything as it is.                                        *)
BeginDdl(t, i) ==
  \/ db[t] = NoTable /\ Issue("create_table", t, NoIndex, "file")
  \/ /\ db[t] # NoTable
     /\ \/ Issue("drop_table", t, NoIndex, "file")
        \/ ~Contains(db[t], i) /\ Issue("create_index", t, i, "push")
        \/ Contains(db[t], i) /\ Issue("drop_index", t, i, "file")

At(op, step) == phase = "up" /\ ddl # NoDdl /\ ddl.op = op /\ ddl.at = step
Then(step) == ddl' = [ddl EXCEPT !.at = step] /\ UNCHANGED <<phase, ins, todo, count, want>>
T == ddl.tab
X == <<ddl.tab, ddl.ix>>

(* The statement ends with an RMDBError: nothing is taken back.            *)
Fail(damage) ==
  /\ ddl' = NoDdl /\ hurt' = hurt \cup damage
  /\ UNCHANGED <<phase, ins, todo, count, want>>

(* create_table: DiskManager::create_file, the header, the catalog entry,  *)
(* the open file.                                                          *)
CreateTableFile ==
  /\ At("create_table", "file")
  /\ IF tfile[T] = Absent THEN tfile' = [tfile EXCEPT ![T] = Blank] /\ Then("header") /\ UNCHANGED hurt
                          ELSE UNCHANGED tfile /\ Fail({})
  /\ UNCHANGED <<meta, ifile, log, mem>>

CreateTableHeader ==
  /\ At("create_table", "header")
  /\ tfile' = [tfile EXCEPT ![T] = NoRows]
  /\ Then("tabs")
  /\ UNCHANGED <<meta, ifile, log, mem, hurt>>

CreateTableMeta ==
  /\ At("create_table", "tabs")
  /\ db' = [db EXCEPT ![T] = <<>>]
  /\ Then("open")
  /\ UNCHANGED <<files, fhs, ihs, hurt>>

CreateTableOpen ==
  /\ At("create_table", "open")
  /\ fhs' = fhs \cup {T}
  /\ Then("flush")
  /\ UNCHANGED <<files, db, ihs, hurt>>

(* drop_table: the file goes first.  The log keeps the records of its rows,*)
(* and an INSERT at work keeps its pointer to the file handle.             *)
DropTableFile ==
  /\ At("drop_table", "file")
  /\ tfile' = [tfile EXCEPT ![T] = Absent]
  /\ fhs' = fhs \ {T}
  /\ ddl' = [ddl EXCEPT !.at = "index"]
  /\ ins' = IF ins # NoInsert /\ ins.tab = T THEN [ins EXCEPT !.at = "lost"] ELSE ins
  /\ hurt' = IF \E n \in DOMAIN log : log[n].tab = T THEN hurt \cup {Logged} ELSE hurt
  /\ UNCHANGED <<meta, ifile, log, db, ihs, phase, todo, count, want>>

(* Mutant: the indexes of the table are forgotten.                        *)
DropTableIndex_Forget ==
  /\ At("drop_table", "index")
  /\ Then("tabs")
  /\ UNCHANGED <<files, mem, hurt>>

(* Then its indexes, one after the other, each through its handle.         *)
DropTableIndex ==
  LET x == <<T, db[T][ddl.pos]>> IN
  /\ At("drop_table", "index")
  /\ \/ /\ ddl.pos > Len(db[T])
        /\ Then("tabs") /\ UNCHANGED <<files, mem, hurt>>
     \/ /\ ddl.pos <= Len(db[T]) /\ ihs[x] # NoIndex
        /\ ifile' = [ifile EXCEPT ![x] = Absent] /\ ihs' = [ihs EXCEPT ![x] = NoIndex]
        /\ ddl' = [ddl EXCEPT !.pos = @ + 1]
        /\ UNCHANGED <<meta, tfile, log, db, fhs, phase, ins, todo, count, want, hurt>>
     \/ /\ ddl.pos <= Len(db[T]) /\ ihs[x] = NoIndex
        /\ Die("terminated")

DropTableMeta ==
  /\ At("drop_table", "tabs")
  /\ db' = [db EXCEPT ![T] = NoTable]
  /\ Then("flush")
  /\ UNCHANGED <<files, fhs, ihs, hurt>>

(* create_index: the catalog entry is made before anything can fail.       *)
CreateIndexMeta ==
  /\ At("create_index", "push")
  /\ db' = [db EXCEPT ![T] = Append(@, ddl.ix)]
  /\ Then("file")
  /\ UNCHANGED <<files, fhs, ihs, hurt>>

CreateIndexFile ==
  /\ At("create_index", "file")
  /\ IF ifile[X] = Absent THEN ifile' = [ifile EXCEPT ![X] = Blank] /\ Then("header") /\ UNCHANGED hurt
                          ELSE UNCHANGED ifile /\ Fail({Refused})
  /\ UNCHANGED <<meta, tfile, log, mem>>

(* InvalidColLengthError leaves the empty file behind.                     *)
CreateIndexHeader ==
  /\ At("create_index", "header")
  /\ IF ddl.ix \in Wide THEN UNCHANGED ifile /\ Fail({Refused})
                        ELSE ifile' = [ifile EXCEPT ![X] = Ready] /\ Then("open") /\ UNCHANGED hurt
  /\ UNCHANGED <<meta, tfile, log, mem>>

CreateIndexOpen ==
  /\ At("create_index", "open")
  /\ ihs' = [ihs EXCEPT ![X] = {}]
  /\ Then("fill")
  /\ UNCHANGED <<files, db, fhs, hurt>>

(* RmScan::next: the next slot in use, or Slots + 1 at the end.            *)
NextRow(rows, r) == Min({q \in Rows(rows) : q >= r} \cup {Slots + 1})

(* The slot an INSERT takes; the table as a scan reads it, with the row    *)
(* of an INSERT that has not committed.                                    *)
FreeRow(t) == Min({q \in Row : tfile[t][q] = NoKey})
Written(t) == ins # NoInsert /\ ins.tab = t /\ ins.at \in {"entries", "undo", "delete"}
Shown(t) == IF Written(t) THEN [tfile[t] EXCEPT ![FreeRow(t)] = ins.key] ELSE tfile[t]

(* Mutant: a key that is there already is skipped, not refused.           *)
CreateIndexFill_Skip ==
  LET r == NextRow(Shown(T), ddl.pos) IN
  /\ At("create_index", "fill")
  /\ IF r > Slots
       THEN Then("flush") /\ UNCHANGED ihs
       ELSE /\ ihs' = [ihs EXCEPT ![X] = IF \E e \in @ : e[1] = Shown(T)[r] THEN @
                                         ELSE @ \cup {<<Shown(T)[r], r>>}]
            /\ ddl' = [ddl EXCEPT !.pos = r + 1]
            /\ UNCHANGED <<phase, ins, todo, count, want>>
  /\ UNCHANGED <<files, db, fhs, hurt>>

(* One row of the table at a time; insert_entry throws for a key that is   *)
(* there already.  The scan takes no lock: it also reads a row whose       *)
(* INSERT is being rolled back and has taken its entries out already.      *)
CreateIndexFill ==
  LET rows == Shown(T)
      r == NextRow(rows, ddl.pos)
  IN
  /\ At("create_index", "fill")
  /\ \/ /\ r > Slots
        /\ Then("flush") /\ UNCHANGED <<ihs, hurt>>
     \/ /\ r <= Slots /\ \E e \in ihs[X] : e[1] = rows[r]
        /\ Fail({Partial}) /\ UNCHANGED ihs
     \/ /\ r <= Slots /\ \A e \in ihs[X] : e[1] # rows[r]
        /\ ihs' = [ihs EXCEPT ![X] = @ \cup {<<rows[r], r>>}]
        /\ ddl' = [ddl EXCEPT !.pos = r + 1]
        /\ hurt' = IF Written(T) /\ ins.at = "delete" /\ r = FreeRow(T) THEN hurt \cup {Stray} ELSE hurt
        /\ UNCHANGED <<phase, ins, todo, count, want>>
  /\ UNCHANGED <<files, db, fhs>>

(* drop_index: ihs_.at() throws out_of_range for an index without handle.  *)
DropIndexFile ==
  /\ At("drop_index", "file")
  /\ \/ /\ ihs[X] # NoIndex
        /\ ifile' = [ifile EXCEPT ![X] = Absent] /\ ihs' = [ihs EXCEPT ![X] = NoIndex]
        /\ Then("indexes")
        /\ UNCHANGED <<meta, tfile, log, db, fhs, hurt>>
     \/ /\ ihs[X] = NoIndex
        /\ Die("terminated")

(* Mutant: the entry stays in the catalog.                                *)
DropIndexMeta_Forget ==
  /\ At("drop_index", "indexes")
  /\ Then("flush")
  /\ UNCHANGED <<files, mem, hurt>>

DropIndexMeta ==
  /\ At("drop_index", "indexes")
  /\ db' = [db EXCEPT ![T] = RemoveAt(@, Min({n \in DOMAIN @ : @[n] = ddl.ix}))]
  /\ Then("flush")
  /\ UNCHANGED <<files, fhs, ihs, hurt>>

(* flush_meta: ofstream empties the file, then operator<< fills it.        *)
FlushMeta ==
  /\ phase = "up" /\ ddl # NoDdl /\ ddl.at = "flush"
  /\ meta' = Torn
  /\ Then("write")
  /\ UNCHANGED <<tfile, ifile, log, mem, hurt>>

(* What the answer to a DDL statement promises.  A new table has the rows  *)
(* that were inserted since it entered the catalog.                        *)
Promised ==
  CASE ddl.op = "create_table" -> [rows |-> tfile[T], ix |-> {}]
    [] ddl.op = "drop_table" -> NoTable
    [] ddl.op = "create_index" -> [want[T] EXCEPT !.ix = @ \cup {ddl.ix}]
    [] ddl.op = "drop_index" -> [want[T] EXCEPT !.ix = @ \ {ddl.ix}]

EndDdl ==
  /\ phase = "up" /\ ddl # NoDdl /\ ddl.at = "write"
  /\ meta' = db
  /\ ddl' = NoDdl
  /\ want' = [want EXCEPT ![T] = Promised]
  /\ UNCHANGED <<tfile, ifile, log, mem, phase, ins, todo, count, hurt>>

-----------------------------------------------------------------------------
(* INSERT by another session.  at is the step to run next.                 *)

(* InsertExecutor copies the table's entry in the catalog and keeps a      *)
(* pointer to its file; fhs_.at() throws out_of_range if it is not open.   *)
InsertBuild(t, k) ==
  /\ phase = "up" /\ ins = NoInsert /\ db[t] # NoTable
  /\ \/ /\ t \in fhs /\ Len(log) < MaxLog
        /\ \E q \in Row : tfile[t][q] = NoKey
        /\ ins' = [tab |-> t, key |-> k, ix |-> db[t], at |-> "check", pos |-> 1]
        /\ UNCHANGED <<files, mem, phase, ddl, todo, count, want, hurt>>
     \/ /\ t \notin fhs
        /\ Die("terminated")

Inserts(step) == ins # NoInsert /\ ins.at = step
Onto(step) == ins' = [ins EXCEPT !.at = step]
Pending == <<ins.key, FreeRow(ins.tab)>>

(* One scan of the table for each index of the copy; a key that is there   *)
(* already refuses the row.                                                *)
InsertCheck ==
  /\ Inserts("check")
  /\ IF ins.ix # <<>> /\ \E q \in Row : tfile[ins.tab][q] = ins.key THEN ins' = NoInsert ELSE Onto("write")
  /\ UNCHANGED <<files, mem, phase, ddl, todo, count, want, hurt>>

InsertWrite ==
  /\ Inserts("write")
  /\ Onto("entries")
  /\ UNCHANGED <<files, mem, phase, ddl, todo, count, want, hurt>>

(* An entry for each index of the copy.  ihs_.at() throws out_of_range for *)
(* an index without handle, insert_entry an RMDBError for a key that is    *)
(* there already: the statement is rolled back.                            *)
InsertEntry ==
  LET x == <<ins.tab, ins.ix[ins.pos]>> IN
  /\ Inserts("entries") /\ ins.pos <= Len(ins.ix)
  /\ \/ /\ ihs[x] = NoIndex
        /\ Die("terminated")
     \/ /\ ihs[x] # NoIndex /\ \E e \in ihs[x] : e[1] = ins.key
        /\ Onto("undo")
        /\ UNCHANGED <<files, mem, phase, ddl, todo, count, want, hurt>>
     \/ /\ ihs[x] # NoIndex /\ \A e \in ihs[x] : e[1] # ins.key
        /\ ihs' = [ihs EXCEPT ![x] = @ \cup {Pending}]
        /\ ins' = [ins EXCEPT !.pos = @ + 1]
        /\ UNCHANGED <<files, db, fhs, phase, ddl, todo, count, want, hurt>>

(* CREATE INDEX on x has not come to slot r yet.                           *)
Ahead(x, r) == ddl # NoDdl /\ ddl.op = "create_index" /\ ddl.at = "fill" /\ x = X /\ ddl.pos <= r

InsertCommit ==
  LET t == ins.tab
      r == FreeRow(t)
      missed == \E i \in Range(db[t]) \ Range(ins.ix) :
                  ihs[<<t, i>>] # NoIndex /\ Pending \notin ihs[<<t, i>>] /\ ~Ahead(<<t, i>>, r)
  IN
  /\ Inserts("entries") /\ ins.pos > Len(ins.ix)
  /\ tfile' = [tfile EXCEPT ![t][r] = ins.key]
  /\ log' = Append(log, [tab |-> t, row |-> r, key |-> ins.key])
  /\ want' = IF want[t] = NoTable THEN want ELSE [want EXCEPT ![t].rows[r] = ins.key]
  /\ hurt' = hurt \cup (IF want[t] = NoTable THEN {Logged} ELSE {}) \cup (IF missed THEN {Missed} ELSE {})
  /\ ins' = NoInsert
  /\ UNCHANGED <<meta, ifile, mem, phase, ddl, todo, count>>

(* abort: the entries go first, from the indexes the catalog has now.      *)
InsertUndo ==
  LET t == ins.tab IN
  /\ Inserts("undo")
  /\ \/ /\ \E i \in Range(db[t]) : ihs[<<t, i>>] = NoIndex
        /\ Die("terminated")
     \/ /\ \A i \in Range(db[t]) : ihs[<<t, i>>] # NoIndex
        /\ ihs' = [x \in Table \X Index |-> IF x[1] = t /\ Contains(db[t], x[2])
                                            THEN {e \in ihs[x] : e[1] # ins.key} ELSE ihs[x]]
        /\ Onto("delete")
        /\ UNCHANGED <<files, db, fhs, phase, ddl, todo, count, want, hurt>>

InsertDelete ==
  /\ Inserts("delete")
  /\ ins' = NoInsert
  /\ UNCHANGED <<files, mem, phase, ddl, todo, count, want, hurt>>

(* With the table dropped, the executor's pointer to the file handle and   *)
(* the look-ups in fhs_ and ihs_ are undefined: the server ends, or the    *)
(* statement does; what it may write then is not followed.                 *)
InsertLost ==
  /\ Inserts("lost")
  /\ \/ Die("terminated")
     \/ /\ ins' = NoInsert /\ hurt' = hurt \cup {Dangling}
        /\ UNCHANGED <<files, mem, phase, ddl, todo, count, want>>

-----------------------------------------------------------------------------
(* Start-up.  An RMDBError ends in exit(1), any other exception in         *)
(* terminate; the same would happen at the next attempt.                   *)

StartFails == End("failed") /\ UNCHANGED <<files, hurt>>

(* open_db on catalog cat: every table file must open; of the indexes, the *)
(* files that exist.                                                       *)
Opens(cat) ==
  /\ \A t \in Tables(cat) : tfile[t] \notin {Absent, Blank}
  /\ \A x \in Indexes(cat) : ifile[x] # Blank

open_db(cat) ==
  /\ phase \in {"stopped", "terminated"} /\ count.starts < MaxStarts
  /\ IF Opens(cat)
       THEN /\ db' = cat /\ fhs' = Tables(cat)
            /\ ihs' = [x \in Table \X Index |-> IF x \in Indexes(cat) /\ ifile[x] = Ready THEN {} ELSE NoIndex]
            /\ phase' = "redo" /\ count' = [count EXCEPT !.starts = @ + 1]
            /\ UNCHANGED <<files, ddl, ins, todo, want, hurt>>
       ELSE StartFails

(* An empty db.meta leaves the number of tables uninitialised: no tables,  *)
(* or tables without a name, whose file does not exist.                    *)
Start ==
  \/ meta # Torn /\ open_db(meta)
  \/ meta = Torn /\ open_db(NoCatalog)
  \/ /\ meta = Torn /\ phase \in {"stopped", "terminated"} /\ count.starts < MaxStarts
     /\ StartFails

(* Mutant: the slot is off by one.                                        *)
Replayed_OffByOne(t) ==
  LET rows[n \in 0..Len(log)] ==
        IF n = 0 THEN tfile[t]
        ELSE IF log[n].tab = t THEN [rows[n - 1] EXCEPT ![(log[n].row % Slots) + 1] = log[n].key]
                               ELSE rows[n - 1]
  IN  rows[Len(log)]

(* The rows of t after the records of the log, one after the other.        *)
Replayed(t) ==
  LET rows[n \in 0..Len(log)] ==
        IF n = 0 THEN tfile[t]
        ELSE IF log[n].tab = t THEN [rows[n - 1] EXCEPT ![log[n].row] = log[n].key] ELSE rows[n - 1]
  IN  rows[Len(log)]

(* redo looks tables up by name with fhs_.at().                            *)
Redo ==
  /\ phase = "redo"
  /\ IF \A n \in DOMAIN log : log[n].tab \in fhs
       THEN /\ tfile' = [t \in Table |-> IF t \in fhs THEN Replayed(t) ELSE tfile[t]]
            /\ phase' = "destroy"
            /\ todo' = SetToSeq(Indexes(db))
            /\ UNCHANGED <<meta, ifile, log, mem, ddl, ins, count, want, hurt>>
       ELSE StartFails

(* rebuild_indexes: destroy the file, create it, fill it.                  *)
RebuildDestroy ==
  LET x == Head(todo) IN
  /\ phase = "destroy" /\ todo # <<>>
  /\ IF ifile[x] = Absent THEN StartFails
     ELSE /\ ihs' = [ihs EXCEPT ![x] = NoIndex] /\ ifile' = [ifile EXCEPT ![x] = Absent]
          /\ phase' = "create"
          /\ UNCHANGED <<meta, tfile, log, db, fhs, ddl, ins, todo, count, want, hurt>>

RebuildCreate ==
  /\ phase = "create"
  /\ ifile' = [ifile EXCEPT ![Head(todo)] = Blank]
  /\ phase' = "header"
  /\ UNCHANGED <<meta, tfile, log, mem, ddl, ins, todo, count, want, hurt>>

(* Mutant: the header of the new file is not written.                     *)
RebuildFill_NoHeader ==
  LET x == Head(todo) IN
  /\ phase = "header"
  /\ ihs' = [ihs EXCEPT ![x] = Entries(tfile[x[1]])]
  /\ phase' = "destroy" /\ todo' = Tail(todo)
  /\ UNCHANGED <<files, db, fhs, ddl, ins, count, want, hurt>>

(* Mutant: the loop does not move on to the next index.                   *)
RebuildFill_Again ==
  LET x == Head(todo) IN
  /\ phase = "header"
  /\ ifile' = [ifile EXCEPT ![x] = Ready] /\ ihs' = [ihs EXCEPT ![x] = Entries(tfile[x[1]])]
  /\ phase' = "destroy"
  /\ UNCHANGED <<meta, tfile, log, db, fhs, ddl, ins, todo, count, want, hurt>>

RebuildFill ==
  LET x == Head(todo)
      rows == tfile[x[1]]
  IN
  /\ phase = "header"
  /\ IF x[2] \in Wide \/ \E q, r \in Rows(rows) : q # r /\ rows[q] = rows[r]
       THEN StartFails
       ELSE /\ ifile' = [ifile EXCEPT ![x] = Ready] /\ ihs' = [ihs EXCEPT ![x] = Entries(rows)]
            /\ phase' = "destroy" /\ todo' = Tail(todo)
            /\ UNCHANGED <<meta, tfile, log, db, fhs, ddl, ins, count, want, hurt>>

(* main flushes the pages, then flush_meta and truncate_log.               *)
StartFlushMeta ==
  /\ phase = "destroy" /\ todo = <<>>
  /\ meta' = Torn
  /\ phase' = "write"
  /\ UNCHANGED <<tfile, ifile, log, mem, ddl, ins, todo, count, want, hurt>>

StartWriteMeta ==
  /\ phase = "write"
  /\ meta' = db
  /\ phase' = "truncate"
  /\ UNCHANGED <<tfile, ifile, log, mem, ddl, ins, todo, count, want, hurt>>

truncate_log ==
  /\ phase = "truncate"
  /\ log' = <<>>
  /\ phase' = "up"
  /\ UNCHANGED <<meta, tfile, ifile, mem, ddl, ins, todo, count, want, hurt>>

-----------------------------------------------------------------------------
DdlStep ==
  \/ CreateTableFile \/ CreateTableHeader \/ CreateTableMeta \/ CreateTableOpen
  \/ DropTableFile \/ DropTableIndex \/ DropTableMeta
  \/ CreateIndexMeta \/ CreateIndexFile \/ CreateIndexHeader \/ CreateIndexOpen \/ CreateIndexFill
  \/ DropIndexFile \/ DropIndexMeta
  \/ FlushMeta \/ EndDdl

StartStep ==
  \/ Start \/ Redo \/ RebuildDestroy \/ RebuildCreate \/ RebuildFill
  \/ StartFlushMeta \/ StartWriteMeta \/ truncate_log

InsertStep ==
  \/ InsertCheck \/ InsertWrite \/ InsertEntry \/ InsertCommit
  \/ InsertUndo \/ InsertDelete \/ InsertLost

Next ==
  \/ \E t \in Table : \/ \E i \in Index : BeginDdl(t, i)
                      \/ \E k \in Key : InsertBuild(t, k)
  \/ InsertStep \/ DdlStep \/ StartStep \/ Crash \/ close_db

(* A server that runs goes on with what it is doing, and one that stopped  *)
(* is started again.                                                       *)
Fairness == WF_vars(DdlStep) /\ WF_vars(StartStep)

Spec == Init /\ [][Next]_vars /\ Fairness

-----------------------------------------------------------------------------
Catalogs == [Table -> {NoTable} \cup {s \in Seq(Index) : IsInjective(s)}]

StateOK ==
  /\ meta \in Catalogs \cup {Torn} /\ db \in Catalogs
  /\ tfile \in [Table -> {Absent, Blank} \cup RowFile]
  /\ ifile \in [Table \X Index -> {Absent, Blank, Ready}]
  /\ log \in Seq([tab: Table, row: Row, key: Key])
  /\ fhs \subseteq Table
  /\ ihs \in [Table \X Index -> {NoIndex} \cup SUBSET Entry]
  /\ phase \in {"stopped", "terminated", "failed", "redo", "destroy", "create", "header", "write",
                "truncate", "up"}
  /\ ddl \in Ddl \cup {NoDdl} /\ todo \in Seq(Table \X Index)
  /\ count \in [ddl: Nat, starts: Nat]
  /\ want \in [Table -> {NoTable} \cup Promise]
  /\ hurt \subseteq Gaps \cup Orphans \cup Tearing \cup {Refused, Partial, Logged, Missed, Stray, Dangling}

TypeOK == StateOK /\ ins \in Inserting \cup {NoInsert}

(* The database opens again after a crash at any step of any statement or  *)
(* of start-up itself, except: a file was gone before the catalog said so; *)
(* db.meta was being written; a CREATE INDEX failed and left its entry in  *)
(* the catalog; the log has rows of a table that was dropped, or that was  *)
(* not yet in db.meta, which redo looks up with at(); or an INSERT worked  *)
(* with a copy of the catalog older than an index, and put in a row the    *)
(* index has not checked, or with a table that was dropped.                *)
OpensAgain ==
  phase = "failed" => hurt \cap (Gaps \cup Tearing \cup {Refused, Partial, Logged, Missed, Dangling}) # {}

(* No committed row is lost and none appears, whatever the crash, the      *)
(* rebuilding and the replaying of the log: redo repeats only what is      *)
(* there, unless the rows in the log belong to an earlier table of that    *)
(* name, an INSERT outlived its table, or db.meta was torn.                *)
RowsKept ==
  phase = "up" /\ hurt \cap (Tearing \cup {Logged, Dangling}) = {} =>
    \A t \in Table : (want[t] # NoTable /\ (ddl # NoDdl => ddl.op # "drop_table" \/ ddl.tab # t))
                       => tfile[t] = want[t].rows

(* Between statements the catalog in memory, the one on disk, the open     *)
(* files and the files on disk agree with each other and with the answers  *)
(* the clients have.  A failed CREATE INDEX spoils it; a crash in the      *)
(* middle of a CREATE leaves a file behind, which makes every later CREATE *)
(* of that name fail, and nothing else.                                    *)
CatalogExact ==
  phase = "up" /\ ddl = NoDdl /\ hurt \cap (Tearing \cup {Refused, Partial, Dangling}) = {} =>
    /\ meta = db
    /\ Tables(db) = Tables(want) /\ fhs = Tables(db)
    /\ Indexes(db) = {x \in Table \X Index : want[x[1]] # NoTable /\ x[2] \in want[x[1]].ix}
    /\ \A x \in Table \X Index : ihs[x] # NoIndex <=> x \in Indexes(db)
    /\ hurt \cap Orphans = {} =>
         /\ \A t \in Table : tfile[t] # Absent <=> t \in Tables(db)
         /\ \A x \in Table \X Index : ifile[x] # Absent <=> x \in Indexes(db)

(* The state is well-formed and CatalogExact.                              *)
FilesExact == TypeOK /\ CatalogExact

(* An index the planner can choose has an entry for each committed row of  *)
(* its table, and at most the one of the INSERT at work besides, also when *)
(* that INSERT meets CREATE INDEX: either the scan finds the row, or the   *)
(* INSERT makes the entry, or one of the two fails and takes its entries   *)
(* back.  Except where the INSERT's copy of the catalog was older than the *)
(* index and its row came after the scan (Missed), or where the scan read  *)
(* a row that was being taken back (Stray).                                *)
IndexComplete ==
  phase = "up" /\ hurt \cap {Refused, Partial, Missed, Stray, Dangling} = {} =>
    \A x \in Indexes(db) :
      ddl = NoDdl \/ ddl.tab # x[1] \/ (ddl.op \in {"create_index", "drop_index"} /\ ddl.ix # x[2])
        => Entries(tfile[x[1]]) \subseteq ihs[x] /\ ihs[x] \subseteq Entries(Shown(x[1]))

(* No statement ends the server, except one that meets DDL on its table    *)
(* between the change of the catalog and the change of the open files, an  *)
(* index whose CREATE failed before it was open, or an INSERT whose copy   *)
(* of the catalog names an index, or whose table is one, dropped since.    *)
Exposed == {<<"create_table", "open">>, <<"drop_table", "index">>, <<"drop_table", "tabs">>,
            <<"create_index", "file">>, <<"create_index", "header">>, <<"create_index", "open">>,
            <<"drop_index", "indexes">>}
Outdated ==
  \/ Inserts("lost")
  \/ Inserts("entries") /\ ins.pos <= Len(ins.ix) /\ ~Contains(db[ins.tab], ins.ix[ins.pos])
SurvivesDdl ==
  [][phase' = "terminated" => \/ phase = "terminated" \/ Step \in Exposed \/ Outdated
                              \/ hurt \cap {Refused, Dangling} # {}]_vars

(* A server that stopped while no damage was done serves again.            *)
ServesAgain ==
  (phase \in {"stopped", "terminated"} /\ hurt = {})
    ~> (phase = "up" \/ hurt # {} \/ count.starts = MaxStarts)
=============================================================================
