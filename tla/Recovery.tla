------------------------------ MODULE Recovery ------------------------------
(***************************************************************************)
(* Write-ahead logging, commit, rollback, crash and restart recovery.      *)
(*                                                                         *)
(* Sources: recovery/log_manager.cpp, recovery/log_recovery.cpp,           *)
(* transaction/transaction_manager.cpp, the DML executors and the start of *)
(* main() in rmdb.cpp.  The model has one table.  A row lives at a record  *)
(* id <<page, slot>>; mem is the table as the buffer pool shows it, disk   *)
(* what the data file holds, num_pages the file header in memory and       *)
(* disk_pages the header in the file.  Locks are what LockManager grants:  *)
(* tlock is a transaction's table lock, owner and readers the holders of   *)
(* the X and the S lock of a row.  Indexes are rebuilt from the table at   *)
(* every start and are left out, and so is the order of the free list: an  *)
(* insert takes the first free slot of some page that has one.             *)
(*                                                                         *)
(* Steps are as fine as other sessions, evictions and crashes can see:     *)
(* commit and abort are one action per call they make, an INSERT is one    *)
(* step up to its log record and one for the row (no latch covers both).   *)
(* SELECT changes no row and is left out.                                  *)
(***************************************************************************)
EXTENDS Naturals, Sequences, SequencesExt, FiniteSets

CONSTANTS
  Txn,            \* transaction ids; each is used once
  Value,          \* row contents
  Empty,          \* a free slot
  NoTxn,          \* owner of a row nobody has locked
  SlotsPerPage,   \* num_records_per_page
  LogBufferSize,  \* LOG_BUFFER_SIZE, in records
  CompositeIndex, \* the table has a multi-column index all of whose columns an UPDATE sets
  InitPages,      \* data pages the table has at the start
  MaxPages,       \* bound: data pages
  MaxOps,         \* bound: row changes
  MaxActive,      \* bound: sessions
  MaxAborts,      \* bound: ABORT statements (and statements that fail)
  MaxCrashes,     \* bound: crashes of the running server
  MaxRecrashes,   \* bound: crashes during recovery
  MaxEvictions    \* bound: evictions of a dirty page from the buffer pool

ASSUME RecoveryConstants ==
  /\ Empty \notin Value /\ NoTxn \notin Txn
  /\ CompositeIndex \in BOOLEAN
  /\ {SlotsPerPage, LogBufferSize, MaxPages} \subseteq Nat \ {0}
  /\ {MaxOps, MaxActive, MaxAborts, MaxCrashes, MaxRecrashes, MaxEvictions} \subseteq Nat
  /\ InitPages \in 0..MaxPages

VARIABLES
  mem, num_pages,     \* table and file header in memory
  disk, disk_pages,   \* table and file header on disk
  log_buffer,         \* LogManager::log_buffer_
  log_file,           \* the log file
  status,             \* where each transaction is
  write_set,          \* Transaction::write_set_
  pending,            \* an INSERT between its log record and its row
  tlock,              \* the table lock of each transaction
  owner,              \* holder of the X lock of each row
  readers,            \* holders of the S lock of each row
  phase,              \* the server: running, or a step of main() before start_server
  bound,              \* how many aborts, crashes and evictions have happened
  aside,              \* history: have transactions overlapped, or an UPDATE moved a row?
  hist,               \* history: the row changes made by statements, in order
  winners             \* history: transactions whose commit record reached the log file

vars == <<mem, num_pages, disk, disk_pages, log_buffer, log_file, status, write_set,
          pending, tlock, owner, readers, phase, bound, aside, hist, winners>>
table == <<mem, num_pages>>
file  == <<disk, disk_pages>>
log   == <<log_buffer, log_file, winners>>
locks == <<tlock, owner, readers>>

Rid == (1..MaxPages) \X (1..SlotsPerPage)
Row == Value \cup {Empty}

Live == {"active", "inserting", "aborting", "unlocked", "logged", "flushed", "paged",
         "rolledback", "abortlogged"}
Status == Live \cup {"unborn", "committed", "aborted", "lost"}
Phase == {"running", "down", "opened", "redone", "undone", "written", "exited"}

LiveTxns == {t \in Txn : status[t] \in Live}

NoInsert == <<>>

-----------------------------------------------------------------------------
(* Log records.                                                            *)

ControlRecord(type, t) == [type |-> type, txn |-> t]
DataRecord(type, t, rid, old, new) ==
  [type |-> type, txn |-> t, rid |-> rid, old |-> old, new |-> new]
IsData(r) == r.type \in {"INSERT", "DELETE", "UPDATE"}

Committed(records) == {t \in Txn : \E i \in DOMAIN records : records[i] = ControlRecord("commit", t)}

(* flush_log_to_disk appends the buffer to the log file.                   *)
Flushed == log_file \o log_buffer

flush_log_to_disk ==
  /\ log_file' = Flushed
  /\ log_buffer' = <<>>
  /\ winners' = winners \cup Committed(log_buffer)

(* add_log_to_buffer flushes first when the record does not fit.           *)
add_log_to_buffer(r) ==
  IF Len(log_buffer) >= LogBufferSize
    THEN /\ log_file' = Flushed
         /\ log_buffer' = <<r>>
         /\ winners' = winners \cup Committed(log_buffer)
    ELSE /\ log_buffer' = Append(log_buffer, r)
         /\ UNCHANGED <<log_file, winners>>

-----------------------------------------------------------------------------
Init ==
  /\ mem = [r \in Rid |-> Empty] /\ disk = mem
  /\ num_pages = InitPages /\ disk_pages = InitPages
  /\ log_buffer = <<>> /\ log_file = <<>>
  /\ status = [t \in Txn |-> "unborn"]
  /\ write_set = [t \in Txn |-> <<>>]
  /\ pending = [t \in Txn |-> NoInsert]
  /\ tlock = [t \in Txn |-> "none"]
  /\ owner = [r \in Rid |-> NoTxn] /\ readers = [r \in Rid |-> {}]
  /\ phase = "running"
  /\ bound = [aborts |-> 0, crashes |-> 0, recrashes |-> 0, evictions |-> 0]
  /\ aside = FALSE
  /\ hist = <<>> /\ winners = {}

Goto(t, s) == status' = [status EXCEPT ![t] = s]

begin(t) ==
  /\ phase = "running" /\ status[t] = "unborn" /\ Cardinality(LiveTxns) < MaxActive
  /\ Goto(t, "active")
  /\ add_log_to_buffer(ControlRecord("begin", t))
  /\ UNCHANGED <<table, file, write_set, pending, locks, phase, bound, hist>>

-----------------------------------------------------------------------------
(* Locks of the executors, no-wait.                                        *)

Others(t) == {tlock[u] : u \in Txn \ {t}}

(* lock_IX_on_table: against the group mode when t holds nothing.          *)
CanLockIX(t) == tlock[t] = "none" => Others(t) \subseteq {"none", "IX"}
WithIX(t) == IF tlock[t] = "none" THEN "IX" ELSE tlock[t]

(* The scan that finds the rows of an UPDATE or DELETE takes S on the      *)
(* table, then S on every row it reads: all rows (sequential scan) or the  *)
(* one it looks for (index scan).  lock() answers S with true and does     *)
(* nothing when t already holds IX.  The executor's IX makes it SIX.       *)
Visible == {r \in Rid : mem[r] # Empty}
ScanReads(rid) == {Visible, {rid}}
CanScan(t, seen) ==
  /\ tlock[t] = "none" => Others(t) \subseteq {"none"}
  /\ \A r \in seen : owner[r] \in {NoTxn, t}
Scanned(t, seen) ==
  /\ tlock' = [tlock EXCEPT ![t] = IF @ = "none" THEN "SIX" ELSE @]
  /\ readers' = [r \in Rid |-> IF r \in seen THEN readers[r] \cup {t} ELSE readers[r]]

(* Mutant: every X request is granted.                                    *)
CanLockX_Always(t, rid) == TRUE

(* lock_exclusive_on_record: a new lock, or the upgrade of t's own S.      *)
CanLockX(t, rid) == owner[rid] \in {NoTxn, t} /\ readers[rid] \subseteq {t}

-----------------------------------------------------------------------------
(* The DML executors.                                                      *)

(* A live session with nothing going on issues a statement.                *)
Idle(t) ==
  /\ phase = "running" /\ status[t] = "active"
  /\ Len(hist) + Cardinality({u \in Txn : status[u] = "inserting"}) < MaxOps

(* The change of a row goes into the history.                              *)
Changes(t, rid, new) == hist' = Append(hist, [txn |-> t, rid |-> rid, new |-> new])

(* The slots insert_record can pick: the first free slot of a page with    *)
(* free space, or slot 1 of a new page when there is none.                 *)
FreeRid ==
  LET free == {r \in Rid : r[1] <= num_pages /\ mem[r] = Empty}
  IN  IF free # {}
        THEN {r \in free : \A s \in free : s[1] = r[1] => r[2] <= s[2]}
        ELSE {r \in Rid : r = <<num_pages + 1, 1>>}

(* insert_record: a new page is zeroed and counted in the file header.     *)
insert_record(rid, v) ==
  /\ mem' = [mem EXCEPT ![rid] = v]
  /\ num_pages' = IF rid[1] > num_pages THEN rid[1] ELSE num_pages

(* The WriteRecord of a change; one of an UPDATE with old = Empty is that  *)
(* of a row it has inserted (has_new_rid).                                 *)
Remember(t, by, rid, old) ==
  write_set' = [write_set EXCEPT ![t] = Append(@, [by |-> by, rid |-> rid, old |-> old])]

(* InsertExecutor::Next up to the log record: IX, predict the slot, log.   *)
InsertLog(t, v) ==
  /\ Idle(t) /\ CanLockIX(t)
  /\ tlock' = [tlock EXCEPT ![t] = WithIX(t)]
  /\ \E rid \in FreeRid :
       /\ add_log_to_buffer(DataRecord("INSERT", t, rid, Empty, v))
       /\ pending' = [pending EXCEPT ![t] = [rid |-> rid, new |-> v, new_page |-> rid[1] > num_pages]]
  /\ Goto(t, "inserting")
  /\ UNCHANGED <<table, file, write_set, owner, readers, phase, bound, hist>>

(* The rest of InsertExecutor::Next.  The row goes to the predicted slot,  *)
(* or, when a new page was predicted, to wherever insert_record now finds  *)
(* room.  It is written first and locked afterwards: when the slot belongs *)
(* to another transaction the lock throws with the row in place and the    *)
(* write set not knowing about it.                                         *)
InsertWrite(t) ==
  /\ phase = "running" /\ status[t] = "inserting"
  /\ pending' = [pending EXCEPT ![t] = NoInsert]
  /\ \E rid \in IF pending[t].new_page THEN FreeRid ELSE {pending[t].rid} :
       /\ Changes(t, rid, pending[t].new)
       /\ insert_record(rid, pending[t].new)
       /\ IF CanLockX(t, rid)
            THEN /\ owner' = [owner EXCEPT ![rid] = t]
                 /\ Remember(t, "INSERT", rid, Empty)
                 /\ Goto(t, "active")
            ELSE /\ Goto(t, "aborting")
                 /\ UNCHANGED <<owner, write_set>>
  /\ UNCHANGED <<file, log, tlock, readers, phase, bound>>

(* DeleteExecutor::Next on one of the rows its scan found.                 *)
Delete(t) ==
  /\ Idle(t)
  /\ \E rid \in Visible :
       /\ \E seen \in ScanReads(rid) : CanScan(t, seen) /\ Scanned(t, seen)
       /\ CanLockX(t, rid)
       /\ owner' = [owner EXCEPT ![rid] = t]
       /\ add_log_to_buffer(DataRecord("DELETE", t, rid, mem[rid], Empty))
       /\ Remember(t, "DELETE", rid, mem[rid])
       /\ mem' = [mem EXCEPT ![rid] = Empty]
       /\ Changes(t, rid, Empty)
  /\ UNCHANGED <<num_pages, file, status, pending, phase, bound>>

(* UpdateExecutor::Next on one of the rows its scan found.  When every     *)
(* column of a composite index changes, the new row is inserted elsewhere  *)
(* and the old one stays, but the log record still says "rid: old to new". *)
Update(t, v) ==
  /\ Idle(t)
  /\ \E rid \in Visible :
       /\ \E seen \in ScanReads(rid) : CanScan(t, seen) /\ Scanned(t, seen)
       /\ CanLockX(t, rid)
       /\ owner' = [owner EXCEPT ![rid] = t]
       /\ add_log_to_buffer(DataRecord("UPDATE", t, rid, mem[rid], v))
       /\ \/ /\ ~CompositeIndex \/ mem[rid] = v
             /\ Remember(t, "UPDATE", rid, mem[rid])
             /\ mem' = [mem EXCEPT ![rid] = v]
             /\ Changes(t, rid, v)
             /\ UNCHANGED num_pages
          \/ /\ CompositeIndex /\ mem[rid] # v
             /\ \E new_rid \in FreeRid :
                  /\ Remember(t, "UPDATE", new_rid, Empty)
                  /\ insert_record(new_rid, v)
                  /\ Changes(t, new_rid, v)
  /\ UNCHANGED <<file, status, pending, phase, bound>>

(* lock() throws TransactionAbortException before anything is written.     *)
Refused(t) ==
  /\ phase = "running" /\ status[t] = "active"
  /\ \/ ~CanLockIX(t)
     \/ ~CanScan(t, Visible)
     \/ \E rid \in Visible : ~CanLockX(t, rid)
  /\ Goto(t, "aborting")
  /\ UNCHANGED <<table, file, log, write_set, pending, locks, phase, bound, hist>>

-----------------------------------------------------------------------------
(* TransactionManager::commit.                                             *)

ReleaseLocks(t) ==
  /\ tlock' = [tlock EXCEPT ![t] = "none"]
  /\ owner' = [r \in Rid |-> IF owner[r] = t THEN NoTxn ELSE owner[r]]
  /\ readers' = [r \in Rid |-> readers[r] \ {t}]

CommitReleaseLocks(t) ==
  /\ phase = "running" /\ status[t] = "active"
  /\ ReleaseLocks(t)
  /\ Goto(t, "unlocked")
  /\ UNCHANGED <<table, file, log, write_set, pending, phase, bound, hist>>

CommitLog(t) ==
  /\ phase = "running" /\ status[t] = "unlocked"
  /\ add_log_to_buffer(ControlRecord("commit", t))
  /\ Goto(t, "logged")
  /\ UNCHANGED <<table, file, write_set, pending, locks, phase, bound, hist>>

(* Mutant: commit does not flush the log.                                 *)
CommitFlushLog_Skip(t) ==
  /\ phase = "running" /\ status[t] = "logged"
  /\ Goto(t, "flushed")
  /\ UNCHANGED <<table, file, log, write_set, pending, locks, phase, bound, hist>>

CommitFlushLog(t) ==
  /\ phase = "running" /\ status[t] = "logged"
  /\ flush_log_to_disk
  /\ Goto(t, "flushed")
  /\ UNCHANGED <<table, file, write_set, pending, locks, phase, bound, hist>>

flush_all_pages == disk' = [r \in Rid |-> IF r[1] <= num_pages THEN mem[r] ELSE disk[r]]

CommitFlushPages(t) ==
  /\ phase = "running" /\ status[t] = "flushed"
  /\ flush_all_pages
  /\ Goto(t, "paged")
  /\ UNCHANGED <<table, disk_pages, log, write_set, pending, locks, phase, bound, hist>>

CommitWriteHeader(t) ==
  /\ phase = "running" /\ status[t] = "paged"
  /\ disk_pages' = num_pages
  /\ Goto(t, "committed")
  /\ UNCHANGED <<table, disk, log, write_set, pending, locks, phase, bound, hist>>

-----------------------------------------------------------------------------
(* TransactionManager::abort.                                              *)

AbortRequested(t) ==
  /\ phase = "running" /\ status[t] = "active" /\ bound.aborts < MaxAborts
  /\ bound' = [bound EXCEPT !.aborts = @ + 1]
  /\ Goto(t, "aborting")
  /\ UNCHANGED <<table, file, log, write_set, pending, locks, phase, hist>>

(* Undo the last entry of the write set: INSERT deletes the row, DELETE    *)
(* and UPDATE put the old one back.                                        *)
AbortUndo(t) ==
  /\ phase = "running" /\ status[t] = "aborting" /\ write_set[t] # <<>>
  /\ LET wr == Last(write_set[t]) IN mem' = [mem EXCEPT ![wr.rid] = wr.old]
  /\ write_set' = [write_set EXCEPT ![t] = Front(@)]
  /\ UNCHANGED <<num_pages, file, log, status, pending, locks, phase, bound, hist>>

AbortReleaseLocks(t) ==
  /\ phase = "running" /\ status[t] = "aborting" /\ write_set[t] = <<>>
  /\ ReleaseLocks(t)
  /\ Goto(t, "rolledback")
  /\ UNCHANGED <<table, file, log, write_set, pending, phase, bound, hist>>

AbortLog(t) ==
  /\ phase = "running" /\ status[t] = "rolledback"
  /\ add_log_to_buffer(ControlRecord("ABORT", t))
  /\ Goto(t, "abortlogged")
  /\ UNCHANGED <<table, file, write_set, pending, locks, phase, bound, hist>>

AbortFlushLog(t) ==
  /\ phase = "running" /\ status[t] = "abortlogged"
  /\ flush_log_to_disk
  /\ Goto(t, "aborted")
  /\ UNCHANGED <<table, file, write_set, pending, locks, phase, bound, hist>>

-----------------------------------------------------------------------------
(* The buffer pool evicts a dirty page: it is written, the log is not.     *)
Evict(p) ==
  /\ phase = "running" /\ p <= num_pages /\ bound.evictions < MaxEvictions
  /\ bound' = [bound EXCEPT !.evictions = @ + 1]
  /\ disk' = [r \in Rid |-> IF r[1] = p THEN mem[r] ELSE disk[r]]
  /\ disk' # disk
  /\ UNCHANGED <<table, disk_pages, log, status, write_set, pending, locks, phase, hist>>

(* The process dies.  The "crash" command flushes the log first.           *)
Crash ==
  /\ \/ /\ phase = "running" /\ bound.crashes < MaxCrashes
        /\ bound' = [bound EXCEPT !.crashes = @ + 1]
     \/ /\ phase \notin {"running", "exited"} /\ bound.recrashes < MaxRecrashes
        /\ bound' = [bound EXCEPT !.recrashes = @ + 1]
  /\ phase' = "down"
  /\ mem' = [r \in Rid |-> Empty] /\ num_pages' = 0
  /\ status' = [t \in Txn |-> IF t \in LiveTxns THEN "lost" ELSE status[t]]
  /\ write_set' = [t \in Txn |-> <<>>]
  /\ pending' = [t \in Txn |-> NoInsert]
  /\ tlock' = [t \in Txn |-> "none"]
  /\ owner' = [r \in Rid |-> NoTxn] /\ readers' = [r \in Rid |-> {}]
  /\ log_buffer' = <<>>
  /\ \/ phase = "running" /\ log_file' = Flushed /\ winners' = winners \cup Committed(log_buffer)
     \/ UNCHANGED <<log_file, winners>>
  /\ UNCHANGED <<file, hist>>

-----------------------------------------------------------------------------
(* main(): open_db, analyze, redo, undo, write the pages, truncate the log.*)

Recovering == <<file, status, write_set, pending, locks, bound, hist, winners>>

OpenDb ==
  /\ phase = "down"
  /\ phase' = "opened"
  /\ num_pages' = disk_pages
  /\ mem' = [r \in Rid |-> IF r[1] <= disk_pages THEN disk[r] ELSE Empty]
  /\ UNCHANGED <<log_buffer, log_file, Recovering>>

(* Mutant: redo does not create missing pages.                            *)
RedoRecord_NoPage(s, r) ==
  IF ~s.ok \/ ~IsData(r) THEN s
  ELSE IF r.rid[1] > s.pages THEN [s EXCEPT !.ok = FALSE]
  ELSE [s EXCEPT !.rows[r.rid] = IF r.type = "UPDATE" /\ @ = Empty THEN Empty ELSE r.new]

(* One record of the redo pass on s, the table with its page count.  A     *)
(* missing page is created for INSERT and UPDATE; for DELETE it is a       *)
(* PageNotExistError, on which main() exits.                               *)
RedoRecord(s, r) ==
  IF ~s.ok \/ ~IsData(r) THEN s
  ELSE IF r.type = "DELETE" /\ r.rid[1] > s.pages THEN [s EXCEPT !.ok = FALSE]
  ELSE [s EXCEPT !.pages = IF r.rid[1] > @ THEN r.rid[1] ELSE @,
                 !.rows[r.rid] = IF r.type = "UPDATE" /\ @ = Empty THEN Empty ELSE r.new]

(* The redo pass after the first n records of the log.                     *)
Redone[n \in 0..Len(log_file)] ==
  IF n = 0 THEN [rows |-> mem, pages |-> num_pages, ok |-> TRUE]
           ELSE RedoRecord(Redone[n - 1], log_file[n])

redo ==
  LET done == Redone[Len(log_file)]
  IN  /\ phase = "opened"
      /\ phase' = IF done.ok THEN "redone" ELSE "exited"
      /\ mem' = done.rows /\ num_pages' = done.pages
      /\ UNCHANGED <<log_buffer, log_file, Recovering>>

(* Mutant: the losers are undone oldest first.                            *)
UndoRead_Forward(n) == log_file[n]

(* Undo reads the log backwards: the n-th record it comes to.              *)
UndoRead(n) == log_file[Len(log_file) + 1 - n]

(* Only a commit record completes a transaction: what an aborted one did   *)
(* is undone again.                                                        *)
UndoRecord(rows, r) ==
  IF ~IsData(r) \/ r.txn \in Committed(log_file) THEN rows
  ELSE [rows EXCEPT ![r.rid] = IF r.type = "UPDATE" /\ @ = Empty THEN Empty ELSE r.old]

(* The table after the undo pass has read n records.                       *)
Undone[n \in 0..Len(log_file)] ==
  IF n = 0 THEN mem ELSE UndoRecord(Undone[n - 1], UndoRead(n))

undo ==
  /\ phase = "redone"
  /\ phase' = "undone"
  /\ mem' = Undone[Len(log_file)]
  /\ UNCHANGED <<num_pages, log_buffer, log_file, Recovering>>

WriteRecovered ==
  /\ phase = "undone"
  /\ phase' = "written"
  /\ flush_all_pages
  /\ UNCHANGED <<table, disk_pages, log, status, write_set, pending, locks, bound, hist>>

truncate_log ==
  /\ phase = "written"
  /\ phase' = "running"
  /\ log_file' = <<>>
  /\ UNCHANGED <<table, log_buffer, Recovering>>

Recover == OpenDb \/ redo \/ undo \/ WriteRecovered \/ truncate_log

-----------------------------------------------------------------------------
Commit(t) == CommitReleaseLocks(t) \/ CommitLog(t) \/ CommitFlushLog(t)
             \/ CommitFlushPages(t) \/ CommitWriteHeader(t)

Abort(t) == AbortUndo(t) \/ AbortReleaseLocks(t) \/ AbortLog(t) \/ AbortFlushLog(t)

Statement(t) == (\E v \in Value : InsertLog(t, v) \/ Update(t, v))
                \/ InsertWrite(t) \/ Delete(t)

Step ==
  \/ \E t \in Txn : begin(t) \/ Statement(t) \/ Refused(t) \/ Commit(t)
                    \/ AbortRequested(t) \/ Abort(t)
  \/ \E p \in 1..MaxPages : Evict(p)
  \/ Crash
  \/ Recover

(* What takes a history off the serial path, as the step leaves it: two    *)
(* transactions in progress, or a row that an UPDATE has moved.            *)
Moved(wr) == wr.by = "UPDATE" /\ wr.old = Empty
OffSerial ==
  \/ \E t, u \in LiveTxns : t # u
  \/ \E t \in Txn : \E i \in DOMAIN write_set[t] : Moved(write_set[t][i])

NoteSerial == aside' = (aside \/ OffSerial')

Next == Step /\ NoteSerial

Spec == Init /\ [][Next]_vars

(* main() runs recovery to the end without waiting for anyone.             *)
FairSpec == Spec /\ WF_vars(Recover /\ NoteSerial)

-----------------------------------------------------------------------------
LogRecord ==
  [type: {"begin", "commit", "ABORT"}, txn: Txn]
    \cup [type: {"INSERT", "DELETE", "UPDATE"}, txn: Txn, rid: Rid, old: Row, new: Row]

WriteRecord == [by: {"INSERT", "DELETE", "UPDATE"}, rid: Rid, old: Row]
Change == [txn: Txn, rid: Rid, new: Row]

StateOK ==
  /\ mem \in [Rid -> Row] /\ num_pages \in 0..MaxPages
  /\ disk \in [Rid -> Row] /\ disk_pages \in 0..MaxPages
  /\ log_buffer \in Seq(LogRecord) /\ Len(log_buffer) <= LogBufferSize
  /\ log_file \in Seq(LogRecord)
  /\ status \in [Txn -> Status]
  /\ write_set \in [Txn -> Seq(WriteRecord)]
  /\ pending \in [Txn -> [rid: Rid, new: Value, new_page: BOOLEAN] \cup {NoInsert}]
  /\ tlock \in [Txn -> {"none", "IX", "SIX"}]
  /\ owner \in [Rid -> Txn \cup {NoTxn}] /\ readers \in [Rid -> SUBSET Txn]
  /\ phase \in Phase
  /\ bound \in [aborts: 0..MaxAborts, crashes: 0..MaxCrashes, recrashes: 0..MaxRecrashes,
                evictions: 0..MaxEvictions]
  /\ hist \in Seq(Change)
  /\ winners \subseteq Txn

TypeOK == StateOK /\ aside \in BOOLEAN

(* What the table must hold: for every row the last change made to it by a *)
(* transaction whose commit record is durable.                             *)
CommittedRow(rid) ==
  LET by == {i \in DOMAIN hist : hist[i].rid = rid /\ hist[i].txn \in winners}
  IN  IF by = {} THEN Empty ELSE hist[CHOOSE i \in by : \A j \in by : j <= i].new

(* Atomicity and durability: whenever the server is up and no transaction  *)
(* is in progress (after a recovery in particular), the table holds        *)
(* exactly the changes of the committed transactions, whatever was lost    *)
(* with the log buffer and wherever commit, abort or recovery itself was   *)
(* cut off.                                                                *)
QuiescentIsCommitted ==
  (phase = "running" /\ LiveTxns = {}) => \A rid \in Rid : mem[rid] = CommittedRow(rid)

(* The code keeps that promise along the serial path only.  It breaks once *)
(* transactions overlap (commit releases its locks before its record is    *)
(* durable, and a stale slot prediction overwrites a row), an UPDATE moves *)
(* a row (the log says it changed in place), a dirty page is evicted       *)
(* before its log record, or the server crashes again (recovery leaves the *)
(* new page count out of the file header).  And a transaction rolled back  *)
(* before a crash is undone a second time at the restart, at its old place *)
(* in the log, taking later committed changes of its rows with it; so a    *)
(* history may have rollbacks or a crash but not both.                     *)
Serial ==
  /\ ~aside /\ bound.evictions = 0 /\ bound.crashes <= 1
  /\ bound.aborts = 0 \/ bound.crashes = 0

SerialIsCommitted == Serial => QuiescentIsCommitted

(* commit returns to the client only when the transaction can no longer be *)
(* lost: its commit record is durable and its rows and the header that     *)
(* makes them visible are in the file.                                     *)
AckedIsDurable ==
  \A t \in Txn : status[t] = "committed" =>
    /\ t \in winners
    /\ \A i \in DOMAIN hist : hist[i].txn = t => hist[i].rid[1] <= disk_pages

(* A well-formed state in which every acknowledged commit is safe.         *)
Durable == TypeOK /\ AckedIsDurable

(* Rolling back touches only rows nobody else can be using: every row in   *)
(* the write set of a transaction that may still abort is X-locked by it.  *)
(* (Only the row an UPDATE inserts under a composite index is not locked.) *)
RollbackOwnsRows ==
  \A t \in Txn : status[t] \in {"active", "inserting", "aborting"} =>
    \A i \in DOMAIN write_set[t] :
      owner[write_set[t][i].rid] = t \/ (CompositeIndex /\ Moved(write_set[t][i]))

(* Recovery never gets stuck: after the first crash the server comes up    *)
(* again, whatever the log and the file contain, dirty pages that were     *)
(* evicted included.  (A stale slot prediction, a moved row or a page      *)
(* count that recovery left out of the header can make redo throw.)        *)
RecoveryCompletes ==
  (phase = "down" /\ ~aside /\ bound.crashes <= 1) ~> phase = "running"
=============================================================================
