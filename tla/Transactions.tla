---------------------------- MODULE Transactions ----------------------------
(***************************************************************************)
(* Isolation: transactions of several sessions run SELECT, INSERT, UPDATE  *)
(* and DELETE on one table under the lock manager.  The module composes    *)
(* LockManager (every lock and unlock step is one of its actions) with the *)
(* order in which the executors lock, read and write                       *)
(* (executor_seq_scan.h, executor_insert.h, executor_update.h,             *)
(* executor_delete.h, portal.h) and with the rollback and release loops of *)
(* transaction_manager.cpp.                                                *)
(*                                                                         *)
(* A row is one slot of the table file; a sequential scan visits the slots *)
(* in order.  The log and the disk are in Recovery.                        *)
(***************************************************************************)
EXTENDS Naturals, Sequences, SequencesExt, FiniteSets

CONSTANTS
  Txn, Tab,
  NumRows,         \* slots of the table
  Value, Empty,    \* row contents, a free slot
  Unknown,         \* a row the transaction has not looked at
  MaxOps,          \* bound: statements of a transaction
  MaxTxns          \* bound: transactions begun

ASSUME TxnConstants ==
  /\ NumRows \in Nat \ {0} /\ {MaxOps, MaxTxns} \subseteq Nat
  /\ Tab \notin 1..NumRows
  /\ Value \cap {Empty, Unknown} = {} /\ Empty # Unknown

Row == 1..NumRows
Table == {Tab}
Record == Row

VARIABLES
  request_queue, group_lock_mode, lock_set, state, to_unlock, acquired, \* LockManager
  rows,       \* the table
  pc,         \* what each session is executing
  write_set,  \* Transaction::write_set_
  view,       \* history: what a transaction has read or written, row by row
  ops,        \* statements each transaction has issued
  begun,      \* transactions begun
  bare,       \* history: the rows it saw as empty or filled before locking them
  hit,        \* history: rows an INSERT has overwritten and a transaction still knows
  ix_scan     \* history: has a transaction that held IX been given S for a scan?

lm == <<request_queue, group_lock_mode, lock_set, state, to_unlock, acquired>>
vars == <<lm, rows, pc, write_set, view, ops, begun, bare, hit, ix_scan>>

LM == INSTANCE LockManager

(* What a session does: nothing, scan from row at on behalf of a statement,*)
(* the writes of that statement, the steps of an INSERT, roll back.        *)
Idle == [at |-> "idle"]
Scan(stmt, r) == [at |-> "scan", stmt |-> stmt, row |-> r]
Intend(stmt) == [at |-> "intend", stmt |-> stmt]
Write(stmt) == [at |-> "write", stmt |-> stmt]
InsertInto(v) == [at |-> "insert", new |-> v]
InsertRow(v, r) == [at |-> "predicted", new |-> v, row |-> r]
InsertLock(r) == [at |-> "lockrow", row |-> r]
Undo == [at |-> "undo"]

Select == [type |-> "SELECT"]
DeleteRow == [type |-> "DELETE", new |-> Empty]
UpdateRow(v) == [type |-> "UPDATE", new |-> v]

Init ==
  /\ LM!Init
  /\ rows = [r \in Row |-> Empty]
  /\ pc = [t \in Txn |-> Idle]
  /\ write_set = [t \in Txn |-> <<>>]
  /\ view = [t \in Txn |-> [r \in Row |-> Unknown]]
  /\ ops = [t \in Txn |-> 0] /\ begun = 0
  /\ bare = [t \in Txn |-> {}] /\ hit = {} /\ ix_scan = FALSE

Goto(t, p) == pc' = [pc EXCEPT ![t] = p]

(* A lock call inside a statement: on success the session goes on at p, on *)
(* TransactionAbortException client_handler calls abort.                   *)
Lock(t, lid, mode, p) ==
  /\ LM!lock(t, lid, mode)
  /\ Goto(t, IF state'[t] = "failed" THEN Undo ELSE p)

Saw(t, r, v) == view' = [view EXCEPT ![t][r] = v]

Begin(t) ==
  /\ LM!Begin(t) /\ begun < MaxTxns
  /\ begun' = begun + 1
  /\ ops' = [ops EXCEPT ![t] = 0]
  /\ UNCHANGED <<rows, pc, write_set, view>>

Statement(t) ==
  /\ state[t] = "GROWING" /\ pc[t] = Idle /\ ops[t] < MaxOps
  /\ ops' = [ops EXCEPT ![t] = @ + 1]
  /\ UNCHANGED <<rows, write_set, view, begun>>

(* Mutant: the scan announces itself with IS instead of S.                *)
BeginScan_IS(t, stmt) ==
  /\ Statement(t)
  /\ Lock(t, Tab, "INTENTION_SHARED", Scan(stmt, 1))

(* SeqScanExecutor::beginTuple.                                            *)
BeginScan(t, stmt) ==
  /\ Statement(t)
  /\ Lock(t, Tab, "SHARED", Scan(stmt, 1))

(* SeqScanExecutor::Next on one slot: S lock, then read.                   *)
ScanRow(t) ==
  LET r == pc[t].row
      next == IF r < NumRows THEN Scan(pc[t].stmt, r + 1)
              ELSE IF pc[t].stmt = Select THEN Idle ELSE Intend(pc[t].stmt)
  IN
  /\ pc[t].at = "scan"
  /\ \/ /\ rows[r] = Empty
        /\ Saw(t, r, Empty) /\ Goto(t, next)
        /\ UNCHANGED lm
     \/ /\ rows[r] # Empty
        /\ Lock(t, r, "SHARED", next)
        /\ IF state'[t] = "failed" THEN UNCHANGED view ELSE Saw(t, r, rows[r])
  /\ UNCHANGED <<rows, write_set, ops, begun>>

(* UpdateExecutor / DeleteExecutor: IX on the table ...                    *)
WriteIntent(t) ==
  /\ pc[t].at = "intend"
  /\ Lock(t, Tab, "INTENTION_EXCLUSIVE", Write(pc[t].stmt))
  /\ UNCHANGED <<rows, write_set, view, ops, begun>>

(* ... then X on a row the scan returned, and the write.                   *)
WriteRow(t) ==
  /\ pc[t].at = "write"
  /\ \E r \in Row :
       /\ view[t][r] \notin {Empty, Unknown}
       /\ Lock(t, r, "EXLUCSIVE", Idle)
       /\ IF state'[t] = "failed" THEN UNCHANGED <<rows, write_set, view>>
          ELSE /\ write_set' = [write_set EXCEPT ![t] = Append(@, [row |-> r, old |-> rows[r]])]
               /\ rows' = [rows EXCEPT ![r] = pc[t].stmt.new]
               /\ Saw(t, r, pc[t].stmt.new)
  /\ UNCHANGED <<ops, begun>>

(* The scan returned no row.                                               *)
WriteNothing(t) ==
  /\ pc[t].at = "write" /\ \A r \in Row : view[t][r] \in {Empty, Unknown}
  /\ Goto(t, Idle)
  /\ UNCHANGED <<lm, rows, write_set, view, ops, begun>>

(* InsertExecutor::Next: IX on the table ...                               *)
BeginInsert(t, v) ==
  /\ Statement(t)
  /\ Lock(t, Tab, "INTENTION_EXCLUSIVE", InsertInto(v))

(* ... then rid_, the first free slot, which nothing reserves; when no     *)
(* page has room it will be the first slot of a new page ...               *)
FirstFree == {r \in Row : rows[r] = Empty /\ \A q \in Row : q < r => rows[q] # Empty}
NewPage == 0

InsertPredict(t) ==
  /\ pc[t].at = "insert"
  /\ \E r \in IF FirstFree = {} THEN {NewPage} ELSE FirstFree : Goto(t, InsertRow(pc[t].new, r))
  /\ UNCHANGED <<lm, rows, write_set, view, ops, begun>>

(* ... then the row: insert_record(rid_) writes the slot whatever is in it *)
(* by now, and for a new page insert_record looks for room itself (NumRows *)
(* bounds the file) ...                                                    *)
InsertWrite(t) ==
  /\ pc[t].at = "predicted"
  /\ \E r \in IF pc[t].row = NewPage THEN FirstFree ELSE {pc[t].row} :
       /\ rows' = [rows EXCEPT ![r] = pc[t].new]
       /\ Saw(t, r, pc[t].new)
       /\ Goto(t, InsertLock(r))
  /\ UNCHANGED <<lm, write_set, ops, begun>>

(* ... and only then its X lock and the write record.                      *)
InsertLockRow(t) ==
  LET r == pc[t].row IN
  /\ pc[t].at = "lockrow"
  /\ Lock(t, r, "EXLUCSIVE", Idle)
  /\ write_set' = IF state'[t] = "failed" THEN write_set
                   ELSE [write_set EXCEPT ![t] = Append(@, [row |-> r, old |-> Empty])]
  /\ UNCHANGED <<rows, view, ops, begun>>

-----------------------------------------------------------------------------
Commit(t) ==
  /\ state[t] = "GROWING" /\ pc[t] = Idle
  /\ LM!StartRelease(t)
  /\ write_set' = [write_set EXCEPT ![t] = <<>>]
  /\ UNCHANGED <<rows, pc, view, ops, begun>>

Abort(t) ==
  /\ state[t] = "GROWING" /\ pc[t] = Idle
  /\ Goto(t, Undo)
  /\ UNCHANGED <<lm, rows, write_set, view, ops, begun>>

AbortUndo(t) ==
  /\ pc[t] = Undo /\ write_set[t] # <<>>
  /\ LET wr == Last(write_set[t]) IN rows' = [rows EXCEPT ![wr.row] = wr.old]
  /\ write_set' = [write_set EXCEPT ![t] = Front(@)]
  /\ UNCHANGED <<lm, pc, view, ops, begun>>

AbortRelease(t) ==
  /\ pc[t] = Undo /\ write_set[t] = <<>>
  /\ LM!StartRelease(t)
  /\ Goto(t, Idle)
  /\ UNCHANGED <<rows, write_set, view, ops, begun>>

Unlock(t) ==
  /\ LM!UnlockNext(t)
  /\ UNCHANGED <<rows, pc, write_set, view, ops, begun>>

End(t) ==
  /\ LM!EndTxn(t)
  /\ view' = [view EXCEPT ![t] = [r \in Row |-> Unknown]]
  /\ UNCHANGED <<rows, pc, write_set, ops, begun>>

Step(t) ==
  \/ Begin(t) \/ BeginScan(t, Select) \/ BeginScan(t, DeleteRow)
  \/ \E v \in Value : BeginScan(t, UpdateRow(v)) \/ BeginInsert(t, v)
  \/ ScanRow(t) \/ WriteIntent(t) \/ WriteRow(t) \/ WriteNothing(t)
  \/ InsertPredict(t) \/ InsertWrite(t) \/ InsertLockRow(t)
  \/ Commit(t) \/ Abort(t) \/ AbortUndo(t) \/ AbortRelease(t) \/ Unlock(t) \/ End(t)

(* What the histories record of a step of t.  InsertWrite fills a row that *)
(* t has not locked, and overwrites it if another INSERT was faster.       *)
Fills(t, r) == pc[t].at = "predicted" /\ pc'[t] = InsertLock(r)

Next ==
  \E t \in Txn :
    /\ Step(t)
    /\ bare' = [bare EXCEPT ![t] = {r \in @ : view'[t][r] = view[t][r]}
                                   \cup {r \in Row : view'[t][r] = Empty \/ Fills(t, r)}]
    /\ hit' = {r \in Row : /\ r \in hit \/ (Fills(t, r) /\ rows[r] # Empty)
                          /\ \E u \in Txn : view'[u][r] # Unknown}
    /\ ix_scan' = (ix_scan \/ (/\ pc[t] = Idle /\ pc'[t].at = "scan"
                             /\ LM!HeldMode(t, Tab, "INTENTION_EXCLUSIVE")))

Spec == Init /\ [][Next]_vars

-----------------------------------------------------------------------------
TypeOK ==
  /\ LM!TypeOK
  /\ rows \in [Row -> Value \cup {Empty}]
  /\ \A t \in Txn : pc[t].at \in {"idle", "scan", "intend", "write", "insert", "predicted", "lockrow", "undo"}
  /\ \A t \in Txn : \A i \in DOMAIN write_set[t] :
       write_set[t][i] \in [row: Row, old: Value \cup {Empty}]
  /\ view \in [Txn -> [Row -> Value \cup {Empty, Unknown}]]
  /\ ops \in [Txn -> 0..MaxOps] /\ begun \in 0..MaxTxns /\ ix_scan \in BOOLEAN

(* A transaction in progress: not failed, not rolling back, not releasing. *)
InProgress(t) == state[t] = "GROWING" /\ pc[t] # Undo

(* Isolation: what a transaction in progress has read or written stays as  *)
(* it is until it ends.  A dirty read (the writer rolls back), a lost      *)
(* update, a non-repeatable read and a phantom (a slot read as empty and   *)
(* filled by another transaction) all break it.  Two things can break it   *)
(* in this code.  lock() answers the S request of a scan after an INSERT   *)
(* without turning the IX it holds into SIX; from then on the rows a       *)
(* transaction saw without a lock of their own are open: free slots, and a *)
(* row it inserted, which InsertExecutor writes before it locks it.  And   *)
(* two INSERTs that predict one slot both write it, the second over a row  *)
(* that the first may have locked already; if both go on to lock it, the   *)
(* write records of both name it.                                          *)
ReadsStable ==
  \A t \in Txn : InProgress(t) =>
    \A r \in Row : \/ view[t][r] \in {Unknown, rows[r]}
                   \/ ix_scan /\ r \in bare[t]
                   \/ r \in hit

(* Isolation of a well-formed state: the executors and the lock manager    *)
(* keep their data, and what a transaction saw stays (see ReadsStable).    *)
Isolated == TypeOK /\ ReadsStable
=============================================================================
