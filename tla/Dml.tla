-------------------------------- MODULE Dml ---------------------------------
(***************************************************************************)
(* INSERT, UPDATE and DELETE on the rows of a table and the entries of its *)
(* indexes (executor_insert.h, executor_update.h, executor_delete.h), for  *)
(* one session: locks, log and rollback are in Transactions and Recovery.  *)
(***************************************************************************)
EXTENDS Executors

(* delete_entry and insert_entry.  An entry is found by its key, whichever *)
(* row put it there.                                                       *)
delete_entry(t, index, key) ==
  [t EXCEPT !.held[index] = {x \in @ : x.key # key}]
insert_entry(t, index, row, rid) ==
  [t EXCEPT !.held[index] = @ \cup {[key |-> KeyOf(t, index, row), rid |-> rid]}]

(* Mutant: the last slot, whether it is free or not.                       *)
FreeSlot_Last(t) == Len(t.rows)

(* The slot insert_record takes: the first free one, or one more.          *)
FreeSlot(t) == MinOf({r \in 1..(Len(t.rows) + 1) : r \notin Live(t)})

Store(t, rid, row) ==
  [t EXCEPT !.rows = IF rid > Len(@) THEN Append(@, row) ELSE [@ EXCEPT ![rid] = row]]

(* The conversion of a value of INSERT to the type of its column.          *)
InsertValue(col, v) ==
  CASE col.type = v.type -> Ok(v)
    [] col.type = "DATETIME" /\ v.type = "STRING" -> set_datetime(v)
    [] col.type = "BIGINT" /\ v.type = "INT" -> Ok([v EXCEPT !.type = "BIGINT"])
    [] col.type = "INT" /\ v.type = "BIGINT" ->
         IF v.val > INT32_MAX \/ v.val < -INT32_MAX - 1 THEN Err("OutOfRange")
         ELSE Ok([v EXCEPT !.type = "INT"])
    [] OTHER -> Err("IncompatibleType")

InsertField(col, v) ==
  Then(InsertValue(col, v), LAMBDA w :
    Then(init_raw(w, col.len), LAMBDA r : Ok(r.raw.val)))

(* Mutant: only the first column of an index is compared.                  *)
Duplicate_Prefix(t, row) ==
  \E n \in DOMAIN t.indexes, r \in Live(t) :
    Head(KeyOf(t, t.indexes[n], t.rows[r])) = Head(KeyOf(t, t.indexes[n], row))

(* The uniqueness check of INSERT scans the table, not the index.          *)
Duplicate(t, row) ==
  \E n \in DOMAIN t.indexes, r \in Live(t) :
    KeyOf(t, t.indexes[n], t.rows[r]) = KeyOf(t, t.indexes[n], row)

InsertExecutor(t, values) ==
  IF Len(values) # Len(t.cols) THEN Err("InvalidValueCount")
  ELSE Then(Each(LAMBDA i : InsertField(t.cols[i], values[i]), [i \in DOMAIN values |-> i]),
            LAMBDA row :
              LET rid == FreeSlot(t)
              IN  IF Duplicate(t, row) THEN Err("Duplicate")
                  ELSE Ok(FoldLeft(LAMBDA u, index : insert_entry(u, index, row, rid),
                                   Store(t, rid, row), t.indexes)))

-----------------------------------------------------------------------------
ChangedKeys(t, old, new) ==
  SelectSeq(t.indexes, LAMBDA index : KeyOf(t, index, old) # KeyOf(t, index, new))

(* A new key must not be in the index for another row (get_value); the     *)
(* rows are not searched.                                                  *)
Taken(t, index, row, rid) == \E x \in t.held[index] : x.key = KeyOf(t, index, row) /\ x.rid # rid

(* All columns of an index over several columns change: the new row is     *)
(* added and the old one stays in the table.                               *)
AddsRow(t, old, new) ==
  \E n \in DOMAIN t.indexes :
    LET index == t.indexes[n]
    IN  /\ Len(index) > 1
        /\ \A i \in DOMAIN index : KeyOf(t, index, old)[i] # KeyOf(t, index, new)[i]

(* Mutant: the entry of the old key stays in the index.                    *)
UpdateRow_KeepEntry(t, rid, new) ==
  LET target == IF AddsRow(t, t.rows[rid], new) THEN FreeSlot(t) ELSE rid
      changed == ChangedKeys(t, t.rows[rid], new)
  IN  IF \E i \in DOMAIN changed : Taken(t, changed[i], new, rid) THEN Err("Duplicate")
      ELSE Ok(Store(FoldLeft(LAMBDA u, index : insert_entry(u, index, new, target), t, changed),
                    target, new))

UpdateRow(t, rid, new) ==
  LET old == t.rows[rid]
      target == IF AddsRow(t, old, new) THEN FreeSlot(t) ELSE rid
      changed == ChangedKeys(t, old, new)
      removed == FoldLeft(LAMBDA u, index : delete_entry(u, index, KeyOf(t, index, old)), t, changed)
      added == FoldLeft(LAMBDA u, index : insert_entry(u, index, new, target), removed, changed)
  IN  IF \E i \in DOMAIN changed : Taken(t, changed[i], new, rid) THEN Err("Duplicate")
      ELSE Ok(Store(added, target, new))

(* The row after the SET clauses.                                          *)
Assigned(t, row, sets) ==
  FoldLeft(LAMBDA r, s : [r EXCEPT ![ColPos(t.cols, s.lhs.tab, s.lhs.col)] = s.rhs.raw.val], row, sets)

(* The rows are changed one by one and the first error ends the statement. *)
UpdateExecutor(t, rids, sets) ==
  Then(Each(LAMBDA s : Then(init_raw(s.rhs, get_col(t, s.lhs.col).len),
                            LAMBDA v : Ok([s EXCEPT !.rhs = v])), sets),
       LAMBDA raws :
         FoldLeft(LAMBDA acc, rid :
                    Then(acc, LAMBDA u : UpdateRow(u, rid, Assigned(u, u.rows[rid], raws))),
                  Ok(t), rids))

DeleteExecutor(t, rids) ==
  LET delete(u, rid) ==
        [FoldLeft(LAMBDA w, index : delete_entry(w, index, KeyOf(u, index, u.rows[rid])), u, u.indexes)
           EXCEPT !.rows[rid] = NoRow]
  IN  Ok(FoldLeft(delete, t, rids))

(* Mutant: nextTuple is called at the end too.                             *)
AfterRow_Unguarded(e) == NextTuple(e)

(* nextTuple is skipped at the end.                                        *)
AfterRow(e) == IF IsEnd(e) THEN e ELSE NextTuple(e)

(* Portal::start: the rids of the rows of a scan.                          *)
RECURSIVE CollectRids(_, _)
CollectRow(n, rids) ==
  CollectRids(AfterRow(n.e), IF n.row = NoRow THEN rids ELSE Append(rids, n.e.rids[n.e.pos]))
CollectRids(e, rids) ==
  IF IsEnd(e) \/ Fail(e) # "" THEN [fail |-> Fail(e), rids |-> rids] ELSE CollectRow(Next(e), rids)
=============================================================================
