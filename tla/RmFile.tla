------------------------------- MODULE RmFile -------------------------------
(***************************************************************************)
(* The record file (record/rm_file_handle.cpp, record/bitmap.h): the slot  *)
(* bitmap and record count of every page, and the list of pages with free  *)
(* space that is threaded through the page headers.  Transactions insert   *)
(* and delete rows and may roll back, in which case                        *)
(* TransactionManager::abort deletes and re-inserts rows at their old      *)
(* place.  Row contents play no part.                                      *)
(*                                                                         *)
(* No latch covers a call of the file handle.  A call is two steps: it     *)
(* enters, having read the page and the file header, and it returns,       *)
(* having written them.  A call that finds its page or the header changed  *)
(* in between has raced: what it writes mixes what it read and what is     *)
(* there, and the model is followed no further.  An INSERT chooses its     *)
(* slot before the call, in a step of its own.                             *)
(***************************************************************************)
EXTENDS Integers, Sequences, SequencesExt, FiniteSets, FiniteSetsExt

CONSTANTS
  Txn,       \* transactions
  NoTxn,
  Slots,     \* num_records_per_page
  MaxPages,  \* bound: data pages (page numbers start at RM_FIRST_RECORD_PAGE = 1)
  MaxOps     \* bound: rows changed by statements

ASSUME RmConstants == NoTxn \notin Txn /\ {Slots, MaxPages, MaxOps} \subseteq Nat \ {0}

RM_NO_PAGE == 0
Page == 1..MaxPages
Slot == 0..(Slots - 1)
Rid == Page \X Slot
WriteRecord == [type: {"INSERT", "DELETE"}, rid: Rid]

VARIABLES
  bitmap,         \* slots in use of every page
  num_records,    \* page_hdr->num_records
  next_free,      \* page_hdr->next_free_page_no
  first_free,     \* file_hdr_.first_free_page_no
  num_pages,      \* data pages (file_hdr_.num_pages without the header page)
  allocated,      \* data pages the disk manager has handed out (fd2pageno_)
  tlock,          \* table lock of every transaction
  owner,          \* X lock of every row
  write_set,      \* Transaction::write_set_
  active,         \* transactions in progress, and those rolling back
  call,           \* the call each transaction is in, or the slot it has chosen
  ops,            \* how many rows statements have changed
  late,           \* transactions whose call has been overtaken
  mixed,          \* history: write sets that do not tell all that happened since
  events          \* history: what has gone wrong with the free list

vars == <<bitmap, num_records, next_free, first_free, num_pages, allocated, tlock, owner,
          write_set, active, call, ops, late, mixed, events>>
hdrs == <<bitmap, num_records, next_free, first_free, num_pages>>
locks == <<tlock, owner>>
history == <<late, mixed, events>>

NoCall == <<>>
Inside(t) == call[t] # NoCall /\ call[t].at = "inside"

Init ==
  /\ bitmap = [p \in Page |-> {}]
  /\ num_records = [p \in Page |-> 0]
  /\ next_free = [p \in Page |-> RM_NO_PAGE]
  /\ first_free = RM_NO_PAGE
  /\ num_pages = 0 /\ allocated = 0
  /\ tlock = [t \in Txn |-> "none"]
  /\ owner = [r \in Rid |-> NoTxn]
  /\ write_set = [t \in Txn |-> <<>>]
  /\ active = [t \in Txn |-> "no"]
  /\ call = [t \in Txn |-> NoCall]
  /\ ops = 0 /\ late = {} /\ mixed = {} /\ events = {}

-----------------------------------------------------------------------------
(* Bitmap::first_bit(false): the first free slot, or Slots if there is     *)
(* none.                                                                   *)
first_zero(p) == Min({s \in Slot : s \notin bitmap[p]} \cup {Slots})

(* What a call reads: the header of its page, and that of the file.        *)
Headers(p) == [bits |-> bitmap[p], n |-> num_records[p], next |-> next_free[p],
               head |-> first_free, pages |-> num_pages]

(* What the call of t works on: the headers, or when it has been overtaken *)
(* any mixture of the old and the new ones.                                *)
Worked(t) ==
  LET old == call[t].read
      now == Headers(call[t].rid[1])
  IN  IF t \notin late THEN {now}
      ELSE [bits: {old.bits, now.bits}, n: {old.n, now.n}, next: {old.next, now.next},
            head: {old.head, now.head}, pages: {old.pages, now.pages}]

(* Mutant: a full page stays at the head of the list.                     *)
insert_record_KeepFull(c, w) ==
  LET p    == c.rid[1]
      bits == IF c.fresh THEN {} ELSE w.bits
      n    == IF c.fresh THEN 0 ELSE w.n
      set  == c.do = "APPEND" \/ c.rid[2] \notin bits
  IN  /\ bitmap' = IF set THEN [bitmap EXCEPT ![p] = bits \cup {c.rid[2]}] ELSE bitmap
      /\ num_records' = IF set THEN [num_records EXCEPT ![p] = n + 1] ELSE num_records
      /\ next_free' = IF c.fresh THEN [next_free EXCEPT ![p] = w.head] ELSE next_free
      /\ first_free' = IF c.fresh THEN p ELSE first_free
      /\ num_pages' = IF c.fresh THEN w.pages + 1 ELSE num_pages

(* insert_record: a page that is full now leaves the list by making its    *)
(* successor the head.  At a given slot the bit may already be set; the    *)
(* other form counts without a test.  create_new_page_handle empties a     *)
(* fresh page and links it in front of the list.                           *)
insert_record(c, w) ==
  LET p    == c.rid[1]
      bits == IF c.fresh THEN {} ELSE w.bits
      n    == IF c.fresh THEN 0 ELSE w.n
      next == IF c.fresh THEN w.head ELSE w.next
      set  == c.do = "APPEND" \/ c.rid[2] \notin bits
  IN  /\ bitmap' = IF set THEN [bitmap EXCEPT ![p] = bits \cup {c.rid[2]}] ELSE bitmap
      /\ num_records' = IF set THEN [num_records EXCEPT ![p] = n + 1] ELSE num_records
      /\ next_free' = IF c.fresh THEN [next_free EXCEPT ![p] = w.head] ELSE next_free
      /\ first_free' = IF num_records'[p] = Slots THEN next
                       ELSE IF c.fresh THEN p ELSE first_free
      /\ num_pages' = IF c.fresh THEN w.pages + 1 ELSE num_pages

(* Mutant: num_records is not decremented.                                *)
delete_record_NoCount(c, w) ==
  /\ bitmap' = [bitmap EXCEPT ![c.rid[1]] = w.bits \ {c.rid[2]}]
  /\ UNCHANGED <<num_records, next_free, first_free, num_pages>>

(* Mutant: a page that was full is not put back into the list.            *)
delete_record_NoRelease(c, w) ==
  LET p   == c.rid[1]
      set == c.rid[2] \in w.bits
  IN  /\ bitmap' = IF set THEN [bitmap EXCEPT ![p] = w.bits \ {c.rid[2]}] ELSE bitmap
      /\ num_records' = IF set THEN [num_records EXCEPT ![p] = w.n - 1] ELSE num_records
      /\ UNCHANGED <<next_free, first_free, num_pages>>

(* delete_record: a page that was full is put in front of the list.        *)
delete_record(c, w) ==
  LET p       == c.rid[1]
      set     == c.rid[2] \in w.bits
      release == set /\ w.n = Slots
  IN  /\ bitmap' = IF set THEN [bitmap EXCEPT ![p] = w.bits \ {c.rid[2]}] ELSE bitmap
      /\ num_records' = IF set THEN [num_records EXCEPT ![p] = w.n - 1] ELSE num_records
      /\ next_free' = IF release THEN [next_free EXCEPT ![p] = w.head] ELSE next_free
      /\ first_free' = IF release THEN p ELSE first_free
      /\ UNCHANGED num_pages

-----------------------------------------------------------------------------
Begin(t) ==
  /\ active[t] = "no"
  /\ active' = [active EXCEPT ![t] = "yes"]
  /\ UNCHANGED <<hdrs, allocated, locks, write_set, call, ops, history>>

Change(t) ==
  /\ active[t] = "yes" /\ call[t] = NoCall /\ ops < MaxOps
  /\ ops' = ops + 1

(* The table lock of t becomes mode unless it has one already (lock()      *)
(* grants S, and so a scan, without a change to a transaction with IX).  A *)
(* request that is refused aborts the transaction, see Abort.              *)
TableLock(t, mode, others) ==
  /\ tlock[t] = "none" => \A u \in Txn \ {t} : tlock[u] \in others
  /\ tlock' = [tlock EXCEPT ![t] = IF @ = "none" THEN mode ELSE @]

Enter(t, do, undo, rid, fresh) ==
  call' = [call EXCEPT ![t] = [at |-> "inside", do |-> do, undo |-> undo, rid |-> rid,
                               fresh |-> fresh, read |-> Headers(rid[1])]]

(* The head of the free list and its first free slot.  The process ends at *)
(* assert(slot_no < num_records_per_page) when it has none: no step.       *)
HeadSlot == <<first_free, first_zero(first_free)>>

(* InsertExecutor chooses the slot, or a new page when no page has room.   *)
InsertPredict(t) ==
  /\ Change(t)
  /\ TableLock(t, "IX", {"none", "IX"})
  /\ \/ /\ first_free = RM_NO_PAGE
        /\ call' = [call EXCEPT ![t] = [at |-> "chosen", do |-> "APPEND"]]
     \/ /\ first_free # RM_NO_PAGE /\ HeadSlot \in Rid
        /\ call' = [call EXCEPT ![t] = [at |-> "chosen", do |-> "INSERT", rid |-> HeadSlot]]
  /\ UNCHANGED <<hdrs, allocated, owner, write_set, active, history>>

Chosen(t, do) == call[t] # NoCall /\ call[t].at = "chosen" /\ call[t].do = do

(* Having logged, it writes to the slot it has chosen, whatever has        *)
(* happened to it since.                                                   *)
InsertEnter(t) ==
  /\ Chosen(t, "INSERT")
  /\ Enter(t, "INSERT", FALSE, call[t].rid, FALSE)
  /\ UNCHANGED <<hdrs, allocated, locks, write_set, active, ops, history>>

(* create_page_handle looks for room once more; a new page gets the next   *)
(* number of the disk manager.                                             *)
AppendEnter(t) ==
  /\ Chosen(t, "APPEND")
  /\ \/ /\ first_free # RM_NO_PAGE /\ HeadSlot \in Rid
        /\ Enter(t, "APPEND", FALSE, HeadSlot, FALSE)
        /\ UNCHANGED allocated
     \/ /\ first_free = RM_NO_PAGE /\ allocated < MaxPages
        /\ Enter(t, "APPEND", FALSE, <<allocated + 1, 0>>, TRUE)
        /\ allocated' = allocated + 1
  /\ UNCHANGED <<hdrs, locks, write_set, active, ops, history>>

(* DeleteExecutor, its row found by an index: S on the table, which the    *)
(* executor's IX makes SIX, then S and X on the one row.                   *)
DeleteEnter(t, rid) ==
  /\ Change(t) /\ rid[2] \in bitmap[rid[1]] /\ rid[1] <= num_pages
  /\ owner[rid] \in {NoTxn, t}
  /\ TableLock(t, "SIX", {"none"})
  /\ owner' = [owner EXCEPT ![rid] = t]
  /\ Enter(t, "DELETE", FALSE, rid, FALSE)
  /\ UNCHANGED <<hdrs, allocated, write_set, active, history>>

(* TransactionManager::abort: an INSERT is undone by delete_record, a      *)
(* DELETE by insert_record at the old slot.                                *)
UndoEnter(t) ==
  /\ active[t] = "aborting" /\ call[t] = NoCall /\ write_set[t] # <<>>
  /\ LET wr == Last(write_set[t])
     IN  Enter(t, IF wr.type = "INSERT" THEN "DELETE" ELSE "INSERT", TRUE, wr.rid, FALSE)
  /\ UNCHANGED <<hdrs, allocated, locks, write_set, active, ops, history>>

-----------------------------------------------------------------------------
(* What a return brings to light: the call was overtaken, or its page is   *)
(* not the next one of the file (another new page is on its way); an       *)
(* INSERT went to a page that no longer heads the list; a DELETE is undone *)
(* although more has happened since than the write set tells.              *)
Race(t) == t \in late \/ (call[t].fresh /\ call[t].rid[1] # num_pages + 1)
Stale(t) == call[t].do = "INSERT" /\ ~call[t].undo /\ call[t].rid[1] # first_free
MixedUndo(t) == call[t].do = "INSERT" /\ call[t].undo /\ t \in mixed

Noted(t) ==
  (IF Race(t) THEN {"race"} ELSE {}) \cup (IF Stale(t) THEN {"stale"} ELSE {})
    \cup (IF MixedUndo(t) THEN {"mixed"} ELSE {})

(* The calls that t overtakes by returning.                                *)
Overtaken(t) ==
  {u \in Txn \ {t} : /\ Inside(u)
                     /\ \/ call[u].rid[1] = call[t].rid[1]
                        \/ first_free' # first_free \/ num_pages' # num_pages}

(* The call of t returns.  own: t itself has done something that its write *)
(* set does not undo.                                                      *)
Leave(t, own) ==
  /\ \E w \in Worked(t) :
       IF call[t].do = "DELETE" THEN delete_record(call[t], w) ELSE insert_record(call[t], w)
  /\ call' = [call EXCEPT ![t] = NoCall]
  /\ late' = (late \ {t}) \cup Overtaken(t)
  /\ mixed' = mixed \cup {u \in Txn \ {t} : write_set[u] # <<>>} \cup (IF own THEN {t} ELSE {})
  /\ events' = events \cup Noted(t)
  /\ UNCHANGED <<allocated, tlock, ops>>

Overwrites(t) == call[t].do = "INSERT" /\ call[t].rid[2] \in bitmap[call[t].rid[1]]

(* An INSERT locks its row only now, and leaves it where it is when the    *)
(* lock is refused: another transaction owns the row, or reads the one     *)
(* that has been overwritten.                                              *)
InsertReturn(t) ==
  /\ Inside(t) /\ call[t].do \in {"INSERT", "APPEND"} /\ ~call[t].undo
  /\ LET rid == call[t].rid
     IN  \/ /\ owner[rid] \in {NoTxn, t}
            /\ Leave(t, Overwrites(t))
            /\ owner' = [owner EXCEPT ![rid] = t]
            /\ write_set' = [write_set EXCEPT ![t] = Append(@, [type |-> "INSERT", rid |-> rid])]
            /\ UNCHANGED active
         \/ /\ owner[rid] \notin {NoTxn, t} \/ Overwrites(t)
            /\ Leave(t, TRUE)
            /\ active' = [active EXCEPT ![t] = "aborting"]
            /\ UNCHANGED <<owner, write_set>>

DeleteReturn(t) ==
  /\ Inside(t) /\ call[t].do = "DELETE" /\ ~call[t].undo
  /\ Leave(t, FALSE)
  /\ write_set' = [write_set EXCEPT ![t] = Append(@, [type |-> "DELETE", rid |-> call[t].rid])]
  /\ UNCHANGED <<owner, active>>

UndoReturn(t) ==
  /\ Inside(t) /\ call[t].undo
  /\ Leave(t, FALSE)
  /\ write_set' = [write_set EXCEPT ![t] = Front(@)]
  /\ UNCHANGED <<owner, active>>

-----------------------------------------------------------------------------
Unlock(t) ==
  /\ tlock' = [tlock EXCEPT ![t] = "none"]
  /\ owner' = [r \in Rid |-> IF owner[r] = t THEN NoTxn ELSE owner[r]]
  /\ active' = [active EXCEPT ![t] = "no"]
  /\ write_set' = [write_set EXCEPT ![t] = <<>>]
  /\ mixed' = mixed \ {t}
  /\ UNCHANGED <<hdrs, allocated, call, ops, late, events>>

Commit(t) == active[t] = "yes" /\ call[t] = NoCall /\ Unlock(t)

Abort(t) ==
  /\ active[t] = "yes" /\ call[t] = NoCall
  /\ active' = [active EXCEPT ![t] = "aborting"]
  /\ UNCHANGED <<hdrs, allocated, locks, write_set, call, ops, history>>

AbortEnd(t) == active[t] = "aborting" /\ call[t] = NoCall /\ write_set[t] = <<>> /\ Unlock(t)

Step(t) ==
  \/ Begin(t) \/ InsertPredict(t) \/ InsertEnter(t) \/ AppendEnter(t) \/ UndoEnter(t)
  \/ \E rid \in Rid : DeleteEnter(t, rid)
  \/ InsertReturn(t) \/ DeleteReturn(t) \/ UndoReturn(t)
  \/ Commit(t) \/ Abort(t) \/ AbortEnd(t)

(* Bound: the file is followed up to its first race.                       *)
Next == "race" \notin events /\ \E t \in Txn : Step(t)

Spec == Init /\ [][Next]_vars

-----------------------------------------------------------------------------
Link == Page \cup {RM_NO_PAGE}

Call ==
  [at: {"chosen"}, do: {"APPEND"}] \cup [at: {"chosen"}, do: {"INSERT"}, rid: Rid]
    \cup [at: {"inside"}, do: {"INSERT", "APPEND", "DELETE"}, undo: BOOLEAN, rid: Rid, fresh: BOOLEAN,
          read: [bits: SUBSET Slot, n: Int, next: Link, head: Link, pages: Nat]]

TypeOK ==
  /\ bitmap \in [Page -> SUBSET Slot]
  /\ num_records \in [Page -> Int]
  /\ next_free \in [Page -> Link] /\ first_free \in Link
  /\ num_pages \in Nat /\ allocated \in 0..MaxPages
  /\ tlock \in [Txn -> {"none", "IX", "SIX"}] /\ owner \in [Rid -> Txn \cup {NoTxn}]
  /\ write_set \in [Txn -> Seq(WriteRecord)]
  /\ active \in [Txn -> {"no", "yes", "aborting"}]
  /\ call \in [Txn -> Call \cup {NoCall}]
  /\ ops \in 0..MaxOps
  /\ late \subseteq Txn /\ mixed \subseteq Txn /\ events \subseteq {"race", "stale", "mixed"}

(* num_records is the number of bits set, so "full" is decided rightly     *)
(* whatever mixture of inserts, deletes and rollbacks the page has seen.   *)
CountExact == \A p \in Page : num_records[p] = Cardinality(bitmap[p])

(* The pages reached from the file header along next_free_page_no, in at   *)
(* most n hops.                                                            *)
Chain[n \in 0..(MaxPages + 1)] ==
  IF n = 0 THEN <<>>
  ELSE LET c == Chain[n - 1]
           q == IF c = <<>> THEN first_free ELSE next_free[Last(c)]
       IN  IF q = RM_NO_PAGE \/ (n > 1 /\ Len(c) < n - 1) THEN c ELSE Append(c, q)

(* The free list ends, visits no page twice, and holds exactly the pages   *)
(* with a free slot: no space is lost and no full page is handed out.      *)
FreeListExact ==
  LET c == Chain[MaxPages + 1]
  IN  /\ Len(c) <= MaxPages
      /\ ToSet(c) = {p \in 1..num_pages : Cardinality(bitmap[p]) < Slots}

(* The assertion of insert_record and InsertExecutor::Next: the page the   *)
(* free list offers has a free slot.                                       *)
HeadHasRoom == first_free # RM_NO_PAGE => first_zero(first_free) < Slots

(* The counts are exact for any number of transactions, until two calls    *)
(* race on a page or on the file header (rm_file_handle.cpp has no latch). *)
CountsUnlessRaced == "race" \notin events => CountExact

(* The book-keeping of a table file: the counts, the free list and its     *)
(* head agree with the bitmaps, after any sequence of inserts, deletes and *)
(* rollbacks of transactions that overlap (rm_file_handle.cpp).  Three     *)
(* things spoil the list, and nothing else: a race; an INSERT that fills a *)
(* page which has lost its place at the head since the slot was chosen;    *)
(* and a DELETE undone on a file that has changed otherwise since.         *)
SpaceExact ==
  /\ TypeOK /\ CountsUnlessRaced
  /\ events = {} => FreeListExact /\ HeadHasRoom
=============================================================================
