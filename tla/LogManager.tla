----------------------------- MODULE LogManager -----------------------------
(***************************************************************************)
(* The log buffer (recovery/log_manager.{h,cpp}): add_log_to_buffer runs   *)
(* under latch_, flush_log_to_disk does not, and is called both from       *)
(* add_log_to_buffer (the buffer is full) and directly by commit, abort    *)
(* and the "crash" command.  A step is what another thread can see: the    *)
(* write to the file, the reset of the buffer, the copy of a record into   *)
(* the buffer and the advance of offset_.                                  *)
(*                                                                         *)
(* A record is its lsn and takes one cell.  A cell that memset cleared is  *)
(* Blank: in the file it has length 0, and analysis, redo and undo stop    *)
(* reading there (validate_log_boundary).                                  *)
(***************************************************************************)
EXTENDS Integers, Sequences, SequencesExt

CONSTANTS Session,    \* threads
          NoSession,
          Blank,
          Capacity,   \* LOG_BUFFER_SIZE, in records
          MaxRecords  \* bound: records added

ASSUME LogConstants ==
  NoSession \notin Session /\ Capacity \in Nat \ {0} /\ MaxRecords \in Nat /\ Blank \notin Int

VARIABLES
  buffer,       \* log_buffer_.buffer_
  offset,       \* log_buffer_.offset_
  global_lsn,   \* global_lsn_
  persist_lsn,  \* persist_lsn_ (-1 until the first flush)
  file,         \* the log file
  latch,        \* holder of latch_
  pc,           \* where each session is
  size,         \* size argument of the write_log call a session is in
  lsn,          \* the lsn of the record a session is adding
  mine,         \* history: records each session has added
  acked,        \* history: records whose session has returned from a flush of its own
  raced         \* history: an unlatched flush has overlapped a change of the buffer

vars == <<buffer, offset, global_lsn, persist_lsn, file, latch, pc, size, lsn, mine, acked, raced>>

Init ==
  /\ buffer = [i \in 1..Capacity |-> Blank] /\ offset = 0
  /\ global_lsn = 0 /\ persist_lsn = -1
  /\ file = <<>>
  /\ latch = NoSession
  /\ pc = [s \in Session |-> "idle"]
  /\ size = [s \in Session |-> 0]
  /\ lsn = [s \in Session |-> -1]
  /\ mine = [s \in Session |-> {}]
  /\ acked = {} /\ raced = FALSE

Goto(s, where) == pc' = [pc EXCEPT ![s] = where]

(* Mutant: no is_full check.                                              *)
add_log_to_buffer_NoFullCheck(s) ==
  /\ pc[s] = "idle" /\ latch = NoSession /\ global_lsn < MaxRecords
  /\ latch' = s
  /\ lsn' = [lsn EXCEPT ![s] = global_lsn]
  /\ global_lsn' = global_lsn + 1
  /\ Goto(s, "serialize")
  /\ UNCHANGED <<buffer, offset, persist_lsn, file, size, mine, acked>>

(* add_log_to_buffer: latch, lsn, is_full.                                 *)
add_log_to_buffer(s) ==
  /\ pc[s] = "idle" /\ latch = NoSession /\ global_lsn < MaxRecords
  /\ latch' = s
  /\ lsn' = [lsn EXCEPT ![s] = global_lsn]
  /\ global_lsn' = global_lsn + 1
  /\ Goto(s, IF offset + 1 > Capacity THEN "flush" ELSE "serialize")
  /\ UNCHANGED <<buffer, offset, persist_lsn, file, size, mine, acked>>

(* Where flush_log_to_disk returns to.                                     *)
Return(s) ==
  IF latch = s
    THEN Goto(s, "serialize") /\ UNCHANGED acked
    ELSE Goto(s, "idle") /\ acked' = acked \cup mine[s]

(* commit and abort call flush_log_to_disk without the latch.              *)
flush_log_to_disk(s) ==
  /\ pc[s] = "idle"
  /\ Goto(s, "flush")
  /\ UNCHANGED <<buffer, offset, global_lsn, persist_lsn, file, latch, size, lsn, mine, acked>>

FlushCheck(s) ==
  /\ pc[s] = "flush"
  /\ \/ offset = 0 /\ Return(s) /\ UNCHANGED size
     \/ /\ offset # 0 /\ Goto(s, "write")
        /\ size' = [size EXCEPT ![s] = offset]
        /\ UNCHANGED acked
  /\ UNCHANGED <<buffer, offset, global_lsn, persist_lsn, file, latch, lsn, mine>>

(* Mutant: the last record of the buffer is not written.                  *)
write_log_OffByOne(s) ==
  /\ pc[s] = "write"
  /\ file' = file \o SubSeq(buffer, 1, size[s] - 1)
  /\ Goto(s, "reset")
  /\ UNCHANGED <<buffer, offset, global_lsn, persist_lsn, latch, size, lsn, mine, acked>>

write_log(s) ==
  /\ pc[s] = "write"
  /\ file' = file \o SubSeq(buffer, 1, size[s])
  /\ Goto(s, "reset")
  /\ UNCHANGED <<buffer, offset, global_lsn, persist_lsn, latch, size, lsn, mine, acked>>

(* Mutant: offset_ is not reset.                                          *)
FlushReset_KeepOffset(s) ==
  /\ pc[s] = "reset"
  /\ persist_lsn' = global_lsn - 1
  /\ buffer' = [i \in 1..Capacity |-> Blank]
  /\ Return(s)
  /\ UNCHANGED <<offset, global_lsn, file, latch, size, lsn, mine>>

FlushReset(s) ==
  /\ pc[s] = "reset"
  /\ persist_lsn' = global_lsn - 1
  /\ offset' = 0
  /\ buffer' = [i \in 1..Capacity |-> Blank]
  /\ Return(s)
  /\ UNCHANGED <<global_lsn, file, latch, size, lsn, mine>>

serialize(s) ==
  /\ pc[s] = "serialize"
  /\ buffer' = [buffer EXCEPT ![offset + 1] = lsn[s]]
  /\ Goto(s, "advance")
  /\ UNCHANGED <<offset, global_lsn, persist_lsn, file, latch, size, lsn, mine, acked>>

AddReturn(s) ==
  /\ pc[s] = "advance"
  /\ offset' = offset + 1
  /\ latch' = NoSession
  /\ mine' = [mine EXCEPT ![s] = @ \cup {lsn[s]}]
  /\ Goto(s, "idle")
  /\ UNCHANGED <<buffer, global_lsn, persist_lsn, file, size, lsn, acked>>

Step(s) ==
  \/ add_log_to_buffer(s) \/ flush_log_to_disk(s)
  \/ FlushCheck(s) \/ write_log(s) \/ FlushReset(s) \/ serialize(s) \/ AddReturn(s)

(* A session is between reading offset_ for a flush and resetting the      *)
(* buffer while another one is there too or has copied its record but not  *)
(* yet advanced offset_.                                                   *)
Racing ==
  \E s, u \in Session : s # u /\ pc[s] \in {"write", "reset"}
                              /\ pc[u] \in {"write", "reset", "advance"}

Next == \E s \in Session : Step(s) /\ raced' = (raced \/ Racing')

Spec == Init /\ [][Next]_vars

-----------------------------------------------------------------------------
(* What recovery can read of a log: everything before the first Blank.     *)
Readable(log) ==
  LET holes == {i \in DOMAIN log : log[i] = Blank}
  IN  IF holes = {} THEN log ELSE SubSeq(log, 1, (CHOOSE i \in holes : \A j \in holes : i <= j) - 1)

TypeOK ==
  /\ buffer \in [1..Capacity -> (0..MaxRecords) \cup {Blank}] /\ offset \in 0..Capacity
  /\ global_lsn \in 0..MaxRecords /\ persist_lsn \in -1..MaxRecords
  /\ file \in Seq((0..MaxRecords) \cup {Blank})
  /\ latch \in Session \cup {NoSession}
  /\ pc \in [Session -> {"idle", "flush", "write", "reset", "serialize", "advance"}]
  /\ size \in [Session -> 0..Capacity] /\ lsn \in [Session -> -1..MaxRecords]
  /\ mine \in [Session -> SUBSET (0..MaxRecords)] /\ acked \subseteq 0..MaxRecords
  /\ raced \in BOOLEAN

(* Unless two sessions raced as above: whenever nobody is inside the log   *)
(* manager, the file and then the buffer hold every record exactly once,   *)
(* in lsn order, so a flush neither drops nor repeats what other sessions  *)
(* append before it starts, while it waits or after it ends.               *)
LogComplete ==
  (~raced /\ \A s \in Session : pc[s] = "idle") =>
    Readable(file) \o SubSeq(buffer, 1, offset) = [i \in 1..global_lsn |-> i - 1]

(* Write-ahead rule: when the flush that commit waits for has returned,    *)
(* the transaction's records are where recovery will read them.            *)
FlushedIsReadable == acked \subseteq ToSet(Readable(file))

(* The races are the only way to break the write-ahead rule: a session     *)
(* that finds the buffer already flushed by another one may return at once.*)
FlushedUnlessRaced == ~raced => FlushedIsReadable

(* The log is complete, and the buffer is never overrun: a record is       *)
(* serialized only where it fits (add_log_to_buffer, is_full).             *)
LogExact == TypeOK /\ LogComplete
=============================================================================
