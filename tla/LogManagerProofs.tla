-------------------------- MODULE LogManagerProofs --------------------------
(***************************************************************************)
(* Proofs about LogManager for any number of sessions, any capacity of the *)
(* buffer and any number of records.                                       *)
(***************************************************************************)
EXTENDS LogManager, SequenceTheorems, TLAPS

-----------------------------------------------------------------------------
(* The inductive invariant.                                                *)

(* latch_ is held exactly on the way through add_log_to_buffer, and a      *)
(* record that is about to be copied fits.                                 *)
LatchInv ==
  /\ latch # NoSession => pc[latch] # "idle"
  /\ \A s \in Session : pc[s] \in {"serialize", "advance"} => latch = s /\ offset < Capacity
  /\ \A s \in Session : latch = s => global_lsn > 0 /\ lsn[s] = global_lsn - 1

(* Records that are in the log: the one being added is not yet.            *)
Complete == IF latch = NoSession THEN global_lsn ELSE global_lsn - 1

InReset == \E s \in Session : pc[s] = "reset"

(* Without a race the file and the buffer hold the records in order; after *)
(* write_log and until the buffer is reset the file has them all.          *)
ContentInv ==
  /\ ~Racing
  /\ Len(file) + (IF InReset THEN 0 ELSE offset) = Complete
  /\ \A i \in 1..Len(file) : file[i] = i - 1
  /\ ~InReset => \A i \in 1..offset : buffer[i] = Len(file) + i - 1
  /\ \A s \in Session : pc[s] = "write" => size[s] = offset
  /\ \A s \in Session : pc[s] = "advance" => buffer[offset + 1] = lsn[s]

HistoryInv ==
  /\ \A s \in Session : \A r \in mine[s] : r < Complete
  /\ \A r \in acked : r < Len(file)

IInv == TypeOK /\ LatchInv /\ (~raced => ContentInv /\ HistoryInv)

Cell == (0..MaxRecords) \cup {Blank}

(* What write_log appends: the first n cells of the buffer.                *)
LEMMA Written ==
  ASSUME NEW f \in Seq(Cell), NEW b \in [1..Capacity -> Cell], NEW n \in 0..Capacity
  PROVE  LET g == f \o SubSeq(b, 1, n)
         IN  /\ g \in Seq(Cell) /\ Len(g) = Len(f) + n
             /\ \A i \in 1..Len(f) : g[i] = f[i]
             /\ \A i \in 1..n : g[Len(f) + i] = b[i]
<1> USE LogConstants
<1>1. \A i \in 1..n : b[i] \in Cell
  OBVIOUS
<1>2. /\ SubSeq(b, 1, n) \in Seq(Cell) /\ Len(SubSeq(b, 1, n)) = n
      /\ \A i \in 1..n : SubSeq(b, 1, n)[i] = b[i]
  <2>1. /\ SubSeq(b, 1, n) \in Seq(Cell)
        /\ Len(SubSeq(b, 1, n)) = IF 1 <= n THEN n - 1 + 1 ELSE 0
        /\ \A i \in 1..(n - 1 + 1) : SubSeq(b, 1, n)[i] = b[1 + i - 1]
    BY <1>1, SubSeqProperties
  <2> QED BY <2>1
<1> DEFINE c == SubSeq(b, 1, n)
<1>3. /\ f \o c \in Seq(Cell) /\ Len(f \o c) = Len(f) + Len(c)
      /\ \A i \in 1..(Len(f) + Len(c)) : (f \o c)[i] = IF i <= Len(f) THEN f[i] ELSE c[i - Len(f)]
  BY <1>2, ConcatProperties
<1> HIDE DEF c
<1>4. Len(f) \in Nat
  OBVIOUS
<1>5. Len(c) = n /\ \A i \in 1..n : c[i] = b[i]
  BY <1>2 DEF c
<1>6. /\ f \o c \in Seq(Cell) /\ Len(f \o c) = Len(f) + n
      /\ \A i \in 1..Len(f) : (f \o c)[i] = f[i]
      /\ \A i \in 1..n : (f \o c)[Len(f) + i] = b[i]
  BY <1>3, <1>4, <1>5
<1> QED BY <1>6 DEF c

LEMMA InitInv == Init => IInv
<1> SUFFICES ASSUME Init PROVE IInv
  OBVIOUS
<1> USE LogConstants
<1>1. TypeOK
  <2>1. file \in Seq((0..MaxRecords) \cup {Blank})
    BY EmptySeq DEF Init
  <2>2. buffer \in [1..Capacity -> (0..MaxRecords) \cup {Blank}]
    BY DEF Init
  <2>3. raced \in BOOLEAN
    BY DEF Init
  <2>4. offset \in 0..Capacity /\ global_lsn \in 0..MaxRecords /\ persist_lsn \in -1..MaxRecords
    BY DEF Init
  <2>5. lsn \in [Session -> -1..MaxRecords] /\ size \in [Session -> 0..Capacity]
    BY DEF Init
  <2>6. /\ mine \in [Session -> SUBSET (0..MaxRecords)] /\ acked \subseteq 0..MaxRecords
        /\ latch \in Session \cup {NoSession}
        /\ pc \in [Session -> {"idle", "flush", "write", "reset", "serialize", "advance"}]
    BY DEF Init
  <2> QED BY <2>1, <2>2, <2>3, <2>4, <2>5, <2>6 DEF TypeOK
<1>2. LatchInv
  BY DEF Init, LatchInv
<1>3. ContentInv /\ HistoryInv
  BY DEF Init, ContentInv, HistoryInv, Complete, InReset, Racing
<1> QED BY <1>1, <1>2, <1>3 DEF IInv

(* Every variable keeps its type and latch_ is where the code thinks.      *)
LEMMA TypeStep ==
  ASSUME TypeOK, LatchInv, NEW s \in Session, Step(s), raced' = (raced \/ Racing')
  PROVE  TypeOK' /\ LatchInv'
<1> USE LogConstants
<1>0. raced' \in BOOLEAN
  BY DEF TypeOK
<1>1. CASE add_log_to_buffer(s)
  <2>1. TypeOK'
    BY <1>0, <1>1 DEF add_log_to_buffer, Goto, TypeOK
  <2>2. LatchInv'
    BY <1>1 DEF add_log_to_buffer, Goto, TypeOK, LatchInv
  <2> QED BY <2>1, <2>2
<1>2. CASE flush_log_to_disk(s)
  BY <1>0, <1>2 DEF flush_log_to_disk, Goto, TypeOK, LatchInv
<1>3. CASE FlushCheck(s)
  <2>1. TypeOK'
    BY <1>0, <1>3 DEF FlushCheck, Return, Goto, TypeOK
  <2>2. LatchInv'
    BY <1>3 DEF FlushCheck, Return, Goto, TypeOK, LatchInv
  <2> QED BY <2>1, <2>2
<1>4. CASE write_log(s)
  <2>1. file' \in Seq(Cell)
    BY <1>4, Written DEF write_log, TypeOK, Cell
  <2>2. TypeOK'
    BY <1>0, <1>4, <2>1 DEF write_log, Goto, TypeOK, Cell
  <2>3. LatchInv'
    BY <1>4 DEF write_log, Goto, TypeOK, LatchInv
  <2> QED BY <2>2, <2>3
<1>5. CASE FlushReset(s)
  <2>1. buffer' \in [1..Capacity -> (0..MaxRecords) \cup {Blank}]
    BY <1>5 DEF FlushReset
  <2>2. persist_lsn' \in -1..MaxRecords
    BY <1>5 DEF FlushReset, TypeOK
  <2>3. TypeOK'
    BY <1>0, <1>5, <2>1, <2>2 DEF FlushReset, Return, Goto, TypeOK
  <2>4. LatchInv'
    BY <1>5 DEF FlushReset, Return, Goto, TypeOK, LatchInv
  <2> QED BY <2>3, <2>4
<1>6. CASE serialize(s)
  <2>1. lsn[s] \in 0..MaxRecords
    BY <1>6 DEF serialize, TypeOK, LatchInv
  <2>2. buffer' \in [1..Capacity -> (0..MaxRecords) \cup {Blank}]
    BY <1>6, <2>1 DEF serialize, TypeOK
  <2>3. TypeOK'
    BY <1>0, <1>6, <2>2 DEF serialize, Goto, TypeOK
  <2>4. LatchInv'
    BY <1>6 DEF serialize, Goto, TypeOK, LatchInv
  <2> QED BY <2>3, <2>4
<1>7. CASE AddReturn(s)
  <2>1. lsn[s] \in 0..MaxRecords
    BY <1>7 DEF AddReturn, TypeOK, LatchInv
  <2>2. TypeOK'
    BY <1>0, <1>7, <2>1 DEF AddReturn, Goto, TypeOK, LatchInv
  <2>3. LatchInv'
    BY <1>7 DEF AddReturn, Goto, TypeOK, LatchInv
  <2> QED BY <2>2, <2>3
<1> QED BY <1>1, <1>2, <1>3, <1>4, <1>5, <1>6, <1>7 DEF Step

(* While nobody races, the records stay where they belong and so does what *)
(* the sessions were told.                                                 *)
LEMMA ContentStep ==
  ASSUME TypeOK, LatchInv, ContentInv, HistoryInv, ~Racing', NEW s \in Session, Step(s)
  PROVE  ContentInv' /\ HistoryInv'
<1> USE LogConstants
<1>0. Len(file) \in Nat /\ offset \in Nat /\ global_lsn \in Nat /\ offset <= Capacity
  BY DEF TypeOK
<1>1. CASE add_log_to_buffer(s)
  <2>1. Complete' = Complete /\ InReset' = InReset
    BY <1>1 DEF add_log_to_buffer, Goto, Complete, InReset, TypeOK
  <2>2. ContentInv'
    BY <1>1, <2>1 DEF add_log_to_buffer, Goto, ContentInv, TypeOK
  <2>3. HistoryInv'
    BY <1>1, <2>1 DEF add_log_to_buffer, HistoryInv
  <2> QED BY <2>2, <2>3
<1>2. CASE flush_log_to_disk(s)
  <2>1. Complete' = Complete /\ InReset' = InReset
    BY <1>2 DEF flush_log_to_disk, Goto, Complete, InReset, TypeOK
  <2>2. ContentInv'
    BY <1>2, <2>1 DEF flush_log_to_disk, Goto, ContentInv, TypeOK
  <2>3. HistoryInv'
    BY <1>2, <2>1 DEF flush_log_to_disk, HistoryInv
  <2> QED BY <2>2, <2>3
<1>3. CASE FlushCheck(s)
  <2>1. Complete' = Complete /\ InReset' = InReset
    BY <1>3 DEF FlushCheck, Return, Goto, Complete, InReset, TypeOK
  <2>2. ContentInv'
    BY <1>3, <2>1 DEF FlushCheck, Return, Goto, ContentInv, TypeOK
  <2>3. ASSUME offset = 0 PROVE \A r \in mine[s] : r < Len(file)
    BY <1>0, <2>3 DEF ContentInv, HistoryInv, TypeOK
  <2>4. HistoryInv'
    BY <1>3, <2>1, <2>3 DEF FlushCheck, Return, HistoryInv
  <2> QED BY <2>2, <2>4
<1>4. CASE write_log(s)
  <2>1. /\ Complete' = Complete /\ ~InReset /\ InReset' /\ offset' = offset
        /\ \A u \in Session : pc'[u] \notin {"write", "advance"}
    BY <1>4 DEF write_log, Goto, Complete, InReset, TypeOK, ContentInv, Racing
  <2>2. /\ file' \in Seq(Cell) /\ Len(file') = Len(file) + offset
        /\ \A i \in 1..Len(file) : file'[i] = file[i]
        /\ \A i \in 1..offset : file'[Len(file) + i] = buffer[i]
    <3>1. size[s] = offset
      BY <1>4 DEF write_log, ContentInv
    <3>2. file' = file \o SubSeq(buffer, 1, offset)
      BY <1>4, <3>1 DEF write_log
    <3>3. file \in Seq(Cell) /\ buffer \in [1..Capacity -> Cell] /\ offset \in 0..Capacity
      BY DEF TypeOK, Cell
    <3> HIDE DEF Cell
    <3> QED BY <3>2, <3>3, Written
  <2>3. \A i \in 1..Len(file') : file'[i] = i - 1
    <3> SUFFICES ASSUME NEW i \in 1..Len(file') PROVE file'[i] = i - 1
      OBVIOUS
    <3>1. CASE i <= Len(file)
      BY <1>0, <2>2, <3>1 DEF ContentInv
    <3>2. CASE i > Len(file)
      <4>1. i - Len(file) \in 1..offset /\ Len(file) + (i - Len(file)) = i
        BY <1>0, <2>2, <3>2
      <4>2. file'[Len(file) + (i - Len(file))] = buffer[i - Len(file)]
        BY <2>2, <4>1
      <4>3. buffer[i - Len(file)] = Len(file) + (i - Len(file)) - 1
        BY <2>1, <4>1 DEF ContentInv
      <4> QED BY <1>0, <4>1, <4>2, <4>3
    <3> QED BY <1>0, <3>1, <3>2
  <2>4. Len(file') = Complete'
    BY <1>0, <2>1, <2>2 DEF ContentInv
  <2>5. ContentInv'
    <3>1. Complete' \in Nat
      BY <1>0, <2>2, <2>4
    <3> QED BY <2>1, <2>3, <2>4, <3>1 DEF ContentInv
  <2>6. HistoryInv'
    <3>1. \A r \in acked : r < Len(file')
      BY <1>0, <2>2 DEF HistoryInv, TypeOK
    <3> QED BY <1>4, <2>1, <3>1 DEF write_log, HistoryInv
  <2> QED BY <2>5, <2>6
<1>5. CASE FlushReset(s)
  <2>1. /\ Complete' = Complete /\ InReset /\ ~InReset' /\ offset' = 0 /\ file' = file
        /\ \A u \in Session : pc'[u] \notin {"write", "advance"}
    BY <1>5 DEF FlushReset, Return, Goto, Complete, InReset, TypeOK, ContentInv, Racing
  <2>2. Len(file) = Complete
    BY <1>0, <2>1 DEF ContentInv
  <2>3. ContentInv'
    BY <1>0, <2>1, <2>2 DEF ContentInv
  <2>4. \A r \in mine[s] : r < Len(file)
    BY <2>2 DEF HistoryInv
  <2>5. HistoryInv'
    BY <1>5, <2>1, <2>4 DEF FlushReset, Return, HistoryInv
  <2> QED BY <2>3, <2>5
<1>6. CASE serialize(s)
  <2>1. Complete' = Complete /\ InReset' = InReset /\ ~InReset
    BY <1>6 DEF serialize, Goto, Complete, InReset, TypeOK, Racing
  <2>2. offset < Capacity /\ latch = s
    BY <1>6 DEF serialize, LatchInv
  <2>3. /\ \A i \in 1..offset : buffer'[i] = buffer[i]
        /\ buffer'[offset + 1] = lsn[s]
    BY <1>0, <1>6, <2>2 DEF serialize, TypeOK
  <2>4. \A u \in Session : pc'[u] = "advance" => u = s
    BY <1>6, <2>2 DEF serialize, Goto, LatchInv, TypeOK
  <2>5. \A u \in Session : pc'[u] = "write" => pc[u] = "write"
    BY <1>6 DEF serialize, Goto, TypeOK
  <2>6. ContentInv'
    BY <1>6, <2>1, <2>3, <2>4, <2>5 DEF serialize, ContentInv
  <2>7. HistoryInv'
    BY <1>6, <2>1 DEF serialize, HistoryInv
  <2> QED BY <2>6, <2>7
<1>7. CASE AddReturn(s)
  <2>1. /\ ~InReset /\ ~InReset'
        /\ \A u \in Session : pc'[u] \notin {"write", "advance"}
    BY <1>7 DEF AddReturn, Goto, InReset, TypeOK, ContentInv, Racing, LatchInv
  <2>2. latch = s /\ global_lsn > 0 /\ lsn[s] = global_lsn - 1
    BY <1>7 DEF AddReturn, LatchInv
  <2>3. Complete = global_lsn - 1 /\ Complete' = global_lsn
    BY <1>7, <2>2 DEF AddReturn, Complete
  <2>4. \A i \in 1..(offset + 1) : buffer[i] = Len(file) + i - 1
    <3>1. Len(file) + offset = Complete /\ buffer[offset + 1] = lsn[s]
      BY <1>7, <2>1 DEF AddReturn, ContentInv
    <3>2. buffer[offset + 1] = Len(file) + (offset + 1) - 1
      BY <1>0, <2>2, <2>3, <3>1
    <3>3. \A i \in 1..offset : buffer[i] = Len(file) + i - 1
      BY <2>1 DEF ContentInv
    <3>4. \A i \in 1..(offset + 1) : i \in 1..offset \/ i = offset + 1
      BY <1>0
    <3> QED BY <3>2, <3>3, <3>4
  <2>5. ContentInv'
    BY <1>0, <1>7, <2>1, <2>3, <2>4 DEF AddReturn, ContentInv
  <2>6. HistoryInv'
    BY <1>0, <1>7, <2>2, <2>3 DEF AddReturn, HistoryInv, TypeOK
  <2> QED BY <2>5, <2>6
<1> QED BY <1>1, <1>2, <1>3, <1>4, <1>5, <1>6, <1>7 DEF Step

(* The inductive invariant holds in every reachable state.                 *)
THEOREM LogInvariant == Spec => []IInv
<1>1. IInv /\ [Next]_vars => IInv'
  <2> SUFFICES ASSUME IInv, [Next]_vars PROVE IInv'
    OBVIOUS
  <2>1. CASE Next
    <3>1. PICK s \in Session : Step(s) /\ raced' = (raced \/ Racing')
      BY <2>1 DEF Next
    <3>2. TypeOK' /\ LatchInv'
      BY <3>1, TypeStep DEF IInv
    <3>3. ~raced' => ContentInv' /\ HistoryInv'
      BY <3>1, ContentStep DEF IInv
    <3> QED BY <3>2, <3>3 DEF IInv
  <2>2. CASE UNCHANGED vars
    <3>1. TypeOK' /\ LatchInv' /\ raced' = raced
      BY <2>2 DEF vars, IInv, TypeOK, LatchInv
    <3>2. ContentInv => ContentInv'
      BY <2>2 DEF vars, ContentInv, Racing, InReset, Complete
    <3>3. HistoryInv => HistoryInv'
      BY <2>2 DEF vars, HistoryInv, Complete
    <3> QED BY <3>1, <3>2, <3>3 DEF IInv
  <2> QED BY <2>1, <2>2
<1> QED BY InitInv, <1>1, PTL DEF Spec

(* Without a race nothing in the file is blank, so recovery reads all of   *)
(* it (validate_log_boundary).                                             *)
LEMMA AllReadable ==
  ASSUME TypeOK, ContentInv
  PROVE  Readable(file) = file
<1>1. \A i \in DOMAIN file : file[i] # Blank
  <2>1. DOMAIN file = 1..Len(file) /\ Len(file) \in Nat
    BY DEF TypeOK
  <2> QED BY <2>1, LogConstants DEF ContentInv
<1> QED BY <1>1 DEF Readable

(* The log is complete and the buffer is never overrun: for any number of  *)
(* sessions that append and flush, unless two of them race, the file and   *)
(* the buffer hold every record once and in order when nobody is inside.   *)
THEOREM LogExactAlways == Spec => []LogExact
<1>1. IInv => LogExact
  <2> SUFFICES ASSUME IInv PROVE LogExact
    OBVIOUS
  <2>1. TypeOK
    BY DEF IInv
  <2> SUFFICES ASSUME ~raced, \A s \in Session : pc[s] = "idle"
               PROVE  Readable(file) \o SubSeq(buffer, 1, offset) = [i \in 1..global_lsn |-> i - 1]
    BY <2>1 DEF LogExact, LogComplete
  <2>2. ContentInv /\ Readable(file) = file
    BY <2>1, AllReadable DEF IInv
  <2> DEFINE g == file \o SubSeq(buffer, 1, offset)
  <2>3. /\ g \in Seq(Cell) /\ Len(g) = Len(file) + offset
        /\ \A i \in 1..Len(file) : g[i] = file[i]
        /\ \A i \in 1..offset : g[Len(file) + i] = buffer[i]
    BY <2>1, Written DEF TypeOK, Cell
  <2> HIDE DEF g
  <2>4. Len(file) \in Nat /\ offset \in Nat /\ global_lsn \in Nat
    BY <2>1 DEF TypeOK
  <2>5. ~InReset /\ latch = NoSession
    BY <2>1 DEF InReset, IInv, LatchInv, TypeOK
  <2>6. Len(g) = global_lsn
    BY <2>2, <2>3, <2>4, <2>5 DEF ContentInv, Complete
  <2>7. \A i \in 1..global_lsn : g[i] = i - 1
    <3> SUFFICES ASSUME NEW i \in 1..global_lsn PROVE g[i] = i - 1
      OBVIOUS
    <3>1. CASE i <= Len(file)
      BY <2>2, <2>3, <2>4, <3>1 DEF ContentInv
    <3>2. CASE i > Len(file)
      <4>1. i - Len(file) \in 1..offset /\ Len(file) + (i - Len(file)) = i
        BY <2>3, <2>4, <2>6, <3>2
      <4>2. g[Len(file) + (i - Len(file))] = buffer[i - Len(file)]
        BY <2>3, <4>1
      <4>3. buffer[i - Len(file)] = Len(file) + (i - Len(file)) - 1
        BY <2>2, <2>5, <4>1 DEF ContentInv
      <4> QED BY <2>4, <4>1, <4>2, <4>3
    <3> QED BY <2>4, <3>1, <3>2
  <2>8. g = [i \in 1..global_lsn |-> i - 1]
    <3>1. g \in [1..Len(g) -> Cell]
      BY <2>3, LenProperties
    <3> QED BY <2>6, <2>7, <3>1
  <2> QED BY <2>2, <2>8 DEF g
<1> QED BY LogInvariant, <1>1, PTL

(* The write-ahead rule: unless two sessions raced, what a session's own   *)
(* flush_log_to_disk has returned for is where recovery will read it.      *)
THEOREM FlushedUnlessRacedAlways == Spec => []FlushedUnlessRaced
<1>1. IInv => FlushedUnlessRaced
  <2> SUFFICES ASSUME IInv, ~raced PROVE acked \subseteq ToSet(Readable(file))
    BY DEF FlushedUnlessRaced, FlushedIsReadable
  <2>1. TypeOK /\ ContentInv /\ HistoryInv
    BY DEF IInv
  <2>2. Readable(file) = file
    BY <2>1, AllReadable
  <2>3. ASSUME NEW r \in acked PROVE \E i \in DOMAIN file : file[i] = r
    <3>1. r \in Nat /\ r < Len(file) /\ Len(file) \in Nat /\ DOMAIN file = 1..Len(file)
      BY <2>1 DEF TypeOK, HistoryInv
    <3>2. r + 1 \in DOMAIN file /\ file[r + 1] = r
      BY <2>1, <3>1 DEF ContentInv
    <3> QED BY <3>2
  <2> QED BY <2>2, <2>3 DEF ToSet
<1> QED BY LogInvariant, <1>1, PTL
=============================================================================
