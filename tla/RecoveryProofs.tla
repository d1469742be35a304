--------------------------- MODULE RecoveryProofs ---------------------------
(***************************************************************************)
(* Proofs about Recovery, for any number of transactions, pages, rows,     *)
(* statements, rollbacks, evictions and crashes, and any log buffer.  The  *)
(* second half, from "The last of several changes" on, is about the serial *)
(* histories (Serial) and shows that rollback and recovery leave exactly   *)
(* the committed changes.                                                  *)
(***************************************************************************)
EXTENDS Recovery, NaturalsInduction, FiniteSetTheorems, TLAPS

-----------------------------------------------------------------------------
(* Passes over the log.                                                    *)

LEMMA LeastNat ==
  ASSUME NEW T, T \subseteq Nat, T # {}
  PROVE  \E x \in T : \A y \in T : x <= y
<1> DEFINE R == OpToRel(<, Nat)
<1>1. IsWellFoundedOn(OpToRel(<, Nat), Nat)
  BY NatLessThanWellFounded, Zenon
<1>2. \E x \in T : \A y \in T : ~(<<y, x>> \in OpToRel(<, Nat))
  BY <1>1, WFMin, Zenon
<1>3. \A x, y \in Nat : <<y, x>> \in OpToRel(<, Nat) <=> y < x
  BY DEF OpToRel
<1> HIDE DEF R
<1>4. \E x \in T : \A y \in T : ~(<<y, x>> \in R)
  BY <1>2, Zenon DEF R
<1>5. \A x, y \in Nat : <<y, x>> \in R <=> y < x
  BY <1>3, Zenon DEF R
<1>6. PICK x \in T : \A y \in T : ~(<<y, x>> \in R)
  BY <1>4
<1>7. x \in Nat /\ \A y \in T : y \in Nat /\ ~(y < x)
  BY <1>5, <1>6
<1>8. \A y \in T : x <= y
  BY <1>7
<1> QED BY <1>8

(* f is a pass: the states, in S, before and after each of N steps.        *)
IsPass(f, S, N, base, step) ==
  f \in [0..N -> S] /\ f[0] = base /\ \A n \in 1..N : f[n] = step[n][f[n - 1]]

LEMMA PassExists ==
  ASSUME NEW S, NEW N \in Nat, NEW base \in S, NEW step \in [1..N -> [S -> S]]
  PROVE  \E f : IsPass(f, S, N, base, step)
<1> DEFINE Run(f, k) == f \in [0..k -> S] /\ f[0] = base /\ \A n \in 1..k : f[n] = step[n][f[n - 1]]
           Bad == {k \in 0..N : ~\E f : Run(f, k)}
<1>0. \A f : Run(f, N) => IsPass(f, S, N, base, step)
  BY DEF IsPass
<1>1. \A k : k \in Bad <=> k \in 0..N /\ ~\E f : Run(f, k)
  OBVIOUS
<1>2. \A f, k : Run(f, k) <=> f \in [0..k -> S] /\ f[0] = base /\ \A n \in 1..k : f[n] = step[n][f[n - 1]]
  OBVIOUS
<1> HIDE DEF Run, Bad
<1>3. SUFFICES ASSUME Bad # {} PROVE FALSE
  <2>1. N \notin Bad /\ N \in 0..N
    BY <1>3
  <2> QED BY <1>0, <1>1, <2>1
<1>4. PICK k \in Bad : \A j \in Bad : k <= j
  <2>1. Bad \subseteq Nat
    BY <1>1
  <2> QED BY <1>3, <2>1, LeastNat
<1>5. k \in 0..N
  BY <1>1
<1>6. k # 0
  <2> SUFFICES ASSUME k = 0 PROVE FALSE
    OBVIOUS
  <2>1. PICK f : f = [n \in 0..0 |-> base]
    OBVIOUS
  <2>2. f \in [0..0 -> S] /\ f[0] = base /\ \A n \in 1..0 : f[n] = step[n][f[n - 1]]
    BY <2>1
  <2> QED BY <1>1, <1>2, <2>2
<1>7. k \in 1..N /\ k - 1 \in 0..N /\ k - 1 \notin Bad
  BY <1>4, <1>5, <1>6
<1>8. PICK f : Run(f, k - 1)
  BY <1>1, <1>7
<1>9. /\ f \in [0..(k - 1) -> S] /\ f[0] = base
      /\ \A n \in 1..(k - 1) : f[n] = step[n][f[n - 1]]
  BY <1>2, <1>8
<1>10. f[k - 1] \in S
  <2>1. k - 1 \in 0..(k - 1)
    BY <1>7
  <2> QED BY <1>9, <2>1
<1>11. PICK s \in S : s = step[k][f[k - 1]]
  BY <1>7, <1>10
<1>12. PICK g : g = [n \in 0..k |-> IF n = k THEN s ELSE f[n]]
  OBVIOUS
<1>13. \A n \in 0..k : g[n] = IF n = k THEN s ELSE f[n]
  BY <1>12
<1>14. \A n \in 0..k : n # k => n \in 0..(k - 1)
  BY <1>7
<1>15. g \in [0..k -> S]
  BY <1>9, <1>12, <1>14
<1>16. g[0] = base
  <2>1. 0 \in 0..k /\ 0 # k
    BY <1>7
  <2> QED BY <1>9, <1>13, <2>1
<1>17. ASSUME NEW n \in 1..k PROVE g[n] = step[n][g[n - 1]]
  <2>1. n \in 0..k /\ n - 1 \in 0..k /\ n - 1 # k
    BY <1>7
  <2>2. g[n - 1] = f[n - 1]
    BY <1>13, <2>1
  <2>3. CASE n = k
    BY <1>11, <1>13, <2>1, <2>2, <2>3
  <2>4. CASE n # k
    <3>1. n \in 1..(k - 1) /\ g[n] = f[n]
      BY <1>7, <1>13, <2>1, <2>4
    <3> QED BY <1>9, <2>2, <3>1
  <2> QED BY <2>3, <2>4
<1>18. Run(g, k)
  BY <1>2, <1>15, <1>16, <1>17
<1> QED BY <1>1, <1>18

(* What every step of a pass keeps holds at its end.                       *)
LEMMA PassKeeps ==
  ASSUME NEW N \in Nat, NEW Good \in SUBSET (0..N), 0 \in Good,
         \A n \in 1..N : n - 1 \in Good => n \in Good
  PROVE  N \in Good
<1>1. SUFFICES ASSUME N \notin Good PROVE FALSE
  OBVIOUS
<1> DEFINE Bad == (0..N) \ Good
<1>2. PICK k \in Bad : \A j \in Bad : k <= j
  <2>1. Bad \subseteq Nat /\ N \in Bad
    BY <1>1
  <2> HIDE DEF Bad
  <2> QED BY <2>1, LeastNat
<1>3. k # 0 /\ k \in 1..N
  OBVIOUS
<1>4. k - 1 \in Good
  BY <1>2, <1>3
<1> QED BY <1>3, <1>4

-----------------------------------------------------------------------------
(* Types.                                                                  *)

LEMMA RidPage ==
  ASSUME NEW r \in Rid
  PROVE  r[1] \in 1..MaxPages
BY DEF Rid

LEMMA PageCounts ==
  ASSUME StateOK
  PROVE  /\ num_pages \in Nat /\ disk_pages \in Nat /\ MaxPages \in Nat
         /\ num_pages <= MaxPages /\ disk_pages <= MaxPages
<1>1. MaxPages \in Nat
  BY RecoveryConstants
<1>2. num_pages \in 0..MaxPages /\ disk_pages \in 0..MaxPages
  BY DEF StateOK
<1> QED BY <1>1, <1>2

Bounds == [aborts: 0..MaxAborts, crashes: 0..MaxCrashes, recrashes: 0..MaxRecrashes,
           evictions: 0..MaxEvictions]

LEMMA BoundSteps ==
  ASSUME StateOK
  PROVE  /\ bound.aborts < MaxAborts => [bound EXCEPT !.aborts = @ + 1] \in Bounds
         /\ bound.crashes < MaxCrashes => [bound EXCEPT !.crashes = @ + 1] \in Bounds
         /\ bound.recrashes < MaxRecrashes => [bound EXCEPT !.recrashes = @ + 1] \in Bounds
         /\ bound.evictions < MaxEvictions => [bound EXCEPT !.evictions = @ + 1] \in Bounds
<1>1. {MaxAborts, MaxCrashes, MaxRecrashes, MaxEvictions} \subseteq Nat
  BY RecoveryConstants
<1>2. /\ bound.aborts \in 0..MaxAborts /\ bound.crashes \in 0..MaxCrashes
      /\ bound.recrashes \in 0..MaxRecrashes /\ bound.evictions \in 0..MaxEvictions
      /\ bound \in Bounds
  BY DEF StateOK, Bounds
<1>3. /\ bound.aborts < MaxAborts => bound.aborts + 1 \in 0..MaxAborts
      /\ bound.crashes < MaxCrashes => bound.crashes + 1 \in 0..MaxCrashes
      /\ bound.recrashes < MaxRecrashes => bound.recrashes + 1 \in 0..MaxRecrashes
      /\ bound.evictions < MaxEvictions => bound.evictions + 1 \in 0..MaxEvictions
  BY <1>1, <1>2
<1> QED BY <1>2, <1>3 DEF Bounds

LEMMA HistElement ==
  ASSUME StateOK, NEW i \in DOMAIN hist
  PROVE  hist[i].txn \in Txn /\ hist[i].rid \in Rid /\ hist[i].rid[1] \in 1..MaxPages
<1>1. hist[i] \in Change
  <2>1. hist \in Seq(Change)
    BY DEF StateOK
  <2> QED BY <2>1
<1> QED BY <1>1, RidPage DEF Change

LEMMA WriteElement ==
  ASSUME StateOK, NEW t \in Txn, NEW i \in DOMAIN write_set[t]
  PROVE  /\ write_set[t][i].rid \in Rid /\ write_set[t][i].rid[1] \in 1..MaxPages
         /\ write_set[t][i].old \in Row
<1>1. write_set[t][i] \in WriteRecord
  <2>1. write_set[t] \in Seq(WriteRecord)
    BY DEF StateOK
  <2> QED BY <2>1
<1> QED BY <1>1, RidPage DEF WriteRecord

LEMMA DataType ==
  ASSUME NEW r \in LogRecord, IsData(r)
  PROVE  /\ r.type \in {"INSERT", "DELETE", "UPDATE"} /\ r.txn \in Txn
         /\ r.rid \in Rid /\ r.old \in Row /\ r.new \in Row
BY DEF LogRecord, IsData

(* A table no row of which lies beyond its pages.                          *)
Within(rows, pages) == \A r \in Rid : rows[r] # Empty => r[1] <= pages

(* The states the redo pass goes through.                                  *)
RedoState ==
  {s \in [rows: [Rid -> Row], pages: num_pages..MaxPages, ok: BOOLEAN] : Within(s.rows, s.pages)}

LEMMA RedoRecordTyped ==
  ASSUME StateOK, NEW s \in RedoState, NEW r \in LogRecord
  PROVE  /\ RedoRecord(s, r) \in RedoState
         /\ RedoRecord(s, r).pages >= s.pages
         /\ RedoRecord(s, r).ok => s.ok
         /\ (RedoRecord(s, r).ok /\ IsData(r)) => r.rid[1] <= RedoRecord(s, r).pages
<1>1. /\ s.rows \in [Rid -> Row] /\ s.pages \in num_pages..MaxPages /\ s.ok \in BOOLEAN
      /\ s = [rows |-> s.rows, pages |-> s.pages, ok |-> s.ok]
      /\ Within(s.rows, s.pages)
  BY DEF RedoState
<1>2. num_pages \in Nat /\ MaxPages \in Nat /\ Empty \in Row
  BY RecoveryConstants DEF StateOK, Row
<1>3. CASE ~s.ok \/ ~IsData(r)
  BY <1>1, <1>2, <1>3 DEF RedoRecord
<1>4. CASE s.ok /\ IsData(r) /\ r.type = "DELETE" /\ r.rid[1] > s.pages
  <2>1. RedoRecord(s, r) = [rows |-> s.rows, pages |-> s.pages, ok |-> FALSE]
    BY <1>1, <1>4 DEF RedoRecord
  <2> QED BY <1>1, <1>2, <2>1 DEF RedoState
<1>5. CASE s.ok /\ IsData(r) /\ ~(r.type = "DELETE" /\ r.rid[1] > s.pages)
  <2>1. PICK rows : rows = [s.rows EXCEPT ![r.rid] = IF r.type = "UPDATE" /\ @ = Empty THEN Empty ELSE r.new]
    OBVIOUS
  <2>2. PICK pages : pages = IF r.rid[1] > s.pages THEN r.rid[1] ELSE s.pages
    OBVIOUS
  <2>3. RedoRecord(s, r) = [rows |-> rows, pages |-> pages, ok |-> TRUE]
    BY <1>1, <1>5, <2>1, <2>2 DEF RedoRecord
  <2>4. r.rid \in Rid /\ r.new \in Row /\ r.rid[1] \in 1..MaxPages
    BY <1>5, DataType, RidPage
  <2>5. rows \in [Rid -> Row] /\ \A x \in Rid : x # r.rid => rows[x] = s.rows[x]
    BY <1>1, <1>2, <2>1, <2>4
  <2>6. pages \in num_pages..MaxPages /\ pages >= s.pages /\ pages >= r.rid[1]
    BY <1>1, <1>2, <2>2, <2>4
  <2>7. Within(rows, pages)
    <3> SUFFICES ASSUME NEW x \in Rid, rows[x] # Empty PROVE x[1] <= pages
      BY DEF Within
    <3>1. CASE x = r.rid
      BY <2>6, <3>1, <1>2, <2>4
    <3>2. CASE x # r.rid
      <4>1. x[1] <= s.pages /\ x[1] \in 1..MaxPages
        BY <1>1, <2>5, <3>2, RidPage DEF Within
      <4> QED BY <4>1, <1>1, <1>2, <2>6
    <3> QED BY <3>1, <3>2
  <2> QED BY <1>2, <1>5, <2>3, <2>4, <2>5, <2>6, <2>7 DEF RedoState
<1> QED BY <1>1, <1>3, <1>4, <1>5

(* The redo pass is a function of the records read, and well typed.        *)
LEMMA RedoneFunction ==
  ASSUME StateOK, Within(mem, num_pages)
  PROVE  /\ Redone \in [0..Len(log_file) -> RedoState]
         /\ Redone[0] = [rows |-> mem, pages |-> num_pages, ok |-> TRUE]
         /\ \A n \in 1..Len(log_file) : Redone[n] = RedoRecord(Redone[n - 1], log_file[n])
<1> DEFINE N == Len(log_file)
           base == [rows |-> mem, pages |-> num_pages, ok |-> TRUE]
           step == [n \in 1..N |-> [s \in RedoState |-> RedoRecord(s, log_file[n])]]
<1>1. N \in Nat /\ \A n \in 1..N : log_file[n] \in LogRecord
  BY DEF StateOK
<1>2. base \in RedoState
  <2>1. num_pages \in num_pages..MaxPages /\ mem \in [Rid -> Row]
    BY RecoveryConstants DEF StateOK
  <2> QED BY <2>1 DEF RedoState
<1>3. \A s \in RedoState, n \in 1..N : step[n][s] = RedoRecord(s, log_file[n])
  OBVIOUS
<1>4. step \in [1..N -> [RedoState -> RedoState]]
  BY <1>1, RedoRecordTyped
<1> HIDE DEF step, base, N
<1>5. \E f : IsPass(f, RedoState, N, base, step)
  BY <1>1, <1>2, <1>4, PassExists, Zenon
<1>6. PICK f \in [0..N -> RedoState] : f[0] = base /\ \A n \in 1..N : f[n] = step[n][f[n - 1]]
  BY <1>5, Zenon DEF IsPass
<1>7. \A n \in 1..N : n - 1 \in 0..N
  BY <1>1
<1>8. f = [n \in 0..N |-> IF n = 0 THEN base ELSE RedoRecord(f[n - 1], log_file[n])]
  <2>1. ASSUME NEW n \in 0..N PROVE f[n] = IF n = 0 THEN base ELSE RedoRecord(f[n - 1], log_file[n])
    <3>1. CASE n = 0
      BY <1>6, <3>1
    <3>2. CASE n # 0
      <4>1. n \in 1..N
        BY <1>1, <3>2
      <4>2. f[n - 1] \in RedoState
        BY <1>6, <1>7, <4>1
      <4> QED BY <1>3, <1>6, <3>2, <4>1, <4>2
    <3> QED BY <3>1, <3>2
  <2> QED BY <1>6, <2>1
<1>9. Redone = [n \in 0..N |-> IF n = 0 THEN base ELSE RedoRecord(Redone[n - 1], log_file[n])]
  BY <1>8, Zenon DEF Redone, N, base
<1>10. 0 \in 0..N /\ Redone[0] = base
  BY <1>1, <1>9
<1>11. \A n \in 1..N : Redone[n] = RedoRecord(Redone[n - 1], log_file[n])
  BY <1>1, <1>9
<1>12. ASSUME NEW n \in 0..N PROVE Redone[n] \in RedoState
  <2> DEFINE Good == {k \in 0..n : Redone[k] \in RedoState}
  <2>1. 0 \in Good
    BY <1>2, <1>10
  <2>2. \A k \in 1..n : k - 1 \in Good => k \in Good
    <3> SUFFICES ASSUME NEW k \in 1..n, k - 1 \in Good PROVE Redone[k] \in RedoState
      OBVIOUS
    <3>1. k \in 1..N
      BY <1>1
    <3> QED BY <1>1, <1>11, <3>1, RedoRecordTyped
  <2>3. n \in Nat /\ Good \in SUBSET (0..n)
    BY <1>1
  <2> HIDE DEF Good
  <2>4. n \in Good
    BY <2>1, <2>2, <2>3, PassKeeps
  <2> QED BY <2>4 DEF Good
<1>13. Redone \in [0..N -> RedoState]
  BY <1>9, <1>12
<1> QED BY <1>10, <1>11, <1>13 DEF N, base

(* What redo leaves: a typed table, at least as many pages as before, and  *)
(* if nothing was thrown the page of every record it has seen.             *)
LEMMA RedoneResult ==
  ASSUME StateOK, Within(mem, num_pages), NEW done, done = Redone[Len(log_file)]
  PROVE  /\ done.rows \in [Rid -> Row] /\ done.pages \in num_pages..MaxPages /\ done.ok \in BOOLEAN
         /\ Within(done.rows, done.pages)
         /\ done.ok => \A i \in DOMAIN log_file : IsData(log_file[i]) => log_file[i].rid[1] <= done.pages
<1> DEFINE N == Len(log_file)
           Seen(n) == Redone[n].ok =>
                        \A i \in 1..n : IsData(log_file[i]) => log_file[i].rid[1] <= Redone[n].pages
           Good == {n \in 0..N : Seen(n)}
<1>1. N \in Nat /\ DOMAIN log_file = 1..N /\ \A n \in 1..N : log_file[n] \in LogRecord
  BY DEF StateOK
<1>2. Redone \in [0..N -> RedoState] /\ \A n \in 1..N : Redone[n] = RedoRecord(Redone[n - 1], log_file[n])
  BY RedoneFunction
<1>3. \A s \in RedoState : s.pages \in num_pages..MaxPages /\ s.ok \in BOOLEAN
  BY DEF RedoState
<1>4. num_pages \in Nat /\ MaxPages \in Nat
  BY RecoveryConstants DEF StateOK
<1> HIDE DEF N
<1>5. 0 \in Good
  BY <1>1
<1>6. ASSUME NEW n \in 1..N, n - 1 \in Good PROVE n \in Good
  <2>1. /\ n - 1 \in 0..N /\ n \in 0..N /\ Redone[n - 1] \in RedoState /\ Redone[n] \in RedoState
        /\ log_file[n] \in LogRecord
    BY <1>1, <1>2
  <2>2. PICK s \in RedoState : s = Redone[n - 1]
    BY <2>1
  <2>3. PICK r \in LogRecord : r = log_file[n]
    BY <2>1
  <2>4. PICK u \in RedoState : u = Redone[n]
    BY <2>1
  <2>5. /\ u.pages >= s.pages /\ (u.ok => s.ok)
        /\ (u.ok /\ IsData(r)) => r.rid[1] <= u.pages
    BY <1>2, <2>2, <2>3, <2>4, RedoRecordTyped
  <2>6. SUFFICES ASSUME u.ok, NEW i \in 1..n, IsData(log_file[i]) PROVE log_file[i].rid[1] <= u.pages
    BY <2>1, <2>4
  <2>7. CASE i = n
    BY <2>3, <2>5, <2>6, <2>7
  <2>8. CASE i # n
    <3>1. i \in 1..(n - 1) /\ i \in 1..N
      BY <1>1, <2>8
    <3>2. log_file[i].rid[1] <= s.pages
      BY <1>6, <2>2, <2>5, <2>6, <3>1
    <3>3. log_file[i].rid[1] \in 1..MaxPages
      BY <1>1, <2>6, <3>1, DataType, RidPage
    <3> QED BY <1>3, <1>4, <2>5, <3>2, <3>3
  <2> QED BY <2>7, <2>8
<1>7. Good \in SUBSET (0..N)
  OBVIOUS
<1> HIDE DEF Good
<1>8. N \in Good
  BY <1>1, <1>5, <1>6, <1>7, PassKeeps
<1>9. Seen(N) /\ N \in 0..N
  BY <1>1, <1>8 DEF Good
<1>10. done \in RedoState
  BY <1>2, <1>9 DEF N
<1>11. done.ok => \A i \in 1..N : IsData(log_file[i]) => log_file[i].rid[1] <= done.pages
  BY <1>9 DEF N
<1> QED BY <1>1, <1>10, <1>11 DEF RedoState

(* The tables the undo pass goes through.                                  *)
UndoState == {rows \in [Rid -> Row] : Within(rows, num_pages)}

LogWithin == \A i \in DOMAIN log_file : IsData(log_file[i]) => log_file[i].rid[1] <= num_pages

LEMMA UndoneFunction ==
  ASSUME StateOK, Within(mem, num_pages), LogWithin
  PROVE  /\ Undone \in [0..Len(log_file) -> UndoState]
         /\ Undone[0] = mem
         /\ \A n \in 1..Len(log_file) : Undone[n] = UndoRecord(Undone[n - 1], UndoRead(n))
<1> DEFINE N == Len(log_file)
           step == [n \in 1..N |-> [s \in UndoState |-> UndoRecord(s, UndoRead(n))]]
<1>1. /\ N \in Nat
      /\ \A n \in 1..N : /\ UndoRead(n) \in LogRecord
                         /\ IsData(UndoRead(n)) => UndoRead(n).rid[1] <= num_pages
  <2>1. N \in Nat /\ DOMAIN log_file = 1..N /\ \A n \in 1..N : log_file[n] \in LogRecord
    BY DEF StateOK
  <2>2. \A n \in 1..N : N + 1 - n \in 1..N
    BY <2>1
  <2> QED BY <2>1, <2>2 DEF LogWithin, UndoRead
<1>2. mem \in UndoState
  BY DEF StateOK, UndoState
<1>3. ASSUME NEW s \in UndoState, NEW n \in 1..N PROVE UndoRecord(s, UndoRead(n)) \in UndoState
  <2>1. PICK r \in LogRecord : r = UndoRead(n) /\ (IsData(r) => r.rid[1] <= num_pages)
    BY <1>1
  <2>2. s \in [Rid -> Row] /\ \A x \in Rid : s[x] # Empty => x[1] <= num_pages
    BY DEF UndoState, Within
  <2>3. CASE ~IsData(r) \/ r.txn \in Committed(log_file)
    BY <2>1, <2>3 DEF UndoRecord
  <2>4. CASE IsData(r) /\ r.txn \notin Committed(log_file)
    <3>1. r.rid \in Rid /\ r.old \in Row /\ Empty \in Row
      BY <2>4, DataType DEF Row
    <3>2. PICK rows : rows = [s EXCEPT ![r.rid] = IF r.type = "UPDATE" /\ @ = Empty THEN Empty ELSE r.old]
      OBVIOUS
    <3>3. rows \in [Rid -> Row] /\ \A x \in Rid : x # r.rid => rows[x] = s[x]
      BY <2>2, <3>1, <3>2
    <3>4. Within(rows, num_pages)
      BY <2>1, <2>2, <2>4, <3>3 DEF Within
    <3> QED BY <2>1, <2>4, <3>2, <3>3, <3>4 DEF UndoRecord, UndoState
  <2> QED BY <2>3, <2>4
<1>4. step \in [1..N -> [UndoState -> UndoState]] /\ \A s \in UndoState, n \in 1..N : step[n][s] = UndoRecord(s, UndoRead(n))
  BY <1>3
<1> HIDE DEF step, N
<1>5. \E f : IsPass(f, UndoState, N, mem, step)
  BY <1>1, <1>2, <1>4, PassExists, Zenon
<1>6. PICK f \in [0..N -> UndoState] : f[0] = mem /\ \A n \in 1..N : f[n] = step[n][f[n - 1]]
  BY <1>5, Zenon DEF IsPass
<1>7. \A n \in 1..N : n - 1 \in 0..N
  BY <1>1
<1>8. f = [n \in 0..N |-> IF n = 0 THEN mem ELSE UndoRecord(f[n - 1], UndoRead(n))]
  <2>1. ASSUME NEW n \in 0..N PROVE f[n] = IF n = 0 THEN mem ELSE UndoRecord(f[n - 1], UndoRead(n))
    <3>1. CASE n = 0
      BY <1>6, <3>1
    <3>2. CASE n # 0
      <4>1. n \in 1..N
        BY <1>1, <3>2
      <4>2. f[n - 1] \in UndoState
        BY <1>6, <1>7, <4>1
      <4> QED BY <1>4, <1>6, <3>2, <4>1, <4>2
    <3> QED BY <3>1, <3>2
  <2> QED BY <1>6, <2>1
<1>9. Undone = [n \in 0..N |-> IF n = 0 THEN mem ELSE UndoRecord(Undone[n - 1], UndoRead(n))]
  BY <1>8, Zenon DEF Undone, N
<1>10. 0 \in 0..N /\ Undone[0] = mem
  BY <1>1, <1>9
<1>11. \A n \in 1..N : Undone[n] = UndoRecord(Undone[n - 1], UndoRead(n))
  BY <1>1, <1>9
<1>12. ASSUME NEW n \in 0..N PROVE Undone[n] \in UndoState
  <2> DEFINE Good == {k \in 0..n : Undone[k] \in UndoState}
  <2>1. 0 \in Good
    BY <1>2, <1>10
  <2>2. \A k \in 1..n : k - 1 \in Good => k \in Good
    <3> SUFFICES ASSUME NEW k \in 1..n, k - 1 \in Good PROVE Undone[k] \in UndoState
      OBVIOUS
    <3>1. k \in 1..N
      BY <1>1
    <3> QED BY <1>3, <1>11, <3>1 DEF N
  <2>3. n \in Nat /\ Good \in SUBSET (0..n)
    BY <1>1
  <2> HIDE DEF Good
  <2>4. n \in Good
    BY <2>1, <2>2, <2>3, PassKeeps
  <2> QED BY <2>4 DEF Good
<1>13. Undone \in [0..N -> UndoState]
  BY <1>9, <1>12
<1> QED BY <1>10, <1>11, <1>13 DEF N

-----------------------------------------------------------------------------
(* The inductive invariant.                                                *)

(* No row, in the table or in the write set of a live transaction, lies    *)
(* beyond the pages the header in memory counts, and that header is never  *)
(* behind the one in the file.  After redo the same holds of the log.      *)
PagesInv ==
  /\ phase # "down" => disk_pages <= num_pages
  /\ Within(mem, num_pages)
  /\ \A t \in Txn : status[t] \in Live =>
       \A i \in DOMAIN write_set[t] : write_set[t][i].rid[1] <= num_pages
  /\ phase = "redone" => LogWithin

(* Transactions live only in a running server.                             *)
StatusInv ==
  \A t \in Txn :
    /\ phase # "running" => status[t] \notin Live
    /\ status[t] = "inserting" => pending[t] # NoInsert
    /\ status[t] = "unborn" => write_set[t] = <<>>

(* The commit record between its writing and its flush.                    *)
CommitInv ==
  \A t \in Txn :
    /\ status[t] = "logged" => t \in winners \cup Committed(log_buffer)
    /\ status[t] \in {"flushed", "paged", "committed"} => t \in winners

(* The pages of a transaction's changes: counted in memory while it lives, *)
(* in the file once it is acknowledged.                                    *)
HistInv ==
  \A i \in DOMAIN hist :
    /\ status[hist[i].txn] # "unborn"
    /\ status[hist[i].txn] \in Live => hist[i].rid[1] <= num_pages
    /\ status[hist[i].txn] = "committed" => hist[i].rid[1] <= disk_pages

IInv == StateOK /\ PagesInv /\ StatusInv /\ CommitInv /\ HistInv /\ RollbackOwnsRows

LEMMA InitIInv == ASSUME Init PROVE IInv
<1>1. Empty \in Row /\ NoInsert \in [rid: Rid, new: Value, new_page: BOOLEAN] \cup {NoInsert}
  BY DEF Row
<1>2. <<>> \in Seq(LogRecord) /\ <<>> \in Seq(WriteRecord) /\ <<>> \in Seq(Change)
  OBVIOUS
<1>3. InitPages \in 0..MaxPages /\ 0 <= LogBufferSize /\ LogBufferSize \in Nat /\ MaxPages \in Nat
  BY RecoveryConstants
<1>4. /\ bound \in [aborts: 0..MaxAborts, crashes: 0..MaxCrashes, recrashes: 0..MaxRecrashes,
                    evictions: 0..MaxEvictions]
  BY RecoveryConstants DEF Init
<1>5. /\ status \in [Txn -> Status] /\ tlock \in [Txn -> {"none", "IX", "SIX"}]
      /\ owner \in [Rid -> Txn \cup {NoTxn}] /\ readers \in [Rid -> SUBSET Txn] /\ phase \in Phase
  BY DEF Init, Status, Phase
<1>6. mem \in [Rid -> Row] /\ disk \in [Rid -> Row]
  BY <1>1 DEF Init
<1>7. StateOK
  <2>1. write_set \in [Txn -> Seq(WriteRecord)]
    BY <1>2 DEF Init
  <2>2. log_buffer \in Seq(LogRecord) /\ log_file \in Seq(LogRecord) /\ hist \in Seq(Change) /\ Len(log_buffer) = 0
    BY <1>2 DEF Init
  <2>3. pending \in [Txn -> [rid: Rid, new: Value, new_page: BOOLEAN] \cup {NoInsert}]
    BY <1>1 DEF Init
  <2> QED BY <1>3, <1>4, <1>5, <1>6, <2>1, <2>2, <2>3 DEF Init, StateOK
<1>8. \A t \in Txn : status[t] = "unborn" /\ write_set[t] = <<>>
  BY DEF Init
<1>9. PagesInv
  BY <1>3, <1>8 DEF Init, PagesInv, Within, Live
<1>10. StatusInv /\ CommitInv
  BY <1>8 DEF Init, StatusInv, CommitInv
<1>11. HistInv /\ RollbackOwnsRows
  BY <1>8 DEF Init, HistInv, RollbackOwnsRows
<1> QED BY <1>7, <1>9, <1>10, <1>11 DEF IInv

-----------------------------------------------------------------------------
(* The log.                                                                *)

(* What every step does to the log buffer and the log file.                *)
LogStep ==
  /\ log_buffer' \in Seq(LogRecord) /\ Len(log_buffer') <= LogBufferSize
  /\ log_file' \in Seq(LogRecord)
  /\ winners' \subseteq Txn /\ winners \subseteq winners'
  /\ Committed(log_buffer) \subseteq winners' \cup Committed(log_buffer')

LEMMA LogUnchanged ==
  ASSUME StateOK, UNCHANGED log
  PROVE  LogStep
BY DEF StateOK, log, LogStep

LEMMA FlushStep ==
  ASSUME StateOK, flush_log_to_disk
  PROVE  LogStep /\ Committed(log_buffer) \subseteq winners'
<1>1. /\ log_buffer \in Seq(LogRecord) /\ log_file \in Seq(LogRecord) /\ winners \subseteq Txn
      /\ LogBufferSize \in Nat
  BY RecoveryConstants DEF StateOK
<1>2. log_file \o log_buffer \in Seq(LogRecord)
  BY <1>1
<1>3. <<>> \in Seq(LogRecord) /\ Len(<<>>) = 0
  OBVIOUS
<1>4. Committed(log_buffer) \subseteq Txn
  BY DEF Committed
<1> QED BY <1>1, <1>2, <1>3, <1>4 DEF flush_log_to_disk, Flushed, LogStep

LEMMA AddStep ==
  ASSUME StateOK, NEW r \in LogRecord, add_log_to_buffer(r)
  PROVE  LogStep /\ \E i \in DOMAIN log_buffer' : log_buffer'[i] = r
<1>1. /\ log_buffer \in Seq(LogRecord) /\ log_file \in Seq(LogRecord) /\ winners \subseteq Txn
      /\ LogBufferSize \in Nat \ {0} /\ Len(log_buffer) \in Nat
  <2>1. log_buffer \in Seq(LogRecord) /\ log_file \in Seq(LogRecord) /\ winners \subseteq Txn
    BY Zenon DEF StateOK
  <2>2. LogBufferSize \in Nat \ {0}
    BY RecoveryConstants
  <2> QED BY <2>1, <2>2
<1>2. log_file \o log_buffer \in Seq(LogRecord)
  BY <1>1
<1>3. Committed(log_buffer) \subseteq Txn
  BY DEF Committed
<1>4. CASE Len(log_buffer) >= LogBufferSize
  <2>1. <<r>> \in Seq(LogRecord) /\ Len(<<r>>) = 1 /\ <<r>>[1] = r /\ 1 \in DOMAIN <<r>>
    OBVIOUS
  <2>2. log_buffer' = <<r>> /\ log_file' = log_file \o log_buffer /\ winners' = winners \cup Committed(log_buffer)
    BY <1>4 DEF add_log_to_buffer, Flushed
  <2>3. LogStep
    BY <1>1, <1>2, <1>3, <2>1, <2>2 DEF LogStep
  <2> QED BY <2>1, <2>2, <2>3
<1>5. CASE ~(Len(log_buffer) >= LogBufferSize)
  <2>1. PICK s : s = Append(log_buffer, r)
    OBVIOUS
  <2>2. /\ s \in Seq(LogRecord) /\ Len(s) = Len(log_buffer) + 1 /\ s[Len(log_buffer) + 1] = r
        /\ DOMAIN s = 1..(Len(log_buffer) + 1) /\ DOMAIN log_buffer = 1..Len(log_buffer)
        /\ \A i \in 1..Len(log_buffer) : s[i] = log_buffer[i]
    BY <1>1, <2>1
  <2>3. Committed(log_buffer) \subseteq Committed(s)
    BY <1>1, <2>2 DEF Committed
  <2>4. log_buffer' = s /\ log_file' = log_file /\ winners' = winners
    BY <1>5, <2>1 DEF add_log_to_buffer
  <2>5. LogStep
    BY <1>1, <1>5, <2>2, <2>3, <2>4 DEF LogStep
  <2>6. Len(log_buffer) + 1 \in DOMAIN s
    BY <1>1, <2>2
  <2> QED BY <2>2, <2>4, <2>5, <2>6
<1> QED BY <1>4, <1>5

LEMMA ControlType ==
  ASSUME NEW type \in {"begin", "commit", "ABORT"}, NEW t \in Txn
  PROVE  ControlRecord(type, t) \in LogRecord
BY DEF ControlRecord, LogRecord

LEMMA DataRecordType ==
  ASSUME NEW type \in {"INSERT", "DELETE", "UPDATE"}, NEW t \in Txn, NEW rid \in Rid,
         NEW old \in Row, NEW new \in Row
  PROVE  DataRecord(type, t, rid, old, new) \in LogRecord
BY DEF DataRecord, LogRecord

-----------------------------------------------------------------------------
(* Steps of a transaction that change no row: begin, commit, the refusal   *)
(* of a lock, an INSERT up to its log record and all of abort but the      *)
(* undoing.                                                                *)

(* t goes to status b; the table, the write sets and the history stay.     *)
Quiet(t, b) ==
  /\ status' = [status EXCEPT ![t] = b] /\ b \in Status
  /\ UNCHANGED <<mem, num_pages, write_set, hist, phase>>
  /\ \/ b # "inserting" /\ UNCHANGED pending
     \/ \E e \in [rid: Rid, new: Value, new_page: BOOLEAN] :
          e # NoInsert /\ pending' = [pending EXCEPT ![t] = e]
  /\ LogStep

LEMMA QuietTypes ==
  ASSUME StateOK, NEW t \in Txn, NEW b, Quiet(t, b),
         disk' \in [Rid -> Row], disk_pages' \in 0..MaxPages,
         tlock' \in [Txn -> {"none", "IX", "SIX"}],
         owner' \in [Rid -> Txn \cup {NoTxn}], readers' \in [Rid -> SUBSET Txn],
         bound' \in Bounds
  PROVE  StateOK'
<1>1. status' \in [Txn -> Status]
  BY DEF StateOK, Quiet
<1>2. pending' \in [Txn -> [rid: Rid, new: Value, new_page: BOOLEAN] \cup {NoInsert}]
  BY DEF StateOK, Quiet
<1> QED BY <1>1, <1>2 DEF StateOK, Bounds, Quiet, LogStep

LEMMA QuietKeeps ==
  ASSUME IInv, NEW t \in Txn, NEW b, Quiet(t, b), StateOK', phase = "running",
         status[t] \in Live \/ (status[t] = "unborn" /\ b = "active"),
         b \in Live \cup {"committed", "aborted"},
         disk_pages' = disk_pages \/ disk_pages' = num_pages,
         b = "committed" => disk_pages' = num_pages,
         b = "logged" => t \in winners' \cup Committed(log_buffer'),
         b \in {"flushed", "paged", "committed"} => t \in winners',
         \A r \in Rid, u \in Txn : owner[r] = u /\ u # t => owner'[r] = u,
         b \in {"active", "inserting", "aborting"} => owner' = owner /\ status[t] \in {"unborn", "active"}
  PROVE  IInv'
<1>1. /\ StateOK /\ status \in [Txn -> Status] /\ num_pages \in Nat /\ disk_pages \in Nat
      /\ write_set \in [Txn -> Seq(WriteRecord)] /\ hist \in Seq(Change)
  <2>1. StateOK
    BY DEF IInv
  <2> QED BY <2>1, PageCounts DEF StateOK
<1>2. /\ status'[t] = b /\ \A u \in Txn : u # t => status'[u] = status[u]
      /\ mem' = mem /\ num_pages' = num_pages /\ write_set' = write_set
      /\ hist' = hist /\ phase' = "running"
  BY <1>1 DEF Quiet
<1>3. disk_pages' >= disk_pages /\ disk_pages' <= num_pages'
  BY <1>1, <1>2 DEF IInv, PagesInv
<1>4. PagesInv'
  <2>1. \A u \in Txn : status'[u] \in Live => \A i \in DOMAIN write_set[u] : write_set[u][i].rid[1] <= num_pages
    <3>1. status[t] = "unborn" => DOMAIN write_set[t] = {}
      BY DEF IInv, StatusInv
    <3> QED BY <1>2, <3>1 DEF IInv, PagesInv
  <2> QED BY <1>2, <1>3, <2>1 DEF IInv, PagesInv, Within
<1>5. StatusInv'
  <2>1. \A u \in Txn : status'[u] = "inserting" => pending'[u] # NoInsert
    BY <1>1, <1>2 DEF IInv, StatusInv, StateOK, Quiet
  <2> QED BY <1>2, <2>1 DEF IInv, StatusInv, Live
<1>6. CommitInv'
  <2>1. winners \subseteq winners' /\ Committed(log_buffer) \subseteq winners' \cup Committed(log_buffer')
    BY DEF Quiet, LogStep
  <2> QED BY <1>2, <2>1 DEF IInv, CommitInv
<1>7. HistInv'
  <2> SUFFICES ASSUME NEW i \in DOMAIN hist
               PROVE  /\ status'[hist[i].txn] # "unborn"
                      /\ status'[hist[i].txn] \in Live => hist[i].rid[1] <= num_pages
                      /\ status'[hist[i].txn] = "committed" => hist[i].rid[1] <= disk_pages'
    BY <1>2 DEF HistInv
  <2>1. hist[i].txn \in Txn /\ hist[i].rid[1] \in 1..MaxPages
    BY <1>1, HistElement
  <2>2. /\ status[hist[i].txn] # "unborn"
        /\ status[hist[i].txn] \in Live => hist[i].rid[1] <= num_pages
        /\ status[hist[i].txn] = "committed" => hist[i].rid[1] <= disk_pages
    BY DEF IInv, HistInv
  <2>3. MaxPages \in Nat
    BY RecoveryConstants
  <2>4. CASE hist[i].txn # t
    BY <1>1, <1>2, <1>3, <2>1, <2>2, <2>3, <2>4
  <2>5. CASE hist[i].txn = t
    BY <1>1, <1>2, <2>1, <2>2, <2>5 DEF Live
  <2> QED BY <2>4, <2>5
<1>8. RollbackOwnsRows'
  <2> SUFFICES ASSUME NEW u \in Txn, status'[u] \in {"active", "inserting", "aborting"},
                      NEW i \in DOMAIN write_set[u]
               PROVE  owner'[write_set[u][i].rid] = u \/ (CompositeIndex /\ Moved(write_set[u][i]))
    BY <1>2 DEF RollbackOwnsRows
  <2>1. write_set[u][i].rid \in Rid
    BY <1>1, WriteElement
  <2>2. CASE u # t
    BY <1>2, <2>1, <2>2 DEF IInv, RollbackOwnsRows
  <2>3. CASE u = t
    <3>1. status[t] = "unborn" => DOMAIN write_set[t] = {}
      BY DEF IInv, StatusInv
    <3> QED BY <1>2, <2>3, <3>1 DEF IInv, RollbackOwnsRows
  <2> QED BY <2>2, <2>3
<1> QED BY <1>4, <1>5, <1>6, <1>7, <1>8 DEF IInv

(* The actions of this kind, and the first half of INSERT.                 *)

LEMMA Released ==
  ASSUME StateOK, NEW t \in Txn, ReleaseLocks(t)
  PROVE  /\ tlock' \in [Txn -> {"none", "IX", "SIX"}]
         /\ owner' \in [Rid -> Txn \cup {NoTxn}] /\ readers' \in [Rid -> SUBSET Txn]
         /\ \A r \in Rid, u \in Txn : owner[r] = u /\ u # t => owner'[r] = u
BY DEF StateOK, ReleaseLocks

LEMMA BeginKeeps == ASSUME IInv, NEW t \in Txn, begin(t) PROVE IInv'
<1>1. StateOK
  BY DEF IInv
<1>2. Quiet(t, "active")
  BY <1>1, AddStep, ControlType DEF begin, Goto, Quiet, table, Status, Live
<1>3. StateOK'
  BY <1>1, <1>2, QuietTypes DEF StateOK, Bounds, begin, file, locks
<1> QED BY <1>2, <1>3, QuietKeeps DEF begin, file, locks, Live

LEMMA RefusedKeeps == ASSUME IInv, NEW t \in Txn, Refused(t) PROVE IInv'
<1>1. StateOK
  BY DEF IInv
<1>2. Quiet(t, "aborting")
  BY <1>1, LogUnchanged DEF Refused, Goto, Quiet, table, Status, Live
<1>3. StateOK'
  BY <1>1, <1>2, QuietTypes DEF StateOK, Bounds, Refused, file, locks
<1> QED BY <1>2, <1>3, QuietKeeps DEF Refused, file, locks, Live

LEMMA AbortRequestedKeeps == ASSUME IInv, NEW t \in Txn, AbortRequested(t) PROVE IInv'
<1>1. StateOK
  BY DEF IInv
<1>2. Quiet(t, "aborting")
  BY <1>1, LogUnchanged DEF AbortRequested, Goto, Quiet, table, Status, Live
<1>3. bound' \in Bounds
  BY <1>1, BoundSteps DEF AbortRequested
<1>4. StateOK'
  BY <1>1, <1>2, <1>3, QuietTypes DEF StateOK, Bounds, AbortRequested, file, locks
<1> QED BY <1>2, <1>4, QuietKeeps DEF AbortRequested, file, locks, Live

LEMMA CommitReleaseKeeps == ASSUME IInv, NEW t \in Txn, CommitReleaseLocks(t) PROVE IInv'
<1>1. StateOK
  BY DEF IInv
<1>2. Quiet(t, "unlocked")
  BY <1>1, LogUnchanged DEF CommitReleaseLocks, Goto, Quiet, table, Status, Live
<1>3. /\ tlock' \in [Txn -> {"none", "IX", "SIX"}]
      /\ owner' \in [Rid -> Txn \cup {NoTxn}] /\ readers' \in [Rid -> SUBSET Txn]
      /\ \A r \in Rid, u \in Txn : owner[r] = u /\ u # t => owner'[r] = u
  BY <1>1, Released DEF CommitReleaseLocks
<1>4. StateOK'
  BY <1>1, <1>2, <1>3, QuietTypes DEF StateOK, Bounds, CommitReleaseLocks, file
<1> QED BY <1>2, <1>3, <1>4, QuietKeeps DEF CommitReleaseLocks, file, Live

LEMMA AbortReleaseKeeps == ASSUME IInv, NEW t \in Txn, AbortReleaseLocks(t) PROVE IInv'
<1>1. StateOK
  BY DEF IInv
<1>2. Quiet(t, "rolledback")
  BY <1>1, LogUnchanged DEF AbortReleaseLocks, Goto, Quiet, table, Status, Live
<1>3. /\ tlock' \in [Txn -> {"none", "IX", "SIX"}]
      /\ owner' \in [Rid -> Txn \cup {NoTxn}] /\ readers' \in [Rid -> SUBSET Txn]
      /\ \A r \in Rid, u \in Txn : owner[r] = u /\ u # t => owner'[r] = u
  BY <1>1, Released DEF AbortReleaseLocks
<1>4. StateOK'
  BY <1>1, <1>2, <1>3, QuietTypes DEF StateOK, Bounds, AbortReleaseLocks, file
<1> QED BY <1>2, <1>3, <1>4, QuietKeeps DEF AbortReleaseLocks, file, Live

LEMMA CommitLogKeeps == ASSUME IInv, NEW t \in Txn, CommitLog(t) PROVE IInv'
<1>1. StateOK
  BY DEF IInv
<1>2. LogStep /\ \E i \in DOMAIN log_buffer' : log_buffer'[i] = ControlRecord("commit", t)
  BY <1>1, AddStep, ControlType DEF CommitLog
<1>3. Quiet(t, "logged")
  BY <1>2 DEF CommitLog, Goto, Quiet, table, Status, Live
<1>4. t \in Committed(log_buffer')
  BY <1>2 DEF Committed
<1>5. StateOK'
  BY <1>1, <1>3, QuietTypes DEF StateOK, Bounds, CommitLog, file, locks
<1> QED BY <1>3, <1>4, <1>5, QuietKeeps DEF CommitLog, file, locks, Live

LEMMA CommitFlushLogKeeps == ASSUME IInv, NEW t \in Txn, CommitFlushLog(t) PROVE IInv'
<1>1. StateOK
  BY DEF IInv
<1>2. LogStep /\ Committed(log_buffer) \subseteq winners'
  BY <1>1, FlushStep DEF CommitFlushLog
<1>3. Quiet(t, "flushed")
  BY <1>2 DEF CommitFlushLog, Goto, Quiet, table, Status, Live
<1>4. t \in winners'
  BY <1>2 DEF IInv, CommitInv, CommitFlushLog, LogStep
<1>5. StateOK'
  BY <1>1, <1>3, QuietTypes DEF StateOK, Bounds, CommitFlushLog, file, locks
<1> QED BY <1>3, <1>4, <1>5, QuietKeeps DEF CommitFlushLog, file, locks, Live

LEMMA FlushedPagesType == ASSUME StateOK, flush_all_pages PROVE disk' \in [Rid -> Row]
BY DEF StateOK, flush_all_pages

LEMMA CommitFlushPagesKeeps == ASSUME IInv, NEW t \in Txn, CommitFlushPages(t) PROVE IInv'
<1>1. StateOK
  BY DEF IInv
<1>2. Quiet(t, "paged")
  BY <1>1, LogUnchanged DEF CommitFlushPages, Goto, Quiet, table, Status, Live
<1>3. disk' \in [Rid -> Row]
  BY <1>1, FlushedPagesType DEF CommitFlushPages
<1>4. StateOK'
  BY <1>1, <1>2, <1>3, QuietTypes DEF StateOK, Bounds, CommitFlushPages, locks
<1>5. t \in winners'
  BY DEF IInv, CommitInv, CommitFlushPages, log
<1> QED BY <1>2, <1>4, <1>5, QuietKeeps DEF CommitFlushPages, locks, Live

LEMMA CommitWriteHeaderKeeps == ASSUME IInv, NEW t \in Txn, CommitWriteHeader(t) PROVE IInv'
<1>1. StateOK
  BY DEF IInv
<1>2. Quiet(t, "committed")
  BY <1>1, LogUnchanged DEF CommitWriteHeader, Goto, Quiet, table, Status, Live
<1>3. StateOK'
  BY <1>1, <1>2, QuietTypes DEF StateOK, Bounds, CommitWriteHeader, locks
<1>4. t \in winners'
  BY DEF IInv, CommitInv, CommitWriteHeader, log
<1> QED BY <1>2, <1>3, <1>4, QuietKeeps DEF CommitWriteHeader, locks, Live

LEMMA AbortLogKeeps == ASSUME IInv, NEW t \in Txn, AbortLog(t) PROVE IInv'
<1>1. StateOK
  BY DEF IInv
<1>2. LogStep
  BY <1>1, AddStep, ControlType DEF AbortLog
<1>3. Quiet(t, "abortlogged")
  BY <1>2 DEF AbortLog, Goto, Quiet, table, Status, Live
<1>4. StateOK'
  BY <1>1, <1>3, QuietTypes DEF StateOK, Bounds, AbortLog, file, locks
<1> QED BY <1>3, <1>4, QuietKeeps DEF AbortLog, file, locks, Live

LEMMA AbortFlushLogKeeps == ASSUME IInv, NEW t \in Txn, AbortFlushLog(t) PROVE IInv'
<1>1. StateOK
  BY DEF IInv
<1>2. LogStep
  BY <1>1, FlushStep DEF AbortFlushLog
<1>3. Quiet(t, "aborted")
  BY <1>2 DEF AbortFlushLog, Goto, Quiet, table, Status, Live
<1>4. StateOK'
  BY <1>1, <1>3, QuietTypes DEF StateOK, Bounds, AbortFlushLog, file, locks
<1> QED BY <1>3, <1>4, QuietKeeps DEF AbortFlushLog, file, locks, Live

-----------------------------------------------------------------------------
(* Statements, and the undoing of a change.                                *)

(* t changes one row, on a page that is then counted, and notes what was   *)
(* there in its write set if it can lock the row (or w is FALSE).          *)
RowStep(t, rid, v) ==
  /\ mem' = [mem EXCEPT ![rid] = v]
  /\ num_pages' \in Nat /\ num_pages <= num_pages' /\ rid[1] <= num_pages' /\ num_pages' <= MaxPages
  /\ hist' = Append(hist, [txn |-> t, rid |-> rid, new |-> v])
  /\ UNCHANGED <<disk, disk_pages, phase, bound>>
  /\ LogStep
  /\ pending' \in [Txn -> [rid: Rid, new: Value, new_page: BOOLEAN] \cup {NoInsert}]
  /\ tlock' \in [Txn -> {"none", "IX", "SIX"}] /\ readers' \in [Rid -> SUBSET Txn]
  /\ \A u \in Txn : u # t => pending'[u] = pending[u]
  /\ \/ /\ write_set' = write_set /\ owner' = owner
        /\ status' = [status EXCEPT ![t] = "aborting"]
     \/ /\ status' = [status EXCEPT ![t] = "active"]
        /\ \E by \in {"INSERT", "DELETE", "UPDATE"}, x \in Rid, old \in Row :
             /\ x[1] <= num_pages'
             /\ Remember(t, by, x, old)
             /\ \E y \in Rid : /\ owner[y] \in {NoTxn, t} /\ owner' = [owner EXCEPT ![y] = t]
                               /\ y = x \/ (CompositeIndex /\ by = "UPDATE" /\ old = Empty)

LEMMA RowStepKeeps ==
  ASSUME IInv, NEW t \in Txn, NEW rid \in Rid, NEW v \in Row, RowStep(t, rid, v),
         phase = "running", status[t] \in {"active", "inserting"}
  PROVE  IInv'
<1>1. /\ StateOK /\ status \in [Txn -> Status] /\ num_pages \in Nat /\ disk_pages \in Nat /\ MaxPages \in Nat
      /\ mem \in [Rid -> Row] /\ write_set \in [Txn -> Seq(WriteRecord)] /\ hist \in Seq(Change)
      /\ owner \in [Rid -> Txn \cup {NoTxn}]
  <2>1. StateOK
    BY DEF IInv
  <2> QED BY <2>1, PageCounts DEF StateOK
<1>2. PICK b \in {"active", "aborting"} : status' = [status EXCEPT ![t] = b]
  BY DEF RowStep
<1>3. status'[t] = b /\ \A u \in Txn : u # t => status'[u] = status[u]
  BY <1>1, <1>2
<1>4. num_pages' \in Nat /\ num_pages <= num_pages' /\ num_pages' <= MaxPages /\ rid[1] <= num_pages'
  BY DEF RowStep
<1>5. \A x \in Rid : x[1] \in Nat
  BY <1>1, RidPage
<1>6. /\ write_set' \in [Txn -> Seq(WriteRecord)]
      /\ \A u \in Txn : u # t => write_set'[u] = write_set[u]
      /\ \A i \in DOMAIN write_set'[t] :
           \/ i \in DOMAIN write_set[t] /\ write_set'[t][i] = write_set[t][i]
           \/ /\ write_set'[t][i].rid[1] <= num_pages'
              /\ \/ owner'[write_set'[t][i].rid] = t
                 \/ CompositeIndex /\ Moved(write_set'[t][i])
  <2>1. CASE write_set' = write_set
    BY <1>1, <2>1
  <2>2. CASE write_set' # write_set
    <3>1. PICK by \in {"INSERT", "DELETE", "UPDATE"}, x \in Rid, old \in Row, y \in Rid :
            /\ x[1] <= num_pages'
            /\ Remember(t, by, x, old)
            /\ owner[y] \in {NoTxn, t} /\ owner' = [owner EXCEPT ![y] = t]
            /\ y = x \/ (CompositeIndex /\ by = "UPDATE" /\ old = Empty)
      BY <2>2 DEF RowStep
    <3>2. PICK e \in WriteRecord :
            /\ e = [by |-> by, rid |-> x, old |-> old] /\ e.rid = x
            /\ (by = "UPDATE" /\ old = Empty) => Moved(e)
      <4>1. [by |-> by, rid |-> x, old |-> old] \in WriteRecord
        BY DEF WriteRecord
      <4> QED BY <4>1 DEF Moved
    <3>3. PICK s \in Seq(WriteRecord) : s = write_set[t]
      BY <1>1
    <3>4. PICK s2 : s2 = Append(s, e)
      OBVIOUS
    <3>5. /\ s2 \in Seq(WriteRecord)
          /\ \A i \in DOMAIN s2 : (i \in DOMAIN s /\ s2[i] = s[i]) \/ s2[i] = e
      BY <3>3, <3>4
    <3>6. write_set' = [write_set EXCEPT ![t] = s2]
      <4>1. write_set' = [write_set EXCEPT ![t] = Append(@, [by |-> by, rid |-> x, old |-> old])]
        BY <3>1 DEF Remember
      <4>2. write_set' = [write_set EXCEPT ![t] = Append(@, e)]
        BY <3>2, <4>1, Zenon
      <4> QED BY <1>1, <3>3, <3>4, <4>2
    <3>7. write_set'[t] = s2 /\ \A u \in Txn : u # t => write_set'[u] = write_set[u]
      BY <1>1, <3>6
    <3>8. owner'[y] = t
      BY <1>1, <3>1
    <3>9. write_set' \in [Txn -> Seq(WriteRecord)]
      BY <1>1, <3>5, <3>6
    <3>10. owner'[e.rid] = t \/ (CompositeIndex /\ Moved(e))
      BY <3>1, <3>2, <3>8
    <3>11. e.rid[1] <= num_pages'
      BY <3>1, <3>2
    <3> HIDE DEF Moved
    <3>12. ASSUME NEW i \in DOMAIN write_set'[t]
           PROVE  \/ i \in DOMAIN write_set[t] /\ write_set'[t][i] = write_set[t][i]
                  \/ write_set'[t][i] = e
      BY <3>3, <3>5, <3>7
    <3> QED BY <3>7, <3>9, <3>10, <3>11, <3>12
  <2> QED BY <2>1, <2>2
<1>7. /\ owner' \in [Rid -> Txn \cup {NoTxn}]
      /\ \A x \in Rid, u \in Txn : owner[x] = u => owner'[x] = u
  <2>1. NoTxn \notin Txn
    BY RecoveryConstants
  <2>2. owner' = owner \/ \E y \in Rid : owner[y] \in {NoTxn, t} /\ owner' = [owner EXCEPT ![y] = t]
    BY DEF RowStep
  <2>3. CASE owner' = owner
    BY <1>1, <2>3
  <2>4. ASSUME NEW y \in Rid, owner[y] \in {NoTxn, t}, owner' = [owner EXCEPT ![y] = t]
        PROVE  /\ owner' \in [Rid -> Txn \cup {NoTxn}]
               /\ \A x \in Rid, u \in Txn : owner[x] = u => owner'[x] = u
    BY <1>1, <2>1, <2>4
  <2> QED BY <2>2, <2>3, <2>4
<1>8. PICK c \in Change : c = [txn |-> t, rid |-> rid, new |-> v] /\ c.txn = t /\ c.rid = rid
  <2>1. [txn |-> t, rid |-> rid, new |-> v] \in Change
    BY DEF Change
  <2> QED BY <2>1
<1>9. /\ hist' \in Seq(Change)
      /\ \A i \in DOMAIN hist' : (i \in DOMAIN hist /\ hist'[i] = hist[i]) \/ hist'[i] = c
  BY <1>1, <1>8 DEF RowStep
<1>10. mem' \in [Rid -> Row] /\ \A x \in Rid : x # rid => mem'[x] = mem[x]
  BY <1>1 DEF RowStep
<1>11. StateOK'
  <2>1. num_pages' \in 0..MaxPages
    BY <1>1, <1>4
  <2>2. status' \in [Txn -> Status]
    BY <1>1, <1>2 DEF Status, Live
  <2> QED BY <1>1, <1>6, <1>7, <1>9, <1>10, <2>1, <2>2 DEF StateOK, RowStep, LogStep
<1>12. PagesInv'
  <2>1. Within(mem, num_pages)'
    BY <1>1, <1>4, <1>5, <1>10 DEF IInv, PagesInv, Within
  <2>2. ASSUME NEW u \in Txn, status'[u] \in Live, NEW i \in DOMAIN write_set'[u]
        PROVE  write_set'[u][i].rid[1] <= num_pages'
    <3>1. u # t => status[u] \in Live
      BY <1>3, <2>2
    <3>2. status[t] \in Live
      BY DEF Live
    <3>3. \A w \in Txn : status[w] \in Live =>
            \A j \in DOMAIN write_set[w] : /\ write_set[w][j].rid[1] <= num_pages
                                          /\ write_set[w][j].rid[1] \in Nat
      BY <1>1, WriteElement DEF IInv, PagesInv
    <3> QED BY <1>1, <1>4, <1>6, <3>1, <3>2, <3>3
  <2>3. phase' = "running" /\ disk_pages' <= num_pages'
    BY <1>1, <1>4 DEF IInv, PagesInv, RowStep
  <2> QED BY <2>1, <2>2, <2>3 DEF PagesInv
<1>13. StatusInv'
  BY <1>3, <1>6 DEF IInv, StatusInv, RowStep
<1>14. CommitInv'
  BY <1>3 DEF IInv, CommitInv, RowStep, LogStep
<1>15. HistInv'
  <2> SUFFICES ASSUME NEW i \in DOMAIN hist'
               PROVE  /\ status'[hist'[i].txn] # "unborn"
                      /\ status'[hist'[i].txn] \in Live => hist'[i].rid[1] <= num_pages'
                      /\ status'[hist'[i].txn] = "committed" => hist'[i].rid[1] <= disk_pages'
    BY DEF HistInv
  <2>1. CASE hist'[i] = c
    <3>1. hist'[i].txn = t /\ hist'[i].rid = rid
      BY <1>8, <2>1
    <3>2. status'[t] \in {"active", "aborting"} /\ status'[t] # "unborn" /\ status'[t] # "committed"
      BY <1>3
    <3> QED BY <1>4, <3>1, <3>2
  <2>2. CASE i \in DOMAIN hist /\ hist'[i] = hist[i]
    <3>1. hist[i].txn \in Txn /\ hist[i].rid[1] \in Nat
      BY <1>1, <1>5, <2>2, HistElement
    <3>2. /\ status[hist[i].txn] # "unborn"
          /\ status[hist[i].txn] \in Live => hist[i].rid[1] <= num_pages
          /\ status[hist[i].txn] = "committed" => hist[i].rid[1] <= disk_pages
      BY <2>2 DEF IInv, HistInv
    <3>3. disk_pages' = disk_pages /\ status[t] \in Live
      BY DEF RowStep, Live
    <3>4. PICK w \in Txn : w = hist[i].txn
      BY <3>1
    <3>5. CASE w = t
      <4>1. status'[w] # "unborn" /\ status'[w] # "committed"
        BY <1>3, <3>5
      <4> QED BY <1>1, <1>4, <2>2, <3>1, <3>2, <3>3, <3>4, <3>5, <4>1
    <3>6. CASE w # t
      <4>1. status'[w] = status[w]
        BY <1>3, <3>6
      <4> QED BY <1>1, <1>4, <2>2, <3>1, <3>2, <3>3, <3>4, <4>1
    <3> QED BY <3>5, <3>6
  <2> QED BY <1>9, <2>1, <2>2
<1>16. RollbackOwnsRows'
  <2> SUFFICES ASSUME NEW u \in Txn, status'[u] \in {"active", "inserting", "aborting"},
                      NEW i \in DOMAIN write_set'[u]
               PROVE  owner'[write_set'[u][i].rid] = u \/ (CompositeIndex /\ Moved(write_set'[u][i]))
    BY DEF RollbackOwnsRows
  <2>1. status[u] \in {"active", "inserting", "aborting"}
    BY <1>3
  <2>2. \A j \in DOMAIN write_set[u] :
          /\ write_set[u][j].rid \in Rid
          /\ owner[write_set[u][j].rid] = u \/ (CompositeIndex /\ Moved(write_set[u][j]))
    BY <1>1, <2>1, WriteElement DEF IInv, RollbackOwnsRows
  <2>3. CASE u # t
    <3>1. write_set'[u] = write_set[u]
      BY <1>6, <2>3
    <3> QED BY <1>7, <2>2, <3>1
  <2>4. CASE u = t
    <3>1. CASE i \in DOMAIN write_set[t] /\ write_set'[t][i] = write_set[t][i]
      BY <1>7, <2>2, <2>4, <3>1
    <3>2. CASE ~(i \in DOMAIN write_set[t] /\ write_set'[t][i] = write_set[t][i])
      BY <1>6, <2>4, <3>2
    <3> QED BY <3>1, <3>2
  <2> QED BY <2>3, <2>4
<1> QED BY <1>11, <1>12, <1>13, <1>14, <1>15, <1>16 DEF IInv

LEMMA FreeRidIsRid == FreeRid \subseteq Rid
BY DEF FreeRid

LEMMA InsertLogKeeps ==
  ASSUME IInv, NEW t \in Txn, NEW v \in Value, InsertLog(t, v)
  PROVE  IInv'
<1>1. StateOK
  BY DEF IInv
<1>2. PICK rid \in Rid :
        /\ add_log_to_buffer(DataRecord("INSERT", t, rid, Empty, v))
        /\ pending' = [pending EXCEPT ![t] = [rid |-> rid, new |-> v, new_page |-> rid[1] > num_pages]]
  BY FreeRidIsRid DEF InsertLog
<1>3. LogStep
  <2>1. Empty \in Row /\ v \in Row
    BY DEF Row
  <2>2. DataRecord("INSERT", t, rid, Empty, v) \in LogRecord
    BY <2>1, DataRecordType
  <2> QED BY <1>1, <1>2, <2>2, AddStep
<1>4. PICK e \in [rid: Rid, new: Value, new_page: BOOLEAN] :
        e # NoInsert /\ pending' = [pending EXCEPT ![t] = e]
  <2>1. [rid |-> rid, new |-> v, new_page |-> rid[1] > num_pages] \in [rid: Rid, new: Value, new_page: BOOLEAN]
    OBVIOUS
  <2>2. \A x \in [rid: Rid, new: Value, new_page: BOOLEAN] : x # NoInsert
    BY DEF NoInsert
  <2> QED BY <1>2, <2>1, <2>2
<1>5. Quiet(t, "inserting")
  BY <1>3, <1>4 DEF InsertLog, Goto, Quiet, table, Status, Live
<1>6. StateOK'
  <2>1. tlock' \in [Txn -> {"none", "IX", "SIX"}]
    BY <1>1 DEF StateOK, InsertLog, WithIX
  <2> QED BY <1>1, <1>5, <2>1, QuietTypes DEF StateOK, Bounds, InsertLog, file
<1>7. status[t] = "active" /\ phase = "running"
  BY DEF InsertLog, Idle
<1> QED BY <1>5, <1>6, <1>7, QuietKeeps DEF InsertLog, file, Live

LEMMA InsertRecordPages ==
  ASSUME StateOK, NEW rid \in Rid, NEW v, insert_record(rid, v)
  PROVE  /\ num_pages' \in Nat /\ num_pages <= num_pages' /\ rid[1] <= num_pages' /\ num_pages' <= MaxPages
         /\ mem' = [mem EXCEPT ![rid] = v]
<1>1. rid[1] \in 1..MaxPages
  BY RidPage
<1> QED BY <1>1, PageCounts DEF insert_record

LEMMA InsertWriteKeeps ==
  ASSUME IInv, NEW t \in Txn, InsertWrite(t)
  PROVE  IInv'
<1>1. StateOK /\ phase = "running" /\ status[t] = "inserting"
  BY DEF IInv, InsertWrite
<1>2. pending[t] \in [rid: Rid, new: Value, new_page: BOOLEAN]
  BY <1>1 DEF IInv, StatusInv, StateOK
<1>3. PICK v \in Row : v = pending[t].new
  BY <1>2 DEF Row
<1>4. PICK rid \in Rid :
        /\ Changes(t, rid, v)
        /\ insert_record(rid, v)
        /\ IF CanLockX(t, rid)
             THEN /\ owner' = [owner EXCEPT ![rid] = t]
                  /\ Remember(t, "INSERT", rid, Empty)
                  /\ Goto(t, "active")
             ELSE /\ Goto(t, "aborting")
                  /\ UNCHANGED <<owner, write_set>>
  BY <1>2, <1>3, FreeRidIsRid DEF InsertWrite
<1>5. RowStep(t, rid, v)
  <2>1. /\ UNCHANGED <<disk, disk_pages, phase, bound>>
        /\ LogStep
        /\ tlock' \in [Txn -> {"none", "IX", "SIX"}] /\ readers' \in [Rid -> SUBSET Txn]
    BY <1>1, LogUnchanged DEF InsertWrite, file, StateOK
  <2>2. /\ pending' \in [Txn -> [rid: Rid, new: Value, new_page: BOOLEAN] \cup {NoInsert}]
        /\ \A u \in Txn : u # t => pending'[u] = pending[u]
    BY <1>1 DEF InsertWrite, StateOK
  <2>3. CASE CanLockX(t, rid)
    <3>1. Empty \in Row /\ owner[rid] \in {NoTxn, t}
      BY <2>3 DEF Row, CanLockX
    <3> QED BY <1>1, <1>4, <2>1, <2>2, <2>3, <3>1, InsertRecordPages DEF RowStep, Changes, Goto
  <2>4. CASE ~CanLockX(t, rid)
    BY <1>1, <1>4, <2>1, <2>2, <2>4, InsertRecordPages DEF RowStep, Changes, Goto
  <2> QED BY <2>3, <2>4
<1> QED BY <1>1, <1>5, RowStepKeeps

LEMMA ScannedTypes ==
  ASSUME StateOK, NEW t \in Txn, NEW seen, Scanned(t, seen)
  PROVE  tlock' \in [Txn -> {"none", "IX", "SIX"}] /\ readers' \in [Rid -> SUBSET Txn]
BY DEF StateOK, Scanned

LEMMA VisibleRow ==
  ASSUME StateOK, PagesInv, NEW rid \in Visible
  PROVE  rid \in Rid /\ rid[1] <= num_pages /\ mem[rid] \in Row /\ mem[rid] # Empty
BY DEF StateOK, PagesInv, Within, Visible

LEMMA DeleteKeeps ==
  ASSUME IInv, NEW t \in Txn, Delete(t)
  PROVE  IInv'
<1>1. StateOK /\ PagesInv /\ phase = "running" /\ status[t] = "active"
  BY DEF IInv, Delete, Idle
<1>2. PICK rid \in Visible :
        /\ \E seen \in ScanReads(rid) : CanScan(t, seen) /\ Scanned(t, seen)
        /\ CanLockX(t, rid)
        /\ owner' = [owner EXCEPT ![rid] = t]
        /\ add_log_to_buffer(DataRecord("DELETE", t, rid, mem[rid], Empty))
        /\ Remember(t, "DELETE", rid, mem[rid])
        /\ mem' = [mem EXCEPT ![rid] = Empty]
        /\ Changes(t, rid, Empty)
  BY DEF Delete
<1>3. rid \in Rid /\ rid[1] <= num_pages /\ mem[rid] \in Row /\ Empty \in Row
  BY <1>1, VisibleRow DEF Row
<1>4. RowStep(t, rid, Empty)
  <2>1. LogStep
    BY <1>1, <1>2, <1>3, DataRecordType, AddStep
  <2>2. tlock' \in [Txn -> {"none", "IX", "SIX"}] /\ readers' \in [Rid -> SUBSET Txn]
    BY <1>1, <1>2, ScannedTypes
  <2>3. status' = [status EXCEPT ![t] = "active"]
    BY <1>1 DEF Delete, StateOK
  <2>4. /\ num_pages' \in Nat /\ num_pages <= num_pages' /\ rid[1] <= num_pages' /\ num_pages' <= MaxPages
        /\ UNCHANGED <<disk, disk_pages, phase, bound>> /\ pending' = pending
    BY <1>1, <1>3, PageCounts DEF Delete, file
  <2>5. owner[rid] \in {NoTxn, t}
    BY <1>2 DEF CanLockX
  <2>6. pending \in [Txn -> [rid: Rid, new: Value, new_page: BOOLEAN] \cup {NoInsert}]
    BY <1>1 DEF StateOK
  <2> QED BY <1>2, <1>3, <2>1, <2>2, <2>3, <2>4, <2>5, <2>6 DEF RowStep, Changes
<1> QED BY <1>1, <1>3, <1>4, RowStepKeeps

LEMMA UpdateKeeps ==
  ASSUME IInv, NEW t \in Txn, NEW v \in Value, Update(t, v)
  PROVE  IInv'
<1>1. StateOK /\ PagesInv /\ phase = "running" /\ status[t] = "active"
  BY DEF IInv, Update, Idle
<1>2. PICK rid \in Visible :
        /\ \E seen \in ScanReads(rid) : CanScan(t, seen) /\ Scanned(t, seen)
        /\ CanLockX(t, rid)
        /\ owner' = [owner EXCEPT ![rid] = t]
        /\ add_log_to_buffer(DataRecord("UPDATE", t, rid, mem[rid], v))
        /\ \/ /\ ~CompositeIndex \/ mem[rid] = v
              /\ Remember(t, "UPDATE", rid, mem[rid])
              /\ mem' = [mem EXCEPT ![rid] = v]
              /\ Changes(t, rid, v)
              /\ UNCHANGED num_pages
           \/ /\ CompositeIndex /\ mem[rid] # v
              /\ \E new_rid \in FreeRid :
                   /\ Remember(t, "UPDATE", new_rid, Empty)
                   /\ insert_record(new_rid, v)
                   /\ Changes(t, new_rid, v)
  BY DEF Update
<1>3. rid \in Rid /\ rid[1] <= num_pages /\ mem[rid] \in Row /\ Empty \in Row /\ v \in Row
  BY <1>1, VisibleRow DEF Row
<1>4. LogStep
  BY <1>1, <1>2, <1>3, DataRecordType, AddStep
<1>5. tlock' \in [Txn -> {"none", "IX", "SIX"}] /\ readers' \in [Rid -> SUBSET Txn]
  BY <1>1, <1>2, ScannedTypes
<1>6. status' = [status EXCEPT ![t] = "active"]
  BY <1>1 DEF Update, StateOK
<1>7. UNCHANGED <<disk, disk_pages, phase, bound>> /\ pending' = pending
  BY DEF Update, file
<1>8. owner[rid] \in {NoTxn, t}
  BY <1>2 DEF CanLockX
<1>9. pending \in [Txn -> [rid: Rid, new: Value, new_page: BOOLEAN] \cup {NoInsert}]
  BY <1>1 DEF StateOK
<1>10. CASE /\ Remember(t, "UPDATE", rid, mem[rid])
            /\ mem' = [mem EXCEPT ![rid] = v]
            /\ Changes(t, rid, v)
            /\ UNCHANGED num_pages
  <2>1. /\ num_pages' \in Nat /\ num_pages <= num_pages' /\ rid[1] <= num_pages' /\ num_pages' <= MaxPages
    BY <1>1, <1>3, <1>10, PageCounts
  <2>2. RowStep(t, rid, v)
    BY <1>2, <1>3, <1>4, <1>5, <1>6, <1>7, <1>8, <1>9, <1>10, <2>1 DEF RowStep, Changes
  <2> QED BY <1>1, <1>3, <2>2, RowStepKeeps
<1>11. ASSUME CompositeIndex, NEW new_rid \in FreeRid, Remember(t, "UPDATE", new_rid, Empty),
              insert_record(new_rid, v), Changes(t, new_rid, v)
       PROVE  IInv'
  <2>1. new_rid \in Rid
    BY FreeRidIsRid
  <2>2. /\ num_pages' \in Nat /\ num_pages <= num_pages' /\ new_rid[1] <= num_pages' /\ num_pages' <= MaxPages
        /\ mem' = [mem EXCEPT ![new_rid] = v]
    BY <1>1, <1>11, <2>1, InsertRecordPages
  <2>3. RowStep(t, new_rid, v)
    BY <1>2, <1>3, <1>4, <1>5, <1>6, <1>7, <1>8, <1>9, <1>11, <2>1, <2>2 DEF RowStep, Changes
  <2> QED BY <1>1, <1>3, <2>1, <2>3, RowStepKeeps
<1> QED BY <1>2, <1>10, <1>11

LEMMA AbortUndoKeeps ==
  ASSUME IInv, NEW t \in Txn, AbortUndo(t)
  PROVE  IInv'
<1>1. StateOK /\ phase = "running" /\ status[t] = "aborting" /\ write_set[t] # <<>>
  BY DEF IInv, AbortUndo
<1>2. PICK s \in Seq(WriteRecord) : s = write_set[t]
  BY <1>1 DEF StateOK
<1>3. PICK m \in Nat : m = Len(s) - 1 /\ Len(s) \in DOMAIN s
  <2>1. Len(s) \in Nat /\ DOMAIN s = 1..Len(s)
    BY <1>2
  <2>2. Len(s) # 0
    BY <1>1, <1>2
  <2>3. Len(s) - 1 \in Nat /\ Len(s) \in DOMAIN s
    BY <2>1, <2>2
  <2> QED BY <2>3
<1>4. PICK wr \in WriteRecord : wr = s[Len(s)]
  BY <1>2, <1>3
<1>5. PICK s2 : s2 = SubSeq(s, 1, m)
  OBVIOUS
<1>6. s2 \in Seq(WriteRecord) /\ \A i \in DOMAIN s2 : i \in DOMAIN s /\ s2[i] = s[i]
  BY <1>2, <1>3, <1>5
<1>7. write_set' = [write_set EXCEPT ![t] = s2]
  <2>1. Front(s) = s2
    BY <1>3, <1>5 DEF Front
  <2> QED BY <1>1, <1>2, <2>1 DEF AbortUndo, StateOK
<1>8. mem' = [mem EXCEPT ![wr.rid] = wr.old]
  BY <1>2, <1>4 DEF AbortUndo, Last
<1>9. wr.rid \in Rid /\ wr.old \in Row /\ wr.rid[1] <= num_pages
  <2>1. wr.rid \in Rid /\ wr.old \in Row
    BY DEF WriteRecord
  <2>2. status[t] \in Live
    BY <1>1 DEF Live
  <2> QED BY <1>2, <1>3, <1>4, <2>1, <2>2 DEF IInv, PagesInv
<1>10. /\ write_set' \in [Txn -> Seq(WriteRecord)]
       /\ \A u \in Txn : \A i \in DOMAIN write_set'[u] : i \in DOMAIN write_set[u] /\ write_set'[u][i] = write_set[u][i]
  <2>1. write_set \in [Txn -> Seq(WriteRecord)]
    BY <1>1 DEF StateOK
  <2> QED BY <1>2, <1>6, <1>7, <2>1
<1>11. mem' \in [Rid -> Row] /\ \A x \in Rid : x # wr.rid => mem'[x] = mem[x]
  BY <1>1, <1>8, <1>9 DEF StateOK
<1>12. UNCHANGED <<num_pages, disk, disk_pages, log_buffer, log_file, winners, status, pending, tlock, owner,
                   readers, phase, bound, hist>>
  BY DEF AbortUndo, file, log, locks
<1>13. StateOK'
  BY <1>1, <1>10, <1>11, <1>12 DEF StateOK
<1>14. PagesInv'
  BY <1>1, <1>9, <1>10, <1>11, <1>12 DEF IInv, PagesInv, Within
<1>15. StatusInv'
  <2>1. \A u \in Txn : status[u] = "unborn" => write_set'[u] = <<>>
    <3>1. \A u \in Txn : u # t => write_set'[u] = write_set[u]
      BY <1>1, <1>7 DEF StateOK
    <3> QED BY <1>1, <3>1 DEF IInv, StatusInv
  <2> QED BY <1>12, <2>1 DEF IInv, StatusInv
<1>16. CommitInv'
  BY <1>12 DEF IInv, CommitInv, Committed
<1>17. HistInv'
  BY <1>12 DEF IInv, HistInv
<1>18. RollbackOwnsRows'
  BY <1>10, <1>12 DEF IInv, RollbackOwnsRows
<1> QED BY <1>13, <1>14, <1>15, <1>16, <1>17, <1>18 DEF IInv

-----------------------------------------------------------------------------
(* Steps of the buffer pool, crashes and recovery.                         *)

LEMMA EvictKeeps ==
  ASSUME IInv, NEW p \in 1..MaxPages, Evict(p)
  PROVE  IInv'
<1>1. StateOK
  BY DEF IInv
<1>2. UNCHANGED <<mem, num_pages, disk_pages, log_buffer, log_file, winners, status, write_set, pending, tlock,
                  owner, readers, phase, hist>>
  BY DEF Evict, table, log, locks
<1>3. bound' \in Bounds
  BY <1>1, BoundSteps DEF Evict
<1>4. disk' \in [Rid -> Row]
  BY <1>1 DEF StateOK, Evict
<1>5. StateOK'
  BY <1>1, <1>2, <1>3, <1>4 DEF StateOK, Bounds
<1>6. PagesInv' /\ StatusInv'
  BY <1>2 DEF IInv, PagesInv, StatusInv, Within, LogWithin, IsData
<1>7. CommitInv' /\ HistInv' /\ RollbackOwnsRows'
  BY <1>2 DEF IInv, CommitInv, Committed, HistInv, RollbackOwnsRows
<1> QED BY <1>5, <1>6, <1>7 DEF IInv

LEMMA CrashKeeps == ASSUME IInv, Crash PROVE IInv'
<1>1. StateOK /\ Empty \in Row
  BY DEF IInv, Row
<1>2. status' \in [Txn -> Status] /\ \A t \in Txn : status'[t] = IF status[t] \in Live THEN "lost" ELSE status[t]
  BY <1>1 DEF StateOK, Crash, LiveTxns, Status
<1>3. \A t \in Txn : status'[t] \notin Live /\ (status'[t] # "lost" => status'[t] = status[t])
  BY <1>2 DEF Live
<1>4. /\ mem' = [r \in Rid |-> Empty] /\ num_pages' = 0 /\ phase' = "down"
      /\ write_set' = [t \in Txn |-> <<>>] /\ log_buffer' = <<>>
      /\ disk' = disk /\ disk_pages' = disk_pages /\ hist' = hist
      /\ pending' = [t \in Txn |-> NoInsert] /\ tlock' = [t \in Txn |-> "none"]
      /\ owner' = [r \in Rid |-> NoTxn] /\ readers' = [r \in Rid |-> {}]
  BY DEF Crash, file
<1>5. log_file' \in Seq(LogRecord) /\ winners' \subseteq Txn /\ winners \subseteq winners'
  <2>1. log_buffer \in Seq(LogRecord) /\ log_file \in Seq(LogRecord) /\ winners \subseteq Txn
    BY <1>1 DEF StateOK
  <2>2. Flushed \in Seq(LogRecord)
    BY <2>1 DEF Flushed
  <2>3. Committed(log_buffer) \subseteq Txn
    BY DEF Committed
  <2> QED BY <2>1, <2>2, <2>3 DEF Crash
<1>6. bound' \in Bounds
  BY <1>1, BoundSteps DEF Crash
<1>7. StateOK'
  <2>1. <<>> \in Seq(LogRecord) /\ <<>> \in Seq(WriteRecord) /\ Len(<<>>) = 0
    OBVIOUS
  <2>2. 0 <= LogBufferSize /\ 0 \in 0..MaxPages
    BY RecoveryConstants
  <2>3. /\ mem' \in [Rid -> Row] /\ write_set' \in [Txn -> Seq(WriteRecord)]
        /\ pending' \in [Txn -> [rid: Rid, new: Value, new_page: BOOLEAN] \cup {NoInsert}]
    BY <1>1, <1>4, <2>1
  <2>4. /\ tlock' \in [Txn -> {"none", "IX", "SIX"}] /\ owner' \in [Rid -> Txn \cup {NoTxn}]
        /\ readers' \in [Rid -> SUBSET Txn] /\ phase' \in Phase
    BY <1>4 DEF Phase
  <2>5. disk' \in [Rid -> Row] /\ disk_pages' \in 0..MaxPages /\ hist' \in Seq(Change)
    BY <1>1, <1>4 DEF StateOK
  <2> QED BY <1>2, <1>4, <1>5, <1>6, <2>1, <2>2, <2>3, <2>4, <2>5 DEF StateOK, Bounds
<1>8. PagesInv' /\ StatusInv'
  <2>1. \A t \in Txn : status'[t] # "inserting"
    BY <1>3 DEF Live
  <2> QED BY <1>3, <1>4, <2>1 DEF PagesInv, StatusInv, Within
<1>9. CommitInv'
  <2>1. \A t \in Txn : status'[t] # "logged" /\ status'[t] # "flushed" /\ status'[t] # "paged"
    BY <1>3 DEF Live
  <2> QED BY <1>3, <1>5, <2>1 DEF IInv, CommitInv
<1>10. HistInv'
  <2> SUFFICES ASSUME NEW i \in DOMAIN hist
               PROVE  /\ status'[hist[i].txn] # "unborn" /\ status'[hist[i].txn] \notin Live
                      /\ status'[hist[i].txn] = "committed" => hist[i].rid[1] <= disk_pages
    BY <1>4 DEF HistInv
  <2>1. hist[i].txn \in Txn
    BY <1>1, HistElement
  <2> QED BY <1>3, <2>1 DEF IInv, HistInv
<1>11. RollbackOwnsRows'
  BY <1>4 DEF RollbackOwnsRows
<1> QED BY <1>7, <1>8, <1>9, <1>10, <1>11 DEF IInv

(* A step of recovery: no transaction is live, and none of what it leaves  *)
(* alone matters.                                                          *)
LEMMA RecoveryKeeps ==
  ASSUME IInv, phase # "running",
         UNCHANGED <<disk_pages, status, write_set, pending, locks, bound, hist, winners, log_buffer>>,
         mem' \in [Rid -> Row], disk' \in [Rid -> Row], num_pages' \in 0..MaxPages, phase' \in Phase \ {"down"},
         log_file' \in Seq(LogRecord),
         disk_pages <= num_pages', Within(mem', num_pages'), phase' = "redone" => LogWithin'
  PROVE  IInv'
<1>1. StateOK /\ \A t \in Txn : status[t] \notin Live
  BY DEF IInv, StatusInv
<1>2. StateOK'
  BY <1>1 DEF StateOK, locks
<1>3. PagesInv' /\ StatusInv'
  BY <1>1 DEF IInv, PagesInv, StatusInv, Within, LogWithin
<1>4. CommitInv'
  BY DEF IInv, CommitInv, Committed
<1>5. HistInv'
  <2>1. \A i \in DOMAIN hist : hist[i].txn \in Txn
    BY <1>1, HistElement
  <2> QED BY <1>1, <2>1 DEF IInv, HistInv
<1>6. RollbackOwnsRows'
  BY DEF IInv, RollbackOwnsRows, locks
<1> QED BY <1>2, <1>3, <1>4, <1>5, <1>6 DEF IInv

LEMMA RecoverKeeps == ASSUME IInv, Recover PROVE IInv'
<1>1. /\ StateOK /\ mem \in [Rid -> Row] /\ disk \in [Rid -> Row] /\ log_file \in Seq(LogRecord)
      /\ num_pages \in 0..MaxPages /\ disk_pages \in 0..MaxPages /\ Within(mem, num_pages) /\ Empty \in Row
      /\ phase # "down" => disk_pages <= num_pages
      /\ num_pages \in Nat /\ disk_pages \in Nat /\ MaxPages \in Nat
  <2>1. StateOK /\ PagesInv
    BY DEF IInv
  <2> QED BY <2>1, PageCounts DEF StateOK, PagesInv, Row
<1>2. CASE OpenDb
  <2>1. /\ UNCHANGED <<disk_pages, status, write_set, pending, locks, bound, hist, winners, log_buffer>>
        /\ log_file' = log_file /\ disk' = disk /\ phase # "running" /\ phase' = "opened" /\ num_pages' = disk_pages
    BY <1>2 DEF OpenDb, Recovering, file
  <2>2. mem' \in [Rid -> Row] /\ Within(mem', num_pages')
    BY <1>1, <1>2, <2>1 DEF OpenDb, Within
  <2> QED BY <1>1, <2>1, <2>2, RecoveryKeeps DEF Phase
<1>3. CASE redo
  <2>1. PICK done : done = Redone[Len(log_file)]
    OBVIOUS
  <2>2. /\ UNCHANGED <<disk_pages, status, write_set, pending, locks, bound, hist, winners, log_buffer>>
        /\ log_file' = log_file /\ disk' = disk /\ phase = "opened"
        /\ phase' = IF done.ok THEN "redone" ELSE "exited"
        /\ mem' = done.rows /\ num_pages' = done.pages
    BY <1>3, <2>1 DEF redo, Recovering, file
  <2>3. /\ done.rows \in [Rid -> Row] /\ done.pages \in num_pages..MaxPages /\ done.ok \in BOOLEAN
        /\ Within(done.rows, done.pages)
        /\ done.ok => \A i \in DOMAIN log_file : IsData(log_file[i]) => log_file[i].rid[1] <= done.pages
    BY <1>1, <2>1, RedoneResult
  <2>4. num_pages' \in 0..MaxPages /\ disk_pages <= num_pages'
    BY <1>1, <2>2, <2>3
  <2>5. phase' = "redone" => LogWithin'
    BY <2>2, <2>3 DEF LogWithin, IsData
  <2>6. phase' \in Phase \ {"down"} /\ phase # "running"
    BY <2>2 DEF Phase
  <2> QED BY <1>1, <2>2, <2>3, <2>4, <2>5, <2>6, RecoveryKeeps
<1>4. CASE undo
  <2>1. /\ UNCHANGED <<disk_pages, status, write_set, pending, locks, bound, hist, winners, log_buffer>>
        /\ log_file' = log_file /\ disk' = disk /\ phase = "redone" /\ phase' = "undone" /\ num_pages' = num_pages
        /\ mem' = Undone[Len(log_file)]
    BY <1>4 DEF undo, Recovering, file
  <2>2. Undone \in [0..Len(log_file) -> UndoState] /\ Len(log_file) \in 0..Len(log_file)
    BY <1>1, <2>1, UndoneFunction DEF IInv, PagesInv
  <2>3. mem' \in [Rid -> Row] /\ Within(mem', num_pages')
    BY <2>1, <2>2 DEF UndoState
  <2> QED BY <1>1, <2>1, <2>3, RecoveryKeeps DEF Phase
<1>5. CASE WriteRecovered
  <2>1. /\ UNCHANGED <<disk_pages, status, write_set, pending, locks, bound, hist, winners, log_buffer>>
        /\ log_file' = log_file /\ mem' = mem /\ num_pages' = num_pages /\ phase = "undone" /\ phase' = "written"
    BY <1>5 DEF WriteRecovered, log, table
  <2>2. disk' \in [Rid -> Row]
    BY <1>1, <1>5, FlushedPagesType DEF WriteRecovered
  <2> QED BY <1>1, <2>1, <2>2, RecoveryKeeps DEF Phase
<1>6. CASE truncate_log
  <2>1. /\ UNCHANGED <<disk_pages, status, write_set, pending, locks, bound, hist, winners, log_buffer>>
        /\ log_file' = <<>> /\ disk' = disk /\ mem' = mem /\ num_pages' = num_pages
        /\ phase = "written" /\ phase' = "running"
    BY <1>6 DEF truncate_log, Recovering, file, table
  <2>2. log_file' \in Seq(LogRecord)
    BY <2>1
  <2> QED BY <1>1, <2>1, <2>2, RecoveryKeeps DEF Phase
<1> QED BY <1>2, <1>3, <1>4, <1>5, <1>6 DEF Recover

-----------------------------------------------------------------------------
(* Every step keeps the invariant.                                         *)

LEMMA StutterKeeps == ASSUME IInv, UNCHANGED vars PROVE IInv'
<1>1. StateOK'
  BY DEF IInv, StateOK, vars
<1>2. PagesInv' /\ StatusInv'
  BY DEF IInv, PagesInv, StatusInv, Within, LogWithin, IsData, vars
<1>3. CommitInv' /\ HistInv' /\ RollbackOwnsRows'
  BY DEF IInv, CommitInv, Committed, HistInv, RollbackOwnsRows, vars
<1> QED BY <1>1, <1>2, <1>3 DEF IInv

LEMMA NextKeeps == ASSUME IInv, [Next]_vars PROVE IInv'
<1>1. ASSUME NEW t \in Txn, Commit(t) PROVE IInv'
  BY <1>1, CommitReleaseKeeps, CommitLogKeeps, CommitFlushLogKeeps, CommitFlushPagesKeeps,
     CommitWriteHeaderKeeps DEF Commit
<1>2. ASSUME NEW t \in Txn, Abort(t) PROVE IInv'
  BY <1>2, AbortUndoKeeps, AbortReleaseKeeps, AbortLogKeeps, AbortFlushLogKeeps DEF Abort
<1>3. ASSUME NEW t \in Txn, Statement(t) PROVE IInv'
  BY <1>3, InsertLogKeeps, InsertWriteKeeps, UpdateKeeps, DeleteKeeps DEF Statement
<1>4. ASSUME NEW t \in Txn, begin(t) \/ Refused(t) \/ AbortRequested(t) PROVE IInv'
  BY <1>4, BeginKeeps, RefusedKeeps, AbortRequestedKeeps
<1>5. ASSUME NEW p \in 1..MaxPages, Evict(p) PROVE IInv'
  BY <1>5, EvictKeeps
<1>6. CASE Crash \/ Recover
  BY <1>6, CrashKeeps, RecoverKeeps
<1>7. CASE UNCHANGED vars
  BY <1>7, StutterKeeps
<1> QED BY <1>1, <1>2, <1>3, <1>4, <1>5, <1>6, <1>7 DEF Next, Step

(* The inductive invariant holds of every reachable state: pages, statuses *)
(* and the log fit together in every state of statements, commit, abort,   *)
(* crash and each step of main()'s recovery.                               *)
THEOREM RecoveryInvariant == Spec => []IInv
<1>1. Init => IInv
  BY InitIInv
<1>2. IInv /\ [Next]_vars => IInv'
  BY NextKeeps
<1> QED BY <1>1, <1>2, PTL DEF Spec

(* A commit that TransactionManager::commit has returned from cannot be    *)
(* lost: its record is in the log file and the header in the table's file  *)
(* counts the pages of all its rows, after any number of crashes.          *)
THEOREM DurableAlways == Spec => []Durable
<1>1. IInv /\ aside \in BOOLEAN => Durable
  <2> SUFFICES ASSUME IInv, aside \in BOOLEAN PROVE Durable
    OBVIOUS
  <2>1. StateOK /\ CommitInv /\ HistInv
    BY DEF IInv
  <2> QED BY <2>1 DEF Durable, TypeOK, AckedIsDurable, CommitInv, HistInv
<1>2. Init => aside \in BOOLEAN
  BY DEF Init
<1>3. aside \in BOOLEAN /\ [Next]_vars => (aside \in BOOLEAN)'
  BY Zenon DEF Next, NoteSerial, vars
<1> QED BY <1>1, <1>2, <1>3, RecoveryInvariant, PTL DEF Spec

(* TransactionManager::abort writes only to rows its transaction has       *)
(* locked, whatever the other sessions do; the one exception is the row    *)
(* that an UPDATE inserts under a composite index.                         *)
THEOREM RollbackOwnsRowsAlways == Spec => []RollbackOwnsRows
<1>1. IInv => RollbackOwnsRows
  BY DEF IInv
<1> QED BY <1>1, RecoveryInvariant, PTL

-----------------------------------------------------------------------------
(* The last of several changes.                                            *)

(* The row after those changes of q whose places are in D.                 *)
LastOf(q, D) == IF D = {} THEN Empty ELSE q[CHOOSE i \in D : \A j \in D : j <= i].new

LEMMA Greatest ==
  ASSUME NEW N \in Nat, NEW D \in SUBSET (1..N), D # {}
  PROVE  \E m \in D : \A j \in D : j <= m
<1> DEFINE T == {N - i : i \in D}
<1>1. T \subseteq Nat /\ T # {}
  <2>1. \A i \in D : N - i \in Nat
    OBVIOUS
  <2> QED BY <2>1
<1>2. \A x : x \in T <=> \E i \in D : x = N - i
  OBVIOUS
<1> HIDE DEF T
<1>3. PICK x \in T : \A y \in T : x <= y
  BY <1>1, LeastNat
<1>4. PICK m \in D : x = N - m
  BY <1>2
<1>5. ASSUME NEW j \in D PROVE j <= m
  <2>1. N - m <= N - j /\ j \in 1..N /\ m \in 1..N
    BY <1>2, <1>3, <1>4
  <2> QED BY <2>1
<1> QED BY <1>5

LEMMA LastIs ==
  ASSUME NEW q, NEW D \in SUBSET Nat, NEW m \in D, \A j \in D : j <= m
  PROVE  LastOf(q, D) = q[m].new
<1>1. \A i \in D : (\A j \in D : j <= i) => i = m
  OBVIOUS
<1>2. (CHOOSE i \in D : \A j \in D : j <= i) = m
  BY <1>1
<1> QED BY <1>2 DEF LastOf

LEMMA LastNone == ASSUME NEW q PROVE LastOf(q, {}) = Empty
BY DEF LastOf

LEMMA LastSame ==
  ASSUME NEW N \in Nat, NEW D \in SUBSET (1..N), NEW q, NEW p, \A i \in D : p[i] = q[i]
  PROVE  LastOf(p, D) = LastOf(q, D)
<1>1. CASE D = {}
  BY <1>1 DEF LastOf
<1>2. CASE D # {}
  <2>1. PICK m \in D : \A j \in D : j <= m
    BY <1>2, Greatest
  <2>2. D \in SUBSET Nat
    OBVIOUS
  <2> QED BY <2>1, <2>2, LastIs
<1> QED BY <1>1, <1>2

(* A change behind all others is the last one.                             *)
LEMMA LastAdded ==
  ASSUME NEW N \in Nat, NEW D \in SUBSET (1..N), NEW p
  PROVE  LastOf(p, D \cup {N + 1}) = p[N + 1].new
<1>1. PICK E : E = D \cup {N + 1}
  OBVIOUS
<1>2. E \in SUBSET Nat /\ N + 1 \in E /\ \A j \in E : j <= N + 1
  BY <1>1
<1>3. LastOf(p, E) = p[N + 1].new
  BY <1>2, LastIs
<1> QED BY <1>1, <1>3

(* The row rid after the changes of h made by transactions of W.           *)
ChangesOn(h, rid, W) == {i \in DOMAIN h : h[i].rid = rid /\ h[i].txn \in W}
RowBy(h, rid, W) == LastOf(h, ChangesOn(h, rid, W))

LEMMA RowByAppend ==
  ASSUME NEW h \in Seq(Change), NEW c \in Change, NEW rid, NEW W
  PROVE  RowBy(Append(h, c), rid, W) = IF c.rid = rid /\ c.txn \in W THEN c.new ELSE RowBy(h, rid, W)
<1>1. PICK p : p = Append(h, c)
  OBVIOUS
<1>2. PICK N \in Nat : N = Len(h) /\ DOMAIN h = 1..N /\ DOMAIN p = 1..(N + 1)
  BY <1>1
<1>3. p[N + 1] = c /\ \A i \in 1..N : p[i] = h[i]
  BY <1>1, <1>2
<1>4. \A i \in DOMAIN p : i \in DOMAIN h \/ i = N + 1
  BY <1>2
<1>5. N + 1 \notin DOMAIN h /\ N + 1 \in DOMAIN p /\ DOMAIN h \subseteq DOMAIN p
  BY <1>2
<1>6. ChangesOn(h, rid, W) \in SUBSET (1..N)
  BY <1>2 DEF ChangesOn
<1>7. CASE c.rid = rid /\ c.txn \in W
  <2>1. ChangesOn(p, rid, W) = ChangesOn(h, rid, W) \cup {N + 1}
    BY <1>2, <1>3, <1>4, <1>5, <1>7 DEF ChangesOn
  <2>2. LastOf(p, ChangesOn(h, rid, W) \cup {N + 1}) = c.new
    BY <1>3, <1>6, LastAdded
  <2> QED BY <1>1, <1>7, <2>1, <2>2 DEF RowBy
<1>8. CASE ~(c.rid = rid /\ c.txn \in W)
  <2>1. ChangesOn(p, rid, W) = ChangesOn(h, rid, W)
    BY <1>2, <1>3, <1>4, <1>5, <1>8 DEF ChangesOn
  <2>2. LastOf(p, ChangesOn(h, rid, W)) = LastOf(h, ChangesOn(h, rid, W))
    BY <1>3, <1>6, LastSame
  <2> QED BY <1>1, <1>8, <2>1, <2>2 DEF RowBy
<1> QED BY <1>7, <1>8

(* The places of data records in a log, those on one row, and those of     *)
(* them written by transactions of W.                                      *)
Data(q) == {i \in DOMAIN q : IsData(q[i])}
On(q, rid) == {i \in Data(q) : q[i].rid = rid}
OnBy(q, rid, W) == {i \in On(q, rid) : q[i].txn \in W}

(* p is the log q with the record r behind it.                             *)
Extends(p, q, r) == q \in Seq(LogRecord) /\ r \in LogRecord /\ p = Append(q, r)

LEMMA LogAppend ==
  ASSUME NEW q, NEW r, NEW p, Extends(p, q, r)
  PROVE  /\ p \in Seq(LogRecord)
         /\ Data(p) = IF IsData(r) THEN Data(q) \cup {Len(q) + 1} ELSE Data(q)
         /\ Len(q) \in Nat /\ DOMAIN q = 1..Len(q) /\ Data(q) \subseteq 1..Len(q)
         /\ p[Len(q) + 1] = r /\ \A i \in 1..Len(q) : p[i] = q[i]
         /\ \A rid, W : LastOf(p, OnBy(p, rid, W)) =
              IF IsData(r) /\ r.rid = rid /\ r.txn \in W THEN r.new ELSE LastOf(q, OnBy(q, rid, W))
         /\ \A rid : LastOf(p, On(p, rid)) =
              IF IsData(r) /\ r.rid = rid THEN r.new ELSE LastOf(q, On(q, rid))
<1>1. PICK N \in Nat : N = Len(q) /\ DOMAIN q = 1..N /\ DOMAIN p = 1..(N + 1)
  BY DEF Extends
<1>2. p \in Seq(LogRecord) /\ p[N + 1] = r /\ \A i \in 1..N : p[i] = q[i]
  BY <1>1 DEF Extends
<1>3. /\ \A i \in DOMAIN p : i \in DOMAIN q \/ i = N + 1
      /\ N + 1 \notin DOMAIN q /\ N + 1 \in DOMAIN p /\ DOMAIN q \subseteq DOMAIN p
  BY <1>1
<1>4. Data(p) = IF IsData(r) THEN Data(q) \cup {N + 1} ELSE Data(q)
  BY <1>1, <1>2, <1>3 DEF Data
<1>5. Data(q) \subseteq 1..N
  BY <1>1 DEF Data
<1>6. ASSUME NEW rid, NEW W
      PROVE  LastOf(p, OnBy(p, rid, W)) =
              IF IsData(r) /\ r.rid = rid /\ r.txn \in W THEN r.new ELSE LastOf(q, OnBy(q, rid, W))
  <2>1. OnBy(q, rid, W) \in SUBSET (1..N)
    BY <1>1, <1>5 DEF OnBy, On
  <2>2. CASE IsData(r) /\ r.rid = rid /\ r.txn \in W
    <3>1. OnBy(p, rid, W) = OnBy(q, rid, W) \cup {N + 1}
      BY <1>2, <1>4, <1>5, <2>2 DEF OnBy, On
    <3>2. LastOf(p, OnBy(q, rid, W) \cup {N + 1}) = r.new
      BY <1>2, <2>1, LastAdded
    <3> QED BY <2>2, <3>1, <3>2
  <2>3. CASE ~(IsData(r) /\ r.rid = rid /\ r.txn \in W)
    <3>1. OnBy(p, rid, W) = OnBy(q, rid, W)
      BY <1>2, <1>3, <1>4, <1>5, <2>3 DEF OnBy, On
    <3>2. LastOf(p, OnBy(q, rid, W)) = LastOf(q, OnBy(q, rid, W))
      BY <1>2, <2>1, LastSame
    <3> QED BY <2>3, <3>1, <3>2
  <2> QED BY <2>2, <2>3
<1>7. ASSUME NEW rid
      PROVE  LastOf(p, On(p, rid)) = IF IsData(r) /\ r.rid = rid THEN r.new ELSE LastOf(q, On(q, rid))
  <2>1. On(q, rid) \in SUBSET (1..N)
    BY <1>1, <1>5 DEF On
  <2>2. CASE IsData(r) /\ r.rid = rid
    <3>1. On(p, rid) = On(q, rid) \cup {N + 1}
      BY <1>2, <1>4, <1>5, <2>2 DEF On
    <3>2. LastOf(p, On(q, rid) \cup {N + 1}) = r.new
      BY <1>2, <2>1, LastAdded
    <3> QED BY <2>2, <3>1, <3>2
  <2>3. CASE ~(IsData(r) /\ r.rid = rid)
    <3>1. On(p, rid) = On(q, rid)
      BY <1>2, <1>3, <1>4, <1>5, <2>3 DEF On
    <3>2. LastOf(p, On(q, rid)) = LastOf(q, On(q, rid))
      BY <1>2, <2>1, LastSame
    <3> QED BY <2>3, <3>1, <3>2
  <2> QED BY <2>2, <2>3
<1> QED BY <1>1, <1>2, <1>4, <1>5, <1>6, <1>7

(* Every data record says what it found: the row the records before it     *)
(* left.  INSERT fills a free slot, UPDATE and DELETE a used one.          *)
Chained(q) ==
  \A i \in Data(q) :
    /\ q[i].old = LastOf(q, {j \in On(q, q[i].rid) : j < i})
    /\ q[i].type # "INSERT" => q[i].old # Empty
    /\ q[i].type = "UPDATE" => q[i].new # Empty

(* A transaction whose records are followed by another one's is in W.      *)
OneByOne(q, W) ==
  \A i, j \in Data(q) : i < j /\ q[i].txn # q[j].txn => q[i].txn \in W

LEMMA ChainedAppend ==
  ASSUME NEW q, NEW r, NEW p, Extends(p, q, r), Chained(q),
         IsData(r) => /\ r.old = LastOf(q, On(q, r.rid))
                      /\ r.type # "INSERT" => r.old # Empty
                      /\ r.type = "UPDATE" => r.new # Empty
  PROVE  Chained(p)
<1>1. PICK N \in Nat : N = Len(q)
  BY LogAppend
<1>2. /\ Data(p) = IF IsData(r) THEN Data(q) \cup {N + 1} ELSE Data(q)
      /\ Data(q) \subseteq 1..N
      /\ p[N + 1] = r /\ \A i \in 1..N : p[i] = q[i]
  BY <1>1, LogAppend
<1>3. ASSUME NEW rid, NEW i \in 1..(N + 1)
      PROVE  LastOf(p, {j \in On(p, rid) : j < i}) = LastOf(q, {j \in On(q, rid) : j < i})
  <2>1. {j \in On(p, rid) : j < i} = {j \in On(q, rid) : j < i}
    BY <1>2 DEF On
  <2>2. {j \in On(q, rid) : j < i} \in SUBSET (1..N)
    BY <1>2 DEF On
  <2>3. \A j \in {k \in On(q, rid) : k < i} : p[j] = q[j]
    BY <1>2, <2>2
  <2> QED BY <2>1, <2>2, <2>3, LastSame
<1>4. SUFFICES ASSUME NEW i \in Data(p)
               PROVE  /\ p[i].old = LastOf(p, {j \in On(p, p[i].rid) : j < i})
                      /\ p[i].type # "INSERT" => p[i].old # Empty
                      /\ p[i].type = "UPDATE" => p[i].new # Empty
  BY DEF Chained
<1>5. CASE i \in Data(q)
  <2>1. i \in 1..N /\ i \in 1..(N + 1) /\ p[i] = q[i]
    BY <1>2, <1>5
  <2> QED BY <1>3, <1>5, <2>1 DEF Chained
<1>6. CASE i \notin Data(q)
  <2>1. IsData(r) /\ i = N + 1 /\ p[i] = r /\ i \in 1..(N + 1)
    BY <1>2, <1>6
  <2>2. {j \in On(q, r.rid) : j < i} = On(q, r.rid)
    BY <1>2, <2>1 DEF On
  <2>3. LastOf(p, {j \in On(p, r.rid) : j < i}) = LastOf(q, On(q, r.rid))
    BY <1>3, <2>1, <2>2
  <2> QED BY <2>1, <2>3
<1> QED BY <1>5, <1>6

LEMMA OneByOneAppend ==
  ASSUME NEW q, NEW r, NEW p, Extends(p, q, r), NEW W, OneByOne(q, W),
         IsData(r) => \A i \in Data(q) : q[i].txn # r.txn => q[i].txn \in W
  PROVE  OneByOne(p, W)
<1>1. PICK N \in Nat : N = Len(q)
  BY LogAppend
<1>2. /\ Data(p) = IF IsData(r) THEN Data(q) \cup {N + 1} ELSE Data(q)
      /\ Data(q) \subseteq 1..N
      /\ p[N + 1] = r /\ \A i \in 1..N : p[i] = q[i]
  BY <1>1, LogAppend
<1>3. SUFFICES ASSUME NEW i \in Data(p), NEW j \in Data(p), i < j, p[i].txn # p[j].txn
               PROVE  p[i].txn \in W
  BY DEF OneByOne
<1>4. i \in Data(q) /\ p[i] = q[i]
  BY <1>2, <1>3
<1>5. CASE j \in Data(q)
  BY <1>2, <1>3, <1>4, <1>5 DEF OneByOne
<1>6. CASE j \notin Data(q)
  BY <1>2, <1>3, <1>4, <1>6
<1> QED BY <1>5, <1>6

-----------------------------------------------------------------------------
(* What redo and undo compute from a chained log.                          *)

(* Redo never throws, and leaves in every row what the last record on it   *)
(* wrote, if every row it finds is on a row with a record.                 *)
LEMMA RedoneLast ==
  ASSUME StateOK, Within(mem, num_pages), Chained(log_file),
         \A rid \in Rid : mem[rid] # Empty => On(log_file, rid) # {}
  PROVE  /\ Redone[Len(log_file)].ok
         /\ \A rid \in Rid : Redone[Len(log_file)].rows[rid] = LastOf(log_file, On(log_file, rid))
<1> DEFINE To(n, rid) == {j \in On(log_file, rid) : j <= n}
           Exact(n) ==
             /\ Redone[n].ok
             /\ \A i \in Data(log_file) : i <= n => log_file[i].rid[1] <= Redone[n].pages
             /\ \A rid \in Rid : Redone[n].rows[rid] = IF To(n, rid) = {} THEN mem[rid]
                                                       ELSE LastOf(log_file, To(n, rid))
           Good == {n \in 0..Len(log_file) : Exact(n)}
<1>1. PICK N \in Nat : N = Len(log_file) /\ DOMAIN log_file = 1..N
  BY DEF StateOK
<1>2. \A i \in 1..N : log_file[i] \in LogRecord
  BY <1>1 DEF StateOK
<1>3. Data(log_file) \subseteq 1..N /\ \A rid : On(log_file, rid) \subseteq 1..N
  BY <1>1 DEF Data, On
<1>4. /\ Redone \in [0..N -> RedoState]
      /\ Redone[0] = [rows |-> mem, pages |-> num_pages, ok |-> TRUE]
      /\ \A n \in 1..N : Redone[n] = RedoRecord(Redone[n - 1], log_file[n])
  BY <1>1, RedoneFunction
<1>5. \A n, rid : To(n, rid) = {j \in On(log_file, rid) : j <= n}
  OBVIOUS
<1>6. \A n : Exact(n) <=>
             /\ Redone[n].ok
             /\ \A i \in Data(log_file) : i <= n => log_file[i].rid[1] <= Redone[n].pages
             /\ \A rid \in Rid : Redone[n].rows[rid] = IF To(n, rid) = {} THEN mem[rid]
                                                       ELSE LastOf(log_file, To(n, rid))
  OBVIOUS
<1>7. Good \in SUBSET (0..N) /\ \A n \in 0..N : n \in Good <=> Exact(n)
  BY <1>1
<1> HIDE DEF To, Exact, Good
<1>8. 0 \in Good
  <2>1. \A i \in Data(log_file) : ~(i <= 0)
    BY <1>3
  <2>2. \A rid \in Rid : To(0, rid) = {}
    BY <1>3, <1>5
  <2> QED BY <1>4, <1>6, <1>7, <2>1, <2>2
<1>9. ASSUME NEW n \in 1..N, n - 1 \in Good PROVE n \in Good
  <2>1. n - 1 \in 0..N /\ n \in 0..N /\ Redone[n - 1] \in RedoState /\ Exact(n - 1)
    BY <1>4, <1>7, <1>9
  <2>2. PICK s \in RedoState : s = Redone[n - 1]
    BY <2>1
  <2>3. PICK r \in LogRecord : r = log_file[n]
    BY <1>2
  <2>4. PICK u : u = Redone[n] /\ u = RedoRecord(s, r)
    BY <1>4, <2>2, <2>3
  <2>5. /\ s.ok /\ s.rows \in [Rid -> Row]
        /\ \A i \in Data(log_file) : i <= n - 1 => log_file[i].rid[1] <= s.pages
        /\ \A rid \in Rid : s.rows[rid] = IF To(n - 1, rid) = {} THEN mem[rid]
                                          ELSE LastOf(log_file, To(n - 1, rid))
    BY <1>6, <2>1, <2>2 DEF RedoState
  <2>6. CASE ~IsData(r)
    <3>1. u = s
      BY <2>4, <2>6 DEF RedoRecord
    <3>2. n \notin Data(log_file)
      BY <2>3, <2>6 DEF Data
    <3>3. \A i \in Data(log_file) : i <= n <=> i <= n - 1
      BY <1>3, <3>2
    <3>4. \A rid \in Rid : To(n, rid) = To(n - 1, rid)
      BY <1>5, <3>3 DEF On
    <3>5. Exact(n)
      BY <1>6, <2>4, <2>5, <3>1, <3>3, <3>4
    <3> QED BY <1>7, <2>1, <3>5
  <2>7. CASE IsData(r)
    <3>1. n \in Data(log_file) /\ n \in On(log_file, r.rid) /\ r.rid \in Rid
      BY <1>1, <2>3, <2>7, DataType DEF Data, On
    <3>2. /\ To(n, r.rid) = To(n - 1, r.rid) \cup {n}
          /\ \A rid \in Rid : rid # r.rid => To(n, rid) = To(n - 1, rid)
      <4>1. \A rid : \A j \in On(log_file, rid) : j \in 1..N /\ (j <= n <=> j <= n - 1 \/ j = n)
        BY <1>3
      <4>2. \A rid : n \in On(log_file, rid) => rid = r.rid
        BY <2>3 DEF On
      <4>3. To(n, r.rid) = To(n - 1, r.rid) \cup {n}
        BY <1>5, <3>1, <4>1
      <4>4. ASSUME NEW rid \in Rid, rid # r.rid PROVE To(n, rid) = To(n - 1, rid)
        <5>1. n \notin On(log_file, rid)
          BY <4>2, <4>4
        <5>2. \A j \in On(log_file, rid) : j <= n <=> j <= n - 1
          BY <4>1, <5>1
        <5> QED BY <1>5, <5>2
      <4> QED BY <4>3, <4>4
    <3>3. To(n - 1, r.rid) = {j \in On(log_file, r.rid) : j < n}
      <4>1. \A j \in On(log_file, r.rid) : j \in 1..N /\ (j <= n - 1 <=> j < n)
        BY <1>3
      <4> QED BY <1>5, <4>1
    <3>4. r.type # "INSERT" => /\ To(n - 1, r.rid) # {}
                               /\ s.rows[r.rid] # Empty
      <4>1. r.old = LastOf(log_file, To(n - 1, r.rid)) /\ (r.type # "INSERT" => r.old # Empty)
        BY <2>3, <3>1, <3>3 DEF Chained
      <4>2. r.type # "INSERT" => To(n - 1, r.rid) # {}
        BY <4>1, LastNone
      <4> QED BY <2>5, <3>1, <4>1, <4>2
    <3>5. r.type # "INSERT" => ~(r.rid[1] > s.pages)
      <4> SUFFICES ASSUME r.type # "INSERT" PROVE ~(r.rid[1] > s.pages)
        OBVIOUS
      <4>1. PICK j : j \in To(n - 1, r.rid)
        BY <3>4
      <4>2. j \in Data(log_file) /\ j <= n - 1 /\ log_file[j].rid = r.rid
        BY <1>5, <4>1 DEF On
      <4>3. r.rid[1] <= s.pages
        BY <2>5, <4>2
      <4>4. r.rid[1] \in Nat /\ s.pages \in Nat
        <5>1. num_pages \in Nat /\ MaxPages \in Nat
          BY PageCounts
        <5>2. s.pages \in num_pages..MaxPages /\ r.rid[1] \in 1..MaxPages
          BY <3>1, RidPage DEF RedoState
        <5> QED BY <5>1, <5>2
      <4> QED BY <4>3, <4>4
    <3>6. r.type \in {"INSERT", "DELETE", "UPDATE"}
      BY <2>7, DataType
    <3>7. /\ u.ok /\ u.rows[r.rid] = r.new
          /\ \A rid \in Rid : rid # r.rid => u.rows[rid] = s.rows[rid]
      <4>1. PICK rows : rows = [s.rows EXCEPT ![r.rid] = IF r.type = "UPDATE" /\ @ = Empty THEN Empty ELSE r.new]
        OBVIOUS
      <4>2. PICK pages : pages = IF r.rid[1] > s.pages THEN r.rid[1] ELSE s.pages
        OBVIOUS
      <4>3. s = [rows |-> s.rows, pages |-> s.pages, ok |-> s.ok]
        BY DEF RedoState
      <4>4. u = [rows |-> rows, pages |-> pages, ok |-> s.ok]
        <5>1. u = [s EXCEPT !.pages = IF r.rid[1] > @ THEN r.rid[1] ELSE @,
                            !.rows[r.rid] = IF r.type = "UPDATE" /\ @ = Empty THEN Empty ELSE r.new]
          BY <2>4, <2>5, <2>7, <3>5 DEF RedoRecord
        <5> QED BY <4>1, <4>2, <4>3, <5>1
      <4>5. rows[r.rid] = r.new /\ \A rid \in Rid : rid # r.rid => rows[rid] = s.rows[rid]
        BY <2>5, <3>1, <3>4, <4>1
      <4> QED BY <2>5, <4>4, <4>5
    <3>8. \A i \in Data(log_file) : i <= n => log_file[i].rid[1] <= u.pages
      <4> SUFFICES ASSUME NEW i \in Data(log_file), i <= n PROVE log_file[i].rid[1] <= u.pages
        OBVIOUS
      <4>1. u \in RedoState /\ u.pages >= s.pages /\ r.rid[1] <= u.pages
        BY <2>4, <2>7, <3>7, RedoRecordTyped
      <4>2. CASE i = n
        BY <2>3, <4>1, <4>2
      <4>3. CASE i # n
        <5>1. i <= n - 1
          BY <1>3, <4>3
        <5>2. log_file[i].rid[1] <= s.pages
          BY <2>5, <5>1
        <5>3. log_file[i].rid[1] \in 1..MaxPages
          BY <1>2, <1>3, DataType, RidPage DEF Data
        <5>4. num_pages \in Nat /\ MaxPages \in Nat
          BY PageCounts
        <5>5. s.pages \in num_pages..MaxPages /\ u.pages \in num_pages..MaxPages
          BY <4>1 DEF RedoState
        <5> QED BY <4>1, <5>2, <5>3, <5>4, <5>5
      <4> QED BY <4>2, <4>3
    <3>9. LastOf(log_file, To(n, r.rid)) = r.new /\ To(n, r.rid) # {}
      <4>1. n \in To(n, r.rid) /\ To(n, r.rid) \in SUBSET Nat /\ \A j \in To(n, r.rid) : j <= n
        BY <1>3, <1>5, <3>1
      <4>2. LastOf(log_file, To(n, r.rid)) = log_file[n].new
        BY <4>1, LastIs
      <4> QED BY <2>3, <4>1, <4>2
    <3>10. ASSUME NEW rid \in Rid
           PROVE  u.rows[rid] = IF To(n, rid) = {} THEN mem[rid] ELSE LastOf(log_file, To(n, rid))
      <4>1. CASE rid = r.rid
        BY <3>7, <3>9, <4>1
      <4>2. CASE rid # r.rid
        BY <2>5, <3>2, <3>7, <4>2
      <4> QED BY <4>1, <4>2
    <3>11. Exact(n)
      BY <1>6, <2>4, <3>7, <3>8, <3>10
    <3> QED BY <1>7, <2>1, <3>11
  <2> QED BY <2>6, <2>7
<1>10. N \in Good
  BY <1>7, <1>8, <1>9, PassKeeps
<1>11. Exact(N)
  BY <1>7, <1>10
<1>12. ASSUME NEW rid \in Rid PROVE To(N, rid) = On(log_file, rid)
  <2>1. \A j \in On(log_file, rid) : j <= N
    BY <1>3
  <2> QED BY <1>5, <2>1
<1>13. ASSUME NEW rid \in Rid PROVE Redone[N].rows[rid] = LastOf(log_file, On(log_file, rid))
  <2>1. CASE On(log_file, rid) = {}
    BY <1>6, <1>11, <1>12, <2>1, LastNone
  <2>2. CASE On(log_file, rid) # {}
    BY <1>6, <1>11, <1>12, <2>2
  <2> QED BY <2>1, <2>2
<1> QED BY <1>1, <1>6, <1>11, <1>13

(* Undo takes back exactly what the transactions without a commit record   *)
(* wrote: it leaves in every row what the last record of a completed one   *)
(* wrote, if the others come last in the log.                              *)
LEMMA UndoneLast ==
  ASSUME StateOK, Within(mem, num_pages), LogWithin, Chained(log_file),
         OneByOne(log_file, Committed(log_file)),
         \A rid \in Rid : mem[rid] = LastOf(log_file, On(log_file, rid))
  PROVE  \A rid \in Rid : Undone[Len(log_file)][rid] = LastOf(log_file, OnBy(log_file, rid, Committed(log_file)))
<1> DEFINE W == Committed(log_file)
           Kept(k, rid) == {j \in On(log_file, rid) : j <= k \/ log_file[j].txn \in W}
           Good == {n \in 0..Len(log_file) :
                      \A rid \in Rid : Undone[n][rid] = LastOf(log_file, Kept(Len(log_file) - n, rid))}
<1>1. PICK N \in Nat : N = Len(log_file) /\ DOMAIN log_file = 1..N
  BY DEF StateOK
<1>2. \A i \in 1..N : log_file[i] \in LogRecord
  BY <1>1 DEF StateOK
<1>3. Data(log_file) \subseteq 1..N /\ \A rid : On(log_file, rid) \subseteq 1..N /\ On(log_file, rid) \subseteq Data(log_file)
  BY <1>1 DEF Data, On
<1>4. /\ Undone \in [0..N -> UndoState] /\ Undone[0] = mem
      /\ \A n \in 1..N : Undone[n] = UndoRecord(Undone[n - 1], UndoRead(n))
  BY <1>1, UndoneFunction
<1>5. \A k, rid : Kept(k, rid) = {j \in On(log_file, rid) : j <= k \/ log_file[j].txn \in W}
  OBVIOUS
<1>6. Good \in SUBSET (0..N) /\ \A n \in 0..N :
        n \in Good <=> \A rid \in Rid : Undone[n][rid] = LastOf(log_file, Kept(N - n, rid))
  BY <1>1
<1> HIDE DEF Kept, Good, W
<1>7. 0 \in Good
  <2>1. ASSUME NEW rid \in Rid PROVE Kept(N - 0, rid) = On(log_file, rid)
    <3>1. \A j \in On(log_file, rid) : j <= N - 0
      BY <1>3
    <3> QED BY <1>5, <3>1
  <2> QED BY <1>4, <1>6, <2>1
<1>8. ASSUME NEW n \in 1..N, n - 1 \in Good PROVE n \in Good
  <2>1. n - 1 \in 0..N /\ n \in 0..N
    OBVIOUS
  <2>2. PICK k \in 1..N : k = N + 1 - n
    OBVIOUS
  <2>3. N - n = k - 1 /\ N - (n - 1) = k
    BY <2>2
  <2>4. PICK s \in [Rid -> Row] : s = Undone[n - 1]
    BY <1>4, <2>1 DEF UndoState
  <2>5. PICK r \in LogRecord : r = log_file[k] /\ r = UndoRead(n)
    BY <1>1, <1>2, <2>2 DEF UndoRead
  <2>6. PICK u : u = Undone[n] /\ u = UndoRecord(s, r)
    BY <1>4, <2>4, <2>5
  <2>7. \A rid \in Rid : s[rid] = LastOf(log_file, Kept(k, rid))
    BY <1>6, <1>8, <2>1, <2>3, <2>4
  <2>8. ASSUME NEW rid, k \notin On(log_file, rid) \/ r.txn \in W
        PROVE  Kept(k - 1, rid) = Kept(k, rid)
    <3>1. \A j \in On(log_file, rid) : j \in 1..N /\ (j <= k <=> j <= k - 1 \/ j = k)
      BY <1>3
    <3> QED BY <1>5, <2>5, <2>8, <3>1
  <2>9. CASE ~IsData(r) \/ r.txn \in W
    <3>1. u = s
      BY <2>6, <2>9 DEF UndoRecord, W
    <3>2. IsData(r) => r.txn \in W
      BY <2>9
    <3>3. \A rid : k \in On(log_file, rid) => IsData(r)
      BY <2>5 DEF On, Data
    <3>4. \A rid \in Rid : Kept(k - 1, rid) = Kept(k, rid)
      BY <2>8, <3>2, <3>3
    <3> QED BY <1>6, <2>1, <2>3, <2>6, <2>7, <3>1, <3>4
  <2>10. CASE IsData(r) /\ r.txn \notin W
    <3>1. k \in Data(log_file) /\ k \in On(log_file, r.rid) /\ r.rid \in Rid
      BY <1>1, <2>5, <2>10, DataType DEF Data, On
    <3>2. \A j \in Data(log_file) : j > k => log_file[j].txn \notin W
      BY <1>3, <2>5, <2>10, <3>1 DEF OneByOne, W
    <3>3. Kept(k, r.rid) = {j \in On(log_file, r.rid) : j <= k}
      <4>1. \A j \in On(log_file, r.rid) : log_file[j].txn \in W => j <= k
        BY <1>3, <3>2
      <4> QED BY <1>5, <4>1
    <3>4. Kept(k - 1, r.rid) = {j \in On(log_file, r.rid) : j < k}
      <4>0. \A j \in On(log_file, r.rid) : j \in 1..N /\ j \in Data(log_file) /\ (j = k \/ j < k \/ j > k)
        BY <1>3
      <4>1. \A j \in On(log_file, r.rid) : log_file[j].txn \in W => j < k
        BY <2>5, <2>10, <3>2, <4>0
      <4>4. \A j \in On(log_file, r.rid) : j <= k - 1 <=> j < k
        BY <4>0
      <4>2. \A j \in On(log_file, r.rid) : (j <= k - 1 \/ log_file[j].txn \in W) <=> j < k
        BY <4>1, <4>4, Zenon
      <4>3. \A j : j \in Kept(k - 1, r.rid) <=> j \in On(log_file, r.rid) /\ (j <= k - 1 \/ log_file[j].txn \in W)
        BY <1>5
      <4> QED BY <4>2, <4>3
    <3>5. LastOf(log_file, Kept(k, r.rid)) = r.new
      <4>1. PICK D : D = Kept(k, r.rid)
        OBVIOUS
      <4>2. D \in SUBSET Nat /\ k \in D /\ \A j \in D : j <= k
        BY <1>3, <3>1, <3>3, <4>1
      <4> QED BY <2>5, <4>1, <4>2, LastIs
    <3>6. /\ r.old = LastOf(log_file, Kept(k - 1, r.rid))
          /\ r.type = "UPDATE" => r.new # Empty
      BY <2>5, <3>1, <3>4 DEF Chained
    <3>7. u[r.rid] = r.old /\ \A rid \in Rid : rid # r.rid => u[rid] = s[rid]
      <4>1. s[r.rid] = r.new
        BY <2>7, <3>1, <3>5
      <4> QED BY <2>6, <2>10, <3>1, <3>6, <4>1 DEF UndoRecord, W
    <3>8. ASSUME NEW rid \in Rid PROVE u[rid] = LastOf(log_file, Kept(k - 1, rid))
      <4>1. CASE rid = r.rid
        BY <3>6, <3>7, <4>1
      <4>2. CASE rid # r.rid
        <5>1. k \notin On(log_file, rid)
          BY <2>5, <4>2 DEF On
        <5> QED BY <2>7, <2>8, <3>7, <4>2, <5>1
      <4> QED BY <4>1, <4>2
    <3> QED BY <1>6, <2>1, <2>3, <2>6, <3>8
  <2> QED BY <2>9, <2>10
<1>9. N \in Good
  BY <1>6, <1>7, <1>8, PassKeeps
<1>10. ASSUME NEW rid \in Rid PROVE Kept(N - N, rid) = OnBy(log_file, rid, W)
  <2>1. \A j \in On(log_file, rid) : ~(j <= N - N)
    BY <1>3
  <2> QED BY <1>5, <2>1 DEF OnBy
<1> QED BY <1>1, <1>6, <1>9, <1>10 DEF W

-----------------------------------------------------------------------------
(* The log against the history.                                            *)

(* h is the history of changes, p the log of which the first n records are *)
(* in the file, w the transactions whose commit is there and d the table   *)
(* in the file.  By the log, the transactions of w made the changes they   *)
(* made by the history; all their records are in the file, and so is one   *)
(* for every row there.                                                    *)
LogInv(h, p, n, w, d) ==
  /\ Chained(p) /\ OneByOne(p, w)
  /\ \A rid \in Rid : RowBy(h, rid, w) = LastOf(p, OnBy(p, rid, w))
  /\ \A i \in Data(p) : p[i].txn \in w => i <= n
  /\ \A rid \in Rid : d[rid] # Empty => \E i \in On(p, rid) : i <= n

(* A record is added, and what was there before may go to the file.        *)
LEMMA LogInvAppend ==
  ASSUME NEW h, NEW q, NEW n, NEW w, NEW d, LogInv(h, q, n, w, d), NEW p, NEW r, Extends(p, q, r),
         NEW m, n \in Nat, n <= Len(q), m = n \/ m = Len(q),
         IsData(r) => /\ r.old = LastOf(q, On(q, r.rid))
                      /\ r.type # "INSERT" => r.old # Empty
                      /\ r.type = "UPDATE" => r.new # Empty
                      /\ r.txn \notin w
                      /\ \A i \in Data(q) : q[i].txn # r.txn => q[i].txn \in w
  PROVE  LogInv(h, p, m, w, d)
<1>1. PICK N \in Nat : N = Len(q)
  BY LogAppend
<1>2. /\ Data(p) = IF IsData(r) THEN Data(q) \cup {N + 1} ELSE Data(q)
      /\ Data(q) \subseteq 1..N
      /\ p[N + 1] = r /\ \A i \in 1..N : p[i] = q[i]
  BY <1>1, LogAppend
<1>3. m \in Nat /\ n <= m
  BY <1>1
<1>4. Chained(p)
  BY ChainedAppend DEF LogInv
<1>5. OneByOne(p, w)
  BY OneByOneAppend DEF LogInv
<1>6. ASSUME NEW rid \in Rid PROVE RowBy(h, rid, w) = LastOf(p, OnBy(p, rid, w))
  <2>1. LastOf(p, OnBy(p, rid, w)) = LastOf(q, OnBy(q, rid, w))
    BY LogAppend
  <2> QED BY <2>1 DEF LogInv
<1>7. ASSUME NEW i \in Data(p), p[i].txn \in w PROVE i <= m
  <2>1. i \in Data(q) /\ p[i] = q[i] /\ i \in 1..N
    BY <1>2, <1>7
  <2>2. i <= n
    BY <1>7, <2>1 DEF LogInv
  <2> QED BY <1>1, <1>3, <2>1, <2>2
<1>8. ASSUME NEW rid \in Rid, d[rid] # Empty PROVE \E i \in On(p, rid) : i <= m
  <2>1. PICK i \in On(q, rid) : i <= n
    BY <1>8 DEF LogInv
  <2>2. i \in Data(q) /\ i \in 1..N /\ q[i].rid = rid
    BY <1>2 DEF On
  <2>3. i \in Data(p) /\ p[i].rid = rid
    BY <1>2, <2>2
  <2>4. i \in On(p, rid) /\ i <= m
    BY <1>1, <1>3, <2>1, <2>2, <2>3 DEF On
  <2> QED BY <2>4
<1> QED BY <1>4, <1>5, <1>6, <1>7, <1>8 DEF LogInv

(* A change by a transaction that is not committed enters the history.     *)
LEMMA LogInvChange ==
  ASSUME NEW h \in Seq(Change), NEW p, NEW n, NEW w, NEW d, LogInv(h, p, n, w, d),
         NEW c \in Change, c.txn \notin w
  PROVE  LogInv(Append(h, c), p, n, w, d)
<1>1. \A rid : RowBy(Append(h, c), rid, w) = RowBy(h, rid, w)
  BY RowByAppend
<1>2. PICK g : g = Append(h, c)
  OBVIOUS
<1>3. LogInv(g, p, n, w, d)
  BY <1>1, <1>2 DEF LogInv
<1> QED BY <1>2, <1>3

(* What is not yet in the file is lost.                                    *)
LEMMA LogInvCut ==
  ASSUME NEW h, NEW p, NEW N \in Nat, NEW n \in Nat, NEW w, NEW d, LogInv(h, p, n, w, d), NEW q,
         Data(p) \subseteq 1..N, Data(q) = {i \in Data(p) : i <= n}, \A i \in Data(q) : q[i] = p[i]
  PROVE  LogInv(h, q, n, w, d)
<1>1. \A i \in Data(q) : i \in 1..N /\ i \in Data(p) /\ i <= n /\ q[i] = p[i]
  OBVIOUS
<1>2. ASSUME NEW D \in SUBSET Data(q) PROVE LastOf(q, D) = LastOf(p, D)
  <2>1. D \in SUBSET (1..N) /\ \A i \in D : q[i] = p[i]
    BY <1>1
  <2> QED BY <2>1, LastSame
<1>3. Chained(q)
  <2> SUFFICES ASSUME NEW i \in Data(q)
               PROVE  /\ q[i].old = LastOf(q, {j \in On(q, q[i].rid) : j < i})
                      /\ q[i].type # "INSERT" => q[i].old # Empty
                      /\ q[i].type = "UPDATE" => q[i].new # Empty
    BY DEF Chained
  <2>1. {j \in On(q, q[i].rid) : j < i} = {j \in On(p, p[i].rid) : j < i}
    <3>1. \A j \in Data(p) : j < i => j \in Data(q)
      <4>1. \A j \in Data(p) : j \in 1..N
        OBVIOUS
      <4> QED BY <1>1, <4>1
    <3> QED BY <1>1, <3>1 DEF On
  <2>2. {j \in On(q, q[i].rid) : j < i} \in SUBSET Data(q)
    BY DEF On
  <2>3. LastOf(q, {j \in On(q, q[i].rid) : j < i}) = LastOf(p, {j \in On(p, p[i].rid) : j < i})
    BY <1>2, <2>1, <2>2
  <2>4. /\ p[i].old = LastOf(p, {j \in On(p, p[i].rid) : j < i})
        /\ p[i].type # "INSERT" => p[i].old # Empty
        /\ p[i].type = "UPDATE" => p[i].new # Empty
    BY <1>1 DEF LogInv, Chained
  <2> QED BY <1>1, <2>3, <2>4
<1>4. OneByOne(q, w)
  BY <1>1 DEF LogInv, OneByOne
<1>5. ASSUME NEW rid \in Rid PROVE RowBy(h, rid, w) = LastOf(q, OnBy(q, rid, w))
  <2>1. \A i \in Data(p) : p[i].txn \in w => i \in Data(q)
    BY DEF LogInv
  <2>2. OnBy(q, rid, w) = OnBy(p, rid, w)
    BY <1>1, <2>1 DEF OnBy, On
  <2>3. OnBy(q, rid, w) \in SUBSET Data(q)
    BY DEF OnBy, On
  <2> QED BY <1>2, <2>2, <2>3 DEF LogInv
<1>6. \A i \in Data(q) : q[i].txn \in w => i <= n
  BY <1>1
<1>7. ASSUME NEW rid \in Rid, d[rid] # Empty PROVE \E i \in On(q, rid) : i <= n
  <2>1. PICK i \in On(p, rid) : i <= n
    BY <1>7 DEF LogInv
  <2>2. i \in Data(q) /\ q[i].rid = rid
    BY <1>1, <2>1 DEF On
  <2>3. i \in On(q, rid)
    BY <2>2 DEF On
  <2> QED BY <2>1, <2>3
<1> QED BY <1>3, <1>4, <1>5, <1>6, <1>7 DEF LogInv

(* All of the log goes to the file, with the commit record of the only     *)
(* transaction (if any) that was not committed.                            *)
LEMMA LogInvFlush ==
  ASSUME NEW h, NEW p, NEW n, NEW w, NEW d, LogInv(h, p, n, w, d), NEW N \in Nat, n \in Nat, n <= N,
         Data(p) \subseteq 1..N, NEW v, w \subseteq v,
         v = w \/ /\ \A i \in Data(p) : p[i].txn \in v
                  /\ \A rid \in Rid : RowBy(h, rid, v) = LastOf(p, On(p, rid))
  PROVE  LogInv(h, p, N, v, d)
<1>1. Chained(p) /\ OneByOne(p, v)
  BY DEF LogInv, OneByOne
<1>2. \A i \in Data(p) : p[i].txn \in v => i <= N
  OBVIOUS
<1>3. ASSUME NEW rid \in Rid, d[rid] # Empty PROVE \E i \in On(p, rid) : i <= N
  <2>1. PICK i \in On(p, rid) : i <= n
    BY <1>3 DEF LogInv
  <2>2. i \in 1..N
    BY DEF On
  <2> QED BY <2>1, <2>2
<1>4. ASSUME NEW rid \in Rid PROVE RowBy(h, rid, v) = LastOf(p, OnBy(p, rid, v))
  <2>1. CASE v = w
    BY <2>1 DEF LogInv
  <2>2. CASE v # w
    <3>1. OnBy(p, rid, v) = On(p, rid)
      BY <2>2 DEF OnBy, On
    <3> QED BY <2>2, <3>1
  <2> QED BY <2>1, <2>2
<1> QED BY <1>1, <1>2, <1>3, <1>4 DEF LogInv

(* Rows are written to the table's file.                                   *)
LEMMA LogInvPages ==
  ASSUME NEW h, NEW p, NEW n, NEW w, NEW d, LogInv(h, p, n, w, d), NEW e,
         \A rid \in Rid : e[rid] # Empty => d[rid] # Empty \/ \E i \in On(p, rid) : i <= n
  PROVE  LogInv(h, p, n, w, e)
BY DEF LogInv

-----------------------------------------------------------------------------
(* One session.                                                            *)

(* A step that stays on the serial path: one transaction in progress, no   *)
(* row moved, no eviction of a dirty page, and at most one crash of the    *)
(* running server (crashes of recovery are not limited).  Each of the four *)
(* is needed: without it Recovery has a behaviour that leaves something    *)
(* else than the committed changes.                                        *)
StaysSerial == ~OffSerial' /\ bound'.evictions = 0 /\ bound'.crashes <= 1

Holding == {"active", "inserting", "aborting"}
Writing == {"active", "inserting", "unlocked", "logged", "flushed", "paged"}
RollingBack == {"aborting", "rolledback", "abortlogged", "aborted"}
Ended == {"logged", "flushed", "paged", "committed", "lost"}

(* One transaction is live at a time and holds all the locks; the commit   *)
(* records in the log file are those of the winners, one that is still in  *)
(* the buffer is its own.                                                  *)
SoloInv ==
  /\ \A t, u \in Txn : status[t] \in Live /\ status[u] \in Live => t = u
  /\ \A t \in Txn : status[t] \notin Holding =>
       tlock[t] = "none" /\ \A r \in Rid : owner[r] # t /\ t \notin readers[r]
  /\ \A t \in winners : status[t] \in Ended
  /\ \A t \in Committed(log_buffer) : status[t] = "logged" \/ t \in winners
  /\ bound.aborts = 0 => \A t \in Txn : status[t] \notin RollingBack
  /\ (bound.crashes = 0 \/ phase # "running") => winners = Committed(log_file)
  /\ phase # "running" => log_buffer = <<>> /\ bound.crashes # 0

(* Undoing the write set ws from the back makes row rid of the table v.    *)
RollsBackTo(ws, rows, rid, v) ==
  \/ rows[rid] = v /\ \A i \in DOMAIN ws : ws[i].rid # rid
  \/ \E i \in DOMAIN ws : /\ ws[i].rid = rid /\ ws[i].old = v
                          /\ \A j \in DOMAIN ws : j < i => ws[j].rid # rid

(* The table holds the changes of the winners and of the live transaction, *)
(* and rolling that one back leaves the winners' only.                     *)
RowsInv ==
  phase = "running" /\ (bound.aborts = 0 \/ bound.crashes = 0) =>
    /\ \A t \in Txn : status[t] \in Writing =>
         \A rid \in Rid : mem[rid] = RowBy(hist, rid, winners \cup {t})
    /\ \A t \in Txn : status[t] \in Holding =>
         \A rid \in Rid : RollsBackTo(write_set[t], mem, rid, RowBy(hist, rid, winners))
    /\ (\A t \in Txn : status[t] \notin Writing \cup {"aborting"}) =>
         \A rid \in Rid : mem[rid] = RowBy(hist, rid, winners)
    /\ \A t \in Txn : status[t] = "inserting" =>
         /\ mem[pending[t].rid] = Empty
         /\ pending[t].new_page => FreeRid = {pending[t].rid}

(* While the server runs, the log (with its buffer) says what is in the    *)
(* table; an INSERT that is half done is one record ahead.                 *)
RunInv(p, w, s, pend, rows) ==
  /\ \A i \in Data(p) : p[i].txn \in w \/ s[p[i].txn] \in Live
  /\ \A rid \in Rid : (\A t \in Txn : s[t] = "inserting" => pend[t].rid # rid)
                         => rows[rid] = LastOf(p, On(p, rid))
  /\ \A t \in Txn : s[t] = "inserting" => LastOf(p, On(p, pend[t].rid)) = pend[t].new

(* The log up to the crash, and what recovery makes of it.                 *)
JournalInv ==
  bound.aborts = 0 /\ (bound.crashes = 0 \/ phase # "running") =>
    /\ LogInv(hist, Flushed, Len(log_file), winners, disk)
    /\ phase = "running" => RunInv(Flushed, winners, status, pending, mem)
    /\ phase = "opened" => \A rid \in Rid : mem[rid] # Empty => On(log_file, rid) # {}
    /\ phase = "redone" => \A rid \in Rid : mem[rid] = LastOf(log_file, On(log_file, rid))
    /\ phase \in {"undone", "written"} => \A rid \in Rid : mem[rid] = RowBy(hist, rid, winners)
    /\ phase # "exited"

SInv == SoloInv /\ RowsInv /\ JournalInv

LEMMA InitSInv == ASSUME Init PROVE SInv
<1>1. \A t \in Txn : status[t] = "unborn" /\ tlock[t] = "none"
  BY DEF Init
<1>2. log_buffer = <<>> /\ log_file = <<>> /\ hist = <<>> /\ winners = {} /\ phase = "running"
  BY DEF Init
<1>3. DOMAIN log_buffer = {} /\ DOMAIN log_file = {} /\ DOMAIN hist = {}
  BY <1>2
<1>4. Committed(log_buffer) = {} /\ Committed(log_file) = {}
  BY <1>3 DEF Committed
<1>5. SoloInv
  <2>1. NoTxn \notin Txn
    BY RecoveryConstants
  <2>2. \A r \in Rid : owner[r] = NoTxn /\ readers[r] = {}
    BY DEF Init
  <2> QED BY <1>1, <1>2, <1>4, <2>1, <2>2 DEF SoloInv, Live, Holding, RollingBack
<1>6. \A rid, W : RowBy(hist, rid, W) = Empty
  BY <1>3 DEF RowBy, ChangesOn, LastOf
<1>7. \A rid \in Rid : mem[rid] = Empty /\ disk[rid] = Empty
  BY DEF Init
<1>8. RowsInv
  BY <1>1, <1>6, <1>7 DEF RowsInv, Writing, Holding
<1>9. Flushed = <<>> /\ Data(Flushed) = {}
  BY <1>2 DEF Flushed, Data
<1>10. \A rid, W : On(Flushed, rid) = {} /\ OnBy(Flushed, rid, W) = {}
  BY <1>9 DEF On, OnBy
<1>11. LogInv(hist, Flushed, Len(log_file), winners, disk)
  BY <1>6, <1>7, <1>9, <1>10, LastNone DEF LogInv, Chained, OneByOne
<1>12. RunInv(Flushed, winners, status, pending, mem)
  BY <1>1, <1>7, <1>9, <1>10, LastNone DEF RunInv
<1>13. JournalInv
  BY <1>2, <1>11, <1>12 DEF JournalInv
<1> QED BY <1>5, <1>8, <1>13 DEF SInv

-----------------------------------------------------------------------------
(* What a step does to the log.                                            *)

LEMMA CommittedConcat ==
  ASSUME NEW p \in Seq(LogRecord), NEW q \in Seq(LogRecord)
  PROVE  Committed(p \o q) = Committed(p) \cup Committed(q)
<1>1. PICK s : s = p \o q
  OBVIOUS
<1>2. PICK N \in Nat, M \in Nat : N = Len(p) /\ M = Len(q) /\ DOMAIN p = 1..N /\ DOMAIN q = 1..M
  OBVIOUS
<1>3. /\ DOMAIN s = 1..(N + M) /\ \A i \in 1..N : s[i] = p[i]
      /\ \A i \in 1..M : s[N + i] = q[i]
  BY <1>1, <1>2
<1>4. \A i \in 1..(N + M) : i \in 1..N \/ (i - N \in 1..M /\ N + (i - N) = i)
  BY <1>2
<1>5. \A i \in 1..M : N + i \in 1..(N + M)
  BY <1>2
<1>6. \A i \in 1..N : i \in 1..(N + M)
  BY <1>2
<1>7. ASSUME NEW t, NEW c, c = ControlRecord("commit", t)
      PROVE  (\E i \in DOMAIN s : s[i] = c) <=> (\E i \in DOMAIN p : p[i] = c) \/ (\E i \in DOMAIN q : q[i] = c)
  <2>1. ASSUME NEW i \in DOMAIN s, s[i] = c
        PROVE  (\E j \in DOMAIN p : p[j] = c) \/ (\E j \in DOMAIN q : q[j] = c)
    <3>1. CASE i \in 1..N
      BY <1>2, <1>3, <2>1, <3>1
    <3>2. CASE i \notin 1..N
      <4>1. PICK k \in 1..M : N + k = i
        BY <1>3, <1>4, <3>2
      <4>2. q[k] = c
        BY <1>3, <2>1, <4>1
      <4> QED BY <1>2, <4>2
    <3> QED BY <3>1, <3>2
  <2>2. ASSUME NEW i \in DOMAIN p, p[i] = c PROVE \E j \in DOMAIN s : s[j] = c
    BY <1>2, <1>3, <1>6, <2>2
  <2>3. ASSUME NEW i \in DOMAIN q, q[i] = c PROVE \E j \in DOMAIN s : s[j] = c
    BY <1>2, <1>3, <1>5, <2>3
  <2> QED BY <2>1, <2>2, <2>3
<1> QED BY <1>1, <1>7 DEF Committed

LEMMA ConcatAppend ==
  ASSUME NEW p \in Seq(LogRecord), NEW q \in Seq(LogRecord), NEW r \in LogRecord
  PROVE  p \o Append(q, r) = Append(p \o q, r) /\ (p \o q) \o <<r>> = Append(p \o q, r)
OBVIOUS

(* The log gets the record r.                                              *)
Adds(r) ==
  /\ winners' = winners
  /\ Extends(Flushed', Flushed, r)
  /\ Len(log_file') = Len(log_file) \/ Len(log_file') = Len(Flushed)
  /\ winners = Committed(log_file) => winners = Committed(log_file')
  /\ \A u \in Committed(log_buffer') : u \in winners \/ r = ControlRecord("commit", u)

LEMMA Adding ==
  ASSUME StateOK, NEW r \in LogRecord, add_log_to_buffer(r), Committed(log_buffer) \subseteq winners
  PROVE  Adds(r)
<1>1. log_buffer \in Seq(LogRecord) /\ log_file \in Seq(LogRecord)
  BY DEF StateOK
<1>2. Flushed \in Seq(LogRecord)
  BY <1>1 DEF Flushed
<1>3. CASE Len(log_buffer) >= LogBufferSize
  <2>1. log_file' = Flushed /\ log_buffer' = <<r>> /\ winners' = winners
    BY <1>3 DEF add_log_to_buffer
  <2>2. Extends(Flushed', Flushed, r)
    <3>1. Flushed' = Append(Flushed, r)
      BY <1>1, <2>1, ConcatAppend DEF Flushed
    <3> QED BY <1>2, <3>1 DEF Extends
  <2>3. winners = Committed(log_file) => winners = Committed(log_file')
    <3>1. Committed(Flushed) = Committed(log_file) \cup Committed(log_buffer)
      BY <1>1, CommittedConcat DEF Flushed
    <3> QED BY <2>1, <3>1
  <2>4. \A u \in Committed(log_buffer') : r = ControlRecord("commit", u)
    <3>1. \A i \in DOMAIN <<r>> : <<r>>[i] = r
      OBVIOUS
    <3> QED BY <2>1, <3>1 DEF Committed
  <2> QED BY <2>1, <2>2, <2>3, <2>4 DEF Adds
<1>4. CASE ~(Len(log_buffer) >= LogBufferSize)
  <2>1. log_file' = log_file /\ log_buffer' = Append(log_buffer, r) /\ winners' = winners
    BY <1>4 DEF add_log_to_buffer
  <2>2. Extends(Flushed', Flushed, r)
    <3>1. Flushed' = Append(Flushed, r)
      BY <1>1, <2>1, ConcatAppend DEF Flushed
    <3> QED BY <1>2, <3>1 DEF Extends
  <2>3. \A u \in Committed(log_buffer') : u \in winners \/ r = ControlRecord("commit", u)
    <3>1. \A i \in DOMAIN log_buffer' : (i \in DOMAIN log_buffer /\ log_buffer'[i] = log_buffer[i]) \/ log_buffer'[i] = r
      BY <1>1, <2>1
    <3> QED BY <3>1 DEF Committed
  <2> QED BY <2>1, <2>2, <2>3 DEF Adds
<1> QED BY <1>3, <1>4

LEMMA Flushing ==
  ASSUME StateOK, flush_log_to_disk
  PROVE  /\ Flushed' = Flushed /\ log_file' = Flushed /\ log_buffer' = <<>>
         /\ winners' = winners \cup Committed(log_buffer)
         /\ Committed(log_buffer') = {}
         /\ winners = Committed(log_file) => winners' = Committed(log_file')
<1>1. log_buffer \in Seq(LogRecord) /\ log_file \in Seq(LogRecord)
  BY DEF StateOK
<1>2. log_file' = Flushed /\ log_buffer' = <<>> /\ winners' = winners \cup Committed(log_buffer)
  BY DEF flush_log_to_disk
<1>3. Flushed' = Flushed
  <2>1. Flushed \in Seq(LogRecord)
    BY <1>1 DEF Flushed
  <2>2. Flushed \o <<>> = Flushed
    BY <2>1
  <2> QED BY <1>2, <2>2 DEF Flushed
<1>4. Committed(log_buffer') = {}
  BY <1>2 DEF Committed
<1>5. winners = Committed(log_file) => winners' = Committed(log_file')
  BY <1>1, <1>2, CommittedConcat DEF Flushed
<1> QED BY <1>2, <1>3, <1>4, <1>5

-----------------------------------------------------------------------------
(* Steps of the one live transaction: who is live and what it holds.       *)

Alone(t) == \A u \in Txn : u # t => status[u] \notin Live

LEMMA LiveAlone ==
  ASSUME SoloInv, NEW t \in Txn, status[t] \in Live
  PROVE  Alone(t)
BY DEF SoloInv, Alone

LEMMA BeginAlone ==
  ASSUME StaysSerial, StateOK, NEW t \in Txn, begin(t)
  PROVE  Alone(t) /\ \A u \in Txn : status[u] \notin Live
<1>1. SUFFICES ASSUME NEW u \in Txn, status[u] \in Live PROVE FALSE
  BY DEF Alone
<1>2. u # t
  BY <1>1 DEF begin, Live
<1>3. status'[t] \in Live /\ status'[u] \in Live
  BY <1>1, <1>2 DEF begin, Goto, StateOK, Live
<1>4. t \in LiveTxns' /\ u \in LiveTxns'
  BY <1>3 DEF LiveTxns
<1> QED BY <1>2, <1>4 DEF StaysSerial, OffSerial

LEMMA NotLogged ==
  ASSUME SoloInv, NEW t \in Txn, Alone(t), status[t] # "logged"
  PROVE  Committed(log_buffer) \subseteq winners
<1>1. \A u \in Committed(log_buffer) : u \in Txn
  BY DEF Committed
<1> QED BY <1>1 DEF SoloInv, Alone, Live

(* The live transaction, or one that begins, goes to status b.             *)
TxnStep(t, b) ==
  /\ phase = "running" /\ phase' = "running"
  /\ Alone(t) /\ status' = [status EXCEPT ![t] = b]

LEMMA TxnStepStatus ==
  ASSUME StateOK, NEW t \in Txn, NEW b, TxnStep(t, b)
  PROVE  status'[t] = b /\ \A u \in Txn : u # t => status'[u] = status[u] /\ status[u] \notin Live
BY DEF StateOK, TxnStep, Alone

(* No lock changes but those of t.                                         *)
OwnLocks(t) ==
  \A u \in Txn : u # t =>
    /\ tlock'[u] = tlock[u]
    /\ \A r \in Rid : (owner'[r] = u => owner[r] = u) /\ (u \in readers'[r] => u \in readers[r])

LEMMA SoloStep ==
  ASSUME StateOK, SoloInv, NEW t \in Txn, NEW b, TxnStep(t, b), OwnLocks(t),
         b \notin Holding => tlock'[t] = "none" /\ \A r \in Rid : owner'[r] # t /\ t \notin readers'[r],
         bound'.crashes = bound.crashes, bound'.aborts = 0 => bound.aborts = 0 /\ b \notin RollingBack,
         winners' \subseteq winners \cup {t}, t \in winners' => b \in Ended,
         \A u \in Committed(log_buffer') : u \in winners' \/ (u = t /\ b = "logged"),
         winners = Committed(log_file) => winners' = Committed(log_file')
  PROVE  SoloInv'
<1>1. status'[t] = b /\ \A u \in Txn : u # t => status'[u] = status[u] /\ status[u] \notin Live
  BY TxnStepStatus
<1>2. \A u, w \in Txn : status'[u] \in Live /\ status'[w] \in Live => u = w
  BY <1>1
<1>3. ASSUME NEW u \in Txn, status'[u] \notin Holding
      PROVE  tlock'[u] = "none" /\ \A r \in Rid : owner'[r] # u /\ u \notin readers'[r]
  <2>1. CASE u = t
    BY <1>1, <1>3, <2>1
  <2>2. CASE u # t
    <3>1. status[u] \notin Holding
      BY <1>1, <1>3, <2>2
    <3> QED BY <2>2, <3>1 DEF SoloInv, OwnLocks
  <2> QED BY <2>1, <2>2
<1>4. \A u \in winners' : status'[u] \in Ended
  <2>1. \A u \in winners : u \in Txn /\ status[u] \in Ended
    BY DEF SoloInv, StateOK
  <2> QED BY <1>1, <2>1
<1>5. \A u \in Committed(log_buffer') : status'[u] = "logged" \/ u \in winners'
  BY <1>1
<1>6. bound'.aborts = 0 => \A u \in Txn : status'[u] \notin RollingBack
  BY <1>1 DEF SoloInv
<1>7. bound'.crashes = 0 => winners' = Committed(log_file')
  BY DEF SoloInv
<1>8. phase' = "running"
  BY DEF TxnStep
<1> QED BY <1>2, <1>3, <1>4, <1>5, <1>6, <1>7, <1>8 DEF SoloInv

-----------------------------------------------------------------------------
(* Steps that change no row: what the table holds.                         *)

LEMMA RowsQuiet ==
  ASSUME IInv, SoloInv, RowsInv, NEW t \in Txn, NEW b, TxnStep(t, b),
         UNCHANGED <<mem, num_pages, hist, write_set>>,
         bound'.crashes = bound.crashes, bound'.aborts = 0 => bound.aborts = 0,
         winners \subseteq winners', winners' \subseteq winners \cup {t},
         b \in Writing => status[t] \in Writing \/ status[t] = "unborn",
         b \in Holding => winners' = winners /\ status[t] \in Holding \cup {"unborn"},
         b \notin Writing \cup {"aborting"} =>
           \/ status[t] \in Writing /\ t \in winners'
           \/ winners' = winners /\ status[t] = "aborting" /\ write_set[t] = <<>>
           \/ winners' = winners /\ status[t] \in {"rolledback", "abortlogged"},
         b = "inserting" => /\ mem[pending'[t].rid] = Empty
                            /\ pending'[t].new_page => FreeRid = {pending'[t].rid}
  PROVE  RowsInv'
<1>1. status'[t] = b /\ \A u \in Txn : u # t => status'[u] = status[u] /\ status[u] \notin Live
  BY TxnStepStatus DEF IInv
<1>2. \A u \in Txn : u # t => status'[u] \notin Writing /\ status'[u] \notin Holding /\ status'[u] # "inserting"
  BY <1>1 DEF Writing, Holding, Live
<1>3. SUFFICES ASSUME phase = "running", bound.aborts = 0 \/ bound.crashes = 0
               PROVE  /\ b \in Writing => \A rid \in Rid : mem[rid] = RowBy(hist, rid, winners' \cup {t})
                      /\ b \in Holding =>
                           \A rid \in Rid : RollsBackTo(write_set[t], mem, rid, RowBy(hist, rid, winners'))
                      /\ b \notin Writing \cup {"aborting"} => \A rid \in Rid : mem[rid] = RowBy(hist, rid, winners')
                      /\ b = "inserting" => /\ mem[pending'[t].rid] = Empty
                                            /\ pending'[t].new_page => FreeRid' = {pending'[t].rid}
  BY <1>1, <1>2 DEF RowsInv, TxnStep
<1>4. winners' \cup {t} = winners \cup {t}
  OBVIOUS
<1>5. FreeRid' = FreeRid
  BY DEF FreeRid
<1>6. ASSUME status[t] = "unborn"
      PROVE  /\ \A rid \in Rid : mem[rid] = RowBy(hist, rid, winners) /\ RowBy(hist, rid, winners \cup {t}) = RowBy(hist, rid, winners)
             /\ write_set[t] = <<>>
  <2>1. \A u \in Txn : status[u] \notin Writing \cup {"aborting"}
    BY <1>1, <1>6 DEF Writing, Live
  <2>2. \A i \in DOMAIN hist : hist[i].txn # t
    BY <1>6 DEF IInv, HistInv
  <2>3. ASSUME NEW rid PROVE RowBy(hist, rid, winners \cup {t}) = RowBy(hist, rid, winners)
    <3>1. ChangesOn(hist, rid, winners \cup {t}) = ChangesOn(hist, rid, winners)
      BY <2>2 DEF ChangesOn
    <3> QED BY <3>1 DEF RowBy
  <2>4. \A rid \in Rid : mem[rid] = RowBy(hist, rid, winners)
    BY <1>3, <2>1 DEF RowsInv
  <2> QED BY <1>6, <2>3, <2>4 DEF IInv, StatusInv
<1>7. b \in Writing => \A rid \in Rid : mem[rid] = RowBy(hist, rid, winners' \cup {t})
  <2>1. status[t] \in Writing => \A rid \in Rid : mem[rid] = RowBy(hist, rid, winners \cup {t})
    BY <1>3 DEF RowsInv
  <2> QED BY <1>4, <1>6, <2>1
<1>8. b \in Holding => \A rid \in Rid : RollsBackTo(write_set[t], mem, rid, RowBy(hist, rid, winners'))
  <2>1. status[t] \in Holding => \A rid \in Rid : RollsBackTo(write_set[t], mem, rid, RowBy(hist, rid, winners))
    BY <1>3 DEF RowsInv
  <2>2. status[t] = "unborn" => \A rid \in Rid : RollsBackTo(write_set[t], mem, rid, RowBy(hist, rid, winners))
    BY <1>6 DEF RollsBackTo
  <2> QED BY <2>1, <2>2
<1>9. b \notin Writing \cup {"aborting"} => \A rid \in Rid : mem[rid] = RowBy(hist, rid, winners')
  <2>1. CASE status[t] \in Writing /\ t \in winners'
    <3>1. winners' = winners \cup {t}
      BY <2>1
    <3> QED BY <1>3, <2>1, <3>1 DEF RowsInv
  <2>2. CASE winners' = winners /\ status[t] = "aborting" /\ write_set[t] = <<>>
    <3>1. \A rid \in Rid : RollsBackTo(write_set[t], mem, rid, RowBy(hist, rid, winners))
      BY <1>3, <2>2 DEF RowsInv, Holding
    <3>2. DOMAIN write_set[t] = {}
      BY <2>2
    <3> QED BY <2>2, <3>1, <3>2 DEF RollsBackTo
  <2>3. CASE winners' = winners /\ status[t] \in {"rolledback", "abortlogged"}
    <3>1. \A u \in Txn : status[u] \notin Writing \cup {"aborting"}
      BY <1>1, <2>3 DEF Writing, Live
    <3> QED BY <1>3, <2>3, <3>1 DEF RowsInv
  <2> QED BY <2>1, <2>2, <2>3
<1> QED BY <1>5, <1>7, <1>8, <1>9

-----------------------------------------------------------------------------
(* Steps that change no row: the log.                                      *)

LEMMA FlushedLog ==
  ASSUME StateOK
  PROVE  /\ Flushed \in Seq(LogRecord) /\ Len(log_file) \in Nat /\ Len(Flushed) \in Nat
         /\ Len(log_file) <= Len(Flushed)
         /\ Data(Flushed) \subseteq 1..Len(Flushed)
         /\ \A i \in 1..Len(log_file) : Flushed[i] = log_file[i]
         /\ \A i \in Data(Flushed) : Flushed[i] \in LogRecord /\ Flushed[i].txn \in Txn /\ Flushed[i].rid \in Rid
<1>1. log_buffer \in Seq(LogRecord) /\ log_file \in Seq(LogRecord)
  BY DEF StateOK
<1>2. PICK p : p = Flushed
  OBVIOUS
<1>3. PICK N \in Nat, M \in Nat : N = Len(log_file) /\ M = Len(log_buffer)
  BY <1>1
<1>4. /\ p \in Seq(LogRecord) /\ Len(p) = N + M /\ DOMAIN p = 1..(N + M)
      /\ \A i \in 1..N : p[i] = log_file[i]
  BY <1>1, <1>2, <1>3 DEF Flushed
<1>5. Data(p) \subseteq DOMAIN p /\ \A i \in DOMAIN p : p[i] \in LogRecord
  BY <1>4 DEF Data
<1>6. \A i \in Data(p) : p[i] \in LogRecord /\ p[i].txn \in Txn /\ p[i].rid \in Rid
  BY <1>5, DataType DEF Data
<1>7. N + M \in Nat /\ N <= N + M
  OBVIOUS
<1> QED BY <1>2, <1>3, <1>4, <1>5, <1>6, <1>7

LEMMA JournalControl ==
  ASSUME StateOK, JournalInv, NEW t \in Txn, NEW b, TxnStep(t, b), NEW r, Adds(r), ~IsData(r),
         UNCHANGED <<mem, hist, disk, pending, bound>>, status[t] # "inserting",
         b \in Live \ {"inserting"}
  PROVE  JournalInv'
<1>1. status'[t] = b /\ \A u \in Txn : u # t => status'[u] = status[u] /\ status[u] \notin Live
  BY TxnStepStatus
<1>2. SUFFICES ASSUME bound.aborts = 0, bound.crashes = 0
               PROVE  /\ LogInv(hist, Flushed', Len(log_file'), winners, disk)
                      /\ RunInv(Flushed', winners, status', pending, mem)
  BY DEF JournalInv, TxnStep, Adds
<1>3. LogInv(hist, Flushed, Len(log_file), winners, disk) /\ RunInv(Flushed, winners, status, pending, mem)
  BY <1>2 DEF JournalInv, TxnStep
<1>4. PICK q, p : q = Flushed /\ p = Flushed' /\ Extends(p, q, r)
  BY DEF Adds
<1>5. LogInv(hist, p, Len(log_file'), winners, disk)
  BY <1>3, <1>4, FlushedLog, LogInvAppend DEF Adds
<1>6. RunInv(p, winners, status', pending, mem)
  <2>1. Data(p) = Data(q) /\ \A i \in Data(p) : p[i] = q[i] /\ p[i].txn \in Txn
    BY <1>4, LogAppend, FlushedLog
  <2>2. \A rid : LastOf(p, On(p, rid)) = LastOf(q, On(q, rid))
    BY <1>4, LogAppend
  <2>3. \A i \in Data(p) : p[i].txn \in winners \/ status'[p[i].txn] \in Live
    BY <1>1, <1>3, <1>4, <2>1 DEF RunInv
  <2>4. \A u \in Txn : status'[u] = "inserting" <=> status[u] = "inserting"
    BY <1>1
  <2> QED BY <1>3, <1>4, <2>2, <2>3, <2>4 DEF RunInv
<1> QED BY <1>4, <1>5, <1>6

(* Nothing is logged.                                                      *)
LEMMA JournalSilent ==
  ASSUME StateOK, JournalInv, NEW t \in Txn, NEW b, TxnStep(t, b), UNCHANGED <<log_buffer, log_file, winners>>,
         UNCHANGED <<mem, hist, pending, bound>>, status[t] # "inserting",
         b \in (Live \ {"inserting"}) \cup {"committed"}, b = "committed" => t \in winners,
         disk' = disk \/ /\ t \in winners
                         /\ \A rid \in Rid : disk'[rid] = mem[rid] \/ disk'[rid] = disk[rid]
  PROVE  JournalInv'
<1>1. status'[t] = b /\ \A u \in Txn : u # t => status'[u] = status[u] /\ status[u] \notin Live
  BY TxnStepStatus
<1>2. Flushed' = Flushed /\ log_file' = log_file /\ winners' = winners
  BY DEF Flushed
<1>3. SUFFICES ASSUME bound.aborts = 0, bound.crashes = 0
               PROVE  /\ LogInv(hist, Flushed, Len(log_file), winners, disk')
                      /\ RunInv(Flushed, winners, status', pending, mem)
  BY <1>2 DEF JournalInv, TxnStep
<1>4. LogInv(hist, Flushed, Len(log_file), winners, disk) /\ RunInv(Flushed, winners, status, pending, mem)
  BY <1>3 DEF JournalInv, TxnStep
<1>5. \A i \in Data(Flushed) : Flushed[i].txn \in Txn /\ i \in Nat
  BY FlushedLog
<1>6. \A u \in Txn : status'[u] # "inserting" /\ status[u] # "inserting"
  BY <1>1 DEF Live
<1>7. RunInv(Flushed, winners, status', pending, mem)
  <2>1. \A i \in Data(Flushed) : Flushed[i].txn \in winners \/ status'[Flushed[i].txn] \in Live
    BY <1>1, <1>4, <1>5 DEF RunInv
  <2> QED BY <1>4, <1>6, <2>1 DEF RunInv
<1>8. LogInv(hist, Flushed, Len(log_file), winners, disk')
  <2>1. CASE disk' = disk
    BY <1>4, <2>1
  <2>2. CASE disk' # disk
    <3>1. ASSUME NEW rid \in Rid, mem[rid] # Empty PROVE \E i \in On(Flushed, rid) : i <= Len(log_file)
      <4>1. mem[rid] = LastOf(Flushed, On(Flushed, rid))
        BY <1>4, <1>6 DEF RunInv
      <4>2. PICK i : i \in On(Flushed, rid)
        BY <3>1, <4>1, LastNone
      <4>3. i \in Data(Flushed) /\ Flushed[i].txn \in winners
        <5>1. i \in Data(Flushed)
          BY <4>2 DEF On
        <5> QED BY <1>1, <1>4, <1>5, <2>2, <5>1 DEF RunInv
      <4>4. i <= Len(log_file)
        BY <1>4, <4>3 DEF LogInv
      <4> QED BY <4>2, <4>4
    <3>2. \A rid \in Rid : disk'[rid] # Empty => disk[rid] # Empty \/ \E i \in On(Flushed, rid) : i <= Len(log_file)
      BY <2>2, <3>1
    <3> QED BY <1>4, <3>2, LogInvPages
  <2> QED BY <2>1, <2>2
<1> QED BY <1>7, <1>8

(* After a request to abort nothing is said about the log.                 *)
LEMMA JournalVoid == ASSUME bound'.aborts # 0 PROVE JournalInv'
BY DEF JournalInv

(* The log with a commit in it is flushed.                                 *)
LEMMA JournalFlush ==
  ASSUME StateOK, RowsInv, JournalInv, NEW t \in Txn, TxnStep(t, "flushed"), status[t] = "logged",
         Flushed' = Flushed, log_file' = Flushed, winners' = winners \cup {t},
         UNCHANGED <<mem, hist, disk, pending, bound>>
  PROVE  JournalInv'
<1>1. status'[t] = "flushed" /\ \A u \in Txn : u # t => status'[u] = status[u] /\ status[u] \notin Live
  BY TxnStepStatus
<1>2. PICK v : v = winners \cup {t}
  OBVIOUS
<1>3. SUFFICES ASSUME bound.aborts = 0, bound.crashes = 0
               PROVE  /\ LogInv(hist, Flushed, Len(Flushed), v, disk)
                      /\ RunInv(Flushed, v, status', pending, mem)
  BY <1>2 DEF JournalInv, TxnStep
<1>4. LogInv(hist, Flushed, Len(log_file), winners, disk) /\ RunInv(Flushed, winners, status, pending, mem)
  BY <1>3 DEF JournalInv, TxnStep
<1>5. \A i \in Data(Flushed) : Flushed[i].txn \in Txn
  BY FlushedLog
<1>6. \A u \in Txn : status'[u] # "inserting" /\ status[u] # "inserting"
  BY <1>1 DEF Live
<1>7. \A i \in Data(Flushed) : Flushed[i].txn \in v
  BY <1>1, <1>2, <1>4, <1>5 DEF RunInv
<1>8. RunInv(Flushed, v, status', pending, mem)
  BY <1>4, <1>6, <1>7 DEF RunInv
<1>9. \A rid \in Rid : RowBy(hist, rid, v) = LastOf(Flushed, On(Flushed, rid))
  <2>1. \A rid \in Rid : mem[rid] = LastOf(Flushed, On(Flushed, rid))
    BY <1>4, <1>6 DEF RunInv
  <2>2. \A rid \in Rid : mem[rid] = RowBy(hist, rid, v)
    BY <1>2, <1>3 DEF RowsInv, TxnStep, Writing
  <2> QED BY <2>1, <2>2
<1>10. LogInv(hist, Flushed, Len(Flushed), v, disk)
  BY <1>2, <1>4, <1>7, <1>9, FlushedLog, LogInvFlush
<1> QED BY <1>8, <1>10

-----------------------------------------------------------------------------
(* The actions that change no row.                                         *)

LEMMA SameLocks == ASSUME NEW t \in Txn, UNCHANGED locks PROVE OwnLocks(t)
BY DEF OwnLocks, locks

LEMMA ReleasedAll ==
  ASSUME StateOK, NEW t \in Txn, ReleaseLocks(t)
  PROVE  OwnLocks(t) /\ tlock'[t] = "none" /\ \A r \in Rid : owner'[r] # t /\ t \notin readers'[r]
<1>1. NoTxn \notin Txn
  BY RecoveryConstants
<1> QED BY <1>1 DEF StateOK, ReleaseLocks, OwnLocks

LEMMA ControlCommits ==
  ASSUME NEW type, NEW t, NEW u, ControlRecord(type, t) = ControlRecord("commit", u)
  PROVE  type = "commit" /\ u = t
BY DEF ControlRecord

LEMMA ControlNotData ==
  ASSUME NEW type \in {"begin", "commit", "ABORT"}, NEW t
  PROVE  ~IsData(ControlRecord(type, t))
BY DEF ControlRecord, IsData

LEMMA BeginSerial == ASSUME StaysSerial, IInv, SInv, NEW t \in Txn, begin(t) PROVE SInv'
<1>1. StateOK /\ SoloInv /\ RowsInv /\ JournalInv
  BY DEF IInv, SInv
<1>2. Alone(t) /\ status[t] = "unborn" /\ phase = "running"
  BY <1>1, BeginAlone DEF begin
<1>3. TxnStep(t, "active")
  BY <1>2 DEF TxnStep, begin, Goto
<1>4. PICK r \in LogRecord : r = ControlRecord("begin", t)
  BY ControlType
<1>5. Adds(r)
  BY <1>1, <1>2, <1>4, NotLogged, Adding DEF begin
<1>6. UNCHANGED <<mem, num_pages, disk, write_set, pending, bound, hist>> /\ OwnLocks(t)
  BY SameLocks DEF begin, table, file
<1>7. SoloInv'
  <2>1. t \notin winners
    BY <1>1, <1>2 DEF SoloInv, Ended
  <2>2. \A u \in Committed(log_buffer') : u \in winners'
    BY <1>4, <1>5, ControlCommits DEF Adds
  <2> QED BY <1>1, <1>3, <1>5, <1>6, <2>1, <2>2, SoloStep DEF Adds, Holding, RollingBack
<1>8. RowsInv'
  BY <1>1, <1>2, <1>3, <1>5, <1>6, RowsQuiet DEF Adds, Writing, Holding
<1>9. JournalInv'
  BY <1>1, <1>2, <1>3, <1>4, <1>5, <1>6, JournalControl, ControlNotData DEF Live
<1> QED BY <1>7, <1>8, <1>9 DEF SInv

LEMMA CommitReleaseSerial == ASSUME IInv, SInv, NEW t \in Txn, CommitReleaseLocks(t) PROVE SInv'
<1>1. StateOK /\ SoloInv /\ RowsInv /\ JournalInv
  BY DEF IInv, SInv
<1>2. Alone(t) /\ status[t] = "active" /\ phase = "running"
  BY <1>1, LiveAlone DEF CommitReleaseLocks, Live
<1>3. TxnStep(t, "unlocked")
  BY <1>2 DEF TxnStep, CommitReleaseLocks, Goto
<1>4. UNCHANGED <<mem, num_pages, disk, write_set, pending, bound, hist, log_buffer, log_file, winners>>
  BY DEF CommitReleaseLocks, table, file, log
<1>5. SoloInv'
  <2>1. t \notin winners
    BY <1>1, <1>2 DEF SoloInv, Ended
  <2>2. Committed(log_buffer) \subseteq winners
    BY <1>1, <1>2, NotLogged
  <2> QED BY <1>1, <1>3, <1>4, <2>1, <2>2, SoloStep, ReleasedAll DEF CommitReleaseLocks, RollingBack
<1>6. RowsInv'
  BY <1>1, <1>2, <1>3, <1>4, RowsQuiet DEF Writing, Holding
<1>7. JournalInv'
  BY <1>1, <1>2, <1>3, <1>4, JournalSilent DEF Live
<1> QED BY <1>5, <1>6, <1>7 DEF SInv

LEMMA CommitLogSerial == ASSUME IInv, SInv, NEW t \in Txn, CommitLog(t) PROVE SInv'
<1>1. StateOK /\ SoloInv /\ RowsInv /\ JournalInv
  BY DEF IInv, SInv
<1>2. Alone(t) /\ status[t] = "unlocked" /\ phase = "running"
  BY <1>1, LiveAlone DEF CommitLog, Live
<1>3. TxnStep(t, "logged")
  BY <1>2 DEF TxnStep, CommitLog, Goto
<1>4. PICK r \in LogRecord : r = ControlRecord("commit", t)
  BY ControlType
<1>5. Adds(r)
  BY <1>1, <1>2, <1>4, NotLogged, Adding DEF CommitLog
<1>6. UNCHANGED <<mem, num_pages, disk, write_set, pending, bound, hist, tlock, owner, readers>> /\ OwnLocks(t)
  BY SameLocks DEF CommitLog, table, file, locks
<1>7. SoloInv'
  <2>1. \A u \in Committed(log_buffer') : u \in winners' \/ u = t
    BY <1>4, <1>5, ControlCommits DEF Adds
  <2>2. tlock[t] = "none" /\ \A x \in Rid : owner[x] # t /\ t \notin readers[x]
    BY <1>1, <1>2 DEF SoloInv, Holding
  <2> QED BY <1>1, <1>3, <1>5, <1>6, <2>1, <2>2, SoloStep DEF Adds, Ended, RollingBack
<1>8. RowsInv'
  BY <1>1, <1>2, <1>3, <1>5, <1>6, RowsQuiet DEF Adds, Writing, Holding
<1>9. JournalInv'
  BY <1>1, <1>2, <1>3, <1>4, <1>5, <1>6, JournalControl, ControlNotData DEF Live
<1> QED BY <1>7, <1>8, <1>9 DEF SInv

LEMMA CommitFlushLogSerial == ASSUME IInv, SInv, NEW t \in Txn, CommitFlushLog(t) PROVE SInv'
<1>1. StateOK /\ SoloInv /\ RowsInv /\ JournalInv
  BY DEF IInv, SInv
<1>2. Alone(t) /\ status[t] = "logged" /\ phase = "running"
  BY <1>1, LiveAlone DEF CommitFlushLog, Live
<1>3. TxnStep(t, "flushed")
  BY <1>2 DEF TxnStep, CommitFlushLog, Goto
<1>4. /\ Flushed' = Flushed /\ log_file' = Flushed /\ Committed(log_buffer') = {}
      /\ winners' = winners \cup Committed(log_buffer)
      /\ winners = Committed(log_file) => winners' = Committed(log_file')
  BY <1>1, Flushing DEF CommitFlushLog
<1>5. winners' = winners \cup {t}
  <2>1. t \in winners \cup Committed(log_buffer)
    BY <1>2 DEF IInv, CommitInv
  <2>2. \A u \in Committed(log_buffer) : u \in Txn /\ (status[u] = "logged" \/ u \in winners)
    BY <1>1 DEF SoloInv, Committed
  <2>3. \A u \in Txn : status[u] = "logged" => u = t
    BY <1>2 DEF Alone, Live
  <2> QED BY <1>4, <2>1, <2>2, <2>3
<1>6. UNCHANGED <<mem, num_pages, disk, write_set, pending, bound, hist, tlock, owner, readers>> /\ OwnLocks(t)
  BY SameLocks DEF CommitFlushLog, table, file, locks
<1>7. SoloInv'
  <2>1. tlock[t] = "none" /\ \A x \in Rid : owner[x] # t /\ t \notin readers[x]
    BY <1>1, <1>2 DEF SoloInv, Holding
  <2> QED BY <1>1, <1>3, <1>4, <1>5, <1>6, <2>1, SoloStep DEF Ended, RollingBack
<1>8. RowsInv'
  BY <1>1, <1>2, <1>3, <1>5, <1>6, RowsQuiet DEF Writing, Holding
<1>9. JournalInv'
  BY <1>1, <1>2, <1>3, <1>4, <1>5, <1>6, JournalFlush
<1> QED BY <1>7, <1>8, <1>9 DEF SInv

LEMMA CommitFlushPagesSerial == ASSUME IInv, SInv, NEW t \in Txn, CommitFlushPages(t) PROVE SInv'
<1>1. StateOK /\ SoloInv /\ RowsInv /\ JournalInv
  BY DEF IInv, SInv
<1>2. Alone(t) /\ status[t] = "flushed" /\ phase = "running" /\ t \in winners
  BY <1>1, LiveAlone DEF CommitFlushPages, Live, IInv, CommitInv
<1>3. TxnStep(t, "paged")
  BY <1>2 DEF TxnStep, CommitFlushPages, Goto
<1>4. UNCHANGED <<mem, num_pages, write_set, pending, bound, hist, log_buffer, log_file, winners, tlock, owner, readers>>
  BY DEF CommitFlushPages, table, log, locks
<1>5. SoloInv'
  <2>1. tlock[t] = "none" /\ \A x \in Rid : owner[x] # t /\ t \notin readers[x]
    BY <1>1, <1>2 DEF SoloInv, Holding
  <2>2. Committed(log_buffer) \subseteq winners
    BY <1>1, <1>2, NotLogged
  <2>3. OwnLocks(t)
    BY <1>4 DEF OwnLocks
  <2> QED BY <1>1, <1>3, <1>4, <2>1, <2>2, <2>3, SoloStep DEF Ended, RollingBack
<1>6. RowsInv'
  BY <1>1, <1>2, <1>3, <1>4, RowsQuiet DEF Writing, Holding
<1>7. JournalInv'
  <2>1. \A rid \in Rid : disk'[rid] = mem[rid] \/ disk'[rid] = disk[rid]
    BY DEF CommitFlushPages, flush_all_pages
  <2> QED BY <1>1, <1>2, <1>3, <1>4, <2>1, JournalSilent DEF Live
<1> QED BY <1>5, <1>6, <1>7 DEF SInv

LEMMA CommitWriteHeaderSerial == ASSUME IInv, SInv, NEW t \in Txn, CommitWriteHeader(t) PROVE SInv'
<1>1. StateOK /\ SoloInv /\ RowsInv /\ JournalInv
  BY DEF IInv, SInv
<1>2. Alone(t) /\ status[t] = "paged" /\ phase = "running" /\ t \in winners
  BY <1>1, LiveAlone DEF CommitWriteHeader, Live, IInv, CommitInv
<1>3. TxnStep(t, "committed")
  BY <1>2 DEF TxnStep, CommitWriteHeader, Goto
<1>4. UNCHANGED <<mem, num_pages, disk, write_set, pending, bound, hist, log_buffer, log_file, winners, tlock, owner, readers>>
  BY DEF CommitWriteHeader, table, log, locks
<1>5. SoloInv'
  <2>1. tlock[t] = "none" /\ \A x \in Rid : owner[x] # t /\ t \notin readers[x]
    BY <1>1, <1>2 DEF SoloInv, Holding
  <2>2. Committed(log_buffer) \subseteq winners
    BY <1>1, <1>2, NotLogged
  <2>3. OwnLocks(t)
    BY <1>4 DEF OwnLocks
  <2> QED BY <1>1, <1>3, <1>4, <2>1, <2>2, <2>3, SoloStep DEF Ended, RollingBack
<1>6. RowsInv'
  BY <1>1, <1>2, <1>3, <1>4, RowsQuiet DEF Writing, Holding
<1>7. JournalInv'
  BY <1>1, <1>2, <1>3, <1>4, JournalSilent DEF Live
<1> QED BY <1>5, <1>6, <1>7 DEF SInv

(* No lock of the one session is refused.                                  *)
LEMMA SoloLocks ==
  ASSUME StateOK, SoloInv, NEW t \in Txn, Alone(t)
  PROVE  /\ CanLockIX(t) /\ \A seen \in SUBSET Rid : CanScan(t, seen)
         /\ \A rid \in Rid : CanLockX(t, rid)
<1>1. \A u \in Txn : u # t => tlock[u] = "none" /\ \A r \in Rid : owner[r] # u /\ u \notin readers[r]
  BY DEF SoloInv, Alone, Holding, Live
<1>2. \A r \in Rid : owner[r] \in {NoTxn, t} /\ readers[r] \subseteq {t}
  BY <1>1 DEF StateOK
<1>3. Others(t) \subseteq {"none"}
  BY <1>1 DEF Others
<1> QED BY <1>2, <1>3 DEF CanLockIX, CanScan, CanLockX

LEMMA RefusedSerial == ASSUME IInv, SInv, NEW t \in Txn, Refused(t) PROVE SInv'
<1>1. StateOK /\ SoloInv
  BY DEF IInv, SInv
<1>2. Alone(t)
  BY <1>1, LiveAlone DEF Refused, Live
<1>3. Visible \in SUBSET Rid
  BY DEF Visible
<1>4. FALSE
  BY <1>1, <1>2, <1>3, SoloLocks DEF Refused
<1> QED BY <1>4

LEMMA AbortRequestedSerial == ASSUME IInv, SInv, NEW t \in Txn, AbortRequested(t) PROVE SInv'
<1>1. StateOK /\ SoloInv /\ RowsInv /\ JournalInv
  BY DEF IInv, SInv
<1>2. Alone(t) /\ status[t] = "active" /\ phase = "running"
  BY <1>1, LiveAlone DEF AbortRequested, Live
<1>3. TxnStep(t, "aborting")
  BY <1>2 DEF TxnStep, AbortRequested, Goto
<1>4. UNCHANGED <<mem, num_pages, disk, write_set, pending, hist, log_buffer, log_file, winners, tlock, owner, readers>>
  BY DEF AbortRequested, table, file, log, locks
<1>5. bound'.aborts # 0 /\ bound'.crashes = bound.crashes
  <2>1. bound.aborts \in Nat /\ bound \in Bounds
    BY <1>1, RecoveryConstants DEF StateOK, Bounds
  <2> QED BY <2>1 DEF AbortRequested, Bounds
<1>6. SoloInv'
  <2>1. t \notin winners
    BY <1>1, <1>2 DEF SoloInv, Ended
  <2>2. Committed(log_buffer) \subseteq winners
    BY <1>1, <1>2, NotLogged
  <2>3. OwnLocks(t)
    BY <1>4 DEF OwnLocks
  <2> QED BY <1>1, <1>3, <1>4, <1>5, <2>1, <2>2, <2>3, SoloStep DEF Holding
<1>7. RowsInv'
  BY <1>1, <1>2, <1>3, <1>4, <1>5, RowsQuiet DEF Writing, Holding
<1>8. JournalInv'
  BY <1>5, JournalVoid
<1> QED BY <1>6, <1>7, <1>8 DEF SInv

LEMMA AbortReleaseSerial == ASSUME IInv, SInv, NEW t \in Txn, AbortReleaseLocks(t) PROVE SInv'
<1>1. StateOK /\ SoloInv /\ RowsInv
  BY DEF IInv, SInv
<1>2. Alone(t) /\ status[t] = "aborting" /\ phase = "running" /\ bound.aborts # 0 /\ write_set[t] = <<>>
  BY <1>1, LiveAlone DEF AbortReleaseLocks, Live, SoloInv, RollingBack
<1>3. TxnStep(t, "rolledback")
  BY <1>2 DEF TxnStep, AbortReleaseLocks, Goto
<1>4. UNCHANGED <<mem, num_pages, disk, write_set, pending, bound, hist, log_buffer, log_file, winners>>
  BY DEF AbortReleaseLocks, table, file, log
<1>5. SoloInv'
  <2>1. t \notin winners
    BY <1>1, <1>2 DEF SoloInv, Ended
  <2>2. Committed(log_buffer) \subseteq winners
    BY <1>1, <1>2, NotLogged
  <2> QED BY <1>1, <1>2, <1>3, <1>4, <2>1, <2>2, SoloStep, ReleasedAll DEF AbortReleaseLocks
<1>6. RowsInv'
  BY <1>1, <1>2, <1>3, <1>4, RowsQuiet DEF Writing, Holding
<1>7. JournalInv'
  BY <1>2, <1>4, JournalVoid
<1> QED BY <1>5, <1>6, <1>7 DEF SInv

LEMMA AbortLogSerial == ASSUME IInv, SInv, NEW t \in Txn, AbortLog(t) PROVE SInv'
<1>1. StateOK /\ SoloInv /\ RowsInv
  BY DEF IInv, SInv
<1>2. Alone(t) /\ status[t] = "rolledback" /\ phase = "running" /\ bound.aborts # 0
  BY <1>1, LiveAlone DEF AbortLog, Live, SoloInv, RollingBack
<1>3. TxnStep(t, "abortlogged")
  BY <1>2 DEF TxnStep, AbortLog, Goto
<1>4. PICK r \in LogRecord : r = ControlRecord("ABORT", t)
  BY ControlType
<1>5. Adds(r)
  BY <1>1, <1>2, <1>4, NotLogged, Adding DEF AbortLog
<1>6. UNCHANGED <<mem, num_pages, disk, write_set, pending, bound, hist, tlock, owner, readers>> /\ OwnLocks(t)
  BY SameLocks DEF AbortLog, table, file, locks
<1>7. SoloInv'
  <2>1. t \notin winners
    BY <1>1, <1>2 DEF SoloInv, Ended
  <2>2. \A u \in Committed(log_buffer') : u \in winners'
    BY <1>4, <1>5, ControlCommits DEF Adds
  <2>3. tlock[t] = "none" /\ \A x \in Rid : owner[x] # t /\ t \notin readers[x]
    BY <1>1, <1>2 DEF SoloInv, Holding
  <2> QED BY <1>1, <1>2, <1>3, <1>5, <1>6, <2>1, <2>2, <2>3, SoloStep DEF Adds
<1>8. RowsInv'
  BY <1>1, <1>2, <1>3, <1>5, <1>6, RowsQuiet DEF Adds, Writing, Holding
<1>9. JournalInv'
  BY <1>2, <1>6, JournalVoid
<1> QED BY <1>7, <1>8, <1>9 DEF SInv

LEMMA AbortFlushLogSerial == ASSUME IInv, SInv, NEW t \in Txn, AbortFlushLog(t) PROVE SInv'
<1>1. StateOK /\ SoloInv /\ RowsInv
  BY DEF IInv, SInv
<1>2. Alone(t) /\ status[t] = "abortlogged" /\ phase = "running" /\ bound.aborts # 0
  BY <1>1, LiveAlone DEF AbortFlushLog, Live, SoloInv, RollingBack
<1>3. TxnStep(t, "aborted")
  BY <1>2 DEF TxnStep, AbortFlushLog, Goto
<1>4. /\ Committed(log_buffer') = {} /\ winners' = winners \cup Committed(log_buffer)
      /\ winners = Committed(log_file) => winners' = Committed(log_file')
  BY <1>1, Flushing DEF AbortFlushLog
<1>5. winners' = winners
  BY <1>1, <1>2, <1>4, NotLogged
<1>6. UNCHANGED <<mem, num_pages, disk, write_set, pending, bound, hist, tlock, owner, readers>> /\ OwnLocks(t)
  BY SameLocks DEF AbortFlushLog, table, file, locks
<1>7. SoloInv'
  <2>1. t \notin winners
    BY <1>1, <1>2 DEF SoloInv, Ended
  <2>2. tlock[t] = "none" /\ \A x \in Rid : owner[x] # t /\ t \notin readers[x]
    BY <1>1, <1>2 DEF SoloInv, Holding
  <2> QED BY <1>1, <1>2, <1>3, <1>4, <1>5, <1>6, <2>1, <2>2, SoloStep
<1>8. RowsInv'
  BY <1>1, <1>2, <1>3, <1>5, <1>6, RowsQuiet DEF Writing, Holding
<1>9. JournalInv'
  BY <1>2, <1>6, JournalVoid
<1> QED BY <1>7, <1>8, <1>9 DEF SInv

-----------------------------------------------------------------------------
(* Undoing a change.                                                       *)

LEMMA RollsBackFront ==
  ASSUME NEW m \in Nat, NEW ws, DOMAIN ws = 1..(m + 1), NEW fr, DOMAIN fr = 1..m, \A i \in 1..m : fr[i] = ws[i],
         NEW rows \in [Rid -> Row], NEW rid \in Rid, NEW v, RollsBackTo(ws, rows, rid, v),
         NEW last, last = ws[m + 1], NEW rows2, \A x \in Rid : rows2[x] = IF x = last.rid THEN last.old ELSE rows[x]
  PROVE  RollsBackTo(fr, rows2, rid, v)
<1>1. CASE rows[rid] = v /\ \A i \in DOMAIN ws : ws[i].rid # rid
  <2>1. m + 1 \in DOMAIN ws /\ \A i \in 1..m : i \in DOMAIN ws
    OBVIOUS
  <2>2. last.rid # rid
    BY <1>1, <2>1
  <2> QED BY <1>1, <2>1, <2>2 DEF RollsBackTo
<1>2. ASSUME NEW i \in DOMAIN ws, ws[i].rid = rid, ws[i].old = v, \A j \in DOMAIN ws : j < i => ws[j].rid # rid
      PROVE  RollsBackTo(fr, rows2, rid, v)
  <2>1. CASE i = m + 1
    <3>1. \A j \in 1..m : j \in DOMAIN ws /\ j < i
      BY <2>1
    <3>2. \A j \in DOMAIN fr : fr[j].rid # rid
      BY <1>2, <3>1
    <3>3. rows2[rid] = v
      BY <1>2, <2>1
    <3> QED BY <3>2, <3>3 DEF RollsBackTo
  <2>2. CASE i # m + 1
    <3>1. i \in DOMAIN fr /\ fr[i] = ws[i] /\ \A j \in DOMAIN fr : j \in DOMAIN ws /\ fr[j] = ws[j]
      BY <2>2
    <3> QED BY <1>2, <3>1 DEF RollsBackTo
  <2> QED BY <2>1, <2>2
<1> QED BY <1>1, <1>2 DEF RollsBackTo

LEMMA AbortUndoSerial == ASSUME IInv, SInv, NEW t \in Txn, AbortUndo(t) PROVE SInv'
<1>1. StateOK /\ SoloInv /\ RowsInv
  BY DEF IInv, SInv
<1>2. Alone(t) /\ status[t] = "aborting" /\ phase = "running" /\ bound.aborts # 0 /\ write_set[t] # <<>>
  BY <1>1, LiveAlone DEF AbortUndo, Live, SoloInv, RollingBack
<1>3. UNCHANGED <<num_pages, disk, status, pending, bound, hist, phase, log_buffer, log_file, winners, tlock, owner, readers>>
  BY DEF AbortUndo, file, log, locks
<1>4. TxnStep(t, "aborting")
  <2>1. [status EXCEPT ![t] = "aborting"] = status
    BY <1>1, <1>2 DEF StateOK
  <2> QED BY <1>2, <1>3, <2>1 DEF TxnStep
<1>5. SoloInv'
  <2>1. t \notin winners
    BY <1>1, <1>2 DEF SoloInv, Ended
  <2>2. Committed(log_buffer) \subseteq winners
    BY <1>1, <1>2, NotLogged
  <2>3. OwnLocks(t)
    BY <1>3 DEF OwnLocks
  <2> QED BY <1>1, <1>2, <1>3, <1>4, <2>1, <2>2, <2>3, SoloStep DEF Holding
<1>6. RowsInv'
  <2>1. PICK ws \in Seq(WriteRecord) : ws = write_set[t]
    BY <1>1 DEF StateOK
  <2>2. PICK m \in Nat : Len(ws) = m + 1 /\ DOMAIN ws = 1..(m + 1)
    <3>1. Len(ws) \in Nat /\ DOMAIN ws = 1..Len(ws) /\ Len(ws) # 0
      BY <1>2, <2>1
    <3>2. Len(ws) - 1 \in Nat /\ Len(ws) = (Len(ws) - 1) + 1
      BY <3>1
    <3> QED BY <3>1, <3>2
  <2>3. PICK fr : fr = SubSeq(ws, 1, m)
    OBVIOUS
  <2>4. DOMAIN fr = 1..m /\ \A i \in 1..m : fr[i] = ws[i]
    BY <2>2, <2>3
  <2>5. PICK last \in WriteRecord : last = ws[m + 1]
    BY <2>2
  <2>6. last.rid \in Rid /\ last.old \in Row
    BY DEF WriteRecord
  <2>7. write_set'[t] = fr
    <3>1. Front(ws) = fr
      BY <2>2, <2>3 DEF Front
    <3> QED BY <1>1, <2>1, <3>1 DEF AbortUndo, StateOK
  <2>8. mem' = [mem EXCEPT ![last.rid] = last.old]
    BY <2>1, <2>2, <2>5 DEF AbortUndo, Last
  <2>9. mem \in [Rid -> Row] /\ \A x \in Rid : mem'[x] = IF x = last.rid THEN last.old ELSE mem[x]
    BY <1>1, <2>6, <2>8 DEF StateOK
  <2>10. \A u \in Txn : u # t => status[u] \notin Writing /\ status[u] \notin Holding /\ status[u] # "inserting"
    BY <1>2 DEF Alone, Writing, Holding, Live
  <2>11. SUFFICES ASSUME bound.aborts = 0 \/ bound.crashes = 0, NEW rid \in Rid
                  PROVE  RollsBackTo(fr, mem', rid, RowBy(hist, rid, winners))
    BY <1>2, <1>3, <2>7, <2>10 DEF RowsInv, Writing, Holding
  <2>12. RollsBackTo(ws, mem, rid, RowBy(hist, rid, winners))
    BY <1>1, <1>2, <2>1, <2>11 DEF RowsInv, Holding
  <2> QED BY <2>2, <2>4, <2>5, <2>9, <2>12, RollsBackFront
<1>7. JournalInv'
  BY <1>2, <1>3, JournalVoid
<1> QED BY <1>5, <1>6, <1>7 DEF SInv

-----------------------------------------------------------------------------
(* Statements.                                                             *)

LEMMA RollsBackAppend ==
  ASSUME NEW m \in Nat, NEW ws, DOMAIN ws = 1..m, NEW ext, DOMAIN ext = 1..(m + 1),
         \A i \in 1..m : ext[i] = ws[i],
         NEW rows, NEW rid, NEW v, RollsBackTo(ws, rows, rid, v), NEW at,
         ext[m + 1].rid = at, ext[m + 1].old = rows[at], NEW rows2, rid # at => rows2[rid] = rows[rid]
  PROVE  RollsBackTo(ext, rows2, rid, v)
<1>0. m + 1 \in 1..(m + 1) /\ (\A i \in 1..m : i \in 1..(m + 1) /\ i < m + 1) /\ \A i \in 1..(m + 1) : i \in 1..m \/ i = m + 1
  OBVIOUS
<1>1. CASE rows[rid] = v /\ \A i \in DOMAIN ws : ws[i].rid # rid
  <2>1. CASE rid = at
    <3>1. \A j \in DOMAIN ext : j < m + 1 => ext[j].rid # rid
      BY <1>0, <1>1
    <3> QED BY <1>0, <1>1, <2>1, <3>1 DEF RollsBackTo
  <2>2. CASE rid # at
    <3>1. \A j \in DOMAIN ext : ext[j].rid # rid
      BY <1>0, <1>1, <2>2
    <3> QED BY <1>1, <2>2, <3>1 DEF RollsBackTo
  <2> QED BY <2>1, <2>2
<1>2. ASSUME NEW i \in DOMAIN ws, ws[i].rid = rid, ws[i].old = v, \A j \in DOMAIN ws : j < i => ws[j].rid # rid
      PROVE  RollsBackTo(ext, rows2, rid, v)
  <2>1. i \in DOMAIN ext /\ ext[i] = ws[i] /\ \A j \in DOMAIN ext : j < i => j \in DOMAIN ws /\ ext[j] = ws[j]
    BY <1>0
  <2> QED BY <1>2, <2>1 DEF RollsBackTo
<1> QED BY <1>1, <1>2 DEF RollsBackTo

LEMMA RowsChange ==
  ASSUME IInv, SoloInv, RowsInv, NEW t \in Txn, TxnStep(t, "active"), status[t] \in {"active", "inserting"},
         NEW at \in Rid, NEW v \in Row, NEW old, old = mem[at],
         NEW by \in {"INSERT", "DELETE", "UPDATE"}, mem' = [mem EXCEPT ![at] = v], Changes(t, at, v), Remember(t, by, at, old),
         winners' = winners, bound' = bound
  PROVE  RowsInv'
<1>1. /\ StateOK /\ mem \in [Rid -> Row] /\ hist \in Seq(Change) /\ write_set \in [Txn -> Seq(WriteRecord)]
      /\ phase = "running"
  BY DEF IInv, StateOK, TxnStep
<1>2. status'[t] = "active" /\ \A u \in Txn : u # t => status'[u] = status[u] /\ status[u] \notin Live
  BY <1>1, TxnStepStatus
<1>3. \A u \in Txn : u # t => status'[u] \notin Writing /\ status'[u] \notin Holding /\ status'[u] # "inserting"
  BY <1>2 DEF Writing, Holding, Live
<1>4. t \notin winners
  BY DEF SoloInv, Ended
<1>5. PICK c \in Change : c = [txn |-> t, rid |-> at, new |-> v] /\ c.txn = t /\ c.rid = at /\ c.new = v
  <2>1. [txn |-> t, rid |-> at, new |-> v] \in Change
    BY DEF Change
  <2> QED BY <2>1
<1>6. PICK h : h = hist' /\ h = Append(hist, c)
  BY <1>5 DEF Changes
<1>7. /\ \A rid : RowBy(h, rid, winners) = RowBy(hist, rid, winners)
      /\ \A rid : RowBy(h, rid, winners \cup {t}) = IF rid = at THEN v ELSE RowBy(hist, rid, winners \cup {t})
  <2>1. \A rid, W : RowBy(Append(hist, c), rid, W) = IF c.rid = rid /\ c.txn \in W THEN c.new ELSE RowBy(hist, rid, W)
    BY <1>1, RowByAppend
  <2>2. \A rid, W : RowBy(h, rid, W) = IF rid = at /\ t \in W THEN v ELSE RowBy(hist, rid, W)
    BY <1>5, <1>6, <2>1
  <2>3. PICK W : W = winners \cup {t} /\ t \in W
    OBVIOUS
  <2> QED BY <1>4, <2>2, <2>3
<1>8. \A rid \in Rid : mem'[rid] = IF rid = at THEN v ELSE mem[rid]
  BY <1>1
<1>9. SUFFICES ASSUME bound.aborts = 0 \/ bound.crashes = 0, NEW rid \in Rid
               PROVE  /\ mem'[rid] = RowBy(h, rid, winners \cup {t})
                      /\ RollsBackTo(write_set'[t], mem', rid, RowBy(h, rid, winners))
  BY <1>2, <1>3, <1>6 DEF RowsInv, Writing, Holding
<1>10. mem[rid] = RowBy(hist, rid, winners \cup {t}) /\ RollsBackTo(write_set[t], mem, rid, RowBy(hist, rid, winners))
  BY <1>1, <1>9 DEF RowsInv, Writing, Holding
<1>11. RollsBackTo(write_set'[t], mem', rid, RowBy(hist, rid, winners))
  <2>1. PICK e \in WriteRecord : e = [by |-> by, rid |-> at, old |-> old] /\ e.rid = at /\ e.old = old
    <3>1. [by |-> by, rid |-> at, old |-> old] \in WriteRecord
      BY <1>1 DEF WriteRecord
    <3> QED BY <3>1
  <2>2. PICK ws \in Seq(WriteRecord) : ws = write_set[t]
    BY <1>1
  <2>3. PICK m \in Nat : m = Len(ws) /\ DOMAIN ws = 1..m
    OBVIOUS
  <2>4. PICK ext : ext = Append(ws, e)
    OBVIOUS
  <2>5. DOMAIN ext = 1..(m + 1) /\ ext[m + 1] = e /\ \A i \in 1..m : ext[i] = ws[i]
    BY <2>3, <2>4
  <2>6. write_set'[t] = ext
    BY <1>1, <2>1, <2>2, <2>4 DEF Remember
  <2>7. RollsBackTo(ws, mem, rid, RowBy(hist, rid, winners))
    BY <1>10, <2>2
  <2>8. RollsBackTo(ext, mem', rid, RowBy(hist, rid, winners))
    <3>2. PICK rows, rows2, x : rows = mem /\ rows2 = mem' /\ x = RowBy(hist, rid, winners)
      OBVIOUS
    <3>1. ext[m + 1].rid = at /\ ext[m + 1].old = rows[at] /\ (rid # at => rows2[rid] = rows[rid])
      BY <1>8, <2>1, <2>5, <3>2
    <3>4. DOMAIN ws = 1..m /\ DOMAIN ext = 1..(m + 1) /\ (\A i \in 1..m : ext[i] = ws[i]) /\ RollsBackTo(ws, rows, rid, x)
      BY <2>3, <2>5, <2>7, <3>2
    <3>3. RollsBackTo(ext, rows2, rid, x)
      BY <3>1, <3>4, RollsBackAppend, Zenon
    <3> QED BY <3>2, <3>3
  <2> QED BY <2>6, <2>8
<1> QED BY <1>7, <1>8, <1>10, <1>11

(* The record of a change that follows the table.                          *)
LEMMA JournalRecord ==
  ASSUME StateOK, JournalInv, NEW t \in Txn, Alone(t), status[t] = "active", t \notin winners, phase = "running",
         bound.aborts = 0, bound.crashes = 0,
         NEW r, Adds(r), IsData(r), r.txn = t, r.rid \in Rid, r.old = mem[r.rid],
         r.type # "INSERT" => r.old # Empty, r.type = "UPDATE" => r.new # Empty
  PROVE  /\ LogInv(hist, Flushed', Len(log_file'), winners, disk)
         /\ \A i \in Data(Flushed)' : Flushed'[i].txn \in winners \/ Flushed'[i].txn = t
         /\ \A rid \in Rid : LastOf(Flushed', On(Flushed', rid)) = IF rid = r.rid THEN r.new ELSE mem[rid]
<1>1. LogInv(hist, Flushed, Len(log_file), winners, disk) /\ RunInv(Flushed, winners, status, pending, mem)
  BY DEF JournalInv
<1>2. PICK q, p : q = Flushed /\ p = Flushed' /\ Extends(p, q, r)
  BY DEF Adds
<1>3. \A rid \in Rid : mem[rid] = LastOf(q, On(q, rid))
  <2>1. \A u \in Txn : status[u] # "inserting"
    BY DEF Alone, Live
  <2> QED BY <1>1, <1>2, <2>1 DEF RunInv
<1>4. \A i \in Data(q) : q[i].txn \in winners \/ q[i].txn = t
  <2>1. \A i \in Data(q) : q[i].txn \in Txn
    BY <1>2, FlushedLog
  <2> QED BY <1>1, <1>2, <2>1 DEF RunInv, Alone
<1>5. LogInv(hist, p, Len(log_file'), winners, disk)
  <2>1. /\ r.old = LastOf(q, On(q, r.rid)) /\ r.txn \notin winners
        /\ \A i \in Data(q) : q[i].txn # r.txn => q[i].txn \in winners
    BY <1>3, <1>4
  <2> QED BY <1>1, <1>2, <2>1, FlushedLog, LogInvAppend DEF Adds
<1>6. \A i \in Data(p) : p[i].txn \in winners \/ p[i].txn = t
  <2>1. /\ Data(p) = Data(q) \cup {Len(q) + 1} /\ Data(q) \subseteq 1..Len(q)
        /\ p[Len(q) + 1] = r /\ \A i \in 1..Len(q) : p[i] = q[i]
    BY <1>2, LogAppend
  <2>2. \A i \in Data(q) : p[i] = q[i]
    BY <2>1
  <2> QED BY <1>4, <2>1, <2>2
<1>7. \A rid \in Rid : LastOf(p, On(p, rid)) = IF rid = r.rid THEN r.new ELSE mem[rid]
  BY <1>2, <1>3, LogAppend
<1> QED BY <1>2, <1>5, <1>6, <1>7

LEMMA DataFields ==
  ASSUME NEW type \in {"INSERT", "DELETE", "UPDATE"}, NEW t, NEW rid, NEW old, NEW new,
         NEW r, r = DataRecord(type, t, rid, old, new)
  PROVE  /\ IsData(r) /\ r.type = type /\ r.txn = t /\ r.rid = rid /\ r.old = old /\ r.new = new
         /\ \A u : r # ControlRecord("commit", u)
<1>1. r.type = type /\ r.txn = t /\ r.rid = rid /\ r.old = old /\ r.new = new
  BY DEF DataRecord
<1>2. \A u : ControlRecord("commit", u).type = "commit"
  BY DEF ControlRecord
<1> QED BY <1>1, <1>2 DEF IsData

LEMMA FreeSlot ==
  ASSUME StateOK, PagesInv, NEW rid \in FreeRid
  PROVE  mem[rid] = Empty /\ (rid[1] > num_pages => FreeRid = {rid})
<1>1. num_pages \in Nat
  BY PageCounts
<1>2. PICK free : free = {r \in Rid : r[1] <= num_pages /\ mem[r] = Empty}
  OBVIOUS
<1>3. FreeRid = IF free # {} THEN {r \in free : \A s \in free : s[1] = r[1] => r[2] <= s[2]}
                ELSE {r \in Rid : r = <<num_pages + 1, 1>>}
  BY <1>2 DEF FreeRid
<1>4. rid \in Rid /\ rid[1] \in Nat
  BY FreeRidIsRid, RidPage
<1>5. CASE free # {}
  <2>1. rid[1] <= num_pages /\ mem[rid] = Empty
    BY <1>2, <1>3, <1>5
  <2> QED BY <1>1, <1>4, <2>1
<1>6. CASE free = {}
  <2>1. rid = <<num_pages + 1, 1>> /\ FreeRid = {rid}
    BY <1>3, <1>6
  <2>2. ~(rid[1] <= num_pages)
    BY <1>1, <2>1
  <2>3. mem[rid] = Empty
    BY <1>4, <2>2 DEF PagesInv, Within
  <2> QED BY <2>1, <2>3
<1> QED BY <1>5, <1>6

LEMMA InsertLogSerial ==
  ASSUME IInv, SInv, NEW t \in Txn, NEW v \in Value, InsertLog(t, v)
  PROVE  SInv'
<1>1. StateOK /\ PagesInv /\ SoloInv /\ RowsInv /\ JournalInv
  BY DEF IInv, SInv
<1>2. Alone(t) /\ status[t] = "active" /\ phase = "running"
  BY <1>1, LiveAlone DEF InsertLog, Idle, Live
<1>3. TxnStep(t, "inserting")
  BY <1>2 DEF TxnStep, InsertLog, Goto
<1>4. PICK rid \in FreeRid :
        /\ add_log_to_buffer(DataRecord("INSERT", t, rid, Empty, v))
        /\ pending' = [pending EXCEPT ![t] = [rid |-> rid, new |-> v, new_page |-> rid[1] > num_pages]]
  BY DEF InsertLog
<1>5. rid \in Rid /\ mem[rid] = Empty /\ (rid[1] > num_pages => FreeRid = {rid})
  BY <1>1, FreeRidIsRid, FreeSlot
<1>6. /\ pending'[t].rid = rid /\ pending'[t].new = v /\ pending'[t].new_page = (rid[1] > num_pages)
  BY <1>1, <1>4 DEF StateOK
<1>7. PICK r \in LogRecord : r = DataRecord("INSERT", t, rid, Empty, v)
  BY <1>5, DataRecordType DEF Row
<1>8. /\ IsData(r) /\ r.type = "INSERT" /\ r.txn = t /\ r.rid = rid /\ r.old = Empty /\ r.new = v
      /\ \A u : r # ControlRecord("commit", u)
  BY <1>7, DataFields
<1>9. Adds(r)
  BY <1>1, <1>2, <1>4, <1>7, NotLogged, Adding
<1>10. UNCHANGED <<mem, num_pages, disk, write_set, bound, hist>>
  BY DEF InsertLog, table, file
<1>11. t \notin winners
  BY <1>1, <1>2 DEF SoloInv, Ended
<1>12. SoloInv'
  <2>1. OwnLocks(t)
    BY <1>1 DEF InsertLog, OwnLocks, StateOK
  <2>2. \A u \in Committed(log_buffer') : u \in winners'
    BY <1>8, <1>9 DEF Adds
  <2> QED BY <1>1, <1>3, <1>9, <1>10, <1>11, <2>1, <2>2, SoloStep DEF Adds, Holding, RollingBack
<1>13. RowsInv'
  BY <1>1, <1>2, <1>3, <1>5, <1>6, <1>9, <1>10, RowsQuiet DEF Adds, Writing, Holding
<1>14. JournalInv'
  <2>1. status'[t] = "inserting" /\ \A u \in Txn : u # t => status'[u] = status[u] /\ status[u] \notin Live
    BY <1>1, <1>3, TxnStepStatus
  <2>2. SUFFICES ASSUME bound.aborts = 0, bound.crashes = 0
                 PROVE  /\ LogInv(hist, Flushed', Len(log_file'), winners, disk)
                        /\ RunInv(Flushed', winners, status', pending', mem)
    BY <1>3, <1>9, <1>10 DEF JournalInv, TxnStep, Adds
  <2>3. /\ LogInv(hist, Flushed', Len(log_file'), winners, disk)
        /\ \A i \in Data(Flushed)' : Flushed'[i].txn \in winners \/ Flushed'[i].txn = t
        /\ \A x \in Rid : LastOf(Flushed', On(Flushed', x)) = IF x = r.rid THEN r.new ELSE mem[x]
    BY <1>1, <1>2, <1>5, <1>8, <1>9, <1>11, <2>2, JournalRecord
  <2>4. \A u \in Txn : status'[u] = "inserting" => u = t
    BY <2>1 DEF Live
  <2>5. RunInv(Flushed', winners, status', pending', mem)
    <3>1. \A i \in Data(Flushed') : Flushed'[i].txn \in winners \/ status'[Flushed'[i].txn] \in Live
      BY <2>1, <2>3 DEF Live
    <3>2. \A x \in Rid : (\A u \in Txn : status'[u] = "inserting" => pending'[u].rid # x)
                            => mem[x] = LastOf(Flushed', On(Flushed', x))
      BY <1>6, <1>8, <2>1, <2>3
    <3>3. \A u \in Txn : status'[u] = "inserting" => LastOf(Flushed', On(Flushed', pending'[u].rid)) = pending'[u].new
      BY <1>5, <1>6, <1>8, <2>3, <2>4
    <3> QED BY <3>1, <3>2, <3>3 DEF RunInv
  <2> QED BY <2>3, <2>5
<1> QED BY <1>12, <1>13, <1>14 DEF SInv

(* The row that follows: it goes to the slot that was logged, and the lock *)
(* of it is free.                                                          *)
LEMMA InsertWriteSerial ==
  ASSUME IInv, SInv, NEW t \in Txn, InsertWrite(t)
  PROVE  SInv'
<1>1. StateOK /\ SoloInv /\ RowsInv /\ JournalInv
  BY DEF IInv, SInv
<1>2. Alone(t) /\ status[t] = "inserting" /\ phase = "running"
  BY <1>1, LiveAlone DEF InsertWrite, Live
<1>3. pending[t] \in [rid: Rid, new: Value, new_page: BOOLEAN]
  BY <1>1, <1>2 DEF IInv, StatusInv, StateOK
<1>4. PICK v \in Row : v = pending[t].new
  BY <1>3 DEF Row
<1>5. PICK at \in IF pending[t].new_page THEN FreeRid ELSE {pending[t].rid} :
        /\ Changes(t, at, v)
        /\ insert_record(at, v)
        /\ IF CanLockX(t, at)
             THEN /\ owner' = [owner EXCEPT ![at] = t]
                  /\ Remember(t, "INSERT", at, Empty)
                  /\ Goto(t, "active")
             ELSE /\ Goto(t, "aborting")
                  /\ UNCHANGED <<owner, write_set>>
  BY <1>4 DEF InsertWrite
<1>6. at \in Rid
  BY <1>3, <1>5, FreeRidIsRid
<1>7. CanLockX(t, at)
  BY <1>1, <1>2, <1>6, SoloLocks
<1>8. UNCHANGED <<disk, bound, log_buffer, log_file, winners, tlock, readers, phase>>
  BY DEF InsertWrite, file, log
<1>9. TxnStep(t, "active")
  BY <1>2, <1>5, <1>7, <1>8 DEF TxnStep, Goto
<1>10. mem' = [mem EXCEPT ![at] = v] /\ Remember(t, "INSERT", at, Empty) /\ owner' = [owner EXCEPT ![at] = t]
  BY <1>5, <1>7 DEF insert_record
<1>11. t \notin winners
  BY <1>1, <1>2 DEF SoloInv, Ended
<1>12. (bound.aborts = 0 \/ bound.crashes = 0) => at = pending[t].rid /\ mem[at] = Empty
  BY <1>1, <1>2, <1>5 DEF RowsInv
<1>13. SoloInv'
  <2>1. OwnLocks(t)
    BY <1>1, <1>6, <1>8, <1>10 DEF OwnLocks, StateOK
  <2>2. Committed(log_buffer) \subseteq winners
    BY <1>1, <1>2, NotLogged
  <2> QED BY <1>1, <1>8, <1>9, <1>11, <2>1, <2>2, SoloStep DEF Holding, RollingBack
<1>14. RowsInv'
  <2>1. CASE bound.aborts = 0 \/ bound.crashes = 0
    BY <1>1, <1>2, <1>5, <1>6, <1>8, <1>9, <1>10, <1>12, <2>1, RowsChange
  <2>2. CASE ~(bound.aborts = 0 \/ bound.crashes = 0)
    BY <1>8, <2>2 DEF RowsInv
  <2> QED BY <2>1, <2>2
<1>15. JournalInv'
  <2>1. status'[t] = "active" /\ \A u \in Txn : u # t => status'[u] = status[u] /\ status[u] \notin Live
    BY <1>1, <1>9, TxnStepStatus
  <2>2. Flushed' = Flushed
    BY <1>8 DEF Flushed
  <2>3. SUFFICES ASSUME bound.aborts = 0, bound.crashes = 0
                 PROVE  /\ LogInv(hist', Flushed, Len(log_file), winners, disk)
                        /\ RunInv(Flushed, winners, status', pending', mem')
    BY <1>8, <1>9, <2>2 DEF JournalInv, TxnStep
  <2>4. LogInv(hist, Flushed, Len(log_file), winners, disk) /\ RunInv(Flushed, winners, status, pending, mem)
    BY <1>1, <1>2, <2>3 DEF JournalInv
  <2>5. LogInv(hist', Flushed, Len(log_file), winners, disk)
    <3>1. PICK c \in Change : c = [txn |-> t, rid |-> at, new |-> v] /\ c.txn = t
      <4>1. [txn |-> t, rid |-> at, new |-> v] \in Change
        BY <1>6 DEF Change
      <4> QED BY <4>1
    <3>2. hist' = Append(hist, c) /\ hist \in Seq(Change)
      BY <1>1, <1>5, <3>1 DEF Changes, StateOK
    <3>3. LogInv(Append(hist, c), Flushed, Len(log_file), winners, disk)
      BY <1>11, <2>4, <3>1, <3>2, LogInvChange
    <3> QED BY <3>2, <3>3
  <2>6. \A u \in Txn : status'[u] # "inserting"
    BY <2>1 DEF Live
  <2>7. \A u \in Txn : status[u] = "inserting" => u = t
    BY <2>1 DEF Live
  <2>8. \A i \in Data(Flushed) : Flushed[i].txn \in winners \/ status'[Flushed[i].txn] \in Live
    <3>1. \A i \in Data(Flushed) : Flushed[i].txn \in Txn
      BY <1>1, FlushedLog
    <3> QED BY <2>1, <2>4, <3>1 DEF RunInv, Live
  <2>9. ASSUME NEW x \in Rid PROVE mem'[x] = LastOf(Flushed, On(Flushed, x))
    <3>1. mem \in [Rid -> Row]
      BY <1>1 DEF StateOK
    <3>2. CASE x = at
      BY <1>2, <1>4, <1>10, <1>12, <2>3, <2>4, <3>1, <3>2 DEF RunInv
    <3>3. CASE x # at
      BY <1>10, <1>12, <2>3, <2>4, <2>7, <3>1, <3>3 DEF RunInv
    <3> QED BY <3>2, <3>3
  <2>10. RunInv(Flushed, winners, status', pending', mem')
    BY <2>6, <2>8, <2>9 DEF RunInv
  <2> QED BY <2>5, <2>10
<1> QED BY <1>13, <1>14, <1>15 DEF SInv

(* DELETE and UPDATE in place.                                             *)
LEMMA InPlaceSerial ==
  ASSUME IInv, SInv, NEW t \in Txn, status[t] = "active", phase = "running",
         NEW type \in {"DELETE", "UPDATE"}, NEW at \in Visible, NEW v \in Row, type = "UPDATE" => v # Empty,
         NEW seen, Scanned(t, seen), owner' = [owner EXCEPT ![at] = t],
         add_log_to_buffer(DataRecord(type, t, at, mem[at], v)),
         Remember(t, type, at, mem[at]), mem' = [mem EXCEPT ![at] = v], Changes(t, at, v),
         UNCHANGED <<disk, status, pending, phase, bound>>
  PROVE  SInv'
<1>1. StateOK /\ PagesInv /\ SoloInv /\ RowsInv /\ JournalInv
  BY DEF IInv, SInv
<1>2. Alone(t)
  BY <1>1, LiveAlone DEF Live
<1>3. at \in Rid /\ mem[at] \in Row /\ mem[at] # Empty
  BY <1>1, VisibleRow
<1>4. TxnStep(t, "active")
  <2>1. [status EXCEPT ![t] = "active"] = status
    BY <1>1 DEF StateOK
  <2> QED BY <1>2, <2>1 DEF TxnStep
<1>5. PICK r \in LogRecord : r = DataRecord(type, t, at, mem[at], v)
  BY <1>3, DataRecordType
<1>6. /\ IsData(r) /\ r.type = type /\ r.txn = t /\ r.rid = at /\ r.old = mem[at] /\ r.new = v
      /\ \A u : r # ControlRecord("commit", u)
  BY <1>5, DataFields
<1>7. Adds(r)
  BY <1>1, <1>2, <1>5, NotLogged, Adding
<1>8. t \notin winners /\ winners' = winners
  BY <1>1, <1>7 DEF SoloInv, Ended, Adds
<1>9. SoloInv'
  <2>1. OwnLocks(t)
    BY <1>1, <1>3 DEF OwnLocks, StateOK, Scanned
  <2>2. \A u \in Committed(log_buffer') : u \in winners'
    BY <1>6, <1>7 DEF Adds
  <2> QED BY <1>1, <1>4, <1>7, <1>8, <2>1, <2>2, SoloStep DEF Adds, Holding, RollingBack
<1>10. RowsInv'
  BY <1>1, <1>3, <1>4, <1>8, RowsChange
<1>11. JournalInv'
  <2>1. SUFFICES ASSUME bound.aborts = 0, bound.crashes = 0
                 PROVE  /\ LogInv(hist', Flushed', Len(log_file'), winners, disk)
                        /\ RunInv(Flushed', winners, status, pending, mem')
    BY <1>8 DEF JournalInv
  <2>2. /\ LogInv(hist, Flushed', Len(log_file'), winners, disk)
        /\ \A i \in Data(Flushed)' : Flushed'[i].txn \in winners \/ Flushed'[i].txn = t
        /\ \A x \in Rid : LastOf(Flushed', On(Flushed', x)) = IF x = r.rid THEN r.new ELSE mem[x]
    BY <1>1, <1>2, <1>3, <1>6, <1>7, <1>8, <2>1, JournalRecord
  <2>3. LogInv(hist', Flushed', Len(log_file'), winners, disk)
    <3>1. PICK c \in Change : c = [txn |-> t, rid |-> at, new |-> v] /\ c.txn = t
      <4>1. [txn |-> t, rid |-> at, new |-> v] \in Change
        BY <1>3 DEF Change
      <4> QED BY <4>1
    <3>2. hist' = Append(hist, c) /\ hist \in Seq(Change)
      BY <1>1, <3>1 DEF Changes, StateOK
    <3>3. LogInv(Append(hist, c), Flushed', Len(log_file'), winners, disk)
      BY <1>8, <2>2, <3>1, <3>2, LogInvChange
    <3> QED BY <3>2, <3>3
  <2>4. RunInv(Flushed', winners, status, pending, mem')
    <3>1. \A u \in Txn : status[u] # "inserting"
      BY <1>2 DEF Alone, Live
    <3>2. \A i \in Data(Flushed') : Flushed'[i].txn \in winners \/ status[Flushed'[i].txn] \in Live
      BY <2>2 DEF Live
    <3>3. \A x \in Rid : mem'[x] = LastOf(Flushed', On(Flushed', x))
      BY <1>1, <1>3, <1>6, <2>2 DEF StateOK
    <3> QED BY <3>1, <3>2, <3>3 DEF RunInv
  <2> QED BY <2>3, <2>4
<1> QED BY <1>9, <1>10, <1>11 DEF SInv

LEMMA DeleteSerial == ASSUME IInv, SInv, NEW t \in Txn, Delete(t) PROVE SInv'
<1>0. PICK at \in Visible : \E seen :
        /\ Scanned(t, seen) /\ owner' = [owner EXCEPT ![at] = t]
        /\ add_log_to_buffer(DataRecord("DELETE", t, at, mem[at], Empty))
        /\ Remember(t, "DELETE", at, mem[at])
        /\ mem' = [mem EXCEPT ![at] = Empty]
        /\ Changes(t, at, Empty)
  BY DEF Delete
<1>1. PICK seen :
        /\ Scanned(t, seen) /\ owner' = [owner EXCEPT ![at] = t]
        /\ add_log_to_buffer(DataRecord("DELETE", t, at, mem[at], Empty))
        /\ Remember(t, "DELETE", at, mem[at])
        /\ mem' = [mem EXCEPT ![at] = Empty]
        /\ Changes(t, at, Empty)
  BY <1>0
<1>2. status[t] = "active" /\ phase = "running" /\ UNCHANGED <<disk, status, pending, phase, bound>> /\ Empty \in Row
  BY DEF Delete, Idle, file, Row
<1> QED BY <1>1, <1>2, InPlaceSerial

LEMMA UpdateSerial ==
  ASSUME StaysSerial, IInv, SInv, NEW t \in Txn, NEW v \in Value, Update(t, v)
  PROVE  SInv'
<1>4. ASSUME NEW rid \in FreeRid, Remember(t, "UPDATE", rid, Empty)
      PROVE  FALSE
  <2>1. PICK s \in Seq(WriteRecord) : s = write_set[t] /\ write_set \in [Txn -> Seq(WriteRecord)]
    BY DEF IInv, StateOK
  <2>2. PICK e : e = [by |-> "UPDATE", rid |-> rid, old |-> Empty]
    OBVIOUS
  <2>3. PICK s2 : s2 = Append(s, e)
    OBVIOUS
  <2>4. Len(s) + 1 \in DOMAIN s2 /\ s2[Len(s) + 1] = e
    BY <2>1, <2>3
  <2>5. write_set'[t] = s2
    BY <1>4, <2>1, <2>2, <2>3 DEF Remember
  <2>6. Moved(e)
    BY <2>2 DEF Moved
  <2>7. OffSerial'
    BY <2>4, <2>5, <2>6 DEF OffSerial, Moved
  <2> QED BY <2>7 DEF StaysSerial
<1>0. PICK at \in Visible : \E seen :
        /\ Scanned(t, seen) /\ owner' = [owner EXCEPT ![at] = t]
        /\ add_log_to_buffer(DataRecord("UPDATE", t, at, mem[at], v))
        /\ Remember(t, "UPDATE", at, mem[at])
        /\ mem' = [mem EXCEPT ![at] = v]
        /\ Changes(t, at, v)
  BY <1>4 DEF Update
<1>1. PICK seen :
        /\ Scanned(t, seen) /\ owner' = [owner EXCEPT ![at] = t]
        /\ add_log_to_buffer(DataRecord("UPDATE", t, at, mem[at], v))
        /\ Remember(t, "UPDATE", at, mem[at])
        /\ mem' = [mem EXCEPT ![at] = v]
        /\ Changes(t, at, v)
  BY <1>0
<1>2. status[t] = "active" /\ phase = "running" /\ UNCHANGED <<disk, status, pending, phase, bound>>
  BY DEF Update, Idle, file
<1>3. v \in Row /\ v # Empty
  BY RecoveryConstants DEF Row
<1> QED BY <1>1, <1>2, <1>3, InPlaceSerial

-----------------------------------------------------------------------------
(* The crash, and recovery.                                                *)

LEMMA CrashSerial == ASSUME StaysSerial, IInv, SInv, Crash PROVE SInv'
<1>1. StateOK /\ SoloInv /\ RowsInv /\ JournalInv
  BY DEF IInv, SInv
<1>2. status \in [Txn -> Status] /\ \A t \in Txn : status'[t] = IF status[t] \in Live THEN "lost" ELSE status[t]
  BY <1>1 DEF StateOK, Crash, LiveTxns
<1>3. \A t \in Txn : status'[t] \notin Live
  BY <1>2 DEF Live
<1>4. /\ phase' = "down" /\ log_buffer' = <<>> /\ hist' = hist /\ disk' = disk
      /\ \A t \in Txn : tlock'[t] = "none"
      /\ \A r \in Rid : owner'[r] = NoTxn /\ readers'[r] = {}
  BY DEF Crash, file
<1>5. /\ bound.aborts \in Nat /\ bound.crashes \in Nat /\ bound'.aborts = bound.aborts
      /\ \/ phase = "running" /\ bound.crashes = 0 /\ bound'.crashes # 0
         \/ phase # "running" /\ bound'.crashes = bound.crashes /\ bound.crashes # 0
  <2>1. bound \in Bounds /\ bound.aborts \in Nat /\ bound.crashes \in Nat /\ MaxCrashes \in Nat
    BY <1>1, RecoveryConstants DEF StateOK, Bounds
  <2>2. CASE phase = "running" /\ bound.crashes < MaxCrashes /\ bound' = [bound EXCEPT !.crashes = @ + 1]
    <3>2. bound'.aborts = bound.aborts /\ bound'.crashes = bound.crashes + 1
      BY <2>1, <2>2 DEF Bounds
    <3>1. bound.crashes = 0
      BY <2>1, <3>2 DEF StaysSerial
    <3> QED BY <2>1, <2>2, <3>1, <3>2
  <2>3. CASE phase # "running" /\ bound' = [bound EXCEPT !.recrashes = @ + 1]
    <3>1. bound'.aborts = bound.aborts /\ bound'.crashes = bound.crashes
      BY <2>1, <2>3 DEF Bounds
    <3> QED BY <1>1, <2>1, <2>3, <3>1 DEF SoloInv
  <2> QED BY <2>2, <2>3 DEF Crash
<1>6. winners = Committed(log_file)
  BY <1>1, <1>5 DEF SoloInv
<1>7. log_buffer \in Seq(LogRecord) /\ log_file \in Seq(LogRecord)
  BY <1>1 DEF StateOK
<1>8. Committed(Flushed) = winners \cup Committed(log_buffer)
  BY <1>6, <1>7, CommittedConcat DEF Flushed
<1>9. \/ phase = "running" /\ log_file' = Flushed /\ winners' = winners \cup Committed(log_buffer)
      \/ log_file' = log_file /\ winners' = winners
  BY DEF Crash
<1>10. winners' = Committed(log_file')
  BY <1>6, <1>8, <1>9
<1>11. SoloInv'
  <2>1. \A t \in winners' : status'[t] \in Ended
    <3>1. \A t \in winners' : t \in Txn /\ status[t] \in Ended
      BY <1>1, <1>9 DEF SoloInv, Ended, StateOK, Committed
    <3> QED BY <1>2, <3>1 DEF Ended
  <2>2. Committed(log_buffer') = {}
    BY <1>4 DEF Committed
  <2>3. bound'.aborts = 0 => \A t \in Txn : status'[t] \notin RollingBack
    BY <1>1, <1>2, <1>5 DEF SoloInv, RollingBack
  <2>4. NoTxn \notin Txn
    BY RecoveryConstants
  <2> QED BY <1>3, <1>4, <1>5, <1>10, <2>1, <2>2, <2>3, <2>4 DEF SoloInv
<1>12. RowsInv'
  BY <1>4 DEF RowsInv
<1>13. JournalInv'
  <2>1. log_file' \in Seq(LogRecord) /\ Flushed' = log_file'
    <3>1. Flushed \in Seq(LogRecord)
      BY <1>1, FlushedLog
    <3>2. log_file' \in Seq(LogRecord) /\ log_file' \o <<>> = log_file'
      BY <1>7, <1>9, <3>1
    <3> QED BY <1>4, <3>2 DEF Flushed
  <2>2. SUFFICES ASSUME bound.aborts = 0
                 PROVE  LogInv(hist, log_file', Len(log_file'), winners', disk)
    BY <1>4, <1>5, <2>1 DEF JournalInv
  <2>3. /\ LogInv(hist, Flushed, Len(log_file), winners, disk)
        /\ phase = "running" => RunInv(Flushed, winners, status, pending, mem)
    BY <1>1, <1>5, <2>2 DEF JournalInv
  <2>4. CASE log_file' = log_file /\ winners' = winners
    <3>1. PICK N \in Nat, M \in Nat : N = Len(log_file) /\ M = Len(Flushed) /\ N <= M
      BY <1>1, FlushedLog
    <3>2. DOMAIN log_file = 1..N /\ DOMAIN Flushed = 1..M /\ \A i \in 1..N : Flushed[i] = log_file[i]
      BY <1>1, <1>7, <3>1, FlushedLog
    <3>3. Data(Flushed) \subseteq 1..M /\ \A i \in 1..M : i <= N <=> i \in 1..N
      BY <3>1, <3>2 DEF Data
    <3>4. \A i \in Data(log_file) : log_file[i] = Flushed[i]
      BY <3>2 DEF Data
    <3>5. Data(log_file) = {i \in Data(Flushed) : i <= N}
      <4>1. \A i \in 1..N : i \in 1..M
        BY <3>1
      <4> QED BY <3>2, <3>3, <4>1 DEF Data
    <3>6. LogInv(hist, log_file, N, winners, disk)
      BY <2>3, <3>1, <3>3, <3>4, <3>5, LogInvCut
    <3> QED BY <2>4, <3>1, <3>6
  <2>5. CASE phase = "running" /\ log_file' = Flushed /\ winners' = winners \cup Committed(log_buffer)
    <3>1. PICK w : w = winners' /\ winners \subseteq w
      BY <2>5
    <3>2. CASE w = winners
      BY <1>1, <2>3, <2>5, <3>1, <3>2, FlushedLog, LogInvFlush
    <3>3. CASE w # winners
      <4>1. PICK t \in Committed(log_buffer) : t \notin winners
        BY <2>5, <3>1, <3>3
      <4>2. t \in Txn /\ status[t] = "logged"
        BY <1>1, <4>1 DEF SoloInv, Committed
      <4>3. Alone(t)
        BY <1>1, <4>2, LiveAlone DEF Live
      <4>4. w = winners \cup {t}
        <5>1. \A u \in Committed(log_buffer) : u \in winners \/ u = t
          <6>1. \A u \in Committed(log_buffer) : u \in Txn /\ (status[u] = "logged" \/ u \in winners)
            BY <1>1 DEF SoloInv, Committed
          <6> QED BY <4>3, <6>1 DEF Alone, Live
        <5> QED BY <2>5, <3>1, <4>1, <5>1
      <4>5. \A i \in Data(Flushed) : Flushed[i].txn \in w
        <5>1. \A i \in Data(Flushed) : Flushed[i].txn \in Txn
          BY <1>1, FlushedLog
        <5> QED BY <2>3, <2>5, <4>3, <4>4, <5>1 DEF RunInv, Alone
      <4>6. \A rid \in Rid : RowBy(hist, rid, w) = LastOf(Flushed, On(Flushed, rid))
        <5>1. \A u \in Txn : status[u] # "inserting"
          BY <4>2, <4>3 DEF Alone, Live
        <5>2. \A rid \in Rid : mem[rid] = LastOf(Flushed, On(Flushed, rid))
          BY <2>3, <2>5, <5>1 DEF RunInv
        <5>3. \A rid \in Rid : mem[rid] = RowBy(hist, rid, w)
          BY <1>1, <2>2, <2>5, <4>2, <4>4 DEF RowsInv, Writing
        <5> QED BY <5>2, <5>3
      <4> QED BY <1>1, <2>3, <2>5, <3>1, <4>5, <4>6, FlushedLog, LogInvFlush
    <3> QED BY <3>2, <3>3
  <2> QED BY <1>9, <2>4, <2>5
<1> QED BY <1>11, <1>12, <1>13 DEF SInv

(* What recovery leaves alone.                                             *)
LEMMA RecoverySolo ==
  ASSUME SoloInv, phase # "running", UNCHANGED <<status, locks, bound, winners, log_buffer>>,
         log_file' = log_file \/ phase' = "running"
  PROVE  SoloInv'
<1>1. bound.crashes # 0 /\ log_buffer = <<>> /\ winners = Committed(log_file)
  BY DEF SoloInv
<1>2. bound'.crashes = 0 \/ phase' # "running" => winners' = Committed(log_file')
  BY <1>1
<1>3. Committed(log_buffer') = Committed(log_buffer)
  OBVIOUS
<1> QED BY <1>1, <1>2, <1>3 DEF SoloInv, locks

(* The log that recovery reads: all of it is in the file.                  *)
LEMMA RecoveryLog ==
  ASSUME StateOK, SoloInv, JournalInv, phase # "running", bound.aborts = 0
  PROVE  /\ Flushed = log_file /\ LogInv(hist, log_file, Len(log_file), winners, disk)
         /\ winners = Committed(log_file)
<1>1. log_buffer = <<>> /\ winners = Committed(log_file)
  BY DEF SoloInv
<1>2. Flushed = log_file
  <2>1. log_file \in Seq(LogRecord)
    BY DEF StateOK
  <2>2. log_file \o <<>> = log_file
    BY <2>1
  <2> QED BY <1>1, <2>2 DEF Flushed
<1> QED BY <1>1, <1>2 DEF JournalInv

LEMMA RecoverSerial == ASSUME IInv, SInv, Recover PROVE SInv'
<1>1. StateOK /\ PagesInv /\ SoloInv /\ RowsInv /\ JournalInv
  BY DEF IInv, SInv
<1>2. phase # "running" /\ bound' = bound /\ hist' = hist /\ winners' = winners /\ log_buffer' = log_buffer
      /\ UNCHANGED <<status, locks>> /\ (log_file' = log_file \/ phase' = "running")
  BY DEF Recover, OpenDb, redo, undo, WriteRecovered, truncate_log, Recovering, log
<1>3. SoloInv'
  BY <1>1, <1>2, RecoverySolo
<1>4. ASSUME bound.aborts = 0
      PROVE  /\ LogInv(hist, log_file, Len(log_file), winners, disk) /\ winners = Committed(log_file)
             /\ Flushed = log_file
  BY <1>1, <1>2, <1>4, RecoveryLog
<1>5. CASE OpenDb
  <2>1. phase = "down" /\ phase' = "opened" /\ log_file' = log_file /\ disk' = disk
    BY <1>5 DEF OpenDb, Recovering, file
  <2>2. RowsInv'
    BY <2>1 DEF RowsInv
  <2>3. JournalInv'
    <3>1. SUFFICES ASSUME bound.aborts = 0
                   PROVE  \A rid \in Rid : mem'[rid] # Empty => On(log_file, rid) # {}
      BY <1>2, <1>4, <2>1 DEF JournalInv, Flushed
    <3>2. \A rid \in Rid : mem'[rid] # Empty => disk[rid] # Empty
      BY <1>5 DEF OpenDb
    <3> QED BY <1>4, <3>1, <3>2 DEF LogInv
  <2> QED BY <1>3, <2>2, <2>3 DEF SInv
<1>6. CASE redo
  <2>1. PICK done : done = Redone[Len(log_file)]
    OBVIOUS
  <2>2. /\ phase = "opened" /\ phase' = IF done.ok THEN "redone" ELSE "exited"
        /\ mem' = done.rows /\ log_file' = log_file /\ disk' = disk
    BY <1>6, <2>1 DEF redo, Recovering, file
  <2>3. phase' # "running"
    BY <2>2
  <2>4. RowsInv'
    BY <2>3 DEF RowsInv
  <2>5. JournalInv'
    <3>1. SUFFICES ASSUME bound.aborts = 0
                   PROVE  done.ok /\ \A rid \in Rid : done.rows[rid] = LastOf(log_file, On(log_file, rid))
      BY <1>2, <1>4, <2>2 DEF JournalInv, Flushed
    <3>2. Chained(log_file) /\ \A rid \in Rid : mem[rid] # Empty => On(log_file, rid) # {}
      BY <1>1, <1>4, <2>2, <3>1 DEF JournalInv, LogInv
    <3> QED BY <1>1, <2>1, <3>2, RedoneLast DEF PagesInv
  <2> QED BY <1>3, <2>4, <2>5 DEF SInv
<1>7. CASE undo
  <2>1. /\ phase = "redone" /\ phase' = "undone" /\ mem' = Undone[Len(log_file)]
        /\ log_file' = log_file /\ disk' = disk
    BY <1>7 DEF undo, Recovering, file
  <2>2. RowsInv'
    BY <2>1 DEF RowsInv
  <2>3. JournalInv'
    <3>1. SUFFICES ASSUME bound.aborts = 0
                   PROVE  \A rid \in Rid : mem'[rid] = RowBy(hist, rid, winners)
      BY <1>2, <1>4, <2>1 DEF JournalInv, Flushed
    <3>2. /\ Chained(log_file) /\ OneByOne(log_file, Committed(log_file))
          /\ \A rid \in Rid : mem[rid] = LastOf(log_file, On(log_file, rid))
      BY <1>1, <1>4, <2>1, <3>1 DEF JournalInv, LogInv
    <3>3. \A rid \in Rid : mem'[rid] = LastOf(log_file, OnBy(log_file, rid, Committed(log_file)))
      BY <1>1, <2>1, <3>2, UndoneLast DEF PagesInv
    <3> QED BY <1>4, <3>1, <3>3 DEF LogInv
  <2> QED BY <1>3, <2>2, <2>3 DEF SInv
<1>8. CASE WriteRecovered
  <2>1. phase = "undone" /\ phase' = "written" /\ mem' = mem /\ log_file' = log_file
    BY <1>8 DEF WriteRecovered, table, log
  <2>2. RowsInv'
    BY <2>1 DEF RowsInv
  <2>3. JournalInv'
    <3>1. SUFFICES ASSUME bound.aborts = 0
                   PROVE  /\ LogInv(hist, log_file, Len(log_file), winners, disk')
                          /\ \A rid \in Rid : mem[rid] = RowBy(hist, rid, winners)
      BY <1>2, <1>4, <2>1 DEF JournalInv, Flushed
    <3>2. \A rid \in Rid : mem[rid] = RowBy(hist, rid, winners)
      BY <1>1, <2>1, <3>1 DEF JournalInv
    <3>3. ASSUME NEW rid \in Rid, disk'[rid] # Empty
          PROVE  disk[rid] # Empty \/ \E i \in On(log_file, rid) : i <= Len(log_file)
      <4>1. disk'[rid] = mem[rid] \/ disk'[rid] = disk[rid]
        BY <1>8 DEF WriteRecovered, flush_all_pages
      <4>2. SUFFICES ASSUME mem[rid] # Empty PROVE \E i \in On(log_file, rid) : i <= Len(log_file)
        BY <3>3, <4>1
      <4>3. LastOf(log_file, OnBy(log_file, rid, winners)) # Empty
        BY <1>4, <3>1, <3>2, <4>2 DEF LogInv
      <4>4. PICK i : i \in OnBy(log_file, rid, winners)
        BY <4>3, LastNone
      <4>5. i \in On(log_file, rid) /\ i \in Data(log_file) /\ log_file[i].txn \in winners
        BY <4>4 DEF OnBy, On
      <4>6. i <= Len(log_file)
        BY <1>4, <3>1, <4>5 DEF LogInv
      <4> QED BY <4>5, <4>6
    <3>4. LogInv(hist, log_file, Len(log_file), winners, disk')
      BY <1>4, <3>1, <3>3, LogInvPages
    <3> QED BY <3>2, <3>4
  <2> QED BY <1>3, <2>2, <2>3 DEF SInv
<1>9. CASE truncate_log
  <2>1. phase = "written" /\ phase' = "running" /\ mem' = mem
    BY <1>9 DEF truncate_log, table
  <2>2. bound.crashes # 0 /\ \A t \in Txn : status[t] \notin Live
    BY <1>1, <1>2 DEF SoloInv, IInv, StatusInv
  <2>3. RowsInv'
    <3>1. \A t \in Txn : status'[t] \notin Writing /\ status'[t] \notin Holding /\ status'[t] # "inserting"
      BY <1>2, <2>2 DEF Writing, Holding, Live
    <3>2. bound.aborts = 0 => \A rid \in Rid : mem[rid] = RowBy(hist, rid, winners)
      BY <1>1, <2>1 DEF JournalInv
    <3> QED BY <1>2, <2>1, <2>2, <3>1, <3>2 DEF RowsInv
  <2>4. JournalInv'
    BY <1>2, <2>1, <2>2 DEF JournalInv
  <2> QED BY <1>3, <2>3, <2>4 DEF SInv
<1> QED BY <1>5, <1>6, <1>7, <1>8, <1>9 DEF Recover

LEMMA StutterSerial == ASSUME SInv, UNCHANGED vars PROVE SInv'
<1>1. SoloInv'
  BY DEF SInv, SoloInv, vars
<1>2. FreeRid' = FreeRid /\ Flushed' = Flushed
  BY DEF FreeRid, Flushed, vars
<1>3. RowsInv'
  BY <1>2 DEF SInv, RowsInv, vars
<1>4. JournalInv'
  BY <1>2 DEF SInv, JournalInv, vars
<1> QED BY <1>1, <1>3, <1>4 DEF SInv

LEMMA NextSerial == ASSUME StaysSerial, IInv, SInv, [Next]_vars PROVE SInv'
<1>1. ASSUME NEW t \in Txn, Commit(t) PROVE SInv'
  BY <1>1, CommitReleaseSerial, CommitLogSerial, CommitFlushLogSerial, CommitFlushPagesSerial,
     CommitWriteHeaderSerial DEF Commit
<1>2. ASSUME NEW t \in Txn, Abort(t) PROVE SInv'
  BY <1>2, AbortUndoSerial, AbortReleaseSerial, AbortLogSerial, AbortFlushLogSerial DEF Abort
<1>3. ASSUME NEW t \in Txn, Statement(t) PROVE SInv'
  BY <1>3, InsertLogSerial, InsertWriteSerial, UpdateSerial, DeleteSerial DEF Statement
<1>4. ASSUME NEW t \in Txn, begin(t) \/ Refused(t) \/ AbortRequested(t) PROVE SInv'
  BY <1>4, BeginSerial, RefusedSerial, AbortRequestedSerial
<1>5. ASSUME NEW p \in 1..MaxPages, Evict(p) PROVE SInv'
  <2>1. bound \in Bounds /\ bound.evictions \in Nat
    BY RecoveryConstants DEF IInv, StateOK, Bounds
  <2>2. bound'.evictions = bound.evictions + 1
    BY <1>5, <2>1 DEF Evict, Bounds
  <2> QED BY <2>1, <2>2 DEF StaysSerial
<1>6. CASE Crash \/ Recover
  BY <1>6, CrashSerial, RecoverSerial
<1>7. CASE UNCHANGED vars
  BY <1>7, StutterSerial
<1> QED BY <1>1, <1>2, <1>3, <1>4, <1>5, <1>6, <1>7 DEF Next, Step

(* Evictions and crashes are only ever added.                              *)
LEMMA BoundsGrow ==
  ASSUME IInv, [Next]_vars, bound'.evictions = 0, bound'.crashes <= 1
  PROVE  bound.evictions = 0 /\ bound.crashes <= 1
<1>1. bound \in Bounds /\ bound.evictions \in Nat /\ bound.crashes \in Nat
  BY RecoveryConstants DEF IInv, StateOK, Bounds
<1>2. CASE bound' = bound
  BY <1>2
<1>3. CASE \/ bound' = [bound EXCEPT !.aborts = @ + 1]
           \/ bound' = [bound EXCEPT !.crashes = @ + 1]
           \/ bound' = [bound EXCEPT !.recrashes = @ + 1]
           \/ bound' = [bound EXCEPT !.evictions = @ + 1]
  BY <1>1, <1>3 DEF Bounds
<1>4. ASSUME NEW t \in Txn, Commit(t) \/ Abort(t) \/ begin(t) \/ Refused(t) PROVE bound' = bound
  BY <1>4 DEF Commit, CommitReleaseLocks, CommitLog, CommitFlushLog, CommitFlushPages, CommitWriteHeader,
              Abort, AbortUndo, AbortReleaseLocks, AbortLog, AbortFlushLog, begin, Refused
<1>5. ASSUME NEW t \in Txn, Statement(t) PROVE bound' = bound
  BY <1>5 DEF Statement, InsertLog, InsertWrite, Update, Delete
<1>6. ASSUME NEW t \in Txn, AbortRequested(t) PROVE bound' = [bound EXCEPT !.aborts = @ + 1]
  BY <1>6 DEF AbortRequested
<1>7. ASSUME NEW p \in 1..MaxPages, Evict(p) PROVE bound' = [bound EXCEPT !.evictions = @ + 1]
  BY <1>7 DEF Evict
<1>8. CASE Recover
  BY <1>2, <1>8 DEF Recover, OpenDb, redo, undo, WriteRecovered, truncate_log, Recovering
<1>9. CASE Crash
  BY <1>3, <1>9 DEF Crash
<1>10. CASE UNCHANGED vars
  BY <1>2, <1>10 DEF vars
<1> QED BY <1>2, <1>3, <1>4, <1>5, <1>6, <1>7, <1>8, <1>9, <1>10 DEF Next, Step

(* The state of the whole: the invariant of every history and, as long as  *)
(* the history is serial, that of the serial ones.                         *)
HistoryInv ==
  IInv /\ ((~aside /\ bound.evictions = 0 /\ bound.crashes <= 1) => SInv)

LEMMA HistoryStep == ASSUME HistoryInv, [Next]_vars PROVE HistoryInv'
<1>1. IInv /\ IInv'
  BY NextKeeps DEF HistoryInv
<1>2. SUFFICES ASSUME ~aside', bound'.evictions = 0, bound'.crashes <= 1 PROVE SInv'
  BY <1>1 DEF HistoryInv
<1>3. CASE UNCHANGED vars
  <2>1. SInv
    BY <1>2, <1>3 DEF vars, HistoryInv
  <2> QED BY <1>1, <1>3, <2>1, StutterSerial
<1>4. CASE Next
  <2>1. ~aside /\ ~OffSerial'
    BY <1>2, <1>4 DEF Next, NoteSerial
  <2>2. SInv
    BY <1>1, <1>2, <2>1, BoundsGrow DEF HistoryInv
  <2>3. StaysSerial
    BY <1>2, <2>1 DEF StaysSerial
  <2> QED BY <1>1, <2>2, <2>3, NextSerial
<1> QED BY <1>3, <1>4

(* Atomicity and durability, for every behaviour of the server: after a    *)
(* recovery, and whenever no transaction is live, the table holds exactly  *)
(* the changes of the transactions whose commit record reached the log     *)
(* file, as long as the history so far is serial.  How many sessions,      *)
(* evictions, crashes and composite indexes there may be is not limited:   *)
(* what is asked is that none of them has come into play so far.           *)
THEOREM CommittedAlways == Spec => []SerialIsCommitted
<1>1. Init => HistoryInv
  BY InitIInv, InitSInv DEF HistoryInv
<1>2. HistoryInv /\ [Next]_vars => HistoryInv'
  BY HistoryStep
<1>3. HistoryInv => SerialIsCommitted
  <2> SUFFICES ASSUME SInv, bound.aborts = 0 \/ bound.crashes = 0, phase = "running", LiveTxns = {},
                      NEW rid \in Rid
               PROVE  mem[rid] = CommittedRow(rid)
    BY DEF HistoryInv, SerialIsCommitted, Serial, QuiescentIsCommitted
  <2>1. \A t \in Txn : status[t] \notin Writing \cup {"aborting"}
    BY DEF LiveTxns, Live, Writing
  <2>2. mem[rid] = RowBy(hist, rid, winners)
    BY <2>1 DEF SInv, RowsInv
  <2>3. RowBy(hist, rid, winners) = CommittedRow(rid)
    BY DEF RowBy, ChangesOn, LastOf, CommittedRow
  <2> QED BY <2>2, <2>3
<1> QED BY <1>1, <1>2, <1>3, PTL DEF Spec
=============================================================================
