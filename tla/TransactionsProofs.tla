------------------------- MODULE TransactionsProofs -------------------------
(***************************************************************************)
(* Proofs about Transactions for every set of transactions, every table    *)
(* size and any number of statements: isolation, and the lock facts it     *)
(* rests on.                                                               *)
(***************************************************************************)
EXTENDS Transactions, TLAPS

-----------------------------------------------------------------------------
(* The lock table.  A queue is well formed when a transaction has one      *)
(* request in it, no two conflict and the cached group mode is the         *)
(* strongest; the executors ask for S and IX on the table and for S and X  *)
(* on a row.                                                               *)
QueueOK(q, g) ==
  /\ \A a, b \in q : a.txn = b.txn => a = b
  /\ \A a, b \in q : a.txn # b.txn => ~LM!Conflict(a.mode, b.mode)
  /\ g = LM!regroup(LM!Modes(q))

ModesOf(lid) == IF lid = Tab THEN {"SHARED", "INTENTION_EXCLUSIVE", "S_IX"}
                             ELSE {"SHARED", "EXLUCSIVE"}

LockTable ==
  \A lid \in LM!LockDataId :
    /\ QueueOK(request_queue[lid], group_lock_mode[lid])
    /\ \A q \in request_queue[lid] : q.mode \in ModesOf(lid)

(* What the executors rely on, table and row.                              *)
Reading(t) == LM!HeldMode(t, Tab, "SHARED") \/ LM!HeldMode(t, Tab, "S_IX")
Announced(t) == LM!HeldMode(t, Tab, "INTENTION_EXCLUSIVE") \/ LM!HeldMode(t, Tab, "S_IX")
ReadLocked(t, r) == LM!HeldMode(t, r, "SHARED") \/ LM!HeldMode(t, r, "EXLUCSIVE")
WriteLocked(t, r) == LM!HeldMode(t, r, "EXLUCSIVE")

(* The table and the rows are what is locked.                              *)
LEMMA LockIds == LM!LockDataId = {Tab} \cup Row /\ Tab \notin Row
BY TxnConstants DEF LM!LockDataId, Table, Record, Row

(* regroup and upgrade_group yield group modes.                            *)
LEMMA GroupTypes ==
  /\ \A modes \in SUBSET LM!LockMode : LM!regroup(modes) \in LM!GroupLockMode
  /\ \A g \in LM!GroupLockMode, m \in LM!LockMode : LM!upgrade_group(g, m) \in LM!GroupLockMode
<1>1. ASSUME NEW modes \in SUBSET LM!LockMode PROVE LM!regroup(modes) \in LM!GroupLockMode
  BY DEF LM!regroup, LM!GroupLockMode
<1>2. ASSUME NEW g \in LM!GroupLockMode, NEW m \in LM!LockMode
      PROVE  LM!upgrade_group(g, m) \in LM!GroupLockMode
  BY DEF LM!upgrade_group, LM!GroupLockMode, LM!LockMode
<1> QED BY <1>1, <1>2

(* The incremental update of lock agrees with the recomputation of unlock. *)
LEMMA UpgradeIsRegroup ==
  ASSUME NEW modes \in SUBSET LM!LockMode, NEW m \in LM!LockMode
  PROVE  LM!upgrade_group(LM!regroup(modes), m) = LM!regroup(modes \cup {m})
BY DEF LM!upgrade_group, LM!regroup, LM!LockMode

(* A mode compatible with the group mode conflicts with no member of it.   *)
LEMMA CompatibleNoConflict ==
  ASSUME NEW modes \in SUBSET LM!LockMode, NEW m \in LM!LockMode,
         LM!compatible(m, LM!regroup(modes)), NEW n \in modes
  PROVE  ~LM!Conflict(m, n) /\ ~LM!Conflict(n, m)
BY DEF LM!compatible, LM!regroup, LM!Conflict, LM!Conflicts, LM!LockMode

(* Modes of a queue with one more request.                                 *)
LEMMA ModesOfUnion ==
  ASSUME NEW q, NEW t, NEW m
  PROVE  LM!Modes(q \cup {[txn |-> t, mode |-> m]}) = LM!Modes(q) \cup {m}
<1>1. [txn |-> t, mode |-> m].mode = m
  OBVIOUS
<1>2. \A x : x \in LM!Modes(q \cup {[txn |-> t, mode |-> m]})
              <=> \E r \in q \cup {[txn |-> t, mode |-> m]} : x = r.mode
  BY DEF LM!Modes
<1>3. \A x : x \in LM!Modes(q) <=> \E r \in q : x = r.mode
  BY DEF LM!Modes
<1> QED BY <1>1, <1>2, <1>3

(* A new request that passes the compatibility test.                       *)
LEMMA GrantKeepsQueue ==
  ASSUME NEW q \in SUBSET LM!LockRequest, NEW g, NEW t \in Txn, NEW mode \in LM!LockMode,
         QueueOK(q, g), \A r \in q : r.txn # t, LM!compatible(mode, g)
  PROVE  QueueOK({r \in q : r.txn # t} \cup {[txn |-> t, mode |-> mode]},
                 LM!upgrade_group(g, mode))
<1> DEFINE new == [txn |-> t, mode |-> mode]
           q2 == {r \in q : r.txn # t} \cup {new}
<1>1. q2 = q \cup {new}
  OBVIOUS
<1>2. LM!Modes(q) \in SUBSET LM!LockMode /\ LM!Modes(q2) = LM!Modes(q) \cup {mode}
  <2>1. LM!Modes(q) \in SUBSET LM!LockMode
    BY DEF LM!Modes, LM!LockRequest
  <2>2. LM!Modes(q \cup {new}) = LM!Modes(q) \cup {mode}
    BY ModesOfUnion
  <2> QED BY <1>1, <2>1, <2>2
<1>3. LM!upgrade_group(g, mode) = LM!regroup(LM!Modes(q2))
  BY <1>2, UpgradeIsRegroup DEF QueueOK
<1>4. \A a \in q : ~LM!Conflict(mode, a.mode) /\ ~LM!Conflict(a.mode, mode)
  BY <1>2, CompatibleNoConflict DEF QueueOK, LM!Modes
<1>5. \A a, b \in q2 : a.txn = b.txn => a = b
  BY <1>1 DEF QueueOK
<1>6. \A a, b \in q2 : a.txn # b.txn => ~LM!Conflict(a.mode, b.mode)
  BY <1>1, <1>4 DEF QueueOK
<1> QED BY <1>3, <1>5, <1>6 DEF QueueOK

(* S -> X when nobody else is in the queue.                                *)
LEMMA UpgradeToXKeepsQueue ==
  ASSUME NEW q \in SUBSET LM!LockRequest, NEW g, NEW t \in Txn,
         QueueOK(q, g), \A r \in q : r.txn = t
  PROVE  QueueOK({r \in q : r.txn # t} \cup {[txn |-> t, mode |-> "EXLUCSIVE"]},
                 LM!upgrade_group(g, "EXLUCSIVE"))
<1> DEFINE q2 == {r \in q : r.txn # t} \cup {[txn |-> t, mode |-> "EXLUCSIVE"]}
<1>1. q2 = {[txn |-> t, mode |-> "EXLUCSIVE"]}
  OBVIOUS
<1>2. "EXLUCSIVE" \in LM!Modes(q2)
  <2>1. LM!Modes(q2) = LM!Modes({r \in q : r.txn # t}) \cup {"EXLUCSIVE"}
    BY ModesOfUnion
  <2> QED BY <2>1
<1> QED BY <1>1, <1>2 DEF QueueOK, LM!regroup, LM!upgrade_group

(* S -> S_IX when nobody else holds S.                                     *)
LEMMA UpgradeToSIXKeepsQueue ==
  ASSUME NEW q \in SUBSET LM!LockRequest, NEW g, NEW t \in Txn,
         QueueOK(q, g), [txn |-> t, mode |-> "SHARED"] \in q,
         \A r \in q : r.txn # t => r.mode # "SHARED"
  PROVE  QueueOK({r \in q : r.txn # t} \cup {[txn |-> t, mode |-> "S_IX"]},
                 LM!upgrade_group(g, "INTENTION_EXCLUSIVE"))
<1> DEFINE old == [txn |-> t, mode |-> "SHARED"]
           new == [txn |-> t, mode |-> "S_IX"]
           q2 == {r \in q : r.txn # t} \cup {new}
<1>1. \A r \in q : r.txn # t => r.mode = "INTENTION_SHARED"
  BY DEF QueueOK, LM!Conflict, LM!Conflicts, LM!LockRequest, LM!LockMode
<1>2. \A r \in q : r.txn = t => r = old
  BY DEF QueueOK
<1>3. "SHARED" \in LM!Modes(q) /\ "EXLUCSIVE" \notin LM!Modes(q)
  BY <1>1, <1>2 DEF LM!Modes
<1>4. g \in {"S", "SIX"}
  BY <1>3 DEF QueueOK, LM!regroup
<1>5. "S_IX" \in LM!Modes(q2) /\ "EXLUCSIVE" \notin LM!Modes(q2)
  <2>1. LM!Modes(q2) = LM!Modes({r \in q : r.txn # t}) \cup {"S_IX"}
    BY ModesOfUnion
  <2>2. "EXLUCSIVE" \notin LM!Modes({r \in q : r.txn # t})
    BY <1>1 DEF LM!Modes
  <2> QED BY <2>1, <2>2
<1>6. LM!upgrade_group(g, "INTENTION_EXCLUSIVE") = LM!regroup(LM!Modes(q2))
  BY <1>4, <1>5 DEF LM!upgrade_group, LM!regroup
<1>7. \A a, b \in q2 : a.txn = b.txn => a = b
  BY DEF QueueOK
<1>8. \A a, b \in q2 : a.txn # b.txn => ~LM!Conflict(a.mode, b.mode)
  BY <1>1 DEF QueueOK, LM!Conflict, LM!Conflicts
<1> QED BY <1>6, <1>7, <1>8 DEF QueueOK

-----------------------------------------------------------------------------
(* The lock steps.                                                         *)

(* The calls the executors make.                                           *)
LockCall(lid, mode) ==
  \/ lid = Tab /\ mode \in {"SHARED", "INTENTION_EXCLUSIVE"}
  \/ lid \in Row /\ mode \in {"SHARED", "EXLUCSIVE"}

(* lock keeps every queue well formed.                                     *)
LEMMA LockKeepsTable ==
  ASSUME LM!TypeOK, LockTable, NEW t \in Txn, NEW lid, NEW mode, LockCall(lid, mode),
         LM!lock(t, lid, mode)
  PROVE  LM!TypeOK' /\ LockTable'
<1>0. lid \in LM!LockDataId /\ mode \in LM!LockMode /\ mode \in ModesOf(lid)
  BY LockIds DEF LockCall, LM!LockMode, ModesOf
<1>1. ASSUME NEW granted \in LM!LockMode, granted \in ModesOf(lid), LM!Install(t, lid, mode, granted),
             QueueOK({r \in request_queue[lid] : r.txn # t} \cup {[txn |-> t, mode |-> granted]},
                     LM!upgrade_group(group_lock_mode[lid], mode)),
             acquired' \in [Txn -> SUBSET (LM!LockDataId \X LM!LockMode)], UNCHANGED <<state, to_unlock>>
      PROVE  LM!TypeOK' /\ LockTable'
  <2>1. [txn |-> t, mode |-> granted] \in LM!LockRequest
    BY DEF LM!LockRequest
  <2>2. request_queue' \in [LM!LockDataId -> SUBSET LM!LockRequest]
    BY <1>0, <1>1, <2>1 DEF LM!Install, LM!TypeOK
  <2>3. group_lock_mode' \in [LM!LockDataId -> LM!GroupLockMode]
    BY <1>0, <1>1, GroupTypes DEF LM!Install, LM!TypeOK
  <2>4. lock_set' \in [Txn -> SUBSET LM!LockDataId]
    BY <1>0, <1>1 DEF LM!Install, LM!TypeOK
  <2>5. LM!TypeOK'
    BY <1>1, <2>2, <2>3, <2>4 DEF LM!TypeOK
  <2>6. \A x \in LM!LockDataId : x # lid =>
          request_queue'[x] = request_queue[x] /\ group_lock_mode'[x] = group_lock_mode[x]
    BY <1>0, <1>1 DEF LM!Install, LM!TypeOK
  <2>7. /\ request_queue'[lid] = {r \in request_queue[lid] : r.txn # t} \cup {[txn |-> t, mode |-> granted]}
        /\ group_lock_mode'[lid] = LM!upgrade_group(group_lock_mode[lid], mode)
    BY <1>0, <1>1 DEF LM!Install, LM!TypeOK
  <2>8. \A q \in request_queue'[lid] : q.mode \in ModesOf(lid)
    BY <1>0, <1>1, <2>7 DEF LockTable
  <2>9. QueueOK(request_queue'[lid], group_lock_mode'[lid])
    BY <1>1, <2>7
  <2>10. ASSUME NEW x \in LM!LockDataId
         PROVE  /\ QueueOK(request_queue'[x], group_lock_mode'[x])
                /\ \A q \in request_queue'[x] : q.mode \in ModesOf(x)
    BY <2>6, <2>8, <2>9 DEF LockTable
  <2> QED BY <2>5, <2>10 DEF LockTable
<1>2. CASE LM!Refused(t, lid, mode)
  BY <1>2 DEF LM!lock, LM!TypeOK, LM!TxnState, LockTable
<1>3. CASE ~LM!Refused(t, lid, mode)
  <2>1. /\ UNCHANGED <<state, to_unlock>>
        /\ acquired' = [acquired EXCEPT ![t] = @ \cup ({lid} \cap Record) \X {mode}]
    BY <1>3 DEF LM!lock
  <2>2. acquired' \in [Txn -> SUBSET (LM!LockDataId \X LM!LockMode)]
    BY <1>0, <2>1 DEF LM!TypeOK
  <2>3. request_queue[lid] \in SUBSET LM!LockRequest /\ QueueOK(request_queue[lid], group_lock_mode[lid])
    BY <1>0 DEF LM!TypeOK, LockTable
  <2>4. "EXLUCSIVE" \in LM!LockMode /\ "S_IX" \in LM!LockMode
    BY DEF LM!LockMode
  <2>5. CASE LM!AlreadyHeld(t, lid, mode)
    BY <2>1, <2>2, <2>5 DEF LM!AlreadyHeld, LM!TypeOK, LockTable
  <2>6. CASE LM!UpgradeToX(t, lid, mode)
    <3>1. (\A r \in request_queue[lid] : r.txn = t) /\ mode = "EXLUCSIVE"
      BY <1>3, <2>6 DEF LM!Refused, LM!UpgradeToX
    <3>2. QueueOK({r \in request_queue[lid] : r.txn # t} \cup {[txn |-> t, mode |-> "EXLUCSIVE"]},
                  LM!upgrade_group(group_lock_mode[lid], "EXLUCSIVE"))
      BY <2>3, <3>1, UpgradeToXKeepsQueue
    <3> QED BY <1>0, <1>1, <2>1, <2>2, <2>4, <2>6, <3>1, <3>2 DEF LM!UpgradeToX
  <2>7. CASE LM!UpgradeToSIX(t, lid, mode)
    <3>1. /\ [txn |-> t, mode |-> "SHARED"] \in request_queue[lid] /\ mode = "INTENTION_EXCLUSIVE"
          /\ \A r \in request_queue[lid] : r.txn # t => r.mode # "SHARED"
      BY <1>3, <2>7 DEF LM!Refused, LM!UpgradeToSIX, LM!HeldMode
    <3>2. QueueOK({r \in request_queue[lid] : r.txn # t} \cup {[txn |-> t, mode |-> "S_IX"]},
                  LM!upgrade_group(group_lock_mode[lid], "INTENTION_EXCLUSIVE"))
      BY <2>3, <3>1, UpgradeToSIXKeepsQueue
    <3>3. "S_IX" \in ModesOf(lid)
      BY <3>1 DEF LockCall, ModesOf
    <3> QED BY <1>0, <1>1, <2>1, <2>2, <2>4, <2>7, <3>1, <3>2, <3>3 DEF LM!UpgradeToSIX
  <2>8. CASE LM!Grant(t, lid, mode)
    <3>1. (\A r \in request_queue[lid] : r.txn # t) /\ LM!compatible(mode, group_lock_mode[lid])
      BY <1>3, <2>8 DEF LM!Refused, LM!Grant, LM!Holds
    <3>2. QueueOK({r \in request_queue[lid] : r.txn # t} \cup {[txn |-> t, mode |-> mode]},
                  LM!upgrade_group(group_lock_mode[lid], mode))
      BY <1>0, <2>3, <3>1, GrantKeepsQueue
    <3> QED BY <1>0, <1>1, <2>1, <2>2, <2>8, <3>2 DEF LM!Grant
  <2> QED BY <1>3, <2>5, <2>6, <2>7, <2>8 DEF LM!lock
<1> QED BY <1>2, <1>3

(* unlock takes out the requests of one transaction and recomputes.        *)
LEMMA UnlockKeepsTable ==
  ASSUME LM!TypeOK, LockTable, NEW t \in Txn, LM!UnlockNext(t)
  PROVE  LM!TypeOK' /\ LockTable'
<1>1. PICK lid \in to_unlock[t] : LM!unlock(t, lid) /\ to_unlock' = [to_unlock EXCEPT ![t] = @ \ {lid}]
  BY DEF LM!UnlockNext
<1>2. lid \in LM!LockDataId
  BY <1>1 DEF LM!TypeOK
<1>3. PICK left \in SUBSET LM!LockRequest : left = {r \in request_queue[lid] : r.txn # t}
  BY <1>2 DEF LM!TypeOK
<1>4. /\ request_queue' = [request_queue EXCEPT ![lid] = left]
      /\ group_lock_mode' = [group_lock_mode EXCEPT ![lid] = LM!regroup(LM!Modes(left))]
  BY <1>1, <1>3 DEF LM!unlock
<1>5. LM!regroup(LM!Modes(left)) \in LM!GroupLockMode
  BY <1>3, GroupTypes DEF LM!Modes, LM!LockRequest
<1>6. LM!TypeOK'
  BY <1>1, <1>2, <1>4, <1>5 DEF LM!UnlockNext, LM!TypeOK
<1>7. QueueOK(left, LM!regroup(LM!Modes(left))) /\ \A q \in left : q.mode \in ModesOf(lid)
  BY <1>2, <1>3 DEF LockTable, QueueOK
<1>8. ASSUME NEW x \in LM!LockDataId
      PROVE  /\ QueueOK(request_queue'[x], group_lock_mode'[x])
             /\ \A q \in request_queue'[x] : q.mode \in ModesOf(x)
  BY <1>2, <1>4, <1>7 DEF LM!TypeOK, LockTable
<1> QED BY <1>6, <1>8 DEF LockTable

(* No lock of u that an executor relies on gets lost or weaker.            *)
LocksKept(u) ==
  /\ Reading(u) => Reading(u)'
  /\ Announced(u) => Announced(u)'
  /\ \A r \in Row : /\ ReadLocked(u, r) => ReadLocked(u, r)'
                    /\ WriteLocked(u, r) => WriteLocked(u, r)'

(* lock weakens nothing: what t holds on lid grows from S to X or S_IX.    *)
LEMMA LockKeepsLocks ==
  ASSUME LM!TypeOK, LockTable, NEW t \in Txn, NEW lid, NEW mode, LockCall(lid, mode),
         LM!lock(t, lid, mode), NEW u \in Txn
  PROVE  LocksKept(u)
<1>0. lid \in LM!LockDataId /\ (lid = Tab \/ lid \in Row) /\ Tab \notin Row
  BY LockIds DEF LockCall
<1>1. CASE UNCHANGED request_queue
  BY <1>1 DEF LocksKept, Reading, Announced, ReadLocked, WriteLocked, LM!HeldMode
<1>2. ASSUME NEW granted, LM!Install(t, lid, mode, granted),
             LM!HeldMode(t, lid, "SHARED") =>
               (lid = Tab /\ granted = "S_IX") \/ (lid # Tab /\ granted = "EXLUCSIVE"),
             \A m : LM!HeldMode(t, lid, m) => m = "SHARED"
      PROVE  LocksKept(u)
  <2>1. ASSUME NEW x \in LM!LockDataId, NEW m, LM!HeldMode(u, x, m), ~(u = t /\ x = lid)
        PROVE  LM!HeldMode(u, x, m)'
    BY <1>0, <1>2, <2>1 DEF LM!Install, LM!HeldMode, LM!TypeOK
  <2>2. LM!HeldMode(t, lid, granted)'
    BY <1>0, <1>2 DEF LM!Install, LM!HeldMode, LM!TypeOK
  <2>3. Tab \in LM!LockDataId /\ \A r \in Row : r \in LM!LockDataId
    BY LockIds
  <2>4. CASE u # t
    BY <2>1, <2>3, <2>4 DEF LocksKept, Reading, Announced, ReadLocked, WriteLocked
  <2>5. CASE u = t /\ lid = Tab
    BY <1>0, <1>2, <2>1, <2>2, <2>3, <2>5 DEF LocksKept, Reading, Announced, ReadLocked, WriteLocked
  <2>6. CASE u = t /\ lid \in Row
    BY <1>0, <1>2, <2>1, <2>2, <2>3, <2>6 DEF LocksKept, Reading, Announced, ReadLocked, WriteLocked
  <2> QED BY <1>0, <2>4, <2>5, <2>6
<1>3. \A m : LM!HeldMode(t, lid, "SHARED") /\ LM!HeldMode(t, lid, m) => m = "SHARED"
  <2>1. ASSUME NEW m, LM!HeldMode(t, lid, "SHARED"), LM!HeldMode(t, lid, m) PROVE m = "SHARED"
    <3>1. [txn |-> t, mode |-> m] = [txn |-> t, mode |-> "SHARED"]
      BY <1>0, <2>1 DEF LockTable, QueueOK, LM!HeldMode
    <3> QED BY <3>1
  <2> QED BY <2>1
<1>4. CASE LM!UpgradeToX(t, lid, mode)
  BY <1>0, <1>2, <1>3, <1>4 DEF LM!UpgradeToX, LockCall
<1>5. CASE LM!UpgradeToSIX(t, lid, mode)
  <2>1. lid = Tab /\ LM!HeldMode(t, lid, "SHARED") /\ LM!Install(t, lid, mode, "S_IX")
    BY <1>5 DEF LM!UpgradeToSIX, LockCall
  <2>2. \A m : LM!HeldMode(t, lid, m) => m = "SHARED"
    BY <1>3, <2>1
  <2> QED BY <1>2, <2>1, <2>2
<1>6. CASE LM!Grant(t, lid, mode)
  <2>1. \A m : ~LM!HeldMode(t, lid, m)
    BY <1>6 DEF LM!Grant, LM!Holds, LM!HeldMode
  <2>2. LM!Install(t, lid, mode, mode)
    BY <1>6 DEF LM!Grant
  <2>3. ~LM!HeldMode(t, lid, "SHARED")
    BY <2>1
  <2> QED BY <1>2, <2>1, <2>2, <2>3
<1> QED BY <1>1, <1>4, <1>5, <1>6 DEF LM!lock, LM!AlreadyHeld

(* unlock takes away only locks of the transaction that releases.          *)
LEMMA UnlockKeepsLocks ==
  ASSUME LM!TypeOK, NEW t \in Txn, LM!UnlockNext(t), NEW u \in Txn, u # t
  PROVE  LocksKept(u)
<1>1. PICK lid \in to_unlock[t] : LM!unlock(t, lid)
  BY DEF LM!UnlockNext
<1>2. ASSUME NEW x \in LM!LockDataId, NEW m, LM!HeldMode(u, x, m)
      PROVE  LM!HeldMode(u, x, m)'
  BY <1>1, <1>2 DEF LM!unlock, LM!HeldMode, LM!TypeOK
<1> QED BY <1>2, LockIds DEF LocksKept, Reading, Announced, ReadLocked, WriteLocked

(* What a transaction holds once lock has returned true.  The exception is *)
(* S on the table: over IX, true is all it gets.                           *)
LEMMA LockGets ==
  ASSUME LM!TypeOK, LockTable, NEW t \in Txn, NEW lid, NEW mode, LockCall(lid, mode),
         LM!lock(t, lid, mode), state'[t] # "failed"
  PROVE  /\ lid = Tab /\ mode = "SHARED" =>
              Reading(t)' \/ LM!HeldMode(t, Tab, "INTENTION_EXCLUSIVE")
         /\ lid = Tab /\ mode = "INTENTION_EXCLUSIVE" => Announced(t)'
         /\ lid \in Row /\ mode = "SHARED" => ReadLocked(t, lid)'
         /\ lid \in Row /\ mode = "EXLUCSIVE" => WriteLocked(t, lid)'
<1>0. lid \in LM!LockDataId /\ (lid = Tab \/ lid \in Row) /\ Tab \notin Row
  BY LockIds DEF LockCall
<1>1. ~LM!Refused(t, lid, mode)
  BY DEF LM!lock, LM!TypeOK
<1>2. CASE LM!AlreadyHeld(t, lid, mode)
  <2>1. PICK r \in request_queue[lid] : r.txn = t
    BY <1>2 DEF LM!AlreadyHeld, LM!Holds
  <2>2. r = [txn |-> t, mode |-> r.mode] /\ r.mode \in ModesOf(lid)
    BY <1>0, <2>1 DEF LM!TypeOK, LM!LockRequest, LockTable
  <2>3. LM!HeldMode(t, lid, r.mode) /\ LM!HeldMode(t, lid, r.mode)'
    BY <1>2, <2>2 DEF LM!AlreadyHeld, LM!HeldMode
  <2>4. mode \in {"EXLUCSIVE", "INTENTION_EXCLUSIVE"} => r.mode # "SHARED"
    BY <1>2, <2>3 DEF LM!AlreadyHeld
  <2>5. CASE lid = Tab
    <3>1. r.mode \in {"SHARED", "INTENTION_EXCLUSIVE", "S_IX"}
      BY <2>2, <2>5 DEF ModesOf
    <3> QED BY <1>0, <2>3, <2>4, <2>5, <3>1 DEF Reading, Announced
  <2>6. CASE lid \in Row
    <3>1. r.mode \in {"SHARED", "EXLUCSIVE"}
      BY <1>0, <2>2, <2>6 DEF ModesOf
    <3> QED BY <1>0, <2>3, <2>4, <2>6, <3>1 DEF ReadLocked, WriteLocked
  <2> QED BY <1>0, <2>5, <2>6
<1>3. ASSUME NEW granted, LM!Install(t, lid, mode, granted)
      PROVE  LM!HeldMode(t, lid, granted)'
  BY <1>0, <1>3 DEF LM!Install, LM!HeldMode, LM!TypeOK
<1>4. CASE LM!UpgradeToX(t, lid, mode)
  BY <1>0, <1>3, <1>4 DEF LM!UpgradeToX, ReadLocked, WriteLocked
<1>5. CASE LM!UpgradeToSIX(t, lid, mode)
  BY <1>0, <1>3, <1>5 DEF LM!UpgradeToSIX, Reading, Announced, LockCall
<1>6. CASE LM!Grant(t, lid, mode)
  BY <1>0, <1>3, <1>6 DEF LM!Grant, Reading, Announced, ReadLocked, WriteLocked
<1> QED BY <1>1, <1>2, <1>4, <1>5, <1>6 DEF LM!lock

(* What lock does to the states.                                           *)
LEMMA LockStates ==
  ASSUME LM!TypeOK, NEW t \in Txn, NEW lid, NEW mode, LM!lock(t, lid, mode)
  PROVE  /\ state[t] = "GROWING" /\ state'[t] \in {"GROWING", "failed"}
         /\ \A u \in Txn : u # t => state'[u] = state[u]
BY DEF LM!lock, LM!TypeOK

(* Two transactions never rely on conflicting locks.                       *)
Exclusion ==
  \A t, u \in Txn : t # u =>
    /\ ~(Reading(t) /\ Announced(u))
    /\ \A r \in Row : ~(ReadLocked(t, r) /\ WriteLocked(u, r))

(* Exclusion follows from the compatibility of granted modes.              *)
LEMMA LockExclusion == LM!TypeOK /\ LockTable => Exclusion
<1> SUFFICES ASSUME LM!TypeOK, LockTable, NEW t \in Txn, NEW u \in Txn, t # u
             PROVE  /\ ~(Reading(t) /\ Announced(u))
                    /\ \A r \in Row : ~(ReadLocked(t, r) /\ WriteLocked(u, r))
  BY DEF Exclusion
<1>1. ASSUME NEW lid \in LM!LockDataId, NEW m, NEW n, LM!HeldMode(t, lid, m), LM!HeldMode(u, lid, n)
      PROVE  ~LM!Conflict(m, n)
  <2>1. \A a, b \in request_queue[lid] : a.txn # b.txn => ~LM!Conflict(a.mode, b.mode)
    BY DEF LockTable, QueueOK
  <2> QED BY <1>1, <2>1 DEF LM!HeldMode
<1>2. /\ LM!Conflict("SHARED", "INTENTION_EXCLUSIVE") /\ LM!Conflict("SHARED", "S_IX")
      /\ LM!Conflict("S_IX", "INTENTION_EXCLUSIVE") /\ LM!Conflict("S_IX", "S_IX")
      /\ LM!Conflict("SHARED", "EXLUCSIVE") /\ LM!Conflict("EXLUCSIVE", "EXLUCSIVE")
  BY DEF LM!Conflict, LM!Conflicts
<1>3. ~(Reading(t) /\ Announced(u))
  BY <1>1, <1>2, LockIds DEF Reading, Announced
<1>4. \A r \in Row : ~(ReadLocked(t, r) /\ WriteLocked(u, r))
  BY <1>1, <1>2, LockIds DEF ReadLocked, WriteLocked
<1> QED BY <1>3, <1>4

(* The same after a step.                                                  *)
LEMMA LockExclusionNext == LM!TypeOK' /\ LockTable' => Exclusion'
BY LockExclusion, PTL

-----------------------------------------------------------------------------
(* The inductive invariant.                                                *)
WriteRecord == [row: Row, old: Value \cup {Empty}]

PcOK(p) ==
  /\ p.at \in {"idle", "scan", "intend", "write", "insert", "predicted", "lockrow", "undo"}
  /\ p.at = "idle" <=> p = Idle
  /\ p.at = "undo" <=> p = Undo
  /\ p.at = "scan" => p.row \in Row /\ (p.stmt = Select \/ p.stmt.new \in Value \cup {Empty})
  /\ p.at \in {"intend", "write"} => p.stmt.new \in Value \cup {Empty}
  /\ p.at \in {"insert", "predicted"} => p.new \in Value
  /\ p.at = "predicted" => p.row \in Row \cup {NewPage}
  /\ p.at = "lockrow" => p.row \in Row

Types ==
  /\ rows \in [Row -> Value \cup {Empty}]
  /\ DOMAIN pc = Txn /\ \A t \in Txn : PcOK(pc[t])
  /\ write_set \in [Txn -> Seq(WriteRecord)]
  /\ view \in [Txn -> [Row -> Value \cup {Empty, Unknown}]]
  /\ ops \in [Txn -> 0..MaxOps] /\ begun \in 0..MaxTxns
  /\ bare \in [Txn -> SUBSET Row] /\ hit \subseteq Row /\ ix_scan \in BOOLEAN

(* Has t changed row r and not yet committed or undone it?                 *)
Wrote(t, r) == \E i \in DOMAIN write_set[t] : write_set[t][i].row = r

(* Where a transaction is in its statements and in its life.               *)
Life(t) ==
  /\ pc[t].at \notin {"idle", "undo"} => state[t] = "GROWING"
  /\ pc[t].at = "undo" => state[t] \in {"GROWING", "failed"}
  /\ state[t] = "failed" => pc[t].at = "undo"
  /\ write_set[t] # <<>> => state[t] \in {"GROWING", "failed"}
  /\ state[t] = "none" => \A r \in Row : view[t][r] = Unknown

(* Who changes rows has announced it, and has locked what it changed; what *)
(* it changed it knows, so hit keeps a row as long as a write record or    *)
(* the second half of an INSERT names it.                                  *)
Writer(t) ==
  /\ pc[t].at \in {"write", "insert", "predicted", "lockrow"} => Announced(t)
  /\ pc[t].at = "lockrow" => view[t][pc[t].row] \in Value
  /\ \A r \in Row : Wrote(t, r) => Announced(t) /\ WriteLocked(t, r) /\ view[t][r] # Unknown

(* A row seen other than bare is protected by a lock of its own, unless an *)
(* INSERT has written over it.                                             *)
Own(t) ==
  InProgress(t) => \A r \in Row :
    \/ view[t][r] = Unknown \/ r \in bare[t] \/ r \in hit
    \/ view[t][r] = rows[r] /\ rows[r] # Empty /\ ReadLocked(t, r)

(* Without a scan over IX: a scan holds the table ...                      *)
Scanner(t) == pc[t].at \in {"scan", "intend", "write"} => Reading(t)

(* ... so what a transaction has seen is protected by S or S_IX on the     *)
(* table, unless it is its own new row, locked or about to be.             *)
Seen(t) ==
  InProgress(t) => \A r \in Row :
    \/ view[t][r] = Unknown \/ r \in hit
    \/ /\ view[t][r] = rows[r]
       /\ \/ Reading(t)
          \/ rows[r] # Empty /\ (WriteLocked(t, r) \/ (pc[t].at = "lockrow" /\ pc[t].row = r))

(* A transaction that has not scanned has only inserted, each row once.    *)
Undoable(t) ==
  Reading(t) \/ \A i \in DOMAIN write_set[t] : write_set[t][i].row \notin hit =>
    /\ rows[write_set[t][i].row] # Empty
    /\ \A j \in DOMAIN write_set[t] : write_set[t][i].row = write_set[t][j].row => i = j

(* The row between the two halves of an INSERT is nobody else's.           *)
Fresh(t) ==
  pc[t].at = "lockrow" /\ pc[t].row \notin hit =>
    /\ \A u \in Txn \ {t} : ~(pc[u].at = "lockrow" /\ pc[u].row = pc[t].row) /\ ~Wrote(u, pc[t].row)
    /\ Reading(t) \/ ~Wrote(t, pc[t].row)

Good(t) == Life(t) /\ Writer(t) /\ Own(t)
Apart(t) == Scanner(t) /\ Seen(t) /\ Undoable(t) /\ Fresh(t)

IInv ==
  /\ LM!TypeOK /\ LockTable /\ Types
  /\ \A t \in Txn : Good(t)
  /\ ~ix_scan => \A t \in Txn : Apart(t)

(* The invariant gives isolation.                                          *)
LEMMA IInvIsolated == IInv => Isolated
<1> SUFFICES ASSUME IInv PROVE Isolated
  OBVIOUS
<1>1. TypeOK
  <2>1. ASSUME NEW t \in Txn PROVE \A i \in DOMAIN write_set[t] : write_set[t][i] \in WriteRecord
    BY DEF IInv, Types
  <2> QED BY <2>1 DEF IInv, Types, TypeOK, PcOK, WriteRecord
<1>2. ReadsStable
  BY DEF IInv, ReadsStable, Good, Own, Apart, Seen, Types
<1> QED BY <1>1, <1>2 DEF Isolated

-----------------------------------------------------------------------------
(* What any step of t leaves of the others.                                *)

(* t may change row r.                                                     *)
Touches(t, r) ==
  /\ Announced(t)
  /\ \/ pc[t].at = "write" /\ WriteLocked(t, r)'
     \/ pc[t].at = "predicted" /\ (rows[r] = Empty \/ r \in hit') /\ rows'[r] # Empty
     \/ pc[t].at = "undo" /\ Wrote(t, r)

(* An overwritten row stays marked while a transaction knows it.           *)
HitKept == \A u \in Txn : \A r \in hit : view'[u][r] # Unknown => r \in hit'

Frame(t) ==
  /\ LM!TypeOK' /\ LockTable' /\ Types'
  /\ \A u \in Txn : state[u] # "releasing" => LocksKept(u)
  /\ \A u \in Txn \ {t} : /\ pc'[u] = pc[u] /\ view'[u] = view[u] /\ write_set'[u] = write_set[u]
                          /\ bare'[u] = bare[u] /\ state'[u] = state[u]
  /\ \A r \in Row : rows'[r] = rows[r] \/ Touches(t, r)
  /\ \A r \in Row : Wrote(t, r)' => \/ Wrote(t, r) \/ pc[t].at = "write"
                                    \/ pc[t].at = "lockrow" /\ pc[t].row = r
  /\ pc'[t].at = "lockrow" => \/ pc[t].at = "predicted" /\ rows[pc'[t].row] = Empty
                              \/ pc'[t].row \in hit' \/ pc'[t] = pc[t]
  /\ HitKept

(* The conjuncts of the other transactions survive every step of t.        *)
LEMMA OthersKeep ==
  ASSUME IInv, NEW t \in Txn, Frame(t), NEW u \in Txn, u # t
  PROVE  Good(u)' /\ (~ix_scan => Apart(u)')
<1>0. /\ pc'[u] = pc[u] /\ view'[u] = view[u] /\ write_set'[u] = write_set[u]
      /\ bare'[u] = bare[u] /\ state'[u] = state[u]
  BY DEF Frame
<1>1. Good(u) /\ Good(t) /\ Types /\ Types' /\ PcOK(pc[u]) /\ PcOK(pc[t])
  BY DEF IInv, Types, Frame
<1>2. Exclusion /\ Exclusion'
  BY LockExclusion, LockExclusionNext DEF IInv, Frame
<1>3. state[u] # "releasing" => LocksKept(u)
  BY DEF Frame
<1>4. \A r \in Row : Wrote(u, r)' <=> Wrote(u, r)
  BY <1>0 DEF Wrote
<1>5. (\E r \in Row : Wrote(u, r)) => state[u] # "releasing"
  BY <1>1 DEF Good, Life, Wrote, Types
<1>6. Life(u)'
  BY <1>0, <1>1 DEF Good, Life
<1>5a. \A r \in Row : r \in hit /\ view[u][r] # Unknown => r \in hit'
  BY <1>0 DEF Frame, HitKept
<1>7. Writer(u)'
  BY <1>0, <1>1, <1>3, <1>4, <1>5 DEF Good, Life, Writer, LocksKept, PcOK
<1>8. \A r \in Row : ReadLocked(u, r) /\ state[u] # "releasing" /\ rows[r] # Empty
                   => rows'[r] = rows[r] \/ r \in hit'
  <2> SUFFICES ASSUME NEW r \in Row, ReadLocked(u, r), state[u] # "releasing", rows[r] # Empty, Touches(t, r)
               PROVE  r \in hit'
    BY DEF Frame
  <2>1. ReadLocked(u, r)'
    BY <1>3 DEF LocksKept
  <2>2. ~WriteLocked(t, r) /\ ~WriteLocked(t, r)'
    BY <1>2, <2>1 DEF Exclusion
  <2>3. ~Wrote(t, r)
    BY <1>1, <2>2 DEF Good, Writer
  <2> QED BY <2>2, <2>3 DEF Touches
<1>9. Own(u)'
  <2> SUFFICES ASSUME InProgress(u)', NEW r \in Row
               PROVE  (\/ view[u][r] = Unknown \/ r \in bare[u] \/ r \in hit
                       \/ view[u][r] = rows[r] /\ rows[r] # Empty /\ ReadLocked(u, r))'
    BY DEF Own
  <2>1. InProgress(u) /\ state[u] # "releasing"
    BY <1>0 DEF InProgress
  <2>2. \/ view[u][r] = Unknown \/ r \in bare[u] \/ r \in hit
        \/ view[u][r] = rows[r] /\ rows[r] # Empty /\ ReadLocked(u, r)
    BY <1>1, <2>1 DEF Good, Own
  <2>3. ReadLocked(u, r) => ReadLocked(u, r)'
    BY <1>3, <2>1 DEF LocksKept
  <2> QED BY <1>0, <1>5a, <1>8, <2>1, <2>2, <2>3
<1>10. ASSUME ~ix_scan PROVE Apart(u)'
  <2>1. Apart(u) /\ Apart(t)
    BY <1>10 DEF IInv
  <2>2. Scanner(u)'
    BY <1>0, <1>1, <1>3, <2>1 DEF Scanner, Apart, Good, Life, LocksKept, PcOK
  <2>3. ASSUME NEW r \in Row, Reading(u), state[u] # "releasing" PROVE rows'[r] = rows[r]
    <3>1. ~Announced(t)
      BY <1>2, <2>3 DEF Exclusion
    <3> QED BY <3>1 DEF Frame, Touches
  <2>4. ASSUME NEW r \in Row, rows[r] # Empty, pc[u].at = "lockrow", pc[u].row = r, r \notin hit
        PROVE  rows'[r] = rows[r] \/ r \in hit'
    <3>1. Announced(u)
      BY <1>1, <2>4 DEF Good, Writer
    <3>2. ~Reading(t)
      BY <1>2, <3>1 DEF Exclusion
    <3>3. pc[t].at # "write"
      BY <2>1, <3>2 DEF Apart, Scanner
    <3>4. ~Wrote(t, r)
      BY <2>1, <2>4 DEF Apart, Fresh
    <3> QED BY <2>4, <3>3, <3>4 DEF Frame, Touches
  <2>5. Seen(u)'
    <3> SUFFICES ASSUME InProgress(u)', NEW r \in Row
                 PROVE  (\/ view[u][r] = Unknown \/ r \in hit
                         \/ /\ view[u][r] = rows[r]
                            /\ \/ Reading(u)
                               \/ /\ rows[r] # Empty
                                  /\ WriteLocked(u, r) \/ (pc[u].at = "lockrow" /\ pc[u].row = r))'
      BY DEF Seen
    <3>1. InProgress(u) /\ state[u] # "releasing"
      BY <1>0 DEF InProgress
    <3>2. \/ view[u][r] = Unknown \/ r \in hit
          \/ /\ view[u][r] = rows[r]
             /\ \/ Reading(u)
                \/ rows[r] # Empty /\ (WriteLocked(u, r) \/ (pc[u].at = "lockrow" /\ pc[u].row = r))
      BY <2>1, <3>1 DEF Apart, Seen
    <3>3. (Reading(u) => Reading(u)') /\ (WriteLocked(u, r) => WriteLocked(u, r)' /\ ReadLocked(u, r))
      BY <1>3, <3>1 DEF LocksKept, WriteLocked, ReadLocked
    <3> QED BY <1>0, <1>5a, <1>8, <2>3, <2>4, <3>1, <3>2, <3>3
  <2>6. Undoable(u)'
    <3>1. CASE write_set[u] = <<>>
      BY <1>0, <3>1 DEF Undoable
    <3>2. CASE write_set[u] # <<>> /\ Reading(u)
      BY <1>1, <1>3, <3>2 DEF Good, Life, LocksKept, Undoable
    <3>3. CASE write_set[u] # <<>> /\ ~Reading(u)
      <4>1. state[u] # "releasing"
        BY <1>1, <3>3 DEF Good, Life
      <4>2. ASSUME NEW i \in DOMAIN write_set[u], write_set[u][i].row \notin hit'
            PROVE  write_set[u][i].row \notin hit /\ rows'[write_set[u][i].row] # Empty
        <5>1. write_set[u][i].row \in Row
          <6>1. write_set[u] \in Seq(WriteRecord)
            BY <1>1 DEF Types
          <6>2. write_set[u][i] \in WriteRecord
            BY <6>1
          <6> QED BY <6>2 DEF WriteRecord
        <5>2. Wrote(u, write_set[u][i].row)
          BY DEF Wrote
        <5>3. ReadLocked(u, write_set[u][i].row)
          BY <1>1, <5>1, <5>2 DEF Good, Writer, WriteLocked, ReadLocked
        <5>4. write_set[u][i].row \notin hit
          BY <1>1, <1>5a, <4>2, <5>1, <5>2 DEF Good, Writer
        <5>5. rows[write_set[u][i].row] # Empty
          BY <2>1, <3>3, <5>4 DEF Apart, Undoable
        <5> QED BY <1>8, <4>1, <4>2, <5>1, <5>3, <5>4, <5>5
      <4> QED BY <1>0, <2>1, <3>3, <4>2 DEF Apart, Undoable
    <3> QED BY <3>1, <3>2, <3>3
  <2>7. ASSUME pc[u].at = "lockrow", pc[u].row \notin hit' PROVE Fresh(u)'
    <3>1. PICK r \in Row : r = pc[u].row
      BY <1>1, <2>7 DEF PcOK
    <3>1a. view[u][r] \in Value /\ r \notin hit
      BY <1>1, <1>5a, <2>7, <3>1, TxnConstants DEF Good, Writer
    <3>2. /\ \A w \in Txn \ {u} : ~(pc[w].at = "lockrow" /\ pc[w].row = r) /\ ~Wrote(w, r)
          /\ Reading(u) \/ ~Wrote(u, r)
      BY <2>1, <2>7, <3>1, <3>1a DEF Apart, Fresh
    <3>3. state[u] = "GROWING" /\ InProgress(u)
      BY <1>1, <2>7 DEF Good, Life, InProgress, PcOK
    <3>4. rows[r] # Empty
      BY <2>1, <3>1a, <3>3, TxnConstants DEF Apart, Seen
    <3>5. Announced(u) /\ ~Reading(t)
      BY <1>1, <1>2, <2>7 DEF Good, Writer, Exclusion
    <3>6. pc[t].at # "write"
      BY <2>1, <3>5 DEF Apart, Scanner
    <3>7. ~Wrote(t, r)'
      BY <3>2, <3>6 DEF Frame
    <3>8. ~(pc'[t].at = "lockrow" /\ pc'[t].row = r)
      BY <2>7, <3>1, <3>2, <3>4 DEF Frame
    <3>9. ASSUME NEW w \in Txn \ {u} PROVE ~(pc'[w].at = "lockrow" /\ pc'[w].row = r) /\ ~Wrote(w, r)'
      <4>1. CASE w = t
        BY <3>7, <3>8, <4>1
      <4>2. CASE w # t
        <5>1. pc'[w] = pc[w] /\ write_set'[w] = write_set[w]
          BY <4>2 DEF Frame
        <5> QED BY <3>2, <5>1 DEF Wrote
      <4> QED BY <4>1, <4>2
    <3>10. (Reading(u) \/ ~Wrote(u, r))'
      BY <1>3, <1>4, <3>2, <3>3 DEF LocksKept
    <3>11. pc'[u].row = r
      BY <1>0, <3>1
    <3> QED BY <3>9, <3>10, <3>11 DEF Fresh
  <2>8. Fresh(u)'
    BY <1>0, <2>7 DEF Fresh
  <2> QED BY <2>2, <2>5, <2>6, <2>8 DEF Apart
<1> QED BY <1>6, <1>7, <1>9, <1>10 DEF Good

(* A step of t keeps the invariant if it keeps the conjuncts of t.         *)
LEMMA FrameKeeps ==
  ASSUME IInv, NEW t \in Txn, Frame(t), Good(t)', ~ix_scan' => ~ix_scan /\ Apart(t)'
  PROVE  IInv'
<1>1. \A u \in Txn : Good(u)'
  BY OthersKeep
<1>2. ~ix_scan' => \A u \in Txn : Apart(u)'
  BY OthersKeep
<1> QED BY <1>1, <1>2 DEF IInv, Frame

-----------------------------------------------------------------------------
(* The history variables.                                                  *)
History(t) ==
  /\ bare' = [bare EXCEPT ![t] = {r \in @ : view'[t][r] = view[t][r]}
                                 \cup {r \in Row : view'[t][r] = Empty \/ Fills(t, r)}]
  /\ hit' = {r \in Row : /\ r \in hit \/ (Fills(t, r) /\ rows[r] # Empty)
                        /\ \E u \in Txn : view'[u][r] # Unknown}
  /\ ix_scan' = (ix_scan \/ (/\ pc[t] = Idle /\ pc'[t].at = "scan"
                             /\ LM!HeldMode(t, Tab, "INTENTION_EXCLUSIVE")))

(* What they record.                                                       *)
LEMMA HistoryFacts ==
  ASSUME Types, NEW t \in Txn, History(t)
  PROVE  /\ bare' \in [Txn -> SUBSET Row] /\ hit' \subseteq Row /\ ix_scan' \in BOOLEAN
         /\ \A u \in Txn \ {t} : bare'[u] = bare[u]
         /\ ~ix_scan' => ~ix_scan
         /\ \A r \in Row :
              /\ view'[t][r] = Empty => r \in bare'[t]
              /\ r \in bare[t] /\ view'[t][r] = view[t][r] => r \in bare'[t]
              /\ Fills(t, r) => r \in bare'[t]
              /\ Fills(t, r) /\ rows[r] # Empty /\ view'[t][r] # Unknown => r \in hit'
         /\ HitKept
         /\ ~ix_scan' /\ pc[t] = Idle /\ pc'[t].at = "scan" => ~LM!HeldMode(t, Tab, "INTENTION_EXCLUSIVE")
<1>1. ix_scan' \in BOOLEAN /\ (~ix_scan' => ~ix_scan)
  BY DEF History, Types
<1>2. ~ix_scan' /\ pc[t] = Idle /\ pc'[t].at = "scan" => ~LM!HeldMode(t, Tab, "INTENTION_EXCLUSIVE")
  BY DEF History
<1>3. bare' \in [Txn -> SUBSET Row] /\ \A u \in Txn \ {t} : bare'[u] = bare[u]
  BY DEF History, Types
<1>4. bare'[t] = {r \in bare[t] : view'[t][r] = view[t][r]}
                 \cup {r \in Row : view'[t][r] = Empty \/ Fills(t, r)}
  BY DEF History, Types
<1>5. /\ hit' \subseteq Row /\ HitKept
      /\ \A r \in Row : Fills(t, r) /\ rows[r] # Empty /\ view'[t][r] # Unknown => r \in hit'
  BY DEF History, Types, HitKept
<1> QED BY <1>1, <1>2, <1>3, <1>4, <1>5

(* The fields of a program counter.                                        *)
LEMMA PcFields ==
  /\ Idle.at = "idle" /\ PcOK(Idle) /\ Undo.at = "undo" /\ PcOK(Undo) /\ Idle # Undo
  /\ \A s, r : Scan(s, r).at = "scan" /\ Scan(s, r).stmt = s /\ Scan(s, r).row = r
  /\ \A s : Intend(s).at = "intend" /\ Intend(s).stmt = s
  /\ \A s : Write(s).at = "write" /\ Write(s).stmt = s
  /\ \A v : InsertInto(v).at = "insert" /\ InsertInto(v).new = v
  /\ \A v, r : /\ InsertRow(v, r).at = "predicted" /\ InsertRow(v, r).new = v
              /\ InsertRow(v, r).row = r
  /\ \A r : InsertLock(r).at = "lockrow" /\ InsertLock(r).row = r
BY DEF Idle, Undo, Scan, Intend, Write, InsertInto, InsertRow, InsertLock, PcOK

(* The counters a statement may move to.                                   *)
LEMMA PcTypes ==
  /\ \A s : \A r \in Row : s = Select \/ s.new \in Value \cup {Empty} => PcOK(Scan(s, r))
  /\ \A s : s.new \in Value \cup {Empty} => PcOK(Intend(s)) /\ PcOK(Write(s))
  /\ \A v \in Value : PcOK(InsertInto(v)) /\ \A r \in Row \cup {NewPage} : PcOK(InsertRow(v, r))
  /\ \A r \in Row : PcOK(InsertLock(r))
<1>1. ASSUME NEW s, NEW r \in Row, s = Select \/ s.new \in Value \cup {Empty} PROVE PcOK(Scan(s, r))
  <2>1. Scan(s, r) # Idle /\ Scan(s, r) # Undo
    BY DEF Scan, Idle, Undo
  <2> QED BY <1>1, <2>1, PcFields DEF PcOK
<1>2. ASSUME NEW s, s.new \in Value \cup {Empty} PROVE PcOK(Intend(s)) /\ PcOK(Write(s))
  <2>1. Intend(s) # Idle /\ Intend(s) # Undo /\ Write(s) # Idle /\ Write(s) # Undo
    BY PcFields, Zenon
  <2> QED BY <1>2, <2>1, PcFields DEF PcOK
<1>3. ASSUME NEW v \in Value PROVE PcOK(InsertInto(v))
  <2>1. InsertInto(v) # Idle /\ InsertInto(v) # Undo
    BY PcFields, Zenon
  <2> QED BY <2>1, PcFields DEF PcOK
<1>3a. ASSUME NEW v \in Value, NEW r \in Row \cup {NewPage} PROVE PcOK(InsertRow(v, r))
  <2>1. InsertRow(v, r) # Idle /\ InsertRow(v, r) # Undo
    BY DEF InsertRow, Idle, Undo
  <2> QED BY <2>1, PcFields DEF PcOK
<1>4. ASSUME NEW r \in Row PROVE PcOK(InsertLock(r))
  <2>1. InsertLock(r) # Idle /\ InsertLock(r) # Undo
    BY PcFields, Zenon
  <2> QED BY <2>1, PcFields DEF PcOK
<1> QED BY <1>1, <1>2, <1>3, <1>3a, <1>4

(* A step that moves the counter of t, changes no row and adds no view.    *)
Moves(t, p) ==
  /\ LM!TypeOK' /\ LockTable'
  /\ \A u \in Txn : state[u] # "releasing" => LocksKept(u)
  /\ \A u \in Txn \ {t} : state'[u] = state[u]
  /\ DOMAIN pc' = Txn /\ pc'[t] = p /\ PcOK(p) /\ \A u \in Txn \ {t} : pc'[u] = pc[u]
  /\ ops' \in [Txn -> 0..MaxOps] /\ begun' \in 0..MaxTxns
  /\ rows' = rows
  /\ History(t)

(* It leaves the rest alone.                                               *)
LEMMA MovesFrame ==
  ASSUME IInv, NEW t \in Txn, NEW p, Moves(t, p), p.at # "lockrow",
         view' = view, write_set' = write_set
  PROVE  Frame(t) /\ pc'[t] = p
<1>1. Types
  BY DEF IInv
<1>2. pc'[t] = p /\ DOMAIN pc' = Txn /\ \A u \in Txn \ {t} : pc'[u] = pc[u]
  BY <1>1 DEF Types, Moves
<1>3. \A u \in Txn : PcOK(pc'[u])
  BY <1>1, <1>2 DEF Types, Moves
<1>4. Types'
  BY <1>1, <1>2, <1>3, HistoryFacts DEF Types, Moves
<1>5. \A u \in Txn \ {t} : bare'[u] = bare[u]
  BY <1>1, HistoryFacts DEF Moves
<1>6. \A r \in Row : Wrote(t, r)' => Wrote(t, r)
  BY DEF Wrote
<1>7. HitKept
  BY <1>1, HistoryFacts DEF Moves
<1> QED BY <1>2, <1>4, <1>5, <1>6, <1>7 DEF Frame, Moves

(* What t has to undo is undoable while its records and the rows stay.     *)
LEMMA UndoableKept ==
  ASSUME NEW t \in Txn, Types, Writer(t), Undoable(t), HitKept, Reading(t) => Reading(t)',
         rows' = rows, view' = view, write_set' = write_set
  PROVE  Undoable(t)'
<1>1. ASSUME NEW i \in DOMAIN write_set[t], write_set[t][i].row \in hit
      PROVE  write_set[t][i].row \in hit'
  BY <1>1 DEF Types, Writer, Wrote, HitKept
<1> QED BY <1>1 DEF Undoable

(* lock throws: the session goes to abort.                                 *)
LEMMA FailKeeps ==
  ASSUME IInv, NEW t \in Txn, Moves(t, Undo), state'[t] \in {"GROWING", "failed"},
         state[t] = "GROWING", view' = view, write_set' = write_set
  PROVE  IInv'
<1>1. Frame(t) /\ pc'[t] = Undo /\ Undo.at = "undo"
  BY MovesFrame, PcFields
<1>2. Types /\ Good(t) /\ LocksKept(t)
  BY DEF IInv, Moves
<1>3. \A r \in Row : Wrote(t, r)' <=> Wrote(t, r)
  BY DEF Wrote
<1>4. Life(t)'
  BY <1>1 DEF Life
<1>5. Writer(t)'
  BY <1>1, <1>2, <1>3 DEF Good, Writer, LocksKept
<1>6. Own(t)'
  BY <1>1 DEF Own, InProgress
<1>7. ASSUME ~ix_scan' PROVE ~ix_scan /\ Apart(t)'
  <2>1. ~ix_scan
    BY <1>2, <1>7, HistoryFacts DEF Moves
  <2>2. Apart(t)
    BY <2>1 DEF IInv
  <2>3. Undoable(t)'
    BY <1>1, <1>2, <2>2, UndoableKept DEF Moves, Good, Apart, LocksKept, Frame
  <2> QED BY <1>1, <2>1, <2>3 DEF Apart, Scanner, Seen, Fresh, InProgress
<1> QED BY <1>1, <1>4, <1>5, <1>6, <1>7, FrameKeeps DEF Good

(* The statement goes on without having read or written anything.          *)
LEMMA MoveKeeps ==
  ASSUME IInv, NEW t \in Txn, NEW p, Moves(t, p), p.at \notin {"undo", "lockrow"},
         state'[t] = "GROWING", state[t] = "GROWING", pc[t].at \notin {"lockrow", "undo"},
         view' = view, write_set' = write_set,
         p.at \in {"write", "insert", "predicted"} => Announced(t)',
         ~ix_scan' /\ p.at \in {"scan", "intend", "write"} => Reading(t)'
  PROVE  IInv'
<1>1. Frame(t) /\ pc'[t] = p
  BY MovesFrame
<1>2. Types /\ Good(t) /\ LocksKept(t) /\ PcOK(pc[t]) /\ PcOK(p)
  BY DEF IInv, Moves, Types
<1>3. \A r \in Row : Wrote(t, r)' <=> Wrote(t, r)
  BY DEF Wrote
<1>4. InProgress(t)
  BY <1>2 DEF InProgress, PcOK
<1>5. Life(t)'
  BY <1>1 DEF Life
<1>6. Writer(t)'
  BY <1>1, <1>2, <1>3 DEF Good, Writer, LocksKept
<1>7. Own(t)'
  <2>1. \A r \in Row : r \in bare[t] => r \in bare'[t]
    BY <1>2, HistoryFacts DEF Moves
  <2>2. \A r \in Row : r \in hit /\ view[t][r] # Unknown => r \in hit'
    BY <1>1 DEF Frame, HitKept
  <2> QED BY <1>2, <1>4, <2>1, <2>2 DEF Good, Own, LocksKept, Moves
<1>8. ASSUME ~ix_scan' PROVE ~ix_scan /\ Apart(t)'
  <2>1. ~ix_scan
    BY <1>2, <1>8, HistoryFacts DEF Moves
  <2>2. Apart(t)
    BY <2>1 DEF IInv
  <2>3. Undoable(t)'
    BY <1>1, <1>2, <2>2, UndoableKept DEF Moves, Good, Apart, LocksKept, Frame
  <2>3a. \A r \in Row : r \in hit /\ view[t][r] # Unknown => r \in hit'
    BY <1>1 DEF Frame, HitKept
  <2>4. Seen(t)'
    BY <1>1, <1>2, <1>4, <2>2, <2>3a DEF Apart, Seen, LocksKept, Moves
  <2> QED BY <1>1, <1>8, <2>1, <2>3, <2>4 DEF Apart, Scanner, Fresh
<1> QED BY <1>1, <1>5, <1>6, <1>7, <1>8, FrameKeeps DEF Good

(* A lock call of an executor.                                             *)
LEMMA LockMoves ==
  ASSUME IInv, NEW t \in Txn, NEW lid, NEW mode, NEW p, LockCall(lid, mode), Lock(t, lid, mode, p),
         PcOK(p), ops' \in [Txn -> 0..MaxOps], begun' = begun, rows' = rows, History(t)
  PROVE  /\ state[t] = "GROWING"
         /\ \/ state'[t] = "failed" /\ Moves(t, Undo)
            \/ state'[t] = "GROWING" /\ Moves(t, p)
<1>1. LM!TypeOK /\ LockTable /\ LM!lock(t, lid, mode)
  BY DEF IInv, Lock
<1>2. LM!TypeOK' /\ LockTable' /\ \A u \in Txn : LocksKept(u)
  BY <1>1, LockKeepsTable, LockKeepsLocks
<1>3. /\ state[t] = "GROWING" /\ state'[t] \in {"GROWING", "failed"}
      /\ \A u \in Txn : u # t => state'[u] = state[u]
  BY <1>1, LockStates
<1>4. /\ DOMAIN pc' = Txn /\ pc'[t] = IF state'[t] = "failed" THEN Undo ELSE p
      /\ \A u \in Txn \ {t} : pc'[u] = pc[u]
      /\ begun' \in 0..MaxTxns
  BY DEF Lock, Goto, IInv, Types
<1>5. CASE state'[t] = "failed"
  BY <1>2, <1>3, <1>4, <1>5, PcFields DEF Moves
<1>6. CASE state'[t] = "GROWING"
  BY <1>2, <1>3, <1>4, <1>6 DEF Moves
<1> QED BY <1>3, <1>5, <1>6

-----------------------------------------------------------------------------
(* The steps of a transaction, one lemma each.                             *)

(* A statement may be issued.                                              *)
LEMMA StatementFacts ==
  ASSUME IInv, NEW t \in Txn, Statement(t)
  PROVE  /\ state[t] = "GROWING" /\ pc[t] = Idle /\ pc[t].at = "idle"
         /\ ops' \in [Txn -> 0..MaxOps]
         /\ rows' = rows /\ view' = view /\ write_set' = write_set /\ begun' = begun
<1>1. ops \in [Txn -> 0..MaxOps] /\ MaxOps \in Nat
  BY TxnConstants DEF IInv, Types
<1>2. ops' = [ops EXCEPT ![t] = @ + 1] /\ ops[t] < MaxOps
  BY DEF Statement
<1>3. ops' \in [Txn -> 0..MaxOps]
  BY <1>1, <1>2
<1> QED BY <1>3, PcFields DEF Statement

(* SeqScanExecutor::beginTuple.                                            *)
LEMMA BeginScanStep ==
  ASSUME IInv, NEW t \in Txn, NEW stmt, stmt = Select \/ stmt.new \in Value \cup {Empty},
         BeginScan(t, stmt), History(t)
  PROVE  IInv'
<1>1. /\ state[t] = "GROWING" /\ pc[t] = Idle /\ pc[t].at = "idle"
      /\ ops' \in [Txn -> 0..MaxOps]
      /\ rows' = rows /\ view' = view /\ write_set' = write_set /\ begun' = begun
  BY StatementFacts DEF BeginScan
<1>2. PICK p : p = Scan(stmt, 1)
  OBVIOUS
<1>3. p.at = "scan" /\ PcOK(p)
  BY <1>2, PcFields, PcTypes, TxnConstants DEF Row
<1>4. Lock(t, Tab, "SHARED", p) /\ LockCall(Tab, "SHARED")
  BY <1>2 DEF BeginScan, LockCall
<1>5. \/ state'[t] = "failed" /\ Moves(t, Undo)
      \/ state'[t] = "GROWING" /\ Moves(t, p)
  BY <1>1, <1>3, <1>4, LockMoves
<1>6. CASE state'[t] = "failed" /\ Moves(t, Undo)
  BY <1>1, <1>6, FailKeeps
<1>7. CASE state'[t] = "GROWING" /\ Moves(t, p)
  <2>1. pc'[t] = p
    BY <1>7 DEF Moves, IInv, Types
  <2>2. ~ix_scan' => ~LM!HeldMode(t, Tab, "INTENTION_EXCLUSIVE")
    BY <1>1, <1>3, <2>1, HistoryFacts DEF IInv
  <2>3. Reading(t)' \/ LM!HeldMode(t, Tab, "INTENTION_EXCLUSIVE")
    BY <1>4, <1>7, LockGets DEF Lock, IInv
  <2> QED BY <1>1, <1>3, <1>7, <2>2, <2>3, MoveKeeps
<1> QED BY <1>5, <1>6, <1>7

(* InsertExecutor::Next, its IX lock.                                      *)
LEMMA BeginInsertStep ==
  ASSUME IInv, NEW t \in Txn, NEW v \in Value, BeginInsert(t, v), History(t)
  PROVE  IInv'
<1>1. /\ state[t] = "GROWING" /\ pc[t] = Idle /\ pc[t].at = "idle"
      /\ ops' \in [Txn -> 0..MaxOps]
      /\ rows' = rows /\ view' = view /\ write_set' = write_set /\ begun' = begun
  BY StatementFacts DEF BeginInsert
<1>2. PICK p : p = InsertInto(v)
  OBVIOUS
<1>3. p.at = "insert" /\ PcOK(p)
  BY <1>2, PcFields, PcTypes
<1>4. Lock(t, Tab, "INTENTION_EXCLUSIVE", p) /\ LockCall(Tab, "INTENTION_EXCLUSIVE")
  BY <1>2 DEF BeginInsert, LockCall
<1>5. \/ state'[t] = "failed" /\ Moves(t, Undo)
      \/ state'[t] = "GROWING" /\ Moves(t, p)
  BY <1>1, <1>3, <1>4, LockMoves
<1>6. CASE state'[t] = "failed" /\ Moves(t, Undo)
  BY <1>1, <1>6, FailKeeps
<1>7. CASE state'[t] = "GROWING" /\ Moves(t, p)
  <2>1. Announced(t)'
    BY <1>4, <1>7, LockGets DEF Lock, IInv
  <2> QED BY <1>1, <1>3, <1>7, <2>1, MoveKeeps
<1> QED BY <1>5, <1>6, <1>7

(* UpdateExecutor and DeleteExecutor, their IX lock.                       *)
LEMMA WriteIntentStep ==
  ASSUME IInv, NEW t \in Txn, WriteIntent(t), History(t)
  PROVE  IInv'
<1>0. Types /\ Good(t) /\ PcOK(pc[t]) /\ pc[t].at = "intend"
  BY DEF IInv, Types, WriteIntent
<1>1. /\ ops' \in [Txn -> 0..MaxOps] /\ state[t] = "GROWING"
      /\ rows' = rows /\ view' = view /\ write_set' = write_set /\ begun' = begun
  BY <1>0 DEF WriteIntent, Types, Good, Life
<1>2. PICK p : p = Write(pc[t].stmt)
  OBVIOUS
<1>3. p.at = "write" /\ PcOK(p)
  BY <1>0, <1>2, PcFields, PcTypes DEF PcOK
<1>4. Lock(t, Tab, "INTENTION_EXCLUSIVE", p) /\ LockCall(Tab, "INTENTION_EXCLUSIVE")
  BY <1>2 DEF WriteIntent, LockCall
<1>5. \/ state'[t] = "failed" /\ Moves(t, Undo)
      \/ state'[t] = "GROWING" /\ Moves(t, p)
  BY <1>1, <1>3, <1>4, LockMoves
<1>6. CASE state'[t] = "failed" /\ Moves(t, Undo)
  BY <1>1, <1>6, FailKeeps
<1>7. CASE state'[t] = "GROWING" /\ Moves(t, p)
  <2>1. Announced(t)'
    BY <1>4, <1>7, LockGets DEF Lock, IInv
  <2>2. ~ix_scan' => ~ix_scan
    BY <1>0, HistoryFacts
  <2>3. ~ix_scan' => Reading(t)
    BY <1>0, <2>2 DEF IInv, Apart, Scanner
  <2>4. LocksKept(t)
    BY <1>1, <1>7 DEF Moves
  <2>5. ~ix_scan' => Reading(t)'
    BY <2>3, <2>4 DEF LocksKept
  <2> QED BY <1>0, <1>1, <1>3, <1>7, <2>1, <2>5, MoveKeeps
<1> QED BY <1>5, <1>6, <1>7

(* Nothing locked, released or begun: the lock table is the same.          *)
LEMMA SameLocks ==
  ASSUME IInv, UNCHANGED lm
  PROVE  /\ LM!TypeOK' /\ LockTable' /\ state' = state
         /\ \A u \in Txn : LocksKept(u)
<1>1. /\ request_queue' = request_queue /\ group_lock_mode' = group_lock_mode /\ lock_set' = lock_set
      /\ state' = state /\ to_unlock' = to_unlock /\ acquired' = acquired
  BY DEF lm
<1>2. LM!TypeOK'
  BY <1>1 DEF IInv, LM!TypeOK
<1>3. LockTable'
  BY <1>1 DEF IInv, LockTable
<1>4. \A u \in Txn : LocksKept(u)
  BY <1>1 DEF LocksKept, Reading, Announced, ReadLocked, WriteLocked, LM!HeldMode
<1> QED BY <1>1, <1>2, <1>3, <1>4

(* InsertExecutor::Next chooses the slot.                                  *)
LEMMA InsertPredictStep ==
  ASSUME IInv, NEW t \in Txn, InsertPredict(t), History(t)
  PROVE  IInv'
<1>0. Types /\ Good(t) /\ PcOK(pc[t]) /\ pc[t].at = "insert"
  BY DEF IInv, Types, InsertPredict
<1>1. /\ ops' = ops /\ state[t] = "GROWING" /\ UNCHANGED lm /\ Announced(t)
      /\ rows' = rows /\ view' = view /\ write_set' = write_set /\ begun' = begun
  BY <1>0 DEF InsertPredict, Good, Life, Writer
<1>2. PICK r \in Row \cup {NewPage} : Goto(t, InsertRow(pc[t].new, r))
  BY DEF InsertPredict, FirstFree
<1>3. PICK p : p = InsertRow(pc[t].new, r)
  OBVIOUS
<1>4. p.at = "predicted" /\ PcOK(p)
  BY <1>0, <1>3, PcFields, PcTypes DEF PcOK
<1>5. Moves(t, p)
  BY <1>0, <1>1, <1>2, <1>3, <1>4, SameLocks DEF Moves, Goto, Types
<1>6. state'[t] = "GROWING" /\ Announced(t)'
  BY <1>1, SameLocks DEF LocksKept
<1> QED BY <1>0, <1>1, <1>4, <1>5, <1>6, MoveKeeps

(* The scan returned no row.                                               *)
LEMMA WriteNothingStep ==
  ASSUME IInv, NEW t \in Txn, WriteNothing(t), History(t)
  PROVE  IInv'
<1>0. Types /\ Good(t) /\ PcOK(pc[t]) /\ pc[t].at = "write"
  BY DEF IInv, Types, WriteNothing
<1>1. /\ ops' = ops /\ state[t] = "GROWING" /\ UNCHANGED lm
      /\ rows' = rows /\ view' = view /\ write_set' = write_set /\ begun' = begun
  BY <1>0 DEF WriteNothing, Good, Life
<1>2. Moves(t, Idle)
  BY <1>0, <1>1, SameLocks, PcFields DEF Moves, WriteNothing, Goto, Types
<1>3. state'[t] = "GROWING"
  BY <1>1, SameLocks
<1> QED BY <1>0, <1>1, <1>2, <1>3, MoveKeeps, PcFields

(* ROLLBACK of a live transaction.                                         *)
LEMMA AbortStep ==
  ASSUME IInv, NEW t \in Txn, Abort(t), History(t)
  PROVE  IInv'
<1>1. /\ ops' = ops /\ state[t] = "GROWING" /\ UNCHANGED lm
      /\ rows' = rows /\ view' = view /\ write_set' = write_set /\ begun' = begun
  BY DEF Abort
<1>2. Moves(t, Undo)
  BY <1>1, SameLocks, PcFields DEF Moves, Abort, Goto, Types, IInv
<1>3. state'[t] = "GROWING"
  BY <1>1, SameLocks
<1> QED BY <1>1, <1>2, <1>3, FailKeeps

(* The scan reads a row: an empty one, or one it has locked.               *)
LEMMA SawKeeps ==
  ASSUME IInv, NEW t \in Txn, NEW p, Moves(t, p), p.at \in {"idle", "scan", "intend"},
         pc[t].at = "scan", state'[t] = "GROWING", NEW r \in Row,
         view' = [view EXCEPT ![t][r] = rows[r]], write_set' = write_set,
         rows[r] = Empty \/ ReadLocked(t, r)'
  PROVE  IInv'
<1>0. Types /\ Good(t) /\ PcOK(pc[t]) /\ PcOK(p) /\ rows' = rows
  BY DEF IInv, Types, Moves
<1>1. /\ view' \in [Txn -> [Row -> Value \cup {Empty, Unknown}]]
      /\ \A u \in Txn \ {t} : view'[u] = view[u]
      /\ view'[t][r] = rows[r] /\ \A q \in Row : q # r => view'[t][q] = view[t][q]
  BY <1>0 DEF Types
<1>2. pc'[t] = p /\ DOMAIN pc' = Txn /\ \A u \in Txn \ {t} : pc'[u] = pc[u]
  BY <1>0 DEF Types, Moves
<1>3. Types'
  <2>1. \A u \in Txn : PcOK(pc'[u])
    BY <1>0, <1>2 DEF Types
  <2> QED BY <1>0, <1>1, <1>2, <2>1, HistoryFacts DEF Types, Moves
<1>4. \A q \in Row : Wrote(t, q)' <=> Wrote(t, q)
  BY DEF Wrote
<1>5. Frame(t)
  BY <1>0, <1>1, <1>2, <1>3, <1>4, HistoryFacts DEF Frame, Moves
<1>6. state[t] = "GROWING" /\ InProgress(t) /\ LocksKept(t)
  BY <1>0 DEF Good, Life, InProgress, PcOK, Moves
<1>7. Life(t)'
  BY <1>0, <1>2 DEF Life
<1>8. Writer(t)'
  BY <1>0, <1>1, <1>2, <1>4, <1>6, TxnConstants DEF Good, Writer, LocksKept, Types
<1>9. Own(t)'
  <2> SUFFICES ASSUME NEW q \in Row
               PROVE  (\/ view[t][q] = Unknown \/ q \in bare[t] \/ q \in hit
                       \/ view[t][q] = rows[q] /\ rows[q] # Empty /\ ReadLocked(t, q))'
    BY DEF Own
  <2>1. /\ view'[t][q] = Empty => q \in bare'[t]
        /\ q \in bare[t] /\ view'[t][q] = view[t][q] => q \in bare'[t]
        /\ q \in hit /\ view'[t][q] # Unknown => q \in hit'
    BY <1>0, HistoryFacts DEF Moves, HitKept
  <2>2. CASE q = r
    BY <1>0, <1>1, <2>1, <2>2
  <2>3. CASE q # r
    BY <1>0, <1>1, <1>6, <2>1, <2>3 DEF Good, Own, LocksKept
  <2> QED BY <2>2, <2>3
<1>10. ASSUME ~ix_scan' PROVE ~ix_scan /\ Apart(t)'
  <2>1. ~ix_scan
    BY <1>0, <1>10, HistoryFacts DEF Moves
  <2>2. Apart(t)
    BY <2>1 DEF IInv
  <2>3. Reading(t)'
    BY <1>6, <2>2 DEF Apart, Scanner, LocksKept
  <2>4. Seen(t)'
    BY <1>0, <1>1, <1>5, <1>6, <2>2, <2>3 DEF Apart, Seen, Frame, HitKept
  <2> QED BY <1>2, <2>1, <2>3, <2>4 DEF Apart, Scanner, Undoable, Fresh
<1> QED BY <1>5, <1>7, <1>8, <1>9, <1>10, FrameKeeps DEF Good

(* SeqScanExecutor::Next on one slot.                                      *)
LEMMA ScanRowStep ==
  ASSUME IInv, NEW t \in Txn, ScanRow(t), History(t)
  PROVE  IInv'
<1>0. Types /\ Good(t) /\ PcOK(pc[t]) /\ pc[t].at = "scan"
  BY DEF IInv, Types, ScanRow
<1>1. PICK r \in Row : r = pc[t].row
  BY <1>0 DEF PcOK
<1>2. PICK p : p = IF r < NumRows THEN Scan(pc[t].stmt, r + 1)
                   ELSE IF pc[t].stmt = Select THEN Idle ELSE Intend(pc[t].stmt)
  OBVIOUS
<1>3. PcOK(p) /\ p.at \in {"idle", "scan", "intend"}
  <2>1. CASE r < NumRows
    <3>1. r + 1 \in Row
      BY <2>1, TxnConstants DEF Row
    <3> QED BY <1>0, <1>2, <2>1, <3>1, PcFields, PcTypes DEF PcOK
  <2>2. CASE ~(r < NumRows) /\ pc[t].stmt = Select
    BY <1>2, <2>2, PcFields
  <2>3. CASE ~(r < NumRows) /\ pc[t].stmt # Select
    <3>1. pc[t].stmt.new \in Value \cup {Empty}
      BY <1>0, <2>3 DEF PcOK
    <3> QED BY <1>2, <2>3, <3>1, PcFields, PcTypes
  <2> QED BY <2>1, <2>2, <2>3
<1>4. /\ ops' \in [Txn -> 0..MaxOps] /\ state[t] = "GROWING"
      /\ rows' = rows /\ write_set' = write_set /\ begun' = begun
  BY <1>0 DEF ScanRow, Types, Good, Life
<1>5. \/ rows[r] = Empty /\ Saw(t, r, Empty) /\ Goto(t, p) /\ UNCHANGED lm
      \/ /\ rows[r] # Empty /\ Lock(t, r, "SHARED", p)
         /\ IF state'[t] = "failed" THEN UNCHANGED view ELSE Saw(t, r, rows[r])
  BY <1>1, <1>2 DEF ScanRow
<1>6. CASE rows[r] = Empty /\ Saw(t, r, Empty) /\ Goto(t, p) /\ UNCHANGED lm
  <2>1. Moves(t, p)
    BY <1>0, <1>3, <1>4, <1>6, SameLocks DEF Moves, Goto, Types
  <2>2. state'[t] = "GROWING" /\ view' = [view EXCEPT ![t][r] = rows[r]]
    BY <1>4, <1>6, SameLocks DEF Saw
  <2> QED BY <1>0, <1>3, <1>4, <1>6, <2>1, <2>2, SawKeeps
<1>7. CASE /\ rows[r] # Empty /\ Lock(t, r, "SHARED", p)
           /\ IF state'[t] = "failed" THEN UNCHANGED view ELSE Saw(t, r, rows[r])
  <2>1. LockCall(r, "SHARED")
    BY DEF LockCall
  <2>2. \/ state'[t] = "failed" /\ Moves(t, Undo)
        \/ state'[t] = "GROWING" /\ Moves(t, p)
    BY <1>3, <1>4, <1>7, <2>1, LockMoves
  <2>3. CASE state'[t] = "failed" /\ Moves(t, Undo)
    BY <1>4, <1>7, <2>3, FailKeeps
  <2>4. CASE state'[t] = "GROWING" /\ Moves(t, p)
    <3>1. ReadLocked(t, r)'
      BY <1>7, <2>1, <2>4, LockGets DEF Lock, IInv
    <3>2. view' = [view EXCEPT ![t][r] = rows[r]]
      BY <1>7, <2>4 DEF Saw
    <3> QED BY <1>0, <1>3, <1>4, <2>4, <3>1, <3>2, SawKeeps
  <2> QED BY <2>2, <2>3, <2>4
<1> QED BY <1>5, <1>6, <1>7

(* What t has written after one more write, and after undoing one.         *)
LEMMA WroteAppend ==
  ASSUME NEW s \in Seq(WriteRecord), NEW e \in WriteRecord
  PROVE  /\ Append(s, e) \in Seq(WriteRecord)
         /\ DOMAIN Append(s, e) = 1..(Len(s) + 1) /\ DOMAIN s = 1..Len(s)
         /\ \A i \in 1..Len(s) : Append(s, e)[i] = s[i]
         /\ Append(s, e)[Len(s) + 1] = e
OBVIOUS

(* Front and Last of a write set.                                          *)
LEMMA WroteFront ==
  ASSUME NEW s \in Seq(WriteRecord), s # <<>>
  PROVE  /\ Front(s) \in Seq(WriteRecord)
         /\ DOMAIN Front(s) = 1..(Len(s) - 1) /\ DOMAIN s = 1..Len(s) /\ Len(s) \in DOMAIN s
         /\ \A i \in 1..(Len(s) - 1) : Front(s)[i] = s[i]
         /\ Last(s) = s[Len(s)] /\ Last(s) \in WriteRecord
<1>1. PICK m : m = Len(s) - 1
  OBVIOUS
<1>2. m \in Nat /\ m <= Len(s) /\ Len(s) \in Nat \ {0} /\ Front(s) = SubSeq(s, 1, m)
  BY <1>1 DEF Front
<1> HIDE <1>1
<1>3. Front(s) \in Seq(WriteRecord) /\ Len(Front(s)) = m
  BY <1>2
<1>4. \A i \in 1..m : Front(s)[i] = s[i]
  BY <1>2
<1>5. Last(s) = s[Len(s)]
  BY DEF Last
<1> QED BY <1>1, <1>2, <1>3, <1>4, <1>5

(* UpdateExecutor and DeleteExecutor on one row: X lock, then the write.   *)
LEMMA WriteRowStep ==
  ASSUME IInv, NEW t \in Txn, WriteRow(t), History(t)
  PROVE  IInv'
<1>0. Types /\ Good(t) /\ PcOK(pc[t]) /\ pc[t].at = "write" /\ LM!TypeOK /\ LockTable
  BY DEF IInv, Types, WriteRow
<1>1. PICK r \in Row :
        /\ view[t][r] \notin {Empty, Unknown}
        /\ Lock(t, r, "EXLUCSIVE", Idle)
        /\ IF state'[t] = "failed" THEN UNCHANGED <<rows, write_set, view>>
           ELSE /\ write_set' = [write_set EXCEPT ![t] = Append(@, [row |-> r, old |-> rows[r]])]
                /\ rows' = [rows EXCEPT ![r] = pc[t].stmt.new]
                /\ Saw(t, r, pc[t].stmt.new)
  BY DEF WriteRow
<1>2. LockCall(r, "EXLUCSIVE") /\ LM!lock(t, r, "EXLUCSIVE")
  BY <1>1 DEF LockCall, Lock
<1>3. state[t] = "GROWING" /\ InProgress(t) /\ Announced(t)
  BY <1>0 DEF Good, Life, Writer, InProgress, PcOK
<1>4. ops' \in [Txn -> 0..MaxOps] /\ begun' = begun /\ begun' \in 0..MaxTxns
  BY <1>0 DEF WriteRow, Types
<1>5. CASE state'[t] = "failed"
  <2>1. Moves(t, Undo)
    BY <1>1, <1>2, <1>4, <1>5, LockMoves, PcFields
  <2> QED BY <1>1, <1>3, <1>5, <2>1, FailKeeps
<1>6. CASE state'[t] # "failed"
  <2>1. PICK v \in Value \cup {Empty} : v = pc[t].stmt.new
    BY <1>0 DEF PcOK
  <2>2. PICK e \in WriteRecord : e = [row |-> r, old |-> rows[r]]
    BY <1>0 DEF Types, WriteRecord
  <2>3. /\ write_set' = [write_set EXCEPT ![t] = Append(@, e)]
        /\ rows' = [rows EXCEPT ![r] = v]
        /\ view' = [view EXCEPT ![t][r] = v]
        /\ pc' = [pc EXCEPT ![t] = Idle]
    BY <1>1, <1>6, <2>1, <2>2 DEF Saw, Lock, Goto
  <2>4. LM!TypeOK' /\ LockTable' /\ (\A u \in Txn : LocksKept(u)) /\ WriteLocked(t, r)'
    BY <1>0, <1>2, <1>6, LockKeepsTable, LockKeepsLocks, LockGets
  <2>5. state'[t] = "GROWING" /\ \A u \in Txn \ {t} : state'[u] = state[u]
    BY <1>0, <1>2, <1>6, LockStates
  <2>6. PICK s \in Seq(WriteRecord) : s = write_set[t]
    BY <1>0 DEF Types
  <2>7. /\ write_set' \in [Txn -> Seq(WriteRecord)] /\ write_set'[t] = Append(s, e)
        /\ \A u \in Txn \ {t} : write_set'[u] = write_set[u]
    BY <1>0, <2>3, <2>6, WroteAppend DEF Types
  <2>8. /\ rows' \in [Row -> Value \cup {Empty}] /\ rows'[r] = v
        /\ \A q \in Row : q # r => rows'[q] = rows[q]
    BY <1>0, <2>3 DEF Types
  <2>9. /\ view' \in [Txn -> [Row -> Value \cup {Empty, Unknown}]]
        /\ \A u \in Txn \ {t} : view'[u] = view[u]
        /\ view'[t][r] = v /\ \A q \in Row : q # r => view'[t][q] = view[t][q]
    BY <1>0, <2>3 DEF Types
  <2>10. pc'[t] = Idle /\ DOMAIN pc' = Txn /\ \A u \in Txn \ {t} : pc'[u] = pc[u]
    BY <1>0, <2>3 DEF Types
  <2>11. Types'
    <3>1. \A u \in Txn : PcOK(pc'[u])
      BY <1>0, <2>10, PcFields DEF Types
    <3> QED BY <1>0, <1>4, <2>7, <2>8, <2>9, <2>10, <3>1, HistoryFacts DEF Types
  <2>12. \A q \in Row : Wrote(t, q)' => q = r \/ Wrote(t, q)
    <3>1. e.row = r
      BY <2>2
    <3> QED BY <2>6, <2>7, <3>1, WroteAppend DEF Wrote
  <2>13. \A q \in Row : rows'[q] = rows[q] \/ Touches(t, q)
    BY <1>0, <1>3, <2>4, <2>8 DEF Touches
  <2>14. Frame(t)
    BY <1>0, <2>4, <2>5, <2>7, <2>9, <2>10, <2>11, <2>13, HistoryFacts, PcFields DEF Frame
  <2>15. Life(t)'
    BY <2>5, <2>10, PcFields DEF Life
  <2>16. Writer(t)'
    BY <1>0, <1>3, <2>4, <2>9, <2>10, <2>12, PcFields, TxnConstants DEF Good, Writer, LocksKept
  <2>17. Own(t)'
    <3> SUFFICES ASSUME NEW q \in Row
                 PROVE  (\/ view[t][q] = Unknown \/ q \in bare[t] \/ q \in hit
                         \/ view[t][q] = rows[q] /\ rows[q] # Empty /\ ReadLocked(t, q))'
      BY DEF Own
    <3>1. /\ view'[t][q] = Empty => q \in bare'[t]
          /\ q \in bare[t] /\ view'[t][q] = view[t][q] => q \in bare'[t]
          /\ q \in hit /\ view'[t][q] # Unknown => q \in hit'
      BY <1>0, HistoryFacts DEF HitKept
    <3>2. CASE q = r
      BY <2>4, <2>8, <2>9, <3>1, <3>2 DEF WriteLocked, ReadLocked
    <3>3. CASE q # r
      BY <1>0, <1>3, <2>4, <2>8, <2>9, <3>1, <3>3 DEF Good, Own, LocksKept
    <3> QED BY <3>2, <3>3
  <2>18. ASSUME ~ix_scan' PROVE ~ix_scan /\ Apart(t)'
    <3>1. ~ix_scan
      BY <1>0, <2>18, HistoryFacts
    <3>2. Apart(t)
      BY <3>1 DEF IInv
    <3>3. Reading(t)'
      BY <1>0, <2>4, <3>2 DEF Apart, Scanner, LocksKept
    <3>4. Seen(t)'
      BY <1>3, <2>8, <2>9, <2>14, <3>2, <3>3 DEF Apart, Seen, Frame, HitKept
    <3> QED BY <2>10, <3>1, <3>3, <3>4, PcFields DEF Apart, Scanner, Undoable, Fresh
  <2> QED BY <2>14, <2>15, <2>16, <2>17, <2>18, FrameKeeps DEF Good
<1> QED BY <1>5, <1>6

(* InsertExecutor::Next: the row is written before it is locked.           *)
LEMMA InsertWriteStep ==
  ASSUME IInv, NEW t \in Txn, InsertWrite(t), History(t)
  PROVE  IInv'
<1>0. Types /\ Good(t) /\ PcOK(pc[t]) /\ pc[t].at = "predicted"
  BY DEF IInv, Types, InsertWrite
<1>1. PICK v \in Value : v = pc[t].new
  BY <1>0 DEF PcOK
<1>2. PICK r \in Row :
        /\ rows' = [rows EXCEPT ![r] = v]
        /\ view' = [view EXCEPT ![t][r] = v]
        /\ pc' = [pc EXCEPT ![t] = InsertLock(r)]
  BY <1>0, <1>1 DEF InsertWrite, Saw, Goto, FirstFree, PcOK
<1>3. state[t] = "GROWING" /\ InProgress(t) /\ Announced(t)
  BY <1>0 DEF Good, Life, Writer, InProgress, PcOK
<1>4. ops' = ops /\ begun' = begun /\ write_set' = write_set /\ UNCHANGED lm
  BY DEF InsertWrite
<1>5. LM!TypeOK' /\ LockTable' /\ state' = state /\ \A u \in Txn : LocksKept(u)
  BY <1>4, SameLocks
<1>6. /\ rows' \in [Row -> Value \cup {Empty}] /\ rows'[r] = v
      /\ \A q \in Row : q # r => rows'[q] = rows[q]
  BY <1>0, <1>2 DEF Types
<1>7. /\ view' \in [Txn -> [Row -> Value \cup {Empty, Unknown}]]
      /\ \A u \in Txn \ {t} : view'[u] = view[u]
      /\ view'[t][r] = v /\ \A q \in Row : q # r => view'[t][q] = view[t][q]
  BY <1>0, <1>2 DEF Types
<1>8. /\ pc'[t].at = "lockrow" /\ pc'[t].row = r /\ PcOK(pc'[t])
      /\ DOMAIN pc' = Txn /\ \A u \in Txn \ {t} : pc'[u] = pc[u]
  BY <1>0, <1>2, PcFields, PcTypes DEF Types
<1>9. Types'
  <2>1. \A u \in Txn : PcOK(pc'[u])
    BY <1>0, <1>8 DEF Types
  <2> QED BY <1>0, <1>4, <1>6, <1>7, <1>8, <2>1, HistoryFacts DEF Types
<1>10. v # Empty /\ v # Unknown
  BY TxnConstants
<1>11. \A u \in Txn : \A q \in Row : Wrote(u, q)' <=> Wrote(u, q)
  BY <1>4 DEF Wrote
<1>11a. Fills(t, r) /\ (rows[r] = Empty \/ r \in hit') /\ HitKept
  <2>1. Fills(t, r)
    BY <1>0, <1>2 DEF Fills, Types
  <2> QED BY <1>0, <1>7, <1>10, <2>1, HistoryFacts
<1>12. Frame(t)
  <2>1. \A q \in Row : rows'[q] = rows[q] \/ Touches(t, q)
    BY <1>0, <1>3, <1>6, <1>10, <1>11a DEF Touches
  <2> QED BY <1>0, <1>4, <1>5, <1>7, <1>8, <1>9, <1>11, <1>11a, <2>1, HistoryFacts DEF Frame
<1>13. Life(t)'
  BY <1>3, <1>5, <1>8 DEF Life
<1>14. Writer(t)'
  BY <1>0, <1>3, <1>5, <1>7, <1>8, <1>10, <1>11 DEF Good, Writer, LocksKept
<1>15. Own(t)'
  <2> SUFFICES ASSUME NEW q \in Row
               PROVE  (\/ view[t][q] = Unknown \/ q \in bare[t] \/ q \in hit
                       \/ view[t][q] = rows[q] /\ rows[q] # Empty /\ ReadLocked(t, q))'
    BY DEF Own
  <2>1. /\ q \in bare[t] /\ view'[t][q] = view[t][q] => q \in bare'[t]
        /\ q = r => q \in bare'[t]
        /\ q \in hit /\ view'[t][q] # Unknown => q \in hit'
    BY <1>0, <1>11a, HistoryFacts DEF HitKept
  <2>2. CASE q = r
    BY <2>1, <2>2
  <2>3. CASE q # r
    BY <1>0, <1>3, <1>5, <1>6, <1>7, <2>1, <2>3 DEF Good, Own, LocksKept
  <2> QED BY <2>2, <2>3
<1>16. ASSUME ~ix_scan' PROVE ~ix_scan /\ Apart(t)'
  <2>1. ~ix_scan /\ Exclusion
    BY <1>0, <1>16, HistoryFacts, LockExclusion DEF IInv
  <2>2. \A u \in Txn : Apart(u) /\ Good(u)
    BY <2>1 DEF IInv
  <2>3. Scanner(t)'
    BY <1>8 DEF Scanner
  <2>4. Seen(t)'
    BY <1>0, <1>3, <1>5, <1>6, <1>7, <1>8, <1>10, <1>11a, <2>2 DEF Apart, Seen, LocksKept, HitKept
  <2>4a. r \notin hit' => r \notin hit /\ rows[r] = Empty
    BY <1>7, <1>10, <1>11a DEF HitKept
  <2>5. ASSUME r \notin hit', NEW u \in Txn, ~Reading(u) PROVE ~Wrote(u, r)
    BY <2>2, <2>4a, <2>5 DEF Apart, Undoable, Wrote
  <2>6. ASSUME r \notin hit', NEW u \in Txn \ {t}
        PROVE  ~(pc[u].at = "lockrow" /\ pc[u].row = r) /\ ~Wrote(u, r)
    <3>1. ~Reading(u)
      BY <1>3, <2>1 DEF Exclusion
    <3>2. ASSUME pc[u].at = "lockrow", pc[u].row = r PROVE FALSE
      <4>1. InProgress(u) /\ view[u][r] \in Value
        BY <2>2, <3>2, PcFields DEF Good, Life, Writer, InProgress
      <4> QED BY <2>2, <2>4a, <2>6, <4>1, TxnConstants DEF Apart, Seen
    <3> QED BY <2>5, <2>6, <3>1, <3>2
  <2>7. Undoable(t)'
    <3>1. \A i \in DOMAIN write_set[t] : write_set[t][i].row \in Row
      <4>1. write_set[t] \in Seq(WriteRecord)
        BY <1>0 DEF Types
      <4>2. \A i \in DOMAIN write_set[t] : write_set[t][i] \in WriteRecord
        BY <4>1
      <4> QED BY <4>2 DEF WriteRecord
    <3>2. \A i \in DOMAIN write_set[t] : write_set[t][i].row \in hit => write_set[t][i].row \in hit'
      BY <1>7, <1>10, <1>11a, <2>2, <3>1 DEF Good, Writer, Wrote, HitKept
    <3> QED BY <1>4, <1>5, <1>6, <1>10, <2>2, <3>1, <3>2 DEF Apart, Undoable, LocksKept
  <2>8. Fresh(t)'
    BY <1>5, <1>7, <1>8, <1>11, <2>5, <2>6 DEF Fresh, LocksKept
  <2> QED BY <2>1, <2>3, <2>4, <2>7, <2>8 DEF Apart
<1> QED BY <1>12, <1>13, <1>14, <1>15, <1>16, FrameKeeps DEF Good

(* InsertExecutor::Next: the X lock on the new row.                        *)
LEMMA InsertLockRowStep ==
  ASSUME IInv, NEW t \in Txn, InsertLockRow(t), History(t)
  PROVE  IInv'
<1>0. Types /\ Good(t) /\ PcOK(pc[t]) /\ pc[t].at = "lockrow" /\ LM!TypeOK /\ LockTable
  BY DEF IInv, Types, InsertLockRow
<1>1. PICK r \in Row : r = pc[t].row
  BY <1>0 DEF PcOK
<1>2. LockCall(r, "EXLUCSIVE") /\ LM!lock(t, r, "EXLUCSIVE") /\ Lock(t, r, "EXLUCSIVE", Idle)
  BY <1>1 DEF LockCall, Lock, InsertLockRow
<1>3. /\ state[t] = "GROWING" /\ InProgress(t) /\ Announced(t)
      /\ rows' = rows /\ view' = view /\ begun' = begun /\ ops' \in [Txn -> 0..MaxOps]
  BY <1>0 DEF Good, Life, Writer, InProgress, PcOK, InsertLockRow, Types
<1>4. \/ state'[t] = "failed" /\ Moves(t, Undo)
      \/ state'[t] = "GROWING" /\ Moves(t, Idle)
  BY <1>2, <1>3, LockMoves, PcFields
<1>5. CASE state'[t] = "failed" /\ Moves(t, Undo)
  BY <1>3, <1>5, FailKeeps DEF InsertLockRow
<1>6. CASE state'[t] = "GROWING" /\ Moves(t, Idle)
  <2>1. PICK e \in WriteRecord : e = [row |-> r, old |-> Empty]
    BY DEF WriteRecord
  <2>2. PICK s \in Seq(WriteRecord) : s = write_set[t]
    BY <1>0 DEF Types
  <2>3. write_set' = [write_set EXCEPT ![t] = Append(@, e)]
    BY <1>1, <1>6, <2>1 DEF InsertLockRow
  <2>4. /\ write_set' \in [Txn -> Seq(WriteRecord)] /\ write_set'[t] = Append(s, e)
        /\ \A u \in Txn \ {t} : write_set'[u] = write_set[u]
    BY <1>0, <2>2, <2>3, WroteAppend DEF Types
  <2>5. WriteLocked(t, r)' /\ LocksKept(t) /\ e.row = r
    BY <1>0, <1>2, <1>3, <1>6, <2>1, LockGets DEF Moves
  <2>6. /\ pc'[t] = Idle /\ pc'[t].at = "idle" /\ DOMAIN pc' = Txn
        /\ \A u \in Txn \ {t} : pc'[u] = pc[u]
    BY <1>6, PcFields DEF Moves
  <2>7. Types'
    <3>1. \A u \in Txn : PcOK(pc'[u])
      BY <1>0, <2>6, PcFields DEF Types
    <3> QED BY <1>0, <1>3, <1>6, <2>4, <2>6, <3>1, HistoryFacts DEF Types, Moves
  <2>8. \A q \in Row : Wrote(t, q)' => q = r \/ Wrote(t, q)
    BY <2>2, <2>4, <2>5, WroteAppend DEF Wrote
  <2>9. Frame(t)
    BY <1>0, <1>1, <1>3, <1>6, <2>4, <2>6, <2>7, <2>8, HistoryFacts DEF Frame, Moves
  <2>10. Life(t)'
    BY <1>6, <2>6 DEF Life
  <2>11. Writer(t)'
    BY <1>0, <1>1, <1>3, <2>5, <2>6, <2>8, TxnConstants DEF Good, Writer, LocksKept
  <2>12. Own(t)'
    <3>1. \A q \in Row : q \in bare[t] => q \in bare'[t]
      BY <1>0, <1>3, HistoryFacts
    <3> QED BY <1>0, <1>3, <2>5, <2>9, <3>1 DEF Good, Own, LocksKept, Frame, HitKept
  <2>13. ASSUME ~ix_scan' PROVE ~ix_scan /\ Apart(t)'
    <3>1. ~ix_scan
      BY <1>0, <2>13, HistoryFacts
    <3>2. Apart(t)
      BY <3>1 DEF IInv
    <3>3. Seen(t)'
      BY <1>1, <1>3, <2>5, <2>9, <3>2 DEF Apart, Seen, LocksKept, Frame, HitKept
    <3>4. Undoable(t)'
      <4>1. CASE Reading(t)
        BY <2>5, <4>1 DEF Undoable, LocksKept
      <4>2. CASE ~Reading(t)
        <5>0. view[t][r] \in Value
          BY <1>0, <1>1 DEF Good, Writer
        <5>1. \A q \in Row : q \notin hit' /\ (q = r \/ Wrote(t, q)) => q \notin hit
          BY <1>0, <1>3, <2>9, <5>0, TxnConstants DEF Good, Writer, Frame, HitKept
        <5>2. r \notin hit' => rows[r] # Empty /\ ~Wrote(t, r)
          BY <1>0, <1>1, <1>3, <3>2, <4>2, <5>0, <5>1, TxnConstants DEF Apart, Seen, Fresh
        <5>3. r \notin hit' => \A i \in 1..Len(s) : s[i].row # r
          BY <2>2, <5>2 DEF Wrote
        <5>3a. \A i \in 1..Len(s) : s[i].row \in Row /\ Wrote(t, s[i].row)
          <6>1. \A i \in 1..Len(s) : s[i] \in WriteRecord
            OBVIOUS
          <6> QED BY <2>2, <6>1 DEF Wrote, WriteRecord
        <5>4. \A i \in 1..Len(s) : s[i].row \notin hit' =>
                /\ rows[s[i].row] # Empty
                /\ \A j \in 1..Len(s) : s[i].row = s[j].row => i = j
          BY <2>2, <3>2, <4>2, <5>1, <5>3a DEF Apart, Undoable
        <5>5. /\ DOMAIN write_set'[t] = 1..(Len(s) + 1)
              /\ \A i \in 1..Len(s) : write_set'[t][i].row = s[i].row
              /\ write_set'[t][Len(s) + 1].row = r
          BY <2>4, <2>5, WroteAppend
        <5>6. ASSUME NEW i \in 1..(Len(s) + 1), write_set'[t][i].row \notin hit'
              PROVE  /\ rows[write_set'[t][i].row] # Empty
                     /\ \A j \in 1..(Len(s) + 1) : write_set'[t][i].row = write_set'[t][j].row => i = j
          BY <5>2, <5>3, <5>4, <5>5, <5>6
        <5> QED BY <1>3, <5>5, <5>6 DEF Undoable
      <4> QED BY <4>1, <4>2
    <3> QED BY <2>6, <3>1, <3>3, <3>4 DEF Apart, Scanner, Fresh
  <2> QED BY <2>9, <2>10, <2>11, <2>12, <2>13, FrameKeeps DEF Good
<1> QED BY <1>4, <1>5, <1>6

(* TransactionManager::abort takes back the last change.                   *)
LEMMA AbortUndoStep ==
  ASSUME IInv, NEW t \in Txn, AbortUndo(t), History(t)
  PROVE  IInv'
<1>0. Types /\ Good(t) /\ PcOK(pc[t]) /\ pc[t] = Undo /\ pc[t].at = "undo"
  BY PcFields DEF IInv, Types, AbortUndo
<1>1. PICK s \in Seq(WriteRecord) : s = write_set[t]
  BY <1>0 DEF Types
<1>2. s # <<>> /\ Last(s) \in WriteRecord /\ Last(s) = s[Len(s)] /\ Len(s) \in DOMAIN s
  BY <1>1, WroteFront DEF AbortUndo
<1>3. PICK r \in Row : r = Last(s).row
  BY <1>2 DEF WriteRecord
<1>4. PICK v \in Value \cup {Empty} : v = Last(s).old
  BY <1>2 DEF WriteRecord
<1>5. /\ rows' = [rows EXCEPT ![r] = v]
      /\ write_set' = [write_set EXCEPT ![t] = Front(s)]
      /\ pc' = pc /\ view' = view /\ ops' = ops /\ begun' = begun /\ UNCHANGED lm
  BY <1>1, <1>3, <1>4 DEF AbortUndo
<1>6. LM!TypeOK' /\ LockTable' /\ state' = state /\ \A u \in Txn : LocksKept(u)
  BY <1>5, SameLocks
<1>7. /\ rows' \in [Row -> Value \cup {Empty}] /\ rows'[r] = v
      /\ \A q \in Row : q # r => rows'[q] = rows[q]
  BY <1>0, <1>5 DEF Types
<1>8. /\ write_set' \in [Txn -> Seq(WriteRecord)] /\ write_set'[t] = Front(s)
      /\ \A u \in Txn \ {t} : write_set'[u] = write_set[u]
  BY <1>0, <1>1, <1>2, <1>5, WroteFront DEF Types
<1>9. Types'
  BY <1>0, <1>5, <1>7, <1>8, HistoryFacts DEF Types
<1>10. /\ DOMAIN write_set'[t] = 1..(Len(s) - 1) /\ DOMAIN s = 1..Len(s) /\ Len(s) \in Nat
       /\ \A i \in 1..(Len(s) - 1) : write_set'[t][i] = s[i]
  BY <1>1, <1>2, <1>8, WroteFront
<1>11. \A q \in Row : Wrote(t, q)' => Wrote(t, q)
  BY <1>1, <1>10 DEF Wrote
<1>12. Wrote(t, r) /\ Announced(t)
  <2>1. Wrote(t, r)
    BY <1>1, <1>2, <1>3 DEF Wrote
  <2> QED BY <1>0, <2>1 DEF Good, Writer
<1>13. Frame(t)
  <2>1. \A q \in Row : rows'[q] = rows[q] \/ Touches(t, q)
    BY <1>0, <1>7, <1>12 DEF Touches
  <2> QED BY <1>0, <1>5, <1>6, <1>8, <1>9, <1>11, <2>1, HistoryFacts DEF Frame
<1>14. Life(t)'
  BY <1>0, <1>1, <1>2, <1>5, <1>6 DEF Good, Life
<1>15. Writer(t)'
  BY <1>0, <1>5, <1>6, <1>11 DEF Good, Writer, LocksKept
<1>16. Own(t)'
  BY <1>0, <1>5 DEF Own, InProgress
<1>16a. \A i \in 1..Len(s) : s[i].row \in hit => s[i].row \in hit'
  <2>1. \A i \in 1..Len(s) : s[i] \in WriteRecord
    BY <1>10
  <2>2. \A i \in 1..Len(s) : s[i].row \in Row /\ Wrote(t, s[i].row)
    BY <1>1, <1>10, <2>1 DEF Wrote, WriteRecord
  <2> QED BY <1>0, <1>5, <1>13, <2>2 DEF Good, Writer, Frame, HitKept
<1>17. ASSUME ~ix_scan' PROVE ~ix_scan /\ Apart(t)'
  <2>1. ~ix_scan
    BY <1>0, <1>17, HistoryFacts
  <2>2. Apart(t)
    BY <2>1 DEF IInv
  <2>3. Undoable(t)'
    <3>1. CASE Reading(t)
      BY <1>6, <3>1 DEF Undoable, LocksKept
    <3>2. CASE ~Reading(t)
      <4>1. \A i \in 1..Len(s) : s[i].row \notin hit' =>
              /\ rows[s[i].row] # Empty
              /\ \A j \in 1..Len(s) : s[i].row = s[j].row => i = j
        BY <1>1, <1>10, <1>16a, <2>2, <3>2 DEF Apart, Undoable
      <4>2. \A i \in 1..(Len(s) - 1) : s[i].row \notin hit' => s[i].row # r /\ s[i].row \in Row
        <5>1. \A i \in 1..Len(s) : s[i] \in WriteRecord
          BY <1>10
        <5> QED BY <1>2, <1>3, <1>10, <4>1, <5>1 DEF WriteRecord
      <4> QED BY <1>7, <1>10, <4>1, <4>2 DEF Undoable
    <3> QED BY <3>1, <3>2
  <2> QED BY <1>0, <1>5, <2>1, <2>3 DEF Apart, Scanner, Seen, Fresh, InProgress
<1> QED BY <1>13, <1>14, <1>15, <1>16, <1>17, FrameKeeps DEF Good

(* A transaction between its statements with nothing to undo.              *)
LEMMA RestKeeps ==
  ASSUME IInv, NEW t \in Txn, Moves(t, Idle),
         view' \in [Txn -> [Row -> Value \cup {Empty, Unknown}]], \A u \in Txn \ {t} : view'[u] = view[u],
         write_set' \in [Txn -> Seq(WriteRecord)], \A u \in Txn \ {t} : write_set'[u] = write_set[u],
         write_set'[t] = <<>>, state'[t] # "failed",
         state'[t] \in {"none", "GROWING"} => \A r \in Row : view'[t][r] = Unknown
  PROVE  IInv'
<1>0. Types
  BY DEF IInv
<1>1. /\ pc'[t].at = "idle" /\ PcOK(pc'[t]) /\ DOMAIN pc' = Txn
      /\ \A u \in Txn \ {t} : pc'[u] = pc[u]
  BY PcFields DEF Moves
<1>2. Types'
  <2>1. \A u \in Txn : PcOK(pc'[u])
    BY <1>0, <1>1 DEF Types
  <2> QED BY <1>0, <1>1, <2>1, HistoryFacts DEF Types, Moves
<1>3. \A r \in Row : ~Wrote(t, r)'
  BY DEF Wrote
<1>4. Frame(t)
  BY <1>0, <1>1, <1>2, <1>3, HistoryFacts DEF Frame, Moves
<1>5. Good(t)'
  BY <1>1, <1>3 DEF Good, Life, Writer, Own, InProgress
<1>6. Apart(t)'
  BY <1>1, <1>3 DEF Apart, Scanner, Seen, Undoable, Fresh, InProgress
<1>7. ~ix_scan' => ~ix_scan
  BY <1>0, HistoryFacts DEF Moves
<1> QED BY <1>4, <1>5, <1>6, <1>7, FrameKeeps

(* No lock changes hands.                                                  *)
LEMMA SameQueues ==
  ASSUME IInv, UNCHANGED <<request_queue, group_lock_mode>>
  PROVE  LockTable' /\ \A u \in Txn : LocksKept(u)
BY DEF IInv, LockTable, LocksKept, Reading, Announced, ReadLocked, WriteLocked, LM!HeldMode

(* BEGIN, or the first statement of a single-statement transaction.        *)
LEMMA BeginStep ==
  ASSUME IInv, NEW t \in Txn, Begin(t), History(t)
  PROVE  IInv'
<1>0. Types /\ Good(t) /\ PcOK(pc[t]) /\ LM!TypeOK /\ state[t] = "none"
  BY DEF IInv, Types, Begin, LM!Begin
<1>1. /\ LM!TypeOK' /\ state'[t] = "GROWING" /\ \A u \in Txn \ {t} : state'[u] = state[u]
  BY <1>0 DEF Begin, LM!Begin, LM!TypeOK, LM!TxnState
<1>2. LockTable' /\ \A u \in Txn : LocksKept(u)
  BY SameQueues DEF Begin, LM!Begin
<1>3. pc[t] = Idle /\ write_set[t] = <<>> /\ \A r \in Row : view[t][r] = Unknown
  BY <1>0 DEF Good, Life, PcOK
<1>4. ops' \in [Txn -> 0..MaxOps] /\ begun' \in 0..MaxTxns
  BY <1>0, TxnConstants DEF Begin, Types
<1>5. pc' = pc /\ rows' = rows /\ view' = view /\ write_set' = write_set
  BY DEF Begin
<1>6. Moves(t, Idle)
  BY <1>0, <1>1, <1>2, <1>3, <1>4, <1>5, PcFields DEF Moves, Types
<1> QED BY <1>0, <1>1, <1>3, <1>5, <1>6, RestKeeps DEF Types

(* COMMIT and the end of abort: the unlock loop begins.                    *)
LEMMA ReleaseStep ==
  ASSUME IInv, NEW t \in Txn, Commit(t) \/ AbortRelease(t), History(t)
  PROVE  IInv'
<1>0. Types /\ LM!TypeOK /\ LM!StartRelease(t)
  BY DEF IInv, Commit, AbortRelease
<1>1. /\ LM!TypeOK' /\ state'[t] = "releasing" /\ \A u \in Txn \ {t} : state'[u] = state[u]
  BY <1>0 DEF LM!StartRelease, LM!TypeOK, LM!TxnState
<1>2. LockTable' /\ \A u \in Txn : LocksKept(u)
  BY <1>0, SameQueues DEF LM!StartRelease
<1>3. DOMAIN pc' = Txn /\ pc'[t] = Idle /\ \A u \in Txn \ {t} : pc'[u] = pc[u]
  BY <1>0 DEF Commit, AbortRelease, Goto, Types
<1>4. /\ write_set' \in [Txn -> Seq(WriteRecord)] /\ write_set'[t] = <<>>
      /\ \A u \in Txn \ {t} : write_set'[u] = write_set[u]
  <2>1. <<>> \in Seq(WriteRecord)
    OBVIOUS
  <2> QED BY <1>0, <2>1 DEF Commit, AbortRelease, Types
<1>5. ops' = ops /\ begun' = begun /\ rows' = rows /\ view' = view
  BY DEF Commit, AbortRelease
<1>6. Moves(t, Idle)
  BY <1>0, <1>1, <1>2, <1>3, <1>5, PcFields DEF Moves, Types
<1> QED BY <1>0, <1>1, <1>4, <1>5, <1>6, RestKeeps DEF Types

(* One round of the unlock loop, and the end of the transaction.           *)
LEMMA EndStep ==
  ASSUME IInv, NEW t \in Txn, Unlock(t) \/ End(t), History(t)
  PROVE  IInv'
<1>0. Types /\ Good(t) /\ PcOK(pc[t]) /\ LM!TypeOK /\ LockTable /\ state[t] = "releasing"
  BY DEF IInv, Types, Unlock, End, LM!UnlockNext, LM!EndTxn
<1>1. pc[t] = Idle /\ write_set[t] = <<>>
  BY <1>0 DEF Good, Life, PcOK
<1>2. /\ pc' = pc /\ write_set' = write_set /\ rows' = rows /\ ops' = ops /\ begun' = begun
  BY DEF Unlock, End
<1>3. CASE Unlock(t)
  <2>1. LM!TypeOK' /\ LockTable' /\ \A u \in Txn \ {t} : LocksKept(u)
    BY <1>0, <1>3, UnlockKeepsTable, UnlockKeepsLocks DEF Unlock
  <2>2. state' = state /\ view' = view
    BY <1>3 DEF Unlock, LM!UnlockNext
  <2>3. Moves(t, Idle)
    BY <1>0, <1>1, <1>2, <2>1, <2>2, PcFields DEF Moves, Types
  <2> QED BY <1>0, <1>1, <1>2, <2>2, <2>3, RestKeeps DEF Types
<1>4. CASE End(t)
  <2>1. /\ LM!TypeOK' /\ state'[t] = "none" /\ \A u \in Txn \ {t} : state'[u] = state[u]
    BY <1>0, <1>4 DEF End, LM!EndTxn, LM!TypeOK, LM!TxnState
  <2>2. LockTable' /\ \A u \in Txn : LocksKept(u)
    BY <1>4, SameQueues DEF End, LM!EndTxn
  <2>3. /\ view' \in [Txn -> [Row -> Value \cup {Empty, Unknown}]]
        /\ \A u \in Txn \ {t} : view'[u] = view[u]
        /\ \A r \in Row : view'[t][r] = Unknown
    BY <1>0, <1>4 DEF End, Types
  <2>4. Moves(t, Idle)
    BY <1>0, <1>1, <1>2, <2>1, <2>2, PcFields DEF Moves, Types
  <2> QED BY <1>0, <1>1, <1>2, <2>1, <2>3, <2>4, RestKeeps DEF Types
<1> QED BY <1>3, <1>4

-----------------------------------------------------------------------------
(* The invariant holds at the start.                                       *)
LEMMA InitIInv == Init => IInv
<1> SUFFICES ASSUME Init PROVE IInv
  OBVIOUS
<1>1. LM!TypeOK
  BY DEF Init, LM!Init, LM!TypeOK, LM!GroupLockMode, LM!TxnState
<1>2. LockTable
  BY DEF Init, LM!Init, LockTable, QueueOK, LM!Modes, LM!regroup
<1>3. Types
  <2>1. \A t \in Txn : PcOK(pc[t])
    BY PcFields DEF Init
  <2>2. write_set \in [Txn -> Seq(WriteRecord)]
    <3>1. <<>> \in Seq(WriteRecord)
      OBVIOUS
    <3> QED BY <3>1 DEF Init
  <2>3. ops \in [Txn -> 0..MaxOps] /\ begun \in 0..MaxTxns
    BY TxnConstants DEF Init
  <2> QED BY <2>1, <2>2, <2>3 DEF Init, Types
<1>4. ASSUME NEW t \in Txn PROVE Good(t) /\ Apart(t)
  <2>1. /\ pc[t].at = "idle" /\ write_set[t] = <<>> /\ state[t] = "none"
        /\ \A r \in Row : view[t][r] = Unknown
    BY PcFields DEF Init, LM!Init
  <2>2. \A r \in Row : ~Wrote(t, r)
    BY <2>1 DEF Wrote
  <2> QED BY <2>1, <2>2 DEF Good, Life, Writer, Own, Apart, Scanner, Seen, Undoable, Fresh, InProgress
<1> QED BY <1>1, <1>2, <1>3, <1>4 DEF IInv

(* Every step keeps it.                                                    *)
LEMMA NextIInv == IInv /\ [Next]_vars => IInv'
<1> SUFFICES ASSUME IInv, [Next]_vars PROVE IInv'
  OBVIOUS
<1>1. CASE Next
  <2>1. PICK t \in Txn : Step(t) /\ History(t)
    BY <1>1 DEF Next, History
  <2>2. /\ BeginScan(t, Select) => IInv'
        /\ BeginScan(t, DeleteRow) => IInv'
        /\ \A v \in Value : BeginScan(t, UpdateRow(v)) => IInv'
    BY <2>1, BeginScanStep DEF DeleteRow, UpdateRow
  <2>3. \A v \in Value : BeginInsert(t, v) => IInv'
    BY <2>1, BeginInsertStep
  <2> QED BY <2>1, <2>2, <2>3, BeginStep, ScanRowStep, WriteIntentStep, WriteRowStep, WriteNothingStep,
             InsertPredictStep, InsertWriteStep, InsertLockRowStep, ReleaseStep, AbortStep, AbortUndoStep, EndStep DEF Step
<1>2. CASE UNCHANGED vars
  <2>1. /\ UNCHANGED lm /\ rows' = rows /\ pc' = pc /\ write_set' = write_set /\ view' = view
        /\ ops' = ops /\ begun' = begun /\ bare' = bare /\ hit' = hit
        /\ ix_scan' = ix_scan
    BY <1>2 DEF vars
  <2>2. /\ request_queue' = request_queue /\ state' = state
    BY <2>1 DEF lm
  <2>3. LM!TypeOK' /\ LockTable' /\ Types'
    BY <2>1, SameLocks DEF IInv, Types
  <2>4. ASSUME NEW t \in Txn PROVE (Good(t)' <=> Good(t)) /\ (Apart(t)' <=> Apart(t))
    BY <2>1, <2>2 DEF Good, Life, Writer, Own, Apart, Scanner, Seen, Undoable, Fresh, InProgress, Wrote,
                      Reading, Announced, ReadLocked, WriteLocked, LM!HeldMode
  <2> QED BY <2>1, <2>3, <2>4 DEF IInv
<1> QED BY <1>1, <1>2

(* The invariant of every behaviour, for any number of transactions, rows, *)
(* statements and values.                                                  *)
THEOREM IsolationInvariant == Spec => []IInv
BY InitIInv, NextIInv, PTL DEF Spec

(* Isolation: what a transaction in progress has read or written stays,    *)
(* through all interleavings of scans, writes, refused locks, rollbacks    *)
(* and releases, except for rows seen without a lock of their own once     *)
(* lock() has answered S over IX, and for rows that an INSERT has written  *)
(* with a stale prediction of its slot.                                    *)
THEOREM IsolatedAlways == Spec => []Isolated
BY IsolationInvariant, IInvIsolated, PTL
=============================================================================
