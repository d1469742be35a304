-------------------------- MODULE LockManagerProofs --------------------------
(***************************************************************************)
(* Proofs about LockManager for every set of transactions, tables and      *)
(* records.                                                                *)
(***************************************************************************)
EXTENDS MCLockManager, NaturalsInduction, FiniteSetTheorems, TLAPS

-----------------------------------------------------------------------------
(* Facts about the decision tables.                                        *)

(* regroup and upgrade_group yield group modes.                            *)
LEMMA GroupTypes ==
  /\ \A modes \in SUBSET LockMode : regroup(modes) \in GroupLockMode
  /\ \A g \in GroupLockMode, m \in LockMode : upgrade_group(g, m) \in GroupLockMode
<1>1. ASSUME NEW modes \in SUBSET LockMode PROVE regroup(modes) \in GroupLockMode
  BY DEF regroup, GroupLockMode
<1>2. ASSUME NEW g \in GroupLockMode, NEW m \in LockMode
      PROVE  upgrade_group(g, m) \in GroupLockMode
  BY DEF upgrade_group, GroupLockMode, LockMode
<1> QED BY <1>1, <1>2

(* The incremental update of lock agrees with the recomputation of unlock. *)
LEMMA UpgradeIsRegroup ==
  ASSUME NEW modes \in SUBSET LockMode, NEW m \in LockMode
  PROVE  upgrade_group(regroup(modes), m) = regroup(modes \cup {m})
BY DEF upgrade_group, regroup, LockMode

(* A mode compatible with the group mode conflicts with no member of it.   *)
LEMMA CompatibleNoConflict ==
  ASSUME NEW modes \in SUBSET LockMode, NEW m \in LockMode,
         compatible(m, regroup(modes)), NEW n \in modes
  PROVE  ~Conflict(m, n)
BY DEF compatible, regroup, Conflict, Conflicts, LockMode

(* A mode refused by the group mode conflicts with some member of it.      *)
LEMMA IncompatibleConflict ==
  ASSUME NEW modes \in SUBSET LockMode, NEW m \in LockMode \ {"S_IX"},
         ~compatible(m, regroup(modes))
  PROVE  \E n \in modes : Conflict(m, n)
BY DEF compatible, regroup, Conflict, Conflicts, LockMode

(* Modes of a queue with one more request.                                 *)
LEMMA ModesOfUnion ==
  ASSUME NEW q, NEW t, NEW m
  PROVE  Modes(q \cup {[txn |-> t, mode |-> m]}) = Modes(q) \cup {m}
<1>1. [txn |-> t, mode |-> m].mode = m
  OBVIOUS
<1>2. \A x : x \in Modes(q \cup {[txn |-> t, mode |-> m]})
              <=> \E r \in q \cup {[txn |-> t, mode |-> m]} : x = r.mode
  BY DEF Modes
<1>3. \A x : x \in Modes(q) <=> \E r \in q : x = r.mode
  BY DEF Modes
<1> QED BY <1>1, <1>2, <1>3

(* The conflict relation of modes is symmetric.                            *)
LEMMA ConflictSymmetric == \A m, n : Conflict(m, n) => Conflict(n, m)
BY DEF Conflict

-----------------------------------------------------------------------------
(* The steps of Next, one disjunct per way a step changes the lock table:  *)
(* every later proof has one case for each.                                *)
Step(t) ==
  \/ Begin(t)
  \/ \E lid \in LockDataId, mode \in LockMode \ {"S_IX"} :
       /\ lock(t, lid, mode)
       /\ lid \in Record => mode \in {"SHARED", "EXLUCSIVE"}
  \/ StartRelease(t)
  \/ UnlockNext(t)
  \/ EndTxn(t)

(* Every disjunct of Next is a Step of one transaction.                    *)
LEMMA NextSteps == ASSUME Next PROVE \E t \in Txn : Step(t)
<1>1. PICK t \in Txn : \/ Begin(t)
                       \/ \E rec \in Record : LockOnRecord(t, rec)
                       \/ \E tab \in Table : LockOnTable(t, tab)
                       \/ Release(t)
  BY DEF Next
<1>2. CASE \E rec \in Record : LockOnRecord(t, rec)
  BY <1>2 DEF Step, LockOnRecord, LockDataId, LockMode
<1>3. CASE \E tab \in Table : LockOnTable(t, tab)
  <2>1. PICK tab \in Table : LockOnTable(t, tab)
    BY <1>3
  <2>2. tab \in LockDataId /\ tab \notin Record
    BY TableRecordDisjoint DEF LockDataId
  <2> QED BY <2>1, <2>2 DEF Step, LockOnTable, LockMode
<1> QED BY <1>1, <1>2, <1>3 DEF Step, Release

(* Every variable keeps its type, through lock, its upgrades and its       *)
(* exceptions, and the unlock loop of commit and abort.                    *)
THEOREM TypeCorrect == Spec => []TypeOK
<1>1. Init => TypeOK
  BY DEF Init, TypeOK, GroupLockMode, TxnState
<1>2. TypeOK /\ [Next]_vars => TypeOK'
  <2> SUFFICES ASSUME TypeOK, [Next]_vars PROVE TypeOK'
    OBVIOUS
  <2>1. CASE UNCHANGED vars
    BY <2>1 DEF vars, TypeOK
  <2>2. CASE Next
    <3>1. PICK t \in Txn : Step(t)
      BY <2>2, NextSteps
    <3>2. CASE Begin(t)
      BY <3>2 DEF Begin, TypeOK, TxnState
    <3>3. ASSUME NEW lid \in LockDataId, NEW mode \in LockMode, lock(t, lid, mode)
          PROVE  TypeOK'
      <4>1. CASE state' = [state EXCEPT ![t] = "failed"]
                 /\ UNCHANGED <<request_queue, group_lock_mode, lock_set, to_unlock, acquired>>
        BY <4>1 DEF TypeOK, TxnState
      <4>2. CASE /\ acquired' = [acquired EXCEPT ![t] = @ \cup ({lid} \cap Record) \X {mode}]
                 /\ UNCHANGED <<state, to_unlock>>
        <5>1. acquired' \in [Txn -> SUBSET (LockDataId \X LockMode)]
          BY <4>2 DEF TypeOK
        <5>2. ASSUME NEW granted \in LockMode, Install(t, lid, mode, granted)
              PROVE  TypeOK'
          <6>1. [txn |-> t, mode |-> granted] \in LockRequest
            BY DEF LockRequest
          <6>2. request_queue' \in [LockDataId -> SUBSET LockRequest]
            BY <5>2, <6>1 DEF Install, TypeOK
          <6>3. group_lock_mode' \in [LockDataId -> GroupLockMode]
            BY <5>2, GroupTypes DEF Install, TypeOK
          <6>4. lock_set' \in [Txn -> SUBSET LockDataId]
            BY <5>2 DEF Install, TypeOK
          <6> QED BY <4>2, <5>1, <6>2, <6>3, <6>4 DEF TypeOK
        <5>3. CASE AlreadyHeld(t, lid, mode)
          BY <4>2, <5>1, <5>3 DEF AlreadyHeld, TypeOK
        <5>4. CASE UpgradeToX(t, lid, mode) \/ UpgradeToSIX(t, lid, mode) \/ Grant(t, lid, mode)
          <6>1. "EXLUCSIVE" \in LockMode /\ "S_IX" \in LockMode
            BY DEF LockMode
          <6> QED BY <5>2, <5>4, <6>1 DEF UpgradeToX, UpgradeToSIX, Grant
        <5> QED BY <3>3, <4>2, <5>3, <5>4, <4>1 DEF lock
      <4> QED BY <3>3, <4>1, <4>2 DEF lock
    <3>4. CASE StartRelease(t)
      BY <3>4 DEF StartRelease, TypeOK, TxnState
    <3>5. CASE UnlockNext(t)
      <4>1. PICK lid \in to_unlock[t] :
              /\ unlock(t, lid)
              /\ to_unlock' = [to_unlock EXCEPT ![t] = @ \ {lid}]
        BY <3>5 DEF UnlockNext
      <4>2. lid \in LockDataId
        BY <4>1 DEF TypeOK
      <4> DEFINE left == {r \in request_queue[lid] : r.txn # t}
      <4>3. left \in SUBSET LockRequest
        BY <4>2 DEF TypeOK
      <4>4. regroup(Modes(left)) \in GroupLockMode
        BY <4>3, GroupTypes DEF Modes, LockRequest
      <4> QED BY <3>5, <4>1, <4>2, <4>3, <4>4 DEF UnlockNext, unlock, TypeOK
    <3>6. CASE EndTxn(t)
      BY <3>6 DEF EndTxn, TypeOK, TxnState
    <3> QED BY <3>1, <3>2, <3>3, <3>4, <3>5, <3>6 DEF Step
  <2> QED BY <2>1, <2>2
<1> QED BY <1>1, <1>2, PTL DEF Spec

-----------------------------------------------------------------------------
(* The inductive invariant of the lock table.  It is a conjunction of a    *)
(* predicate on each queue and its cached group mode: the compatibility    *)
(* test of lock only sees the group mode, so the two must go together.     *)
QueueOK(q, g) ==
  /\ \A a, b \in q : a.txn = b.txn => a = b
  /\ \A a, b \in q : a.txn # b.txn => ~Conflict(a.mode, b.mode)
  /\ g = regroup(Modes(q))

LockTableInv == \A lid \in LockDataId : QueueOK(request_queue[lid], group_lock_mode[lid])

(* A new request that passes the compatibility test.                       *)
LEMMA GrantKeepsQueue ==
  ASSUME NEW q \in SUBSET LockRequest, NEW g, NEW t \in Txn, NEW mode \in LockMode,
         QueueOK(q, g), \A r \in q : r.txn # t, compatible(mode, g)
  PROVE  QueueOK({r \in q : r.txn # t} \cup {[txn |-> t, mode |-> mode]},
                 upgrade_group(g, mode))
<1> DEFINE new == [txn |-> t, mode |-> mode]
           q2 == {r \in q : r.txn # t} \cup {new}
<1>1. q2 = q \cup {new}
  OBVIOUS
<1>2. Modes(q) \in SUBSET LockMode /\ Modes(q2) = Modes(q) \cup {mode}
  <2>1. Modes(q) \in SUBSET LockMode
    BY DEF Modes, LockRequest
  <2>2. Modes(q \cup {new}) = Modes(q) \cup {mode}
    BY ModesOfUnion
  <2> QED BY <1>1, <2>1, <2>2
<1>3. upgrade_group(g, mode) = regroup(Modes(q2))
  BY <1>2, UpgradeIsRegroup DEF QueueOK
<1>4. \A a \in q : ~Conflict(mode, a.mode)
  BY <1>2, CompatibleNoConflict DEF QueueOK, Modes
<1>5. \A a \in q : ~Conflict(a.mode, mode)
  BY <1>4, ConflictSymmetric
<1>6. \A a, b \in q2 : a.txn = b.txn => a = b
  BY <1>1 DEF QueueOK
<1>7. \A a, b \in q2 : a.txn # b.txn => ~Conflict(a.mode, b.mode)
  BY <1>1, <1>4, <1>5 DEF QueueOK
<1> QED BY <1>3, <1>6, <1>7 DEF QueueOK

(* S -> X when nobody else is in the queue.                                *)
LEMMA UpgradeToXKeepsQueue ==
  ASSUME NEW q \in SUBSET LockRequest, NEW g, NEW t \in Txn,
         QueueOK(q, g), \A r \in q : r.txn = t
  PROVE  QueueOK({r \in q : r.txn # t} \cup {[txn |-> t, mode |-> "EXLUCSIVE"]},
                 upgrade_group(g, "EXLUCSIVE"))
<1> DEFINE q2 == {r \in q : r.txn # t} \cup {[txn |-> t, mode |-> "EXLUCSIVE"]}
<1>1. q2 = {[txn |-> t, mode |-> "EXLUCSIVE"]}
  OBVIOUS
<1>2. "EXLUCSIVE" \in Modes(q2)
  <2>1. Modes(q2) = Modes({r \in q : r.txn # t}) \cup {"EXLUCSIVE"}
    BY ModesOfUnion
  <2> QED BY <2>1
<1> QED BY <1>1, <1>2 DEF QueueOK, regroup, upgrade_group

(* S -> S_IX when nobody else holds S: all others then hold IS.            *)
LEMMA UpgradeToSIXKeepsQueue ==
  ASSUME NEW q \in SUBSET LockRequest, NEW g, NEW t \in Txn,
         QueueOK(q, g), [txn |-> t, mode |-> "SHARED"] \in q,
         \A r \in q : r.txn # t => r.mode # "SHARED"
  PROVE  QueueOK({r \in q : r.txn # t} \cup {[txn |-> t, mode |-> "S_IX"]},
                 upgrade_group(g, "INTENTION_EXCLUSIVE"))
<1> DEFINE old == [txn |-> t, mode |-> "SHARED"]
           new == [txn |-> t, mode |-> "S_IX"]
           q2 == {r \in q : r.txn # t} \cup {new}
<1>1. \A r \in q : r.txn # t => r.mode = "INTENTION_SHARED"
  BY DEF QueueOK, Conflict, Conflicts, LockRequest, LockMode
<1>2. \A r \in q : r.txn = t => r = old
  BY DEF QueueOK
<1>3. "SHARED" \in Modes(q) /\ "EXLUCSIVE" \notin Modes(q)
  BY <1>1, <1>2 DEF Modes
<1>4. g \in {"S", "SIX"}
  BY <1>3 DEF QueueOK, regroup
<1>5. "S_IX" \in Modes(q2) /\ "EXLUCSIVE" \notin Modes(q2)
  <2>1. Modes(q2) = Modes({r \in q : r.txn # t}) \cup {"S_IX"}
    BY ModesOfUnion
  <2>2. "EXLUCSIVE" \notin Modes({r \in q : r.txn # t})
    BY <1>1 DEF Modes
  <2> QED BY <2>1, <2>2
<1>6. upgrade_group(g, "INTENTION_EXCLUSIVE") = regroup(Modes(q2))
  BY <1>4, <1>5 DEF upgrade_group, regroup
<1>7. \A a, b \in q2 : a.txn = b.txn => a = b
  BY DEF QueueOK
<1>8. \A a, b \in q2 : a.txn # b.txn => ~Conflict(a.mode, b.mode)
  BY <1>1 DEF QueueOK, Conflict, Conflicts
<1> QED BY <1>6, <1>7, <1>8 DEF QueueOK

(* unlock takes out the requests of one transaction and recomputes.        *)
LEMMA UnlockKeepsQueue ==
  ASSUME NEW q, NEW g, NEW t, QueueOK(q, g)
  PROVE  LET left == {r \in q : r.txn # t} IN QueueOK(left, regroup(Modes(left)))
BY DEF QueueOK

(* A step changes at most one queue, in one of four ways.                  *)
LEMMA LockTableStep ==
  ASSUME TypeOK, LockTableInv, NEW t \in Txn, Step(t)
  PROVE  LockTableInv'
<1>1. ASSUME NEW lid \in LockDataId, NEW q, NEW g, QueueOK(q, g),
             request_queue' = [request_queue EXCEPT ![lid] = q],
             group_lock_mode' = [group_lock_mode EXCEPT ![lid] = g]
      PROVE  LockTableInv'
  BY <1>1 DEF LockTableInv, TypeOK
<1>2. CASE UNCHANGED <<request_queue, group_lock_mode>>
  BY <1>2 DEF LockTableInv
<1>3. ASSUME NEW lid \in LockDataId, NEW mode \in LockMode, lock(t, lid, mode)
      PROVE  LockTableInv'
  <2> DEFINE q == request_queue[lid]
             g == group_lock_mode[lid]
  <2>1. q \in SUBSET LockRequest /\ QueueOK(q, g)
    BY DEF TypeOK, LockTableInv
  <2>2. CASE AlreadyHeld(t, lid, mode) \/ Refused(t, lid, mode)
    BY <1>2, <1>3, <2>2 DEF AlreadyHeld, lock
  <2>3. CASE ~Refused(t, lid, mode) /\ UpgradeToX(t, lid, mode)
    <3>1. \A r \in q : r.txn = t
      BY <2>3 DEF Refused, UpgradeToX
    <3> HIDE DEF q, g
    <3>2. QueueOK({r \in q : r.txn # t} \cup {[txn |-> t, mode |-> "EXLUCSIVE"]},
                  upgrade_group(g, "EXLUCSIVE"))
      BY <2>1, <3>1, UpgradeToXKeepsQueue
    <3> QED BY <1>1, <2>3, <3>2 DEF UpgradeToX, Install, TypeOK, q, g
  <2>4. CASE ~Refused(t, lid, mode) /\ UpgradeToSIX(t, lid, mode)
    <3>1. [txn |-> t, mode |-> "SHARED"] \in q /\ \A r \in q : r.txn # t => r.mode # "SHARED"
      BY <2>4 DEF Refused, UpgradeToSIX, HeldMode
    <3> HIDE DEF q, g
    <3>2. QueueOK({r \in q : r.txn # t} \cup {[txn |-> t, mode |-> "S_IX"]},
                  upgrade_group(g, "INTENTION_EXCLUSIVE"))
      BY <2>1, <3>1, UpgradeToSIXKeepsQueue
    <3> QED BY <1>1, <2>4, <3>2 DEF UpgradeToSIX, Install, TypeOK, q, g
  <2>5. CASE ~Refused(t, lid, mode) /\ Grant(t, lid, mode)
    <3>1. (\A r \in q : r.txn # t) /\ compatible(mode, g)
      BY <2>5 DEF Refused, Grant, Holds
    <3> HIDE DEF q, g
    <3>2. QueueOK({r \in q : r.txn # t} \cup {[txn |-> t, mode |-> mode]},
                  upgrade_group(g, mode))
      BY <2>1, <3>1, GrantKeepsQueue
    <3> QED BY <1>1, <2>5, <3>2 DEF Grant, Install, TypeOK, q, g
  <2> QED BY <1>3, <2>2, <2>3, <2>4, <2>5 DEF lock
<1>4. CASE UnlockNext(t)
  <2>1. PICK lid \in to_unlock[t] : unlock(t, lid)
    BY <1>4 DEF UnlockNext
  <2>2. lid \in LockDataId
    BY <2>1 DEF TypeOK
  <2> DEFINE left == {r \in request_queue[lid] : r.txn # t}
  <2>3. QueueOK(left, regroup(Modes(left)))
    BY <2>2, UnlockKeepsQueue DEF LockTableInv
  <2> QED BY <1>1, <2>1, <2>2, <2>3 DEF unlock
<1> QED BY <1>2, <1>3, <1>4 DEF Step, Begin, StartRelease, EndTxn

(* Every queue is well formed at all times: one request per transaction,   *)
(* no conflict, and a group mode that is the strongest mode of the queue.  *)
THEOREM LockTableInvariant == Spec => []LockTableInv
<1>1. Init => LockTableInv
  BY DEF Init, LockTableInv, QueueOK, Modes, regroup
<1>2. TypeOK /\ LockTableInv /\ [Next]_vars => LockTableInv'
  BY NextSteps, LockTableStep DEF vars, LockTableInv
<1> QED BY <1>1, <1>2, TypeCorrect, PTL DEF Spec

(* No two transactions ever hold conflicting modes on a table or a record. *)
THEOREM GrantedCompatibleAlways == Spec => []GrantedCompatible
<1>1. LockTableInv => GrantedCompatible
  BY DEF LockTableInv, QueueOK, GrantedCompatible
<1> QED BY <1>1, LockTableInvariant, PTL

(* The group_lock_mode_ that lock updates and unlock recomputes is never   *)
(* stale.                                                                  *)
THEOREM GroupIsStrongestAlways == Spec => []GroupIsStrongest
<1>1. LockTableInv => GroupIsStrongest
  BY DEF LockTableInv, QueueOK, GroupIsStrongest
<1> QED BY <1>1, LockTableInvariant, PTL

(* lock refuses a request only because of another transaction's            *)
(* conflicting lock.                                                       *)
THEOREM RefusalJustifiedAlways == Spec => []RefusalJustified
<1>1. ASSUME TypeOK, LockTableInv, NEW t \in Txn, NEW lid \in LockDataId,
             NEW mode \in LockMode \ {"S_IX"}, Refused(t, lid, mode)
      PROVE  \E r \in request_queue[lid] : r.txn # t /\ Conflict(mode, r.mode)
  <2>1. CASE ~Holds(t, lid) /\ ~compatible(mode, group_lock_mode[lid])
    <3>1. Modes(request_queue[lid]) \in SUBSET LockMode
      BY <1>1 DEF TypeOK, Modes, LockRequest
    <3>2. group_lock_mode[lid] = regroup(Modes(request_queue[lid]))
      BY <1>1 DEF LockTableInv, QueueOK
    <3>3. \E n \in Modes(request_queue[lid]) : Conflict(mode, n)
      BY <1>1, <2>1, <3>1, <3>2, IncompatibleConflict
    <3> QED BY <2>1, <3>3 DEF Modes, Holds
  <2>2. CASE ~(~Holds(t, lid) /\ ~compatible(mode, group_lock_mode[lid]))
    BY <1>1, <2>2 DEF Refused, Conflict, Conflicts, TypeOK, LockRequest, LockMode
  <2> QED BY <2>1, <2>2
<1>2. TypeOK /\ LockTableInv => RefusalJustified
  BY <1>1 DEF RefusalJustified
<1> QED BY <1>2, TypeCorrect, LockTableInvariant, PTL

-----------------------------------------------------------------------------
(* How a step changes who is in which queue.                               *)
LEMMA QueueStep ==
  ASSUME TypeOK, NEW t \in Txn, NEW lid \in LockDataId, NEW mode \in LockMode,
         lock(t, lid, mode)
  PROVE  \/ UNCHANGED <<request_queue, lock_set, to_unlock>>
         \/ /\ \E granted \in {mode, "S_IX"} :
                 request_queue' = [request_queue EXCEPT ![lid] =
                   {r \in @ : r.txn # t} \cup {[txn |-> t, mode |-> granted]}]
            /\ lock_set' = [lock_set EXCEPT ![t] = @ \cup {lid}]
            /\ UNCHANGED <<state, to_unlock>>
BY DEF lock, UpgradeToX, UpgradeToSIX, Grant, AlreadyHeld, Install

(* The locks a transaction has still to give back are exactly those its    *)
(* unlock loop will visit.                                                 *)
THEOREM LockSetExactAlways == Spec => []LockSetExact
<1>1. Init => LockSetExact
  BY DEF Init, LockSetExact, Holds
<1>2. ASSUME TypeOK, LockSetExact, NEW t \in Txn, Step(t) PROVE LockSetExact'
  <2> SUFFICES ASSUME NEW u \in Txn, NEW x \in LockDataId
               PROVE  (Holds(u, x) <=> IF state[u] = "releasing" THEN x \in to_unlock[u]
                                                                 ELSE x \in lock_set[u])'
    BY DEF LockSetExact
  <2>0. Holds(u, x) <=> IF state[u] = "releasing" THEN x \in to_unlock[u]
                                                  ELSE x \in lock_set[u]
    BY <1>2 DEF LockSetExact
  <2>1. CASE Begin(t)
    BY <1>2, <2>0, <2>1 DEF Begin, Holds, TypeOK
  <2>2. ASSUME NEW lid \in LockDataId, NEW mode \in LockMode, lock(t, lid, mode)
        PROVE  (Holds(u, x) <=> IF state[u] = "releasing" THEN x \in to_unlock[u]
                                                          ELSE x \in lock_set[u])'
    <3>1. state[t] = "GROWING" /\ state'[t] # "releasing" /\ (u # t => state'[u] = state[u])
      BY <1>2, <2>2 DEF lock, TypeOK
    <3>2. CASE UNCHANGED <<request_queue, lock_set, to_unlock>>
      BY <2>0, <3>1, <3>2 DEF Holds
    <3>3. ASSUME NEW granted, request_queue' = [request_queue EXCEPT ![lid] =
                   {r \in @ : r.txn # t} \cup {[txn |-> t, mode |-> granted]}],
                 lock_set' = [lock_set EXCEPT ![t] = @ \cup {lid}],
                 UNCHANGED <<state, to_unlock>>
          PROVE  (Holds(u, x) <=> IF state[u] = "releasing" THEN x \in to_unlock[u]
                                                            ELSE x \in lock_set[u])'
      <4>1. CASE x = lid /\ u = t
        <5>1. [txn |-> t, mode |-> granted] \in request_queue'[lid]
          BY <1>2, <3>3 DEF TypeOK
        <5>2. Holds(u, x)'
          BY <4>1, <5>1 DEF Holds
        <5> QED BY <1>2, <3>1, <3>3, <4>1, <5>2 DEF TypeOK
      <4>2. CASE x # lid \/ u # t
        <5>1. Holds(u, x)' <=> Holds(u, x)
          BY <1>2, <3>3, <4>2 DEF Holds, TypeOK
        <5> QED BY <1>2, <2>0, <3>3, <4>2, <5>1 DEF TypeOK
      <4> QED BY <4>1, <4>2
    <3>4. \/ UNCHANGED <<request_queue, lock_set, to_unlock>>
          \/ /\ \E granted \in {mode, "S_IX"} :
                  request_queue' = [request_queue EXCEPT ![lid] =
                    {r \in @ : r.txn # t} \cup {[txn |-> t, mode |-> granted]}]
             /\ lock_set' = [lock_set EXCEPT ![t] = @ \cup {lid}]
             /\ UNCHANGED <<state, to_unlock>>
      BY <1>2, <2>2, QueueStep
    <3> QED BY <3>2, <3>3, <3>4
  <2>3. CASE StartRelease(t)
    BY <1>2, <2>0, <2>3 DEF StartRelease, Holds, TypeOK
  <2>4. CASE UnlockNext(t)
    <3>1. PICK lid \in to_unlock[t] :
            /\ unlock(t, lid)
            /\ to_unlock' = [to_unlock EXCEPT ![t] = @ \ {lid}]
      BY <2>4 DEF UnlockNext
    <3>2. lid \in LockDataId
      BY <1>2, <3>1 DEF TypeOK
    <3>3. CASE x = lid /\ u = t
      BY <1>2, <2>4, <3>1, <3>2, <3>3 DEF UnlockNext, unlock, Holds, TypeOK
    <3>4. CASE x # lid \/ u # t
      <4>1. Holds(u, x)' <=> Holds(u, x)
        BY <1>2, <3>1, <3>2, <3>4 DEF unlock, Holds, TypeOK
      <4> QED BY <1>2, <2>0, <2>4, <3>1, <3>4, <4>1 DEF UnlockNext, TypeOK
    <3> QED BY <3>3, <3>4
  <2>5. CASE EndTxn(t)
    BY <1>2, <2>0, <2>5 DEF EndTxn, Holds, TypeOK
  <2> QED BY <1>2, <2>1, <2>2, <2>3, <2>4, <2>5 DEF Step
<1>3. TypeOK /\ LockSetExact /\ [Next]_vars => LockSetExact'
  BY <1>2, NextSteps DEF vars, LockSetExact, Holds
<1> QED BY <1>1, <1>3, TypeCorrect, PTL DEF Spec

-----------------------------------------------------------------------------
(* What a live transaction was promised about a record it still has.  A    *)
(* record queue only ever holds S and X, so a request for X that finds the *)
(* transaction already in the queue finds X there or upgrades S to X.      *)
RecordModes ==
  \A rec \in Record : \A r \in request_queue[rec] : r.mode \in {"SHARED", "EXLUCSIVE"}

AcquiredHeld ==
  \A t \in Txn :
    /\ state[t] = "none" => acquired[t] = {}
    /\ state[t] = "GROWING" =>
         \A rec \in Record : \A m \in LockMode :
           <<rec, m>> \in acquired[t] =>
             \E r \in request_queue[rec] : r.txn = t /\ (m = "EXLUCSIVE" => r.mode = m)

(* Only S and X are ever requested on a record, so only they are held.     *)
LEMMA RecordModesStep ==
  ASSUME TypeOK, RecordModes, NEW t \in Txn, Step(t)
  PROVE  RecordModes'
<1>1. CASE UNCHANGED request_queue
  BY <1>1 DEF RecordModes
<1>2. ASSUME NEW lid \in LockDataId, NEW mode \in LockMode \ {"S_IX"}, lock(t, lid, mode),
             lid \in Record => mode \in {"SHARED", "EXLUCSIVE"}
      PROVE  RecordModes'
  <2>1. CASE UpgradeToX(t, lid, mode) \/ Grant(t, lid, mode)
    BY <1>2, <2>1 DEF UpgradeToX, Grant, Install, RecordModes, TypeOK, LockDataId
  <2>2. CASE UpgradeToSIX(t, lid, mode)
    <3>1. lid \notin Record
      BY <1>2, <2>2 DEF UpgradeToSIX
    <3> QED BY <2>2, <3>1 DEF UpgradeToSIX, Install, RecordModes, TypeOK, LockDataId
  <2> QED BY <1>1, <1>2, <2>1, <2>2 DEF lock, AlreadyHeld
<1>3. CASE UnlockNext(t)
  BY <1>3 DEF UnlockNext, unlock, RecordModes, TypeOK, LockDataId
<1> QED BY <1>1, <1>2, <1>3 DEF Step, Begin, StartRelease, EndTxn

(* What lock has answered with true on a record is still in its queue, X   *)
(* as X, as long as the transaction is live.                               *)
LEMMA AcquiredHeldStep ==
  ASSUME TypeOK, RecordModes, AcquiredHeld, NEW t \in Txn, Step(t)
  PROVE  AcquiredHeld'
<1>1. CASE Begin(t) \/ StartRelease(t) \/ EndTxn(t)
  BY <1>1 DEF Begin, StartRelease, EndTxn, AcquiredHeld, TypeOK
<1>2. CASE UnlockNext(t)
  <2>1. PICK lid \in to_unlock[t] : unlock(t, lid)
    BY <1>2 DEF UnlockNext
  <2>2. \A rec \in LockDataId : \A r \in request_queue[rec] :
          r.txn # t => r \in request_queue'[rec]
    BY <2>1 DEF unlock, TypeOK
  <2> QED BY <1>2, <2>2 DEF UnlockNext, AcquiredHeld, TypeOK, LockDataId
<1>3. ASSUME NEW lid \in LockDataId, NEW mode \in LockMode, lock(t, lid, mode),
             lid \in Record => mode \in {"SHARED", "EXLUCSIVE"}
      PROVE  AcquiredHeld'
  <2>1. CASE Refused(t, lid, mode)
    BY <1>3, <2>1 DEF lock, AcquiredHeld, TypeOK
  <2>2. CASE ~Refused(t, lid, mode)
    <3>1. /\ state[t] = "GROWING" /\ UNCHANGED state
          /\ acquired' = [acquired EXCEPT ![t] = @ \cup ({lid} \cap Record) \X {mode}]
      BY <1>3, <2>2 DEF lock
    (* Every request survives, except that t's own S on lid may become X.  *)
    <3>2. ASSUME NEW rec \in Record, NEW r \in request_queue[rec]
          PROVE  \/ r \in request_queue'[rec]
                 \/ r.txn = t /\ rec = lid /\ HeldMode(t, lid, "EXLUCSIVE")'
      <4>1. CASE AlreadyHeld(t, lid, mode)
        BY <4>1 DEF AlreadyHeld
      <4>2. CASE UpgradeToX(t, lid, mode) \/ Grant(t, lid, mode)
        BY <4>2 DEF UpgradeToX, Grant, Install, Holds, HeldMode, TypeOK, LockDataId
      <4>3. CASE UpgradeToSIX(t, lid, mode)
        <5>1. lid # rec
          BY <1>3, <4>3 DEF UpgradeToSIX
        <5> QED BY <4>3, <5>1 DEF UpgradeToSIX, Install, TypeOK, LockDataId
      <4> QED BY <1>3, <2>2, <4>1, <4>2, <4>3 DEF lock
    (* The request just acknowledged is in the queue, as X if X was asked. *)
    <3>3. ASSUME lid \in Record
          PROVE  \E r \in request_queue'[lid] : r.txn = t /\ (mode = "EXLUCSIVE" => r.mode = mode)
      <4>1. CASE AlreadyHeld(t, lid, mode)
        <5>1. PICK r \in request_queue[lid] : r.txn = t
          BY <4>1 DEF AlreadyHeld, Holds
        <5>2. r = [txn |-> t, mode |-> r.mode]
          BY <5>1 DEF TypeOK, LockRequest
        <5>3. r.mode \in {"SHARED", "EXLUCSIVE"}
          BY <3>3 DEF RecordModes
        <5>4. mode = "EXLUCSIVE" => r.mode = mode
          BY <4>1, <5>2, <5>3 DEF AlreadyHeld, HeldMode
        <5> QED BY <4>1, <5>1, <5>4 DEF AlreadyHeld
      <4>2. CASE UpgradeToX(t, lid, mode) \/ Grant(t, lid, mode)
        <5>1. [txn |-> t, mode |-> mode] \in request_queue'[lid]
          BY <4>2 DEF UpgradeToX, Grant, Install, TypeOK
        <5> QED BY <5>1
      <4>3. ~UpgradeToSIX(t, lid, mode)
        BY <1>3, <3>3 DEF UpgradeToSIX
      <4> QED BY <1>3, <2>2, <4>1, <4>2, <4>3 DEF lock
    <3>4. ASSUME NEW u \in Txn, state'[u] = "GROWING", NEW rec \in Record, NEW m \in LockMode,
                 <<rec, m>> \in acquired'[u]
          PROVE  \E r \in request_queue'[rec] : r.txn = u /\ (m = "EXLUCSIVE" => r.mode = m)
      <4>1. CASE u = t /\ <<rec, m>> = <<lid, mode>>
        BY <3>3, <4>1
      <4>2. CASE ~(u = t /\ <<rec, m>> = <<lid, mode>>)
        <5>1. <<rec, m>> \in acquired[u] /\ state[u] = "GROWING"
          BY <3>1, <3>4, <4>2 DEF TypeOK
        <5>2. PICK r \in request_queue[rec] : r.txn = u /\ (m = "EXLUCSIVE" => r.mode = m)
          BY <5>1 DEF AcquiredHeld
        <5>3. CASE r \in request_queue'[rec]
          BY <5>2, <5>3
        <5>4. CASE r.txn = t /\ rec = lid /\ HeldMode(t, lid, "EXLUCSIVE")'
          <6>1. [txn |-> t, mode |-> "EXLUCSIVE"] \in request_queue'[rec] /\ u = t
            BY <5>2, <5>4 DEF HeldMode
          <6> QED BY <6>1
        <5> QED BY <3>2, <5>3, <5>4
      <4> QED BY <4>1, <4>2
    <3>5. \A u \in Txn : state'[u] = "none" => acquired'[u] = {}
      BY <3>1 DEF AcquiredHeld, TypeOK
    <3> QED BY <3>4, <3>5 DEF AcquiredHeld
  <2> QED BY <2>1, <2>2
<1> QED BY <1>1, <1>2, <1>3 DEF Step

(* Record-level isolation, for any number of transactions and records.     *)
THEOREM RecordExclusionAlways == Spec => []RecordExclusion
<1>1. Init => RecordModes /\ AcquiredHeld
  BY DEF Init, RecordModes, AcquiredHeld, LockDataId
<1>2. TypeOK /\ RecordModes /\ AcquiredHeld /\ [Next]_vars => (RecordModes /\ AcquiredHeld)'
  <2> SUFFICES ASSUME TypeOK, RecordModes, AcquiredHeld, [Next]_vars
               PROVE  (RecordModes /\ AcquiredHeld)'
    OBVIOUS
  <2>1. CASE UNCHANGED vars
    BY <2>1 DEF vars, RecordModes, AcquiredHeld
  <2>2. CASE Next
    BY <2>2, NextSteps, RecordModesStep, AcquiredHeldStep
  <2> QED BY <2>1, <2>2
<1>3. TypeOK /\ AcquiredHeld /\ GrantedCompatible => RecordExclusion
  <2> SUFFICES ASSUME TypeOK, AcquiredHeld, GrantedCompatible,
                      NEW t \in Txn, NEW u \in Txn, NEW rec \in Record, t # u,
                      state[t] = "GROWING", state[u] = "GROWING",
                      <<rec, "EXLUCSIVE">> \in acquired[t],
                      NEW m \in LockMode, <<rec, m>> \in acquired[u]
               PROVE  FALSE
    BY DEF RecordExclusion
  <2>1. PICK q \in request_queue[rec] : q.txn = t /\ q.mode = "EXLUCSIVE"
    <3>1. "EXLUCSIVE" \in LockMode
      BY DEF LockMode
    <3> QED BY <3>1 DEF AcquiredHeld
  <2>2. PICK r \in request_queue[rec] : r.txn = u
    BY DEF AcquiredHeld
  <2>3. r.mode \in LockMode /\ rec \in LockDataId
    BY DEF TypeOK, LockRequest, LockDataId
  <2>4. Conflict(q.mode, r.mode)
    BY <2>1, <2>3 DEF Conflict, Conflicts, LockMode
  <2> QED BY <2>1, <2>2, <2>3, <2>4 DEF GrantedCompatible
<1> QED BY <1>1, <1>2, <1>3, TypeCorrect, GrantedCompatibleAlways, PTL DEF Spec

-----------------------------------------------------------------------------
(* A mode excludes what it excludes.                                       *)
LEMMA CoversReflexive == \A m : Covers(m, m)
BY DEF Covers

(* Strict two-phase locking: a lock is neither lost nor weakened before    *)
(* the release phase of its transaction.                                   *)
THEOREM HeldNeverWeakensAlways == Spec => HeldNeverWeakens
<1>1. ASSUME TypeOK, OneRequestPerTxn, NEW t \in Txn, Step(t),
             NEW u \in Txn, NEW x \in LockDataId, NEW r \in request_queue[x],
             r.txn = u, state[u] # "releasing"
      PROVE  \E s \in request_queue'[x] : s.txn = u /\ Covers(s.mode, r.mode)
  <2>1. CASE r \in request_queue'[x]
    BY <1>1, <2>1, CoversReflexive
  <2>2. CASE UNCHANGED request_queue
    BY <2>1, <2>2
  <2>3. CASE UnlockNext(t)
    <3>1. u # t
      BY <1>1, <2>3 DEF UnlockNext
    <3>2. r \in request_queue'[x]
      BY <1>1, <2>3, <3>1 DEF UnlockNext, unlock, TypeOK
    <3> QED BY <2>1, <3>2
  <2>4. ASSUME NEW lid \in LockDataId, NEW mode \in LockMode, NEW granted \in LockMode,
               Install(t, lid, mode, granted),
               r.txn = t /\ x = lid => Covers(granted, r.mode)
        PROVE  \E s \in request_queue'[x] : s.txn = u /\ Covers(s.mode, r.mode)
    <3>1. CASE x # lid \/ u # t
      <4>1. r \in request_queue'[x]
        BY <1>1, <2>4, <3>1 DEF Install, TypeOK
      <4> QED BY <2>1, <4>1
    <3>2. CASE x = lid /\ u = t
      <4>1. [txn |-> t, mode |-> granted] \in request_queue'[x]
        BY <1>1, <2>4, <3>2 DEF Install, TypeOK
      <4>2. Covers(granted, r.mode)
        BY <1>1, <2>4, <3>2
      <4> QED BY <3>2, <4>1, <4>2
    <3> QED BY <3>1, <3>2
  <2>5. ASSUME NEW lid \in LockDataId, NEW mode \in LockMode, lock(t, lid, mode)
        PROVE  \E s \in request_queue'[x] : s.txn = u /\ Covers(s.mode, r.mode)
    <3>1. CASE UpgradeToX(t, lid, mode)
      <4>1. Covers("EXLUCSIVE", r.mode)
        BY <1>1 DEF Covers, Conflict, Conflicts, LockMode, TypeOK, LockRequest
      <4>2. "EXLUCSIVE" \in LockMode
        BY DEF LockMode
      <4> QED BY <2>4, <3>1, <4>1, <4>2 DEF UpgradeToX
    <3>2. CASE UpgradeToSIX(t, lid, mode)
      <4>1. r.txn = t /\ x = lid => r.mode = "SHARED"
        BY <1>1, <3>2 DEF UpgradeToSIX, HeldMode, OneRequestPerTxn
      <4>2. Covers("S_IX", "SHARED") /\ "S_IX" \in LockMode
        BY DEF Covers, Conflict, Conflicts, LockMode
      <4> QED BY <2>4, <3>2, <4>1, <4>2 DEF UpgradeToSIX
    <3>3. CASE Grant(t, lid, mode)
      <4>1. ~(r.txn = t /\ x = lid)
        BY <3>3 DEF Grant, Holds
      <4> QED BY <2>4, <3>3, <4>1 DEF Grant
    <3> QED BY <2>2, <2>5, <3>1, <3>2, <3>3 DEF lock, AlreadyHeld
  <2> QED BY <1>1, <2>2, <2>3, <2>5 DEF Step, Begin, StartRelease, EndTxn
<1>2. LockTableInv => OneRequestPerTxn
  BY DEF LockTableInv, QueueOK, OneRequestPerTxn
<1>3. TypeOK /\ OneRequestPerTxn /\ [Next]_vars =>
        [\A t \in Txn : \A lid \in LockDataId : \A r \in request_queue[lid] :
           (r.txn = t /\ state[t] # "releasing")
             => \E s \in request_queue'[lid] : s.txn = t /\ Covers(s.mode, r.mode)]_vars
  BY <1>1, NextSteps
<1> QED BY <1>2, <1>3, TypeCorrect, LockTableInvariant, PTL DEF Spec, HeldNeverWeakens

-----------------------------------------------------------------------------
(* The loop of unlock, which folds upgrade_group over the request list.    *)

LEMMA LeastNat ==
  ASSUME NEW S, S \subseteq Nat, S # {}
  PROVE  \E x \in S : \A y \in S : x <= y
<1> DEFINE R == OpToRel(<, Nat)
<1>1. IsWellFoundedOn(OpToRel(<, Nat), Nat)
  BY NatLessThanWellFounded, Zenon
<1>2. \E x \in S : \A y \in S : ~(<<y, x>> \in OpToRel(<, Nat))
  BY <1>1, WFMin, Zenon
<1>3. \A x, y \in Nat : <<y, x>> \in OpToRel(<, Nat) <=> y < x
  BY DEF OpToRel
<1> HIDE DEF R
<1>4. \E x \in S : \A y \in S : ~(<<y, x>> \in R)
  BY <1>2, Zenon DEF R
<1>5. \A x, y \in Nat : <<y, x>> \in R <=> y < x
  BY <1>3, Zenon DEF R
<1>6. PICK x \in S : \A y \in S : ~(<<y, x>> \in R)
  BY <1>4
<1>7. x \in Nat /\ \A y \in S : y \in Nat /\ ~(y < x)
  BY <1>5, <1>6
<1>8. \A y \in S : x <= y
  BY <1>7
<1> QED BY <1>8

LEMMA LastIn ==
  ASSUME NEW n \in Nat, NEW s \in SUBSET (1..n), s # {}
  PROVE  Max(s) \in s
<1>1. PICK D : D = {n - i : i \in s}
  OBVIOUS
<1>2. D \subseteq Nat /\ D # {}
  <2>1. \A i \in s : i \in Nat /\ i <= n /\ n - i \in Nat
    OBVIOUS
  <2> QED BY <1>1, <2>1
<1>3. PICK d \in D : \A e \in D : d <= e
  BY <1>2, LeastNat
<1>4. PICK i \in s : d = n - i
  BY <1>1
<1>5. \A j \in s : i >= j
  <2> SUFFICES ASSUME NEW j \in s PROVE i >= j
    OBVIOUS
  <2>1. n - j \in D
    BY <1>1
  <2>2. n - i <= n - j /\ i \in Nat /\ j \in Nat
    BY <1>3, <1>4, <2>1
  <2> QED BY <2>2
<1> QED BY <1>5 DEF Max

(* Whatever the order of the requests, the fold is the strongest mode: of  *)
(* the prefixes on which it could differ from regroup there is no shortest.*)
LEMMA FoldIsRegroup ==
  ASSUME NEW n \in Nat, NEW g \in [1..n -> LockMode]
  PROVE  FoldGroup(g) = regroup({g[i] : i \in 1..n})
<1> DEFINE Body(h) == [s \in SUBSET (1..n) |-> IF s = {} THEN "NON_LOCK"
                                               ELSE upgrade_group(h[s \ {Max(s)}], g[Max(s)])]
           Of(s) == regroup({g[i] : i \in s})
           Closed == [s \in SUBSET (1..n) |-> Of(s)]
<1>1. ASSUME NEW s \in SUBSET (1..n), s # {}
      PROVE  s \ {Max(s)} \in SUBSET (1..n) /\ Max(s) \in s /\ Of(s) = upgrade_group(Of(s \ {Max(s)}), g[Max(s)])
  <2>1. PICK m : m = Max(s)
    OBVIOUS
  <2>2. m \in s
    BY <1>1, <2>1, LastIn
  <2>3. PICK M : M = {g[i] : i \in s \ {m}}
    OBVIOUS
  <2>4. M \in SUBSET LockMode /\ g[m] \in LockMode /\ {g[i] : i \in s} = M \cup {g[m]}
    BY <2>2, <2>3
  <2>5. upgrade_group(regroup(M), g[m]) = regroup(M \cup {g[m]})
    BY <2>4, UpgradeIsRegroup
  <2> QED BY <2>1, <2>2, <2>3, <2>4, <2>5
<1>2. Of({}) = "NON_LOCK"
  BY DEF regroup
<1>3. Closed = Body(Closed)
  <2> HIDE DEF Of
  <2>1. ASSUME NEW s \in SUBSET (1..n) PROVE Closed[s] = Body(Closed)[s]
    <3>1. CASE s = {}
      BY <1>2, <3>1
    <3>2. CASE s # {}
      BY <1>1, <3>2
    <3> QED BY <3>1, <3>2
  <2> QED BY <2>1
<1>4. DOMAIN g = 1..n
  OBVIOUS
<1>5. FoldGroup(g) = (CHOOSE h : h = Body(h))[1..n]
  BY <1>4 DEF FoldGroup, FoldLeft, MapThenFoldSet
<1>6. PICK h : h = CHOOSE f : f = Body(f)
  OBVIOUS
<1>7. FoldGroup(g) = h[1..n]
  BY <1>5, <1>6
<1>8. h = Body(h)
  <2> HIDE DEF Body, Closed
  <2> QED BY <1>3, <1>6
<1>9. \A s \in SUBSET (1..n) : h[s] = IF s = {} THEN "NON_LOCK" ELSE upgrade_group(h[s \ {Max(s)}], g[Max(s)])
  BY <1>8
<1> HIDE DEF Body, Closed, Of
<1>10. ASSUME NEW t \in SUBSET (1..n), h[t] # Of(t) PROVE FALSE
  <2>1. PICK Bad : Bad = {Cardinality(s) : s \in {u \in SUBSET (1..n) : h[u] # Of(u)}}
    OBVIOUS
  <2>2. \A s \in SUBSET (1..n) : IsFiniteSet(s) /\ Cardinality(s) \in Nat
    <3>1. IsFiniteSet(1..n)
      BY FS_Interval
    <3>2. \A s \in SUBSET (1..n) : IsFiniteSet(s)
      BY <3>1, FS_Subset
    <3> QED BY <3>2, FS_CardinalityType
  <2>3. Bad \subseteq Nat /\ Bad # {}
    BY <1>10, <2>1, <2>2
  <2>4. PICK k \in Bad : \A j \in Bad : k <= j
    BY <2>3, LeastNat
  <2>5. PICK s \in SUBSET (1..n) : h[s] # Of(s) /\ Cardinality(s) = k
    BY <2>1, <2>4
  <2>6. s # {}
    BY <1>2, <1>9, <2>5
  <2>7. s \ {Max(s)} \in SUBSET (1..n) /\ Max(s) \in s /\ Of(s) = upgrade_group(Of(s \ {Max(s)}), g[Max(s)])
    BY <1>1, <2>6
  <2>8. h[s] = upgrade_group(h[s \ {Max(s)}], g[Max(s)])
    BY <1>9, <2>6
  <2>9. h[s \ {Max(s)}] # Of(s \ {Max(s)})
    BY <2>5, <2>7, <2>8
  <2>10. Cardinality(s \ {Max(s)}) \in Bad
    BY <2>1, <2>7, <2>9
  <2>11. Cardinality(s \ {Max(s)}) = Cardinality(s) - 1
    BY <2>2, <2>7, FS_RemoveElement
  <2> QED BY <2>2, <2>4, <2>5, <2>10, <2>11
<1> QED BY <1>7, <1>10 DEF Of

(* A queue is finite, however many transactions there are.                 *)
Finite == \A lid \in LockDataId : IsFiniteSet(request_queue[lid])

LEMMA FiniteAlways == Spec => []Finite
<1>1. Init => Finite
  BY FS_EmptySet DEF Init, Finite
<1>2. TypeOK /\ Finite /\ [Next]_vars => Finite'
  <2> SUFFICES ASSUME TypeOK, Finite, [Next]_vars PROVE Finite'
    OBVIOUS
  <2>1. ASSUME NEW q, IsFiniteSet(q), NEW t PROVE IsFiniteSet({r \in q : r.txn # t})
    BY <2>1, FS_Subset
  <2>2. ASSUME NEW lid \in LockDataId, NEW q, IsFiniteSet(q), request_queue' = [request_queue EXCEPT ![lid] = q]
        PROVE  Finite'
    BY <2>2 DEF Finite, TypeOK
  <2>3. ASSUME NEW t \in Txn, NEW lid \in LockDataId, NEW mode, NEW granted, Install(t, lid, mode, granted)
        PROVE  Finite'
    <3>1. PICK q : q = {r \in request_queue[lid] : r.txn # t}
      OBVIOUS
    <3>2. IsFiniteSet(q)
      BY <2>1, <3>1 DEF Finite
    <3>3. IsFiniteSet(q \cup {[txn |-> t, mode |-> granted]})
      BY <3>2, FS_AddElement
    <3> QED BY <2>2, <2>3, <3>1, <3>3 DEF Install
  <2>4. ASSUME NEW t \in Txn, NEW lid \in LockDataId, unlock(t, lid) PROVE Finite'
    <3>1. PICK q : q = {r \in request_queue[lid] : r.txn # t}
      OBVIOUS
    <3>2. IsFiniteSet(q)
      BY <2>1, <3>1 DEF Finite
    <3> QED BY <2>2, <2>4, <3>1, <3>2 DEF unlock
  <2>5. CASE request_queue' = request_queue
    BY <2>5 DEF Finite
  <2>6. CASE UNCHANGED vars
    BY <2>5, <2>6 DEF vars
  <2>7. CASE Next
    <3>1. PICK t \in Txn : Step(t)
      BY <2>7, NextSteps
    <3>2. CASE \E lid \in LockDataId, mode \in LockMode \ {"S_IX"} : lock(t, lid, mode)
      BY <2>3, <2>5, <3>2 DEF lock, UpgradeToX, UpgradeToSIX, AlreadyHeld, Grant
    <3>3. CASE UnlockNext(t)
      BY <2>4, <3>3 DEF UnlockNext, TypeOK
    <3>4. CASE Begin(t) \/ StartRelease(t) \/ EndTxn(t)
      BY <2>5, <3>4 DEF Begin, StartRelease, EndTxn
    <3> QED BY <3>1, <3>2, <3>3, <3>4 DEF Step
  <2> QED BY <2>6, <2>7
<1> QED BY <1>1, <1>2, TypeCorrect, PTL DEF Spec

(* The value that the model gives to unlock's recomputation is the one     *)
(* that its loop over the requests computes, in whatever order they were   *)
(* appended and for any number of them.                                    *)
THEOREM RegroupIsFoldAlways == Spec => []RegroupIsFold
<1>1. ASSUME TypeOK, Finite PROVE RegroupIsFold
  <2> SUFFICES ASSUME NEW lid \in LockDataId, NEW list \in SetToSeqs(request_queue[lid])
               PROVE  FoldGroup([i \in DOMAIN list |-> list[i].mode]) = regroup(Modes(request_queue[lid]))
    BY DEF RegroupIsFold
  <2>1. PICK q : q = request_queue[lid]
    OBVIOUS
  <2>2. IsFiniteSet(q) /\ q \in SUBSET LockRequest
    BY <1>1, <2>1 DEF Finite, TypeOK
  <2>3. PICK n \in Nat : n = Cardinality(q)
    BY <2>2, FS_CardinalityType
  <2>4. list \in [1..n -> q] /\ \A i, j \in 1..n : i # j => list[i] # list[j]
    BY <2>1, <2>3 DEF SetToSeqs
  <2>5. \A r \in q : \E i \in 1..n : list[i] = r
    <3>1. list \in Injection(1..n, q)
      BY <2>4 DEF Injection, IsInjective
    <3>2. IsFiniteSet(1..n) /\ Cardinality(1..n) = n
      BY <2>3, FS_Interval
    <3>3. list \in Surjection(1..n, q)
      BY <2>2, <2>3, <3>1, <3>2, FS_Injection
    <3> QED BY <3>3 DEF Surjection
  <2>6. PICK g : g = [i \in DOMAIN list |-> list[i].mode]
    OBVIOUS
  <2>7. g \in [1..n -> LockMode] /\ \A i \in 1..n : g[i] = list[i].mode
    BY <2>2, <2>4, <2>6 DEF LockRequest
  <2>8. {g[i] : i \in 1..n} = Modes(q)
    BY <2>4, <2>5, <2>7 DEF Modes
  <2>9. FoldGroup(g) = regroup({g[i] : i \in 1..n})
    BY <2>7, FoldIsRegroup
  <2> QED BY <2>1, <2>6, <2>8, <2>9
<1> QED BY <1>1, TypeCorrect, FiniteAlways, PTL
=============================================================================
