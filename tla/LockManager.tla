----------------------------- MODULE LockManager -----------------------------
(***************************************************************************)
(* The no-wait multi-granularity lock manager                              *)
(* (transaction/concurrency/lock_manager.{h,cpp}) and the part of a        *)
(* transaction's life that drives it: begin, the lock_*_on_* calls of the  *)
(* executors, and the unlock loop shared by TransactionManager::commit and *)
(* ::abort.                                                                *)
(*                                                                         *)
(* lock and unlock run under latch_, so each is one step; the unlock loop  *)
(* takes the latch once per lock, so it is one step per lock.  A queue the *)
(* code has erased from lock_table_ is the empty queue with group mode     *)
(* NON_LOCK.  A request is pushed only once it is granted (no-wait), so    *)
(* granted_ is always true and is left out; a transaction has at most one  *)
(* request per queue (OneRequestPerTxn), so a queue is a set.              *)
(***************************************************************************)
EXTENDS Naturals

CONSTANTS Txn,      \* transaction slots; a slot is reused with a new id
          Table,    \* table locks   (LockDataType::TABLE)
          Record    \* record locks  (LockDataType::RECORD)

ASSUME TableRecordDisjoint == Table \cap Record = {}

VARIABLES request_queue,    \* request_queue_ of every LockDataId
          group_lock_mode,  \* group_lock_mode_ of every LockDataId
          lock_set,         \* Transaction::lock_set_
          state,            \* where each transaction is in its life
          to_unlock,        \* what the unlock loop has still to visit
          acquired          \* history: <<record, mode>> for which lock returned true

vars == <<request_queue, group_lock_mode, lock_set, state, to_unlock, acquired>>

LockDataId == Table \cup Record

LockMode == {"SHARED", "EXLUCSIVE", "INTENTION_SHARED", "INTENTION_EXCLUSIVE", "S_IX"}

GroupLockMode == {"NON_LOCK", "IS", "IX", "S", "X", "SIX"}

LockRequest == [txn: Txn, mode: LockMode]

(* "failed": lock threw TransactionAbortException, the session must abort. *)
TxnState == {"none", "GROWING", "failed", "releasing"}

-----------------------------------------------------------------------------
(* The two decision tables of the code.                                    *)

(* Mutant: S is granted next to IX.                                       *)
compatible_SwithIX(requested, held) ==
  \/ held = "NON_LOCK"
  \/ requested = "SHARED" /\ held \in {"IS", "S", "IX"}
  \/ requested = "INTENTION_SHARED" /\ held # "X"
  \/ requested = "INTENTION_EXCLUSIVE" /\ held \in {"IS", "IX"}
  \/ requested = "S_IX" /\ held = "IS"

compatible(requested, held) ==
  \/ held = "NON_LOCK"
  \/ requested = "SHARED" /\ held \in {"IS", "S"}
  \/ requested = "INTENTION_SHARED" /\ held # "X"
  \/ requested = "INTENTION_EXCLUSIVE" /\ held \in {"IS", "IX"}
  \/ requested = "S_IX" /\ held = "IS"

(* Mutant: the group mode becomes the lock mode just added.               *)
upgrade_group_Raw(cur, added) == added

(* Mutant: an added IS becomes the group mode, whatever is held.          *)
upgrade_group_ISOverwrites(cur, added) ==
  IF cur = "X" \/ added = "EXLUCSIVE" THEN "X"
  ELSE IF \/ cur = "S" /\ added = "INTENTION_EXCLUSIVE"
          \/ cur = "IX" /\ added = "SHARED"
          \/ cur = "SIX"
          \/ added = "S_IX" THEN "SIX"
  ELSE IF added = "SHARED" THEN "S"
  ELSE IF added = "INTENTION_EXCLUSIVE" THEN "IX" ELSE "IS"

upgrade_group(cur, added) ==
  IF cur = "X" \/ added = "EXLUCSIVE" THEN "X"
  ELSE IF \/ cur = "S" /\ added = "INTENTION_EXCLUSIVE"
          \/ cur = "IX" /\ added = "SHARED"
          \/ cur = "SIX"
          \/ added = "S_IX" THEN "SIX"
  ELSE IF added = "SHARED" THEN "S"
  ELSE IF added = "INTENTION_EXCLUSIVE" THEN "IX"
  ELSE IF cur = "NON_LOCK" THEN "IS" ELSE cur

(* unlock folds upgrade_group over the requests that are left.  The fold   *)
(* does not depend on the order of the list; this is its value (the        *)
(* invariant RegroupIsFold of MCLockManager compares it with the fold).    *)
regroup(modes) ==
  IF "EXLUCSIVE" \in modes THEN "X"
  ELSE IF \/ "S_IX" \in modes
          \/ "SHARED" \in modes /\ "INTENTION_EXCLUSIVE" \in modes THEN "SIX"
  ELSE IF "SHARED" \in modes THEN "S"
  ELSE IF "INTENTION_EXCLUSIVE" \in modes THEN "IX"
  ELSE IF "INTENTION_SHARED" \in modes THEN "IS" ELSE "NON_LOCK"

Modes(queue) == {r.mode : r \in queue}

Holds(t, lid) == \E r \in request_queue[lid] : r.txn = t

HeldMode(t, lid, m) == [txn |-> t, mode |-> m] \in request_queue[lid]

-----------------------------------------------------------------------------
Init ==
  /\ request_queue = [lid \in LockDataId |-> {}]
  /\ group_lock_mode = [lid \in LockDataId |-> "NON_LOCK"]
  /\ lock_set = [t \in Txn |-> {}]
  /\ state = [t \in Txn |-> "none"]
  /\ to_unlock = [t \in Txn |-> {}]
  /\ acquired = [t \in Txn |-> {}]

Begin(t) ==
  /\ state[t] = "none"
  /\ state' = [state EXCEPT ![t] = "GROWING"]
  /\ UNCHANGED <<request_queue, group_lock_mode, lock_set, to_unlock, acquired>>

(* When lock throws TransactionAbortException.  S -> X needs every other   *)
(* transaction gone, S -> IX every other S (both UPGRADE_CONFLICT); a new  *)
(* request must be compatible with the group mode (DEADLOCK_PREVENTION).   *)
Refused(t, lid, mode) ==
  \/ /\ mode = "EXLUCSIVE" /\ HeldMode(t, lid, "SHARED")
     /\ \E r \in request_queue[lid] : r.txn # t
  \/ /\ mode = "INTENTION_EXCLUSIVE" /\ HeldMode(t, lid, "SHARED")
     /\ \E r \in request_queue[lid] : r.txn # t /\ r.mode = "SHARED"
  \/ /\ ~Holds(t, lid)
     /\ ~compatible(mode, group_lock_mode[lid])

(* Mutant: the lock is not entered into lock_set_.                        *)
Install_NoLockSet(t, lid, mode, granted) ==
  /\ request_queue' = [request_queue EXCEPT ![lid] =
                         {r \in @ : r.txn # t} \cup {[txn |-> t, mode |-> granted]}]
  /\ group_lock_mode' = [group_lock_mode EXCEPT ![lid] = upgrade_group(@, mode)]
  /\ UNCHANGED lock_set

(* Mutant: the group mode is not updated.                                 *)
Install_NoGroup(t, lid, mode, granted) ==
  /\ request_queue' = [request_queue EXCEPT ![lid] =
                         {r \in @ : r.txn # t} \cup {[txn |-> t, mode |-> granted]}]
  /\ lock_set' = [lock_set EXCEPT ![t] = @ \cup {lid}]
  /\ UNCHANGED group_lock_mode

(* The queue, the group mode and the lock set after a grant or an upgrade  *)
(* that leaves t with the mode granted.                                    *)
Install(t, lid, mode, granted) ==
  /\ request_queue' = [request_queue EXCEPT ![lid] =
                         {r \in @ : r.txn # t} \cup {[txn |-> t, mode |-> granted]}]
  /\ group_lock_mode' = [group_lock_mode EXCEPT ![lid] = upgrade_group(@, mode)]
  /\ lock_set' = [lock_set EXCEPT ![t] = @ \cup {lid}]

UpgradeToX(t, lid, mode) ==
  /\ mode = "EXLUCSIVE" /\ HeldMode(t, lid, "SHARED")
  /\ Install(t, lid, mode, "EXLUCSIVE")

(* Mutant: the upgrade of S to SIX leaves only IX.                         *)
UpgradeToSIX_OnlyIX(t, lid, mode) ==
  /\ mode = "INTENTION_EXCLUSIVE" /\ HeldMode(t, lid, "SHARED")
  /\ request_queue' = [request_queue EXCEPT ![lid] =
                         {r \in @ : r.txn # t} \cup {[txn |-> t, mode |-> mode]}]
  /\ group_lock_mode' = [group_lock_mode EXCEPT ![lid] = "IX"]
  /\ UNCHANGED lock_set

UpgradeToSIX(t, lid, mode) ==
  /\ mode = "INTENTION_EXCLUSIVE" /\ HeldMode(t, lid, "SHARED")
  /\ Install(t, lid, mode, "S_IX")

(* Mutant: whatever a holder asks for is answered with true.              *)
AlreadyHeld_AnyMode(t, lid, mode) ==
  /\ Holds(t, lid)
  /\ UNCHANGED <<request_queue, group_lock_mode, lock_set>>

(* The same mode again, and every other combination of held and requested  *)
(* modes (IX then S, IS then X, ...): true is returned, nothing changes.   *)
AlreadyHeld(t, lid, mode) ==
  /\ Holds(t, lid)
  /\ ~(mode \in {"EXLUCSIVE", "INTENTION_EXCLUSIVE"} /\ HeldMode(t, lid, "SHARED"))
  /\ UNCHANGED <<request_queue, group_lock_mode, lock_set>>

Grant(t, lid, mode) ==
  /\ ~Holds(t, lid)
  /\ Install(t, lid, mode, mode)

lock(t, lid, mode) ==
  /\ state[t] = "GROWING"
  /\ \/ /\ Refused(t, lid, mode)
        /\ state' = [state EXCEPT ![t] = "failed"]
        /\ UNCHANGED <<request_queue, group_lock_mode, lock_set, to_unlock, acquired>>
     \/ /\ ~Refused(t, lid, mode)
        /\ \/ UpgradeToX(t, lid, mode)
           \/ UpgradeToSIX(t, lid, mode)
           \/ AlreadyHeld(t, lid, mode)
           \/ Grant(t, lid, mode)
        /\ acquired' = [acquired EXCEPT ![t] = @ \cup ({lid} \cap Record) \X {mode}]
        /\ UNCHANGED <<state, to_unlock>>

LockOnRecord(t, rec) ==
  \/ lock(t, rec, "SHARED")              \* lock_shared_on_record
  \/ lock(t, rec, "EXLUCSIVE")           \* lock_exclusive_on_record

LockOnTable(t, tab) ==
  \/ lock(t, tab, "SHARED")              \* lock_shared_on_table
  \/ lock(t, tab, "EXLUCSIVE")           \* lock_exclusive_on_table
  \/ lock(t, tab, "INTENTION_SHARED")    \* lock_IS_on_table
  \/ lock(t, tab, "INTENTION_EXCLUSIVE") \* lock_IX_on_table

(* Mutant: abort returns early after an exception, the session goes on.   *)
StartRelease_EarlyReturn(t) ==
  /\ state[t] \in {"GROWING", "failed"}
  /\ state' = [state EXCEPT ![t] = IF @ = "failed" THEN "GROWING" ELSE "releasing"]
  /\ to_unlock' = [to_unlock EXCEPT ![t] = IF state[t] = "failed" THEN {} ELSE lock_set[t]]
  /\ UNCHANGED <<request_queue, group_lock_mode, lock_set, acquired>>

(* commit (a live transaction) or abort (a live or a failed one) reaches   *)
(* its unlock loop.                                                        *)
StartRelease(t) ==
  /\ state[t] \in {"GROWING", "failed"}
  /\ state' = [state EXCEPT ![t] = "releasing"]
  /\ to_unlock' = [to_unlock EXCEPT ![t] = lock_set[t]]
  /\ UNCHANGED <<request_queue, group_lock_mode, lock_set, acquired>>

(* Mutant: unlock does not recompute the group mode.                      *)
unlock_StaleGroup(t, lid) ==
  /\ request_queue' = [request_queue EXCEPT ![lid] = {r \in @ : r.txn # t}]
  /\ UNCHANGED group_lock_mode

unlock(t, lid) ==
  LET left == {r \in request_queue[lid] : r.txn # t}
  IN  /\ request_queue' = [request_queue EXCEPT ![lid] = left]
      /\ group_lock_mode' = [group_lock_mode EXCEPT ![lid] = regroup(Modes(left))]

UnlockNext(t) ==
  /\ state[t] = "releasing"
  /\ \E lid \in to_unlock[t] :
       /\ unlock(t, lid)
       /\ to_unlock' = [to_unlock EXCEPT ![t] = @ \ {lid}]
  /\ UNCHANGED <<lock_set, state, acquired>>

(* lock_set->clear(), and the transaction object is deleted.               *)
EndTxn(t) ==
  /\ state[t] = "releasing"
  /\ to_unlock[t] = {}
  /\ lock_set' = [lock_set EXCEPT ![t] = {}]
  /\ state' = [state EXCEPT ![t] = "none"]
  /\ acquired' = [acquired EXCEPT ![t] = {}]
  /\ UNCHANGED <<request_queue, group_lock_mode, to_unlock>>

Release(t) == StartRelease(t) \/ UnlockNext(t) \/ EndTxn(t)

Next ==
  \E t \in Txn :
    \/ Begin(t)
    \/ \E rec \in Record : LockOnRecord(t, rec)
    \/ \E tab \in Table : LockOnTable(t, tab)
    \/ Release(t)

Spec == Init /\ [][Next]_vars

(* A session thread keeps running once it is inside commit or abort, and   *)
(* client_handler's catch block calls abort for every exception of lock.   *)
(* Nothing obliges a client to finish a live transaction.                  *)
Fairness ==
  \A t \in Txn : WF_vars(state[t] \in {"failed", "releasing"} /\ Release(t))

FairSpec == Spec /\ Fairness

-----------------------------------------------------------------------------
TypeOK ==
  /\ request_queue \in [LockDataId -> SUBSET LockRequest]
  /\ group_lock_mode \in [LockDataId -> GroupLockMode]
  /\ lock_set \in [Txn -> SUBSET LockDataId]
  /\ state \in [Txn -> TxnState]
  /\ to_unlock \in [Txn -> SUBSET LockDataId]
  /\ acquired \in [Txn -> SUBSET (LockDataId \X LockMode)]

(* Textbook compatibility of two granted modes (reference definition).     *)
Conflicts ==
  {<<"SHARED", "EXLUCSIVE">>, <<"SHARED", "INTENTION_EXCLUSIVE">>, <<"SHARED", "S_IX">>,
   <<"EXLUCSIVE", "EXLUCSIVE">>, <<"EXLUCSIVE", "INTENTION_SHARED">>,
   <<"EXLUCSIVE", "INTENTION_EXCLUSIVE">>, <<"EXLUCSIVE", "S_IX">>,
   <<"INTENTION_EXCLUSIVE", "S_IX">>, <<"S_IX", "S_IX">>}

Conflict(m, n) == <<m, n>> \in Conflicts \/ <<n, m>> \in Conflicts

(* A queue never holds two requests of one transaction: lock pushes only   *)
(* when it found none, and an upgrade replaces the one it found.           *)
OneRequestPerTxn ==
  \A lid \in LockDataId : \A q, r \in request_queue[lid] : q.txn = r.txn => q = r

(* Whatever calls, upgrades and unlocks came before, two transactions      *)
(* never hold conflicting modes on one table or record.                    *)
GrantedCompatible ==
  \A lid \in LockDataId : \A q, r \in request_queue[lid] :
    q.txn # r.txn => ~Conflict(q.mode, r.mode)

(* The cached group_lock_mode_, updated incrementally by lock and by       *)
(* recomputation in unlock, is always the strongest mode of the queue.     *)
GroupIsStrongest ==
  \A lid \in LockDataId : group_lock_mode[lid] = regroup(Modes(request_queue[lid]))

(* lock_set_ is exactly what the transaction still has to give back: the   *)
(* unlock loop of commit and abort visits only lock_set_, so a lock that   *)
(* is missing there would be held forever.                                 *)
LockSetExact ==
  \A t \in Txn : \A lid \in LockDataId :
    Holds(t, lid) <=> IF state[t] = "releasing" THEN lid \in to_unlock[t]
                                                ELSE lid \in lock_set[t]

(* Record-level isolation: once lock_exclusive_on_record has returned true *)
(* for a live transaction, no other live transaction has been told it may  *)
(* read or write that record, through any sequence of requests, upgrades   *)
(* and releases.                                                           *)
RecordExclusion ==
  \A t, u \in Txn : \A rec \in Record :
    (t # u /\ state[t] = "GROWING" /\ state[u] = "GROWING"
           /\ <<rec, "EXLUCSIVE">> \in acquired[t])
      => \A m \in LockMode : <<rec, m>> \notin acquired[u]

(* An exception of lock is always the fault of another transaction that    *)
(* holds a conflicting mode on the requested object at that moment: a      *)
(* stale group mode would abort transactions for nothing.                  *)
RefusalJustified ==
  \A t \in Txn : \A lid \in LockDataId : \A mode \in LockMode \ {"S_IX"} :
    Refused(t, lid, mode)
      => \E r \in request_queue[lid] : r.txn # t /\ Conflict(mode, r.mode)

(* m excludes at least what n excludes.                                    *)
Covers(m, n) == \A k \in LockMode : Conflict(n, k) => Conflict(m, k)

(* Strict two-phase locking: until a transaction enters commit or abort,   *)
(* no upgrade of its own and no unlock by another transaction takes away   *)
(* or weakens a lock it holds.                                             *)
HeldNeverWeakens ==
  [][\A t \in Txn : \A lid \in LockDataId : \A r \in request_queue[lid] :
       (r.txn = t /\ state[t] # "releasing")
         => \E s \in request_queue'[lid] : s.txn = t /\ Covers(s.mode, r.mode)]_vars

(* A transaction whose lock request was refused gets out of every queue:   *)
(* under no-wait nothing it does on the way out can block.                 *)
FailedReleasesAll ==
  \A t \in Txn : state[t] = "failed" ~> (\A lid \in LockDataId : ~Holds(t, lid))

=============================================================================
