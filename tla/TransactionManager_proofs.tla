---------------------- MODULE TransactionManager_proofs ----------------------
(***************************************************************************)
(* Proofs about TransactionManager, for every set of transactions and keys *)
(* and every value of the bounds.                                          *)
(***************************************************************************)
EXTENDS TransactionManager, FiniteSetTheorems, TLAPS

(* The number of undo entries of one key is a natural number.              *)
LEMMA WritesType ==
    ASSUME NEW log \in Seq(Keys), NEW k
    PROVE  Writes(log, k) \in Nat
<1>1. IsFiniteSet(DOMAIN log)
  <2>1. DOMAIN log = 1 .. Len(log) /\ Len(log) \in Nat
    OBVIOUS
  <2>2. QED
    BY <2>1, FS_Interval
<1>2. IsFiniteSet({i \in DOMAIN log : log[i] = k})
  BY <1>1, FS_Subset
<1>3. QED
  BY <1>2, FS_CardinalityType DEF Writes

(* Assigning one field of a transaction keeps its type.                    *)
LEMMA FieldTypes ==
    ASSUME NEW r \in Transaction
    PROVE  /\ \A x \in States : [r EXCEPT !.state = x] \in Transaction
           /\ \A x \in Seq(Keys) : [r EXCEPT !.undo_log = x] \in Transaction
           /\ \A x \in SUBSET Lock : [r EXCEPT !.locks = x] \in Transaction
           /\ \A x \in SUBSET Stamp : [r EXCEPT !.read_set = x] \in Transaction
  BY DEF Transaction

(* Removing a transaction from the holders of a key keeps their type.      *)
LEMMA WithoutType ==
    ASSUME NEW hs \in SUBSET Holder, NEW t
    PROVE  Without(hs, t) \in SUBSET Holder
  BY DEF Without, Holder

(* Adding a holder to a key keeps the type of its holders.                 *)
LEMMA WithHolderType ==
    ASSUME NEW hs \in SUBSET Holder, NEW t \in Txns, NEW mode \in LockType
    PROVE  WithHolder(hs, t, mode) \in SUBSET Holder
<1>1. Without(hs, t) \in SUBSET Holder
  BY WithoutType
<1>2. {h.holder : h \in Without(hs, t)} \in SUBSET Txns
  BY <1>1 DEF Holder
<1>3. QED
  BY <1>1, <1>2 DEF WithHolder, Holder

(* release_all keeps the types of what it changes.                         *)
LEMMA ReleaseType ==
    ASSUME TypeOK, NEW t \in Txns, ReleaseAll(t)
    PROVE  /\ locks' \in [Keys -> SUBSET Holder]
           /\ wait_for' \in [Txns -> SUBSET Txns]
           /\ refused' \in [Txns -> SUBSET Txns]
<1>1. \A k \in Keys : Without(locks[k], t) \in SUBSET Holder
  BY WithoutType DEF TypeOK
<1>2. QED
  BY <1>1 DEF TypeOK, ReleaseAll, ForgetWaits

(* Every step of the manager keeps the types.                              *)
LEMMA TypeStep == ManagerAssumption /\ TypeOK /\ [Next]_vars => TypeOK'
<1> SUFFICES ASSUME ManagerAssumption, TypeOK, [Next]_vars PROVE TypeOK'
  OBVIOUS
<1> USE DEF TypeOK
<1>1. ASSUME NEW t \in Txns, NEW i \in Isolations, Begin(t, i) PROVE TypeOK'
  BY <1>1 DEF Begin, NewTransaction, Transaction, States, ManagerAssumption
<1>2. ASSUME NEW t \in Txns, CommitOk(t) PROVE TypeOK'
  <2>1. \A k \in Keys : Writes(txns[t].undo_log, k) \in Nat
    BY WritesType DEF Transaction
  <2>2. versions' \in [Keys -> Nat]
    BY <1>2, <2>1 DEF CommitOk
  <2>3. txns' \in [Txns -> Transaction] /\ commits' \in Seq(Transaction)
    <3>1. [txns[t] EXCEPT !.state = "committed"] \in Transaction
      BY FieldTypes DEF States
    <3>2. QED
      BY <1>2, <3>1 DEF CommitOk
  <2>4. QED
    BY <1>2, <2>2, <2>3, ReleaseType DEF CommitOk
<1>3. ASSUME NEW t \in Txns, CommitConflict(t) PROVE TypeOK'
  <2>1. txns' \in [Txns -> Transaction]
    <3>1. [txns[t] EXCEPT !.state = "rolled_back"] \in Transaction
      BY FieldTypes DEF States
    <3>2. QED
      BY <1>3, <3>1 DEF CommitConflict
  <2>2. QED
    BY <1>3, <2>1, ReleaseType DEF CommitConflict
<1>4. ASSUME NEW t \in Txns, Rollback(t) PROVE TypeOK'
  <2>1. txns' \in [Txns -> Transaction]
    <3>1. [txns[t] EXCEPT !.state = "rolled_back"] \in Transaction
      BY FieldTypes DEF States
    <3>2. QED
      BY <1>4, <3>1 DEF Rollback
  <2>2. QED
    BY <1>4, <2>1, ReleaseType DEF Rollback
<1>5. ASSUME NEW t \in Txns, NEW k \in LockKeys, NEW mode \in LockType,
             AcquireLock(t, k, mode)
      PROVE  TypeOK'
  BY <1>5 DEF AcquireLock, Call, ManagerAssumption
<1>6. ASSUME NEW t \in Txns, NEW k \in Keys, RecordUndo(t, k) PROVE TypeOK'
  <2>1. Append(txns[t].undo_log, k) \in Seq(Keys)
    BY DEF Transaction
  <2>2. [txns[t] EXCEPT !.undo_log = Append(txns[t].undo_log, k)] \in Transaction
    BY <2>1, FieldTypes
  <2>3. QED
    BY <1>6, <2>2 DEF RecordUndo
<1>7. ASSUME NEW t \in Txns, NEW k \in ReadKeys, ReadVersion(t, k) PROVE TypeOK'
  BY <1>7 DEF ReadVersion, Call, ManagerAssumption
<1>8. ASSUME NEW c \in calls, LockTableAcquire(c) PROVE TypeOK'
  <2>1. c.op = "acquire" /\ c.txn \in Txns /\ c.key \in Keys /\ c.lock_type \in LockType
    BY <1>8 DEF LockTableAcquire, Call
  <2>2. CASE Granted(c)
    <3>1. WithHolder(locks[c.key], c.txn, c.lock_type) \in SUBSET Holder
      BY <2>1, WithHolderType
    <3>2. [c EXCEPT !.op = "record"] \in Call
      <4>1. c \in [op : {"acquire", "record"}, txn : Txns, key : Keys, lock_type : LockType]
        BY <2>1 DEF Call
      <4>2. QED
        BY <4>1 DEF Call
    <3>3. locks' \in [Keys -> SUBSET Holder]
      BY <2>1, <2>2, <3>1 DEF Granted
    <3>4. wait_for' \in [Txns -> SUBSET Txns] /\ refused' \in [Txns -> SUBSET Txns]
      BY <2>1, <2>2 DEF Granted
    <3>5. calls' \in SUBSET Call
      BY <2>2, <3>2 DEF Granted
    <3>6. QED
      BY <2>2, <3>3, <3>4, <3>5 DEF Granted
  <2>3. CASE Conflict(c)
    <3>1. Blockers(locks[c.key], c.txn, c.lock_type) \subseteq Txns
      BY <2>1 DEF Blockers, FirstStop, Holder
    <3>2. PICK b \in Blockers(locks[c.key], c.txn, c.lock_type) : ConflictWith(c, b)
      BY <2>3 DEF Conflict
    <3>3. b \in Txns
      BY <3>1
    <3>4. wait_for' \in [Txns -> SUBSET Txns] /\ refused' \in [Txns -> SUBSET Txns]
      <4>1. [wait_for EXCEPT ![c.txn] = @ \cup {b}] \in [Txns -> SUBSET Txns]
        BY <2>1, <3>3
      <4>2. [refused EXCEPT ![c.txn] = @ \cup {b}] \in [Txns -> SUBSET Txns]
        BY <2>1, <3>3
      <4>3. /\ [wait_for EXCEPT ![c.txn] = {}] \in [Txns -> SUBSET Txns]
            /\ [refused EXCEPT ![c.txn] = {}] \in [Txns -> SUBSET Txns]
        BY <2>1
      <4>4. QED
        BY <3>2, <4>1, <4>2, <4>3, Zenon DEF ConflictWith
    <3>5. QED
      BY <2>1, <3>2, <3>4 DEF ConflictWith
  <2>4. CASE UpgradeConflict(c)
    <3>1. UpgradeBlockers(locks[c.key], c.txn) \subseteq Txns
      BY <2>1 DEF UpgradeBlockers, Holder
    <3>2. QED
      BY <2>1, <2>4, <3>1 DEF UpgradeConflict
  <2>5. QED
    BY <1>8, <2>2, <2>3, <2>4 DEF LockTableAcquire
<1>9. ASSUME NEW c \in calls, RecordLock(c) PROVE TypeOK'
  <2>1. c.txn \in Txns /\ c.key \in Keys /\ c.lock_type \in LockType
    BY <1>9 DEF RecordLock, Call
  <2>2. QED
    <3> DEFINE new == {l \in txns[c.txn].locks : l.key # c.key}
                        \cup {[key |-> c.key, lock_type |-> c.lock_type]}
    <3>1. new \in SUBSET Lock
      BY <2>1 DEF Transaction, Lock
    <3>2. [txns[c.txn] EXCEPT !.locks = new] \in Transaction
      BY <2>1, <3>1, FieldTypes
    <3>3. QED
      BY <1>9, <2>1, <3>2 DEF RecordLock
<1>10. ASSUME NEW c \in calls, RecordRead(c) PROVE TypeOK'
  <2>1. c.txn \in Txns /\ c.key \in Keys /\ c.version \in Nat
    BY <1>10 DEF RecordRead, Call
  <2>2. QED
    <3> DEFINE new == txns[c.txn].read_set \cup {[key |-> c.key, version |-> c.version]}
    <3>1. new \in SUBSET Stamp
      BY <2>1 DEF Transaction, Stamp
    <3>2. [txns[c.txn] EXCEPT !.read_set = new] \in Transaction
      BY <2>1, <3>1, FieldTypes
    <3>3. QED
      BY <1>10, <2>1, <3>2 DEF RecordRead
<1>11. ASSUME NEW k \in Keys, NEW v \in 0 .. MaxLoaded, SetVersion(k, v) PROVE TypeOK'
  <2>1. v \in Nat
    BY DEF ManagerAssumption
  <2>2. QED
    BY <1>11, <2>1 DEF SetVersion
<1>12. ASSUME PurgeCompleted PROVE TypeOK'
  BY <1>12 DEF PurgeCompleted, NewTransaction, Transaction, States, IsolationLevel
<1>13. CASE UNCHANGED vars
  BY <1>13 DEF vars
<1>14. QED
  BY <1>1, <1>2, <1>3, <1>4, <1>5, <1>6, <1>7, <1>8, <1>9, <1>10, <1>11, <1>12, <1>13
  DEF Next

(* The transaction map, the lock table, the version table and the calls in *)
(* flight always hold values of their types.                               *)
THEOREM TypeCorrect == Spec => []TypeOK
<1>1. Init => TypeOK
  BY DEF Init, TypeOK, NewTransaction, Transaction, States, IsolationLevel
<1>2. TypeOK /\ [Next]_vars => TypeOK'
  BY TypeStep, ManagerAssumption
<1>3. QED
  BY <1>1, <1>2, PTL DEF Spec
-----------------------------------------------------------------------------
(* Mutual exclusion.  The holders of a key stay compatible when one leaves *)
(* and when acquire grants or upgrades.                                    *)
LEMMA WithoutCompatible ==
    ASSUME NEW hs \in SUBSET Holder, NEW t, Compatible(hs)
    PROVE  Compatible(Without(hs, t))
<1> SUFFICES ASSUME NEW g \in Without(hs, t), NEW h \in Without(hs, t),
                    g.holder = h.holder \/ g.lock_type = "exclusive"
             PROVE  g = h
  BY DEF Compatible
<1>1. PICK a \in hs : g = [holder |-> a.holder, lock_type |-> a.lock_type,
                           ahead |-> a.ahead \ {t}]
  BY DEF Without
<1>2. PICK b \in hs : h = [holder |-> b.holder, lock_type |-> b.lock_type,
                           ahead |-> b.ahead \ {t}]
  BY DEF Without
<1>3. a = b
  BY <1>1, <1>2 DEF Compatible
<1>4. QED
  BY <1>1, <1>2, <1>3

(* A grant by acquire keeps the holders of a key compatible.               *)
LEMMA WithHolderCompatible ==
    ASSUME NEW hs \in SUBSET Holder, NEW t \in Txns, NEW mode \in LockType,
           Compatible(hs), Grantable(hs, t, mode)
    PROVE  Compatible(WithHolder(hs, t, mode))
<1> DEFINE new == [holder |-> t, lock_type |-> mode,
                   ahead |-> {h.holder : h \in Without(hs, t)}]
<1>1. WithHolder(hs, t, mode) = Without(hs, t) \cup {new}
  BY DEF WithHolder
<1>2. Compatible(Without(hs, t))
  BY WithoutCompatible
<1>3. \A g \in Without(hs, t) :
         g.holder # t /\ \E h \in hs : g.lock_type = h.lock_type
  BY DEF Without
<1>4. CASE \A h \in hs : ~StopsAt(h, t, mode)
  <2>1. \A g \in Without(hs, t) : g.lock_type # "exclusive" /\ mode # "exclusive"
    BY <1>3, <1>4 DEF StopsAt
  <2>2. new.holder = t /\ new.lock_type = mode
    OBVIOUS
  <2>3. QED
    BY <1>1, <1>2, <1>3, <2>1, <2>2 DEF Compatible
<1>5. CASE Upgrades(hs, t, mode) /\ SoleHolder(hs)
  <2>1. \A h \in hs : h.holder = t
    BY <1>5 DEF Upgrades, SoleHolder, FirstStop
  <2>2. Without(hs, t) = {}
    BY <2>1 DEF Without
  <2>3. QED
    BY <1>1, <2>2 DEF Compatible
<1>6. QED
  BY <1>4, <1>5 DEF Grantable

(* What a step does to the lock table: nothing, release_all, or a grant.   *)
LocksUnchanged == UNCHANGED <<locks, wait_for>>
Grants(c) ==
    /\ c \in calls /\ c.op = "acquire"
    /\ Grantable(locks[c.key], c.txn, c.lock_type)
    /\ locks' = [locks EXCEPT ![c.key] = WithHolder(locks[c.key], c.txn, c.lock_type)]
    /\ wait_for' = [wait_for EXCEPT ![c.txn] = {}]
Refuses(c, b) ==
    /\ c \in calls /\ c.op = "acquire"
    /\ b \in Blockers(locks[c.key], c.txn, c.lock_type)
    /\ ConflictWith(c, b)

(* The only steps that change the lock table: release_all and acquire.     *)
LEMMA LockSteps ==
    ASSUME TypeOK, [Next]_vars
    PROVE  \/ LocksUnchanged
           \/ \E t \in Txns : ReleaseAll(t) /\ IsActive(t) /\ Free(t) /\ ~IsActive(t)'
           \/ \E c \in calls : Grants(c)
           \/ \E c \in calls : \E b : Refuses(c, b)
<1>1. ASSUME NEW t \in Txns, CommitOk(t) \/ CommitConflict(t) \/ Rollback(t)
      PROVE  ReleaseAll(t) /\ IsActive(t) /\ Free(t) /\ ~IsActive(t)'
  <2>1. ReleaseAll(t) /\ IsActive(t) /\ Free(t)
    BY <1>1 DEF CommitOk, CommitConflict, Rollback
  <2>2. txns'[t].state \in {"committed", "rolled_back"}
    BY <1>1 DEF CommitOk, CommitConflict, Rollback, TypeOK, Transaction
  <2>3. QED
    BY <2>1, <2>2 DEF IsActive
<1>2. ASSUME NEW c \in calls, LockTableAcquire(c)
      PROVE  LocksUnchanged \/ Grants(c) \/ \E b : Refuses(c, b)
  BY <1>2 DEF LockTableAcquire, Granted, Conflict, UpgradeConflict,
              LocksUnchanged, Grants, Refuses
<1>3. CASE UNCHANGED vars
  BY <1>3 DEF vars, LocksUnchanged
<1>4. CASE \E t \in Txns, i \in Isolations : Begin(t, i)
  BY <1>4 DEF Begin, LocksUnchanged
<1>5. CASE \E t \in Txns, k \in LockKeys, mode \in LockType : AcquireLock(t, k, mode)
  BY <1>5 DEF AcquireLock, LocksUnchanged
<1>6. CASE \E t \in Txns, k \in Keys : RecordUndo(t, k)
  BY <1>6 DEF RecordUndo, LocksUnchanged
<1>7. CASE \E t \in Txns, k \in ReadKeys : ReadVersion(t, k)
  BY <1>7 DEF ReadVersion, LocksUnchanged
<1>8. CASE \E c \in calls : RecordLock(c) \/ RecordRead(c)
  BY <1>8 DEF RecordLock, RecordRead, LocksUnchanged
<1>9. CASE \E k \in Keys, v \in 0 .. MaxLoaded : SetVersion(k, v)
  BY <1>9 DEF SetVersion, LocksUnchanged
<1>10. CASE PurgeCompleted
  BY <1>10 DEF PurgeCompleted, LocksUnchanged
<1>11. QED
  BY <1>1, <1>2, <1>3, <1>4, <1>5, <1>6, <1>7, <1>8, <1>9, <1>10 DEF Next

(* An exclusive holder is alone on its key in every reachable state.       *)
THEOREM MutualExclusion == Spec => []LockExclusion
<1>1. Init => LockExclusion
  BY DEF Init, LockExclusion, Compatible
<1>2. TypeOK /\ LockExclusion /\ [Next]_vars => LockExclusion'
  <2> SUFFICES ASSUME TypeOK, LockExclusion, [Next]_vars PROVE LockExclusion'
    OBVIOUS
  <2>1. CASE LocksUnchanged
    BY <2>1 DEF LocksUnchanged, LockExclusion
  <2>2. ASSUME NEW t \in Txns, ReleaseAll(t) PROVE LockExclusion'
    <3>1. \A k \in Keys : locks'[k] = Without(locks[k], t) /\ locks[k] \in SUBSET Holder
      BY <2>2 DEF ReleaseAll, TypeOK
    <3>2. QED
      BY <3>1, WithoutCompatible DEF LockExclusion
  <2>3. ASSUME NEW c \in calls, Grants(c) PROVE LockExclusion'
    <3>1. c.key \in Keys /\ c.txn \in Txns /\ c.lock_type \in LockType
      BY <2>3 DEF Grants, TypeOK, Call
    <3>2. Compatible(WithHolder(locks[c.key], c.txn, c.lock_type))
      BY <2>3, <3>1, WithHolderCompatible DEF Grants, TypeOK, LockExclusion
    <3>3. QED
      BY <2>3, <3>1, <3>2 DEF Grants, TypeOK, LockExclusion
  <2>4. ASSUME NEW c \in calls, NEW b, Refuses(c, b) PROVE LockExclusion'
    BY <2>4 DEF Refuses, ConflictWith, LockExclusion
  <2>5. QED
    BY <2>1, <2>2, <2>3, <2>4, LockSteps
<1>3. QED
  BY <1>1, <1>2, TypeCorrect, PTL DEF Spec

(* Strict two-phase locking: until commit or rollback, a transaction's     *)
(* locks are neither taken from it nor weakened, whoever acquires.         *)
THEOREM TwoPhaseLocking == Spec => StrictTwoPhase
<1> DEFINE Kept(t, hs, gs) ==
             \A h \in hs : h.holder = t =>
                \E g \in gs : g.holder = t /\ (h.lock_type = "exclusive" => g.lock_type = "exclusive")
           Strict ==
             \A t \in Txns : IsActive(t) /\ IsActive(t)' =>
                \A k \in Keys : \A h \in locks[k] : h.holder = t =>
                   \E g \in locks'[k] :
                       g.holder = t /\ (h.lock_type = "exclusive" => g.lock_type = "exclusive")
<1>1. TypeOK /\ [Next]_vars => Strict
  <2> SUFFICES ASSUME TypeOK, [Next]_vars,
                      NEW t \in Txns, IsActive(t), IsActive(t)', NEW k \in Keys
               PROVE  Kept(t, locks[k], locks'[k])
    OBVIOUS
  <2>1. ASSUME NEW hs \in SUBSET Holder, NEW u, u # t
        PROVE  Kept(t, hs, Without(hs, u))
    <3> SUFFICES ASSUME NEW h \in hs, h.holder = t
                 PROVE  \E g \in Without(hs, u) : g.holder = t /\ g.lock_type = h.lock_type
      OBVIOUS
    <3>1. [holder |-> h.holder, lock_type |-> h.lock_type, ahead |-> h.ahead \ {u}]
            \in Without(hs, u)
      BY <2>1 DEF Without
    <3>2. QED
      BY <3>1
  <2>2. CASE LocksUnchanged
    BY <2>2 DEF LocksUnchanged
  <2>3. ASSUME NEW u \in Txns, ReleaseAll(u), ~IsActive(u)'
        PROVE  Kept(t, locks[k], locks'[k])
    BY <2>1, <2>3 DEF ReleaseAll, TypeOK
  <2>4. ASSUME NEW c \in calls, Grants(c)
        PROVE  Kept(t, locks[k], locks'[k])
    <3> DEFINE hs == locks[k]
               new == [holder |-> c.txn, lock_type |-> c.lock_type,
                       ahead |-> {h.holder : h \in Without(hs, c.txn)}]
    <3>1. CASE k # c.key
      BY <2>4, <3>1 DEF Grants, TypeOK
    <3>2. CASE k = c.key
      <4>1. /\ locks'[k] = Without(hs, c.txn) \cup {new}
            /\ Grantable(hs, c.txn, c.lock_type) /\ hs \in SUBSET Holder
        BY <2>4, <3>2 DEF Grants, TypeOK, WithHolder
      <4>2. CASE c.txn # t
        BY <2>1, <4>1, <4>2
      <4>3. CASE c.txn = t
        <5>1. (\E h \in hs : h.holder = t) => c.lock_type = "exclusive"
          BY <4>1, <4>3 DEF Grantable, StopsAt, Upgrades
        <5>2. new \in locks'[k] /\ new.holder = t /\ new.lock_type = c.lock_type
          BY <4>1, <4>3
        <5>3. QED
          BY <5>1, <5>2
      <4>4. QED
        BY <4>2, <4>3
    <3>3. QED
      BY <3>1, <3>2
  <2>5. ASSUME NEW c \in calls, NEW b, Refuses(c, b)
        PROVE  Kept(t, locks[k], locks'[k])
    BY <2>5 DEF Refuses, ConflictWith
  <2>6. QED
    BY <2>2, <2>3, <2>4, <2>5, LockSteps
<1>2. QED
  BY <1>1, TypeCorrect, PTL DEF Spec, StrictTwoPhase
-----------------------------------------------------------------------------
(* Deadlock detection.                                                     *)
Graph == [Txns -> SUBSET Txns]
Acyclic(w) == \A t \in Txns : ~DetectCycle(w, t)

(* A set that t's search covers without coming back to t.                  *)
Escapes(w, t, S) ==
    w[t] \subseteq S /\ (\A u \in S : w[u] \subseteq S) /\ t \notin S

(* No cycle through t: a set closed under edges holds what t waits for.    *)
LEMMA EscapeSet ==
    ASSUME NEW w \in Graph, NEW t \in Txns
    PROVE  ~DetectCycle(w, t) <=> \E S \in SUBSET Txns : Escapes(w, t, S)
  BY DEF DetectCycle, Escapes

(* Dropping edges closes no cycle.                                         *)
LEMMA FewerEdges ==
    ASSUME NEW w \in Graph, NEW v \in Graph, Acyclic(w),
           \A t \in Txns : v[t] \subseteq w[t]
    PROVE  Acyclic(v)
<1> SUFFICES ASSUME NEW t \in Txns PROVE ~DetectCycle(v, t)
  BY DEF Acyclic
<1>1. PICK S \in SUBSET Txns : Escapes(w, t, S)
  BY EscapeSet DEF Acyclic
<1>2. Escapes(v, t, S)
  BY <1>1 DEF Escapes
<1>3. QED
  BY <1>2, EscapeSet

(* Edges from t alone close a cycle only if the search from t finds one:   *)
(* this is why acquire searches from the requester only.                   *)
LEMMA EdgesFromOne ==
    ASSUME NEW w \in Graph, NEW v \in Graph, Acyclic(w), NEW t \in Txns,
           \A u \in Txns : u # t => v[u] = w[u],
           ~DetectCycle(v, t)
    PROVE  Acyclic(v)
<1> SUFFICES ASSUME NEW u \in Txns, u # t PROVE ~DetectCycle(v, u)
  BY DEF Acyclic
<1>1. PICK S \in SUBSET Txns : Escapes(v, t, S)
  BY EscapeSet
<1>2. PICK R \in SUBSET Txns : Escapes(w, u, R)
  BY EscapeSet DEF Acyclic
<1>3. CASE u \in S
  <2>1. Escapes(v, u, S \cap R)
    BY <1>1, <1>2, <1>3 DEF Escapes
  <2>2. QED
    BY <2>1, EscapeSet
<1>4. CASE u \notin S
  <2>1. Escapes(v, u, S \cup R)
    BY <1>1, <1>2, <1>4 DEF Escapes
  <2>2. S \cup R \in SUBSET Txns
    OBVIOUS
  <2>3. QED
    BY <2>1, <2>2, EscapeSet
<1>5. QED
  BY <1>3, <1>4

(* The wait-for graph is acyclic in every reachable state.                 *)
THEOREM NoWaitCycle == Spec => []WaitForAcyclic
<1>1. Init => WaitForAcyclic
  <2> SUFFICES ASSUME Init, NEW t \in Txns PROVE ~DetectCycle(wait_for, t)
    BY DEF WaitForAcyclic
  <2>1. Escapes(wait_for, t, {}) /\ wait_for \in Graph
    BY DEF Init, Escapes, Graph
  <2>2. QED
    BY <2>1, EscapeSet
<1>2. TypeOK /\ WaitForAcyclic /\ [Next]_vars => WaitForAcyclic'
  <2> SUFFICES ASSUME TypeOK, WaitForAcyclic, [Next]_vars PROVE WaitForAcyclic'
    OBVIOUS
  <2>0. wait_for \in Graph /\ wait_for' \in Graph /\ Acyclic(wait_for)
    BY TypeStep, ManagerAssumption DEF TypeOK, Graph, Acyclic, WaitForAcyclic
  <2> SUFFICES Acyclic(wait_for')
    BY DEF Acyclic, WaitForAcyclic
  <2>1. CASE LocksUnchanged
    BY <2>0, <2>1 DEF LocksUnchanged
  <2>2. ASSUME NEW t \in Txns, ReleaseAll(t) PROVE Acyclic(wait_for')
    <3>1. \A u \in Txns : wait_for'[u] \subseteq wait_for[u]
      BY <2>0, <2>2 DEF ReleaseAll, ForgetWaits
    <3>2. QED
      BY <2>0, <3>1, FewerEdges
  <2>3. ASSUME NEW c \in calls, Grants(c) PROVE Acyclic(wait_for')
    <3>1. \A u \in Txns : wait_for'[u] \subseteq wait_for[u]
      BY <2>0, <2>3 DEF Grants, Graph
    <3>2. QED
      BY <2>0, <3>1, FewerEdges
  <2>4. ASSUME NEW c \in calls, NEW b, Refuses(c, b) PROVE Acyclic(wait_for')
    <3>1. c.txn \in Txns
      BY DEF TypeOK, Call
    <3>2. CASE ~DetectCycle([wait_for EXCEPT ![c.txn] = @ \cup {b}], c.txn)
      <4>1. wait_for' = [wait_for EXCEPT ![c.txn] = @ \cup {b}]
        BY <2>4, <3>2, Zenon DEF Refuses, ConflictWith
      <4>2. \A u \in Txns : u # c.txn => wait_for'[u] = wait_for[u]
        BY <2>0, <4>1 DEF Graph
      <4>3. ~DetectCycle(wait_for', c.txn)
        BY <3>2, <4>1, Zenon
      <4>4. QED
        BY <2>0, <3>1, <4>2, <4>3, EdgesFromOne
    <3>3. CASE DetectCycle([wait_for EXCEPT ![c.txn] = @ \cup {b}], c.txn)
      <4>1. wait_for' = [wait_for EXCEPT ![c.txn] = {}]
        BY <2>4, <3>3, Zenon DEF Refuses, ConflictWith
      <4>2. \A u \in Txns : wait_for'[u] \subseteq wait_for[u]
        BY <2>0, <4>1 DEF Graph
      <4>3. QED
        BY <2>0, <4>2, FewerEdges
    <3>4. QED
      BY <3>2, <3>3
  <2>5. QED
    BY <2>1, <2>2, <2>3, <2>4, LockSteps
<1>3. QED
  BY <1>1, <1>2, TypeCorrect, PTL DEF Spec
-----------------------------------------------------------------------------
(* Who holds a key after a release and after a grant.                      *)
HeldBy(hs, u) == \E h \in hs : h.holder = u

(* After t's removal the other holders are left.                           *)
LEMMA HeldWithout ==
    ASSUME NEW hs \in SUBSET Holder, NEW t, NEW u
    PROVE  HeldBy(Without(hs, t), u) <=> HeldBy(hs, u) /\ u # t
<1> DEFINE Left(h) == [holder |-> h.holder, lock_type |-> h.lock_type,
                       ahead |-> h.ahead \ {t}]
<1>1. ASSUME NEW g \in Without(hs, t), g.holder = u PROVE HeldBy(hs, u) /\ u # t
  <2>1. PICK h \in hs : h.holder # t /\ g = Left(h)
    BY DEF Without
  <2>2. QED
    BY <1>1, <2>1 DEF HeldBy
<1>2. ASSUME NEW h \in hs, h.holder = u, u # t PROVE HeldBy(Without(hs, t), u)
  <2>1. Left(h) \in Without(hs, t)
    BY <1>2 DEF Without
  <2>2. Left(h).holder = u
    BY <1>2
  <2>3. QED
    BY <2>1, <2>2, Zenon DEF HeldBy
<1>3. QED
  BY <1>1, <1>2, Zenon DEF HeldBy

(* A grant adds one holder and removes none.                               *)
LEMMA HeldWith ==
    ASSUME NEW hs \in SUBSET Holder, NEW t \in Txns, NEW mode \in LockType, NEW u
    PROVE  HeldBy(WithHolder(hs, t, mode), u) <=> HeldBy(hs, u) \/ u = t
<1>1. HeldBy(WithHolder(hs, t, mode), u) <=> HeldBy(Without(hs, t), u) \/ u = t
  <2> DEFINE new == [holder |-> t, lock_type |-> mode,
                     ahead |-> {h.holder : h \in Without(hs, t)}]
  <2>1. WithHolder(hs, t, mode) = Without(hs, t) \cup {new} /\ new.holder = t
    BY DEF WithHolder
  <2> HIDE DEF new
  <2>2. QED
    BY <2>1 DEF HeldBy
<1>2. QED
  BY <1>1, HeldWithout

(* release_all takes the locks of one transaction only.                    *)
LEMMA HeldAfterRelease ==
    ASSUME TypeOK, NEW t \in Txns, ReleaseAll(t), NEW u \in Txns
    PROVE  Holds(u)' <=> Holds(u) /\ u # t
<1>1. \A k \in Keys : locks'[k] = Without(locks[k], t) /\ locks[k] \in SUBSET Holder
  BY DEF ReleaseAll, TypeOK
<1>2. \A k \in Keys : HeldBy(locks'[k], u) <=> HeldBy(locks[k], u) /\ u # t
  BY <1>1, HeldWithout
<1>3. QED
  BY <1>2 DEF HeldBy, Holds, HoldsOn

(* A grant gives a lock to its caller only.                                *)
LEMMA HeldAfterGrant ==
    ASSUME TypeOK, NEW c \in calls, Grants(c), NEW u \in Txns
    PROVE  Holds(u)' <=> Holds(u) \/ u = c.txn
<1>1. c.key \in Keys /\ c.txn \in Txns /\ c.lock_type \in LockType
  BY DEF Grants, TypeOK, Call
<1>2. \A k \in Keys : locks'[k] = IF k = c.key
                                   THEN WithHolder(locks[k], c.txn, c.lock_type)
                                   ELSE locks[k]
  BY DEF Grants, TypeOK
<1>3. HeldBy(locks'[c.key], u) <=> HeldBy(locks[c.key], u) \/ u = c.txn
  BY <1>1, <1>2, HeldWith DEF TypeOK
<1>4. QED
  BY <1>1, <1>2, <1>3 DEF HeldBy, Holds, HoldsOn

(* No wait-for edge outlives the locks of the transaction it points to.    *)
THEOREM NoStaleWait == Spec => []WaitsForHolder
<1>1. Init => WaitsForHolder
  BY DEF Init, WaitsForHolder
<1>2. TypeOK /\ WaitsForHolder /\ [Next]_vars => WaitsForHolder'
  <2> SUFFICES ASSUME TypeOK, WaitsForHolder, [Next]_vars,
                      NEW t \in Txns, NEW b \in wait_for'[t]
               PROVE  Holds(b)'
    BY DEF WaitsForHolder
  <2>0. b \in Txns
    BY TypeStep, ManagerAssumption DEF TypeOK
  <2>1. CASE LocksUnchanged
    BY <2>1 DEF LocksUnchanged, WaitsForHolder, Holds, HoldsOn
  <2>2. ASSUME NEW r \in Txns, ReleaseAll(r) PROVE Holds(b)'
    <3>1. b \in wait_for[t] /\ b # r
      BY <2>2 DEF ReleaseAll, ForgetWaits
    <3>2. QED
      BY <2>0, <2>2, <3>1, HeldAfterRelease DEF WaitsForHolder
  <2>3. ASSUME NEW c \in calls, Grants(c) PROVE Holds(b)'
    <3>1. b \in wait_for[t]
      BY <2>3 DEF Grants, TypeOK
    <3>2. QED
      BY <2>0, <2>3, <3>1, HeldAfterGrant DEF WaitsForHolder
  <2>4. ASSUME NEW c \in calls, NEW x, Refuses(c, x) PROVE Holds(b)'
    <3>1. c.key \in Keys /\ HeldBy(locks[c.key], x)
      BY <2>4 DEF Refuses, Blockers, FirstStop, HeldBy, TypeOK, Call
    <3>2. locks' = locks
      BY <2>4 DEF Refuses, ConflictWith
    <3>3. b \in wait_for[t] \/ b = x
      <4>1. \/ wait_for' = [wait_for EXCEPT ![c.txn] = @ \cup {x}]
            \/ wait_for' = [wait_for EXCEPT ![c.txn] = {}]
        BY <2>4, Zenon DEF Refuses, ConflictWith
      <4>2. QED
        BY <4>1 DEF TypeOK
    <3>4. QED
      BY <3>1, <3>2, <3>3 DEF WaitsForHolder, HeldBy, Holds, HoldsOn
  <2>5. QED
    BY <2>1, <2>2, <2>3, <2>4, LockSteps
<1>3. QED
  BY <1>1, <1>2, TypeCorrect, PTL DEF Spec
-----------------------------------------------------------------------------
(* Locks of finished transactions, when one task drives each transaction.  *)
(* The strengthening: a call that may still reach the lock table belongs   *)
(* to an active transaction.                                               *)
CallsActive == \A c \in calls : c.op = "acquire" => IsActive(c.txn)

(* With one task per transaction a call in flight keeps it active.         *)
LEMMA CallsActiveStep ==
    OneTask /\ TypeOK /\ CallsActive /\ [Next]_vars => CallsActive'
<1> SUFFICES ASSUME OneTask, TypeOK, CallsActive, [Next]_vars,
                    NEW c \in calls', c.op = "acquire"
             PROVE  IsActive(c.txn)'
  BY DEF CallsActive
<1>0. ASSUME c \in calls PROVE c.txn \in Txns /\ IsActive(c.txn)
  BY <1>0 DEF CallsActive, TypeOK, Call
<1>1. ASSUME NEW t \in Txns, NEW i \in Isolations, Begin(t, i) PROVE IsActive(c.txn)'
  BY <1>0, <1>1 DEF Begin, IsActive, NewTransaction, TypeOK
<1>2. ASSUME NEW t \in Txns, CommitOk(t) \/ CommitConflict(t) \/ Rollback(t)
      PROVE  IsActive(c.txn)'
  <2>1. c \in calls /\ c.txn # t
    BY <1>2 DEF CommitOk, CommitConflict, Rollback, Free
  <2>2. txns'[c.txn] = txns[c.txn]
    BY <1>0, <1>2, <2>1 DEF CommitOk, CommitConflict, Rollback, TypeOK
  <2>3. QED
    BY <1>0, <2>1, <2>2 DEF IsActive
<1>3. ASSUME NEW t \in Txns, NEW k \in LockKeys, NEW mode \in LockType,
             AcquireLock(t, k, mode)
      PROVE  IsActive(c.txn)'
  BY <1>0, <1>3 DEF AcquireLock, IsActive
<1>4. ASSUME NEW t \in Txns, NEW k \in Keys, RecordUndo(t, k) PROVE IsActive(c.txn)'
  BY <1>0, <1>4 DEF RecordUndo, IsActive, TypeOK, Transaction
<1>5. ASSUME NEW t \in Txns, NEW k \in ReadKeys, ReadVersion(t, k) PROVE IsActive(c.txn)'
  BY <1>0, <1>5 DEF ReadVersion, IsActive
<1>6. ASSUME NEW d \in calls, LockTableAcquire(d) PROVE IsActive(c.txn)'
  <2>1. txns' = txns
    BY <1>6 DEF LockTableAcquire, Granted, Conflict, ConflictWith, UpgradeConflict
  <2>2. c \in calls
    <3>1. CASE Granted(d)
      <4>1. d.op = "acquire" /\ d \in Call
        BY <1>6 DEF LockTableAcquire, TypeOK
      <4>2. [d EXCEPT !.op = "record"].op = "record"
        BY <4>1 DEF Call
      <4>3. QED
        BY <3>1, <4>2 DEF Granted
    <3>2. CASE Conflict(d) \/ UpgradeConflict(d)
      BY <3>2 DEF Conflict, ConflictWith, UpgradeConflict
    <3>3. QED
      BY <1>6, <3>1, <3>2 DEF LockTableAcquire
  <2>3. QED
    BY <1>0, <2>1, <2>2 DEF IsActive
<1>7. ASSUME NEW d \in calls, RecordLock(d) \/ RecordRead(d) PROVE IsActive(c.txn)'
  <2>1. c \in calls
    BY <1>7 DEF RecordLock, RecordRead
  <2>2. txns'[c.txn].state = txns[c.txn].state
    <3>1. d.txn \in Txns /\ c.txn \in Txns
      BY <1>0, <2>1 DEF TypeOK, Call
    <3>2. CASE RecordLock(d)
      BY <3>1, <3>2 DEF RecordLock, TypeOK, Transaction
    <3>3. CASE RecordRead(d)
      BY <3>1, <3>3 DEF RecordRead, TypeOK, Transaction
    <3>4. QED
      BY <1>7, <3>2, <3>3
  <2>3. QED
    BY <1>0, <2>1, <2>2 DEF IsActive
<1>8. ASSUME NEW k \in Keys, NEW v \in 0 .. MaxLoaded, SetVersion(k, v)
      PROVE  IsActive(c.txn)'
  BY <1>0, <1>8 DEF SetVersion, IsActive
<1>9. CASE PurgeCompleted
  BY <1>0, <1>9 DEF PurgeCompleted, IsActive
<1>10. CASE UNCHANGED vars
  BY <1>0, <1>10 DEF vars, IsActive
<1>11. QED
  BY <1>1, <1>2, <1>3, <1>4, <1>5, <1>6, <1>7, <1>8, <1>9, <1>10 DEF Next

(* A step that leaves the lock table alone finishes nobody who holds a     *)
(* lock: Begin starts a transaction, purge_completed forgets finished ones.*)
LEMMA FinishSteps ==
    ASSUME TypeOK, [Next]_vars, NEW u \in Txns, Finished(u)', ~Finished(u)
    PROVE  ReleaseAll(u)
<1>1. ASSUME NEW t \in Txns, CommitOk(t) \/ CommitConflict(t) \/ Rollback(t)
      PROVE  ReleaseAll(u)
  <2>1. u = t
    BY <1>1 DEF CommitOk, CommitConflict, Rollback, Finished, TypeOK
  <2>2. QED
    BY <1>1, <2>1 DEF CommitOk, CommitConflict, Rollback
<1>2. ASSUME NEW t \in Txns, NEW i \in Isolations, Begin(t, i) PROVE FALSE
  BY <1>2 DEF Begin, Finished, NewTransaction, TypeOK
<1>3. ASSUME NEW t \in Txns, NEW k \in Keys, RecordUndo(t, k) PROVE FALSE
  BY <1>3 DEF RecordUndo, Finished, TypeOK, Transaction
<1>4. ASSUME NEW d \in calls, RecordLock(d) \/ RecordRead(d) PROVE FALSE
  <2>1. d.txn \in Txns
    BY DEF TypeOK, Call
  <2>2. txns'[u].state = txns[u].state
    <3>1. CASE RecordLock(d)
      BY <2>1, <3>1 DEF RecordLock, TypeOK, Transaction
    <3>2. CASE RecordRead(d)
      BY <2>1, <3>2 DEF RecordRead, TypeOK, Transaction
    <3>3. QED
      BY <1>4, <3>1, <3>2
  <2>3. QED
    BY <2>2 DEF Finished
<1>5. ASSUME PurgeCompleted PROVE FALSE
  BY <1>5 DEF PurgeCompleted, Finished
<1>6. ASSUME txns' = txns PROVE FALSE
  BY <1>6 DEF Finished
<1>7. ASSUME NEW d \in calls, LockTableAcquire(d) PROVE txns' = txns
  BY <1>7 DEF LockTableAcquire, Granted, Conflict, ConflictWith, UpgradeConflict
<1>8. ASSUME NEW t \in Txns, NEW k \in LockKeys, NEW mode \in LockType,
             AcquireLock(t, k, mode)
      PROVE  txns' = txns
  BY <1>8 DEF AcquireLock
<1>9. ASSUME NEW t \in Txns, NEW k \in ReadKeys, ReadVersion(t, k) PROVE txns' = txns
  BY <1>9 DEF ReadVersion
<1>10. ASSUME NEW k \in Keys, NEW v \in 0 .. MaxLoaded, SetVersion(k, v)
       PROVE  txns' = txns
  BY <1>10 DEF SetVersion
<1>11. CASE UNCHANGED vars
  BY <1>6, <1>11 DEF vars
<1>12. QED
  BY <1>1, <1>2, <1>3, <1>4, <1>5, <1>6, <1>7, <1>8, <1>9, <1>10, <1>11 DEF Next

(* A finished transaction holds no lock, as long as each transaction is    *)
(* driven by one task: no acquire_lock is between its check and the lock   *)
(* table when commit or rollback releases the locks.                       *)
THEOREM LocksReleased == OneTask => (Spec => []FinishedHoldsNothing)
<1> SUFFICES ASSUME OneTask PROVE Spec => []FinishedHoldsNothing
  OBVIOUS
<1> DEFINE IInv == FinishedHoldsNothing /\ CallsActive
<1>1. Init => IInv
  BY DEF Init, FinishedHoldsNothing, CallsActive, Holds, HoldsOn
<1>2. TypeOK /\ IInv /\ [Next]_vars => IInv'
  <2> SUFFICES ASSUME TypeOK, IInv, [Next]_vars, NEW u \in Txns, Finished(u)'
               PROVE  ~Holds(u)'
    BY CallsActiveStep DEF FinishedHoldsNothing
  <2>1. ASSUME ~Finished(u) PROVE ~Holds(u)'
    BY <2>1, FinishSteps, HeldAfterRelease
  <2>2. ASSUME Finished(u) PROVE ~Holds(u)'
    <3>1. ~Holds(u)
      BY <2>2 DEF FinishedHoldsNothing
    <3>2. CASE LocksUnchanged
      BY <3>1, <3>2 DEF LocksUnchanged, Holds, HoldsOn
    <3>3. ASSUME NEW t \in Txns, ReleaseAll(t) PROVE ~Holds(u)'
      BY <3>1, <3>3, HeldAfterRelease
    <3>4. ASSUME NEW c \in calls, Grants(c) PROVE ~Holds(u)'
      <4>1. u # c.txn
        BY <2>2, <3>4 DEF Grants, CallsActive, IsActive, Finished
      <4>2. QED
        BY <3>1, <3>4, <4>1, HeldAfterGrant
    <3>5. ASSUME NEW c \in calls, NEW b, Refuses(c, b) PROVE ~Holds(u)'
      BY <3>1, <3>5 DEF Refuses, ConflictWith, Holds, HoldsOn
    <3>6. QED
      BY <3>2, <3>3, <3>4, <3>5, LockSteps
  <2>3. QED
    BY <2>1, <2>2
<1>3. QED
  BY <1>1, <1>2, TypeCorrect, PTL DEF Spec
-----------------------------------------------------------------------------
(* The refinement of LockService.  What a release and a grant do to the    *)
(* modes in which a transaction holds a key.                               *)
LEMMA ModesWithout ==
    ASSUME NEW hs \in SUBSET Holder, NEW t, NEW u
    PROVE  \A m : m \in HeldModes(Without(hs, t), u) <=> u # t /\ m \in HeldModes(hs, u)
<1> DEFINE Left(h) == [holder |-> h.holder, lock_type |-> h.lock_type,
                       ahead |-> h.ahead \ {t}]
<1>1. ASSUME NEW m \in HeldModes(Without(hs, t), u)
      PROVE  u # t /\ m \in HeldModes(hs, u)
  <2>1. PICK g \in Without(hs, t) : g.holder = u /\ m = g.lock_type
    BY DEF HeldModes
  <2>2. PICK h \in hs : h.holder # t /\ g = Left(h)
    BY DEF Without
  <2>3. QED
    BY <2>1, <2>2 DEF HeldModes
<1>2. ASSUME NEW m \in HeldModes(hs, u), u # t
      PROVE  m \in HeldModes(Without(hs, t), u)
  <2>1. PICK h \in hs : h.holder = u /\ m = h.lock_type
    BY DEF HeldModes
  <2>2. Left(h) \in Without(hs, t)
    BY <1>2, <2>1 DEF Without
  <2>3. Left(h).holder = u /\ Left(h).lock_type = m
    BY <2>1
  <2> HIDE DEF Left
  <2>4. QED
    BY <2>2, <2>3 DEF HeldModes
<1>3. QED
  BY <1>1, <1>2

(* A grant changes the mode of its caller only.                            *)
LEMMA ModesWith ==
    ASSUME NEW hs \in SUBSET Holder, NEW t, NEW mode, NEW u
    PROVE  \A m : m \in HeldModes(WithHolder(hs, t, mode), u) <=>
                     IF u = t THEN m = mode ELSE m \in HeldModes(hs, u)
<1> DEFINE new == [holder |-> t, lock_type |-> mode,
                   ahead |-> {h.holder : h \in Without(hs, t)}]
<1>1. WithHolder(hs, t, mode) = Without(hs, t) \cup {new}
  BY DEF WithHolder
<1>2. new.holder = t /\ new.lock_type = mode
  OBVIOUS
<1> HIDE DEF new
<1>3. HeldModes(WithHolder(hs, t, mode), u) =
        HeldModes(Without(hs, t), u) \cup (IF u = t THEN {mode} ELSE {})
  BY <1>1, <1>2 DEF HeldModes
<1>4. QED
  BY <1>3, ModesWithout

(* What acquire grants is compatible with what the others hold, and never  *)
(* takes an exclusive lock back from the caller.                           *)
LEMMA GrantCompatible ==
    ASSUME NEW hs \in SUBSET Holder, NEW t \in Txns, NEW mode \in LockType,
           Compatible(hs), Grantable(hs, t, mode)
    PROVE  /\ "exclusive" \in HeldModes(hs, t) => mode = "exclusive"
           /\ \A u \in Txns \ {t} : HeldModes(hs, u) # {} =>
                mode = "shared" /\ "exclusive" \notin HeldModes(hs, u)
<1>1. CASE \A h \in hs : ~StopsAt(h, t, mode)
  BY <1>1 DEF StopsAt, HeldModes, LockType
<1>2. CASE Upgrades(hs, t, mode) /\ SoleHolder(hs)
  BY <1>2 DEF Upgrades, SoleHolder, FirstStop, HeldModes
<1>3. QED
  BY <1>1, <1>2 DEF Grantable

(* A step begins a transaction, finishes one that releases its locks, or   *)
(* leaves every transaction in its phase.                                  *)
LEMMA PhaseSteps ==
    ASSUME TypeOK, [Next]_vars
    PROVE  \/ \E t \in Txns : /\ txns[t].state = "none"
                              /\ phaseBar' = [phaseBar EXCEPT ![t] = "running"]
                              /\ locks' = locks
           \/ \E t \in Txns : /\ IsActive(t) /\ ReleaseAll(t)
                              /\ phaseBar' = [phaseBar EXCEPT ![t] = "finished"]
           \/ /\ phaseBar' = phaseBar
              /\ locks' = locks \/ \E c \in calls : Grants(c)
<1> DEFINE Same == \A t \in Txns : txns'[t].state = txns[t].state
<1>0. ASSUME Same PROVE phaseBar' = phaseBar
  BY <1>0 DEF phaseBar
<1>1. ASSUME NEW t \in Txns, NEW i \in Isolations, Begin(t, i)
      PROVE  /\ txns[t].state = "none" /\ locks' = locks
             /\ phaseBar' = [phaseBar EXCEPT ![t] = "running"]
  <2>1. txns'[t].state = "active" /\ \A u \in Txns \ {t} : txns'[u] = txns[u]
    BY <1>1 DEF Begin, NewTransaction, TypeOK
  <2>2. QED
    BY <1>1, <2>1 DEF Begin, phaseBar
<1>2. ASSUME NEW t \in Txns, CommitOk(t) \/ CommitConflict(t) \/ Rollback(t)
      PROVE  /\ IsActive(t) /\ ReleaseAll(t)
             /\ phaseBar' = [phaseBar EXCEPT ![t] = "finished"]
  <2>1. /\ txns'[t].state \in {"committed", "rolled_back"}
        /\ \A u \in Txns \ {t} : txns'[u] = txns[u]
    BY <1>2 DEF CommitOk, CommitConflict, Rollback, TypeOK, Transaction
  <2>2. phaseBar' = [phaseBar EXCEPT ![t] = "finished"]
    BY <2>1 DEF phaseBar
  <2>3. QED
    BY <1>2, <2>2 DEF CommitOk, CommitConflict, Rollback
<1>3. ASSUME NEW t \in Txns, NEW k \in LockKeys, NEW mode \in LockType,
             AcquireLock(t, k, mode)
      PROVE  Same /\ locks' = locks
  BY <1>3 DEF AcquireLock
<1>4. ASSUME NEW t \in Txns, NEW k \in Keys, RecordUndo(t, k)
      PROVE  Same /\ locks' = locks
  BY <1>4 DEF RecordUndo, TypeOK, Transaction
<1>5. ASSUME NEW t \in Txns, NEW k \in ReadKeys, ReadVersion(t, k)
      PROVE  Same /\ locks' = locks
  BY <1>5 DEF ReadVersion
<1>6. ASSUME NEW c \in calls, LockTableAcquire(c)
      PROVE  Same /\ (locks' = locks \/ Grants(c))
  BY <1>6 DEF LockTableAcquire, Granted, Conflict, ConflictWith, UpgradeConflict, Grants
<1>7. ASSUME NEW c \in calls, RecordLock(c) \/ RecordRead(c)
      PROVE  Same /\ locks' = locks
  <2>1. c.txn \in Txns
    BY DEF TypeOK, Call
  <2>2. CASE RecordLock(c)
    BY <2>1, <2>2 DEF RecordLock, TypeOK, Transaction
  <2>3. CASE RecordRead(c)
    BY <2>1, <2>3 DEF RecordRead, TypeOK, Transaction
  <2>4. QED
    BY <1>7, <2>2, <2>3
<1>8. ASSUME NEW k \in Keys, NEW v \in 0 .. MaxLoaded, SetVersion(k, v)
      PROVE  Same /\ locks' = locks
  BY <1>8 DEF SetVersion
<1>9. ASSUME PurgeCompleted
      PROVE  phaseBar' = phaseBar /\ locks' = locks
  <2>1. \A t \in Txns : \/ txns'[t].state = txns[t].state
                        \/ /\ txns[t].state \in {"committed", "rolled_back"}
                           /\ txns'[t].state = "purged"
    BY <1>9 DEF PurgeCompleted, NewTransaction
  <2>2. QED
    BY <1>9, <2>1 DEF PurgeCompleted, phaseBar
<1>10. CASE UNCHANGED vars
  BY <1>0, <1>10 DEF vars
<1> HIDE DEF Same
<1>11. QED
  BY <1>0, <1>1, <1>2, <1>3, <1>4, <1>5, <1>6, <1>7, <1>8, <1>9, <1>10 DEF Next

(* A step of the manager is a step of the service or leaves it alone.      *)
LEMMA ServiceStep ==
    ASSUME TypeOK, LockExclusion, CallsActive, [Next]_vars
    PROVE  [Service!LockNext]_<<phaseBar, heldBar>>
<1>0. ASSUME locks' = locks PROVE heldBar' = heldBar
  BY <1>0 DEF heldBar
<1>1. ASSUME NEW t \in Txns, txns[t].state = "none", locks' = locks,
             phaseBar' = [phaseBar EXCEPT ![t] = "running"]
      PROVE  Service!Begin(t)
  BY <1>0, <1>1 DEF Service!Begin, phaseBar
<1>2. ASSUME NEW t \in Txns, IsActive(t), ReleaseAll(t),
             phaseBar' = [phaseBar EXCEPT ![t] = "finished"]
      PROVE  Service!Finish(t)
  <2>1. phaseBar[t] = "running"
    BY <1>2 DEF phaseBar, IsActive
  <2>2. \A k \in Keys : locks'[k] = Without(locks[k], t) /\ locks[k] \in SUBSET Holder
    BY <1>2 DEF ReleaseAll, TypeOK
  <2>3. \A k \in Keys, u \in Txns :
          HeldModes(locks'[k], u) = IF u = t THEN {} ELSE HeldModes(locks[k], u)
    <3> SUFFICES ASSUME NEW k \in Keys, NEW u \in Txns
                 PROVE  \A m : m \in HeldModes(locks'[k], u) <=>
                                  u # t /\ m \in HeldModes(locks[k], u)
      OBVIOUS
    <3>1. locks'[k] = Without(locks[k], t) /\ locks[k] \in SUBSET Holder
      BY <2>2
    <3>2. QED
      BY <3>1, ModesWithout
  <2>4. heldBar' = [k \in Keys |-> [heldBar[k] EXCEPT ![t] = {}]]
    BY <2>3 DEF heldBar
  <2>5. QED
    BY <1>2, <2>1, <2>4 DEF Service!Finish
<1>3. ASSUME NEW c \in calls, Grants(c), phaseBar' = phaseBar
      PROVE  Service!Grant(c.txn, c.key, c.lock_type)
  <2> DEFINE t == c.txn
             k == c.key
             mode == c.lock_type
  <2>1. t \in Txns /\ k \in Keys /\ mode \in LockType
    BY <1>3 DEF Grants, TypeOK, Call
  <2>2. phaseBar[t] = "running"
    BY <1>3, <2>1 DEF Grants, CallsActive, IsActive, phaseBar
  <2>3. locks[k] \in SUBSET Holder /\ Compatible(locks[k])
    BY <2>1 DEF TypeOK, LockExclusion
  <2>4. /\ "exclusive" \in HeldModes(locks[k], t) => mode = "exclusive"
        /\ \A u \in Txns \ {t} : HeldModes(locks[k], u) # {} =>
             mode = "shared" /\ "exclusive" \notin HeldModes(locks[k], u)
    BY <1>3, <2>1, <2>3, GrantCompatible DEF Grants
  <2>5. \A j \in Keys : locks'[j] = IF j = k THEN WithHolder(locks[k], t, mode)
                                    ELSE locks[j]
    BY <1>3 DEF Grants, TypeOK
  <2>6. \A u \in Txns : HeldModes(locks'[k], u) =
          IF u = t THEN {mode} ELSE HeldModes(locks[k], u)
    <3> SUFFICES ASSUME NEW u \in Txns
                 PROVE  \A m : m \in HeldModes(locks'[k], u) <=>
                                  IF u = t THEN m = mode ELSE m \in HeldModes(locks[k], u)
      OBVIOUS
    <3>1. locks'[k] = WithHolder(locks[k], t, mode)
      BY <2>1, <2>5
    <3>2. QED
      BY <2>3, <3>1, ModesWith
  <2> HIDE DEF t, k, mode
  <2>7. Service!Grantable(t, k, mode)
    BY <2>1, <2>4 DEF Service!Grantable, heldBar
  <2>8. heldBar' = [heldBar EXCEPT ![k][t] = {mode}]
    BY <2>1, <2>5, <2>6 DEF heldBar
  <2>9. heldBar' = [heldBar EXCEPT ![k][t] =
                      IF "exclusive" \in @ THEN {"exclusive"} ELSE {mode}]
    BY <2>1, <2>4, <2>8 DEF heldBar
  <2>10. Service!Grant(t, k, mode)
    BY <1>3, <2>2, <2>7, <2>9 DEF Service!Grant
  <2>11. QED
    BY <2>10 DEF t, k, mode
<1>4. ASSUME NEW c \in calls, Grants(c) PROVE c.txn \in Txns /\ c.key \in Keys /\ c.lock_type \in Service!Modes
  BY <1>4 DEF Grants, TypeOK, Call, LockType, Service!Modes
<1>5. QED
  BY <1>0, <1>1, <1>2, <1>3, <1>4, PhaseSteps DEF Service!LockNext

(* With one task per transaction the manager implements LockService: no    *)
(* interleaving of acquire_lock's blocks with commits and rollbacks grants *)
(* an incompatible lock, grants one to a finished transaction or takes one *)
(* back before its transaction finishes.                                   *)
THEOREM ImplementsService == OneTask => (Spec => ImplementsLockService)
<1> SUFFICES ASSUME OneTask PROVE Spec => ImplementsLockService
  OBVIOUS
<1>1. Init => Service!LockInit
  BY DEF Init, Service!LockInit, phaseBar, heldBar, HeldModes, NewTransaction
<1>2. Init => CallsActive
  BY DEF Init, CallsActive
<1>3. TypeOK /\ CallsActive /\ [Next]_vars => CallsActive'
  BY CallsActiveStep
<1>4. TypeOK /\ LockExclusion /\ CallsActive /\ [Next]_vars =>
        [Service!LockNext]_<<phaseBar, heldBar>>
  BY ServiceStep
<1>5. QED
  BY <1>1, <1>2, <1>3, <1>4, TypeCorrect, MutualExclusion, PTL
  DEF Spec, ImplementsLockService, Service!LockSpec
-----------------------------------------------------------------------------
(* Serializable reads.  The undo entries of key k in the first i - 1       *)
(* commits of cs: each of them raised the version of k by one.             *)
Earlier(cs, i, k) ==
    {e \in (1 .. i - 1) \X (1 .. MaxUndo) :
       /\ e[2] \in DOMAIN cs[e[1]].undo_log
       /\ cs[e[1]].undo_log[e[2]] = k}

(* A version is the one loaded plus one for each undo entry committed, and *)
(* nothing is loaded once a transaction has begun.                         *)
VersionsCounted ==
    /\ \A t \in Txns : Len(txns[t].undo_log) <= MaxUndo
    /\ commits # <<>> => \E t \in Txns : txns[t].state # "none"
    /\ \A k \in Keys :
         versions[k] = loaded[k] + Cardinality(Earlier(commits, Len(commits) + 1, k))

(* The entries of a list of commits are finitely many.                     *)
LEMMA EarlierFinite ==
    ASSUME NEW cs, NEW i \in Nat, NEW k, MaxUndo \in Nat
    PROVE  IsFiniteSet(Earlier(cs, i, k)) /\ Cardinality(Earlier(cs, i, k)) \in Nat
<1>1. IsFiniteSet(1 .. i - 1) /\ IsFiniteSet(1 .. MaxUndo)
  BY FS_Interval
<1>2. IsFiniteSet((1 .. i - 1) \X (1 .. MaxUndo))
  BY <1>1, FS_Product
<1>3. Earlier(cs, i, k) \in SUBSET ((1 .. i - 1) \X (1 .. MaxUndo))
  BY DEF Earlier
<1>4. IsFiniteSet(Earlier(cs, i, k))
  BY <1>2, <1>3, FS_Subset
<1>5. QED
  BY <1>4, FS_CardinalityType

(* A commit leaves the entries of the earlier commits as they were.        *)
LEMMA EarlierKept ==
    ASSUME NEW cs \in Seq(Transaction), NEW x \in Transaction, NEW k,
           NEW i \in 1 .. Len(cs) + 1
    PROVE  Earlier(Append(cs, x), i, k) = Earlier(cs, i, k)
<1>1. \A j \in 1 .. i - 1 : Append(cs, x)[j] = cs[j]
  OBVIOUS
<1>2. QED
  BY <1>1 DEF Earlier

(* A commit adds as many entries as its undo log has for the key.          *)
LEMMA EarlierCounts ==
    ASSUME NEW cs \in Seq(Transaction), NEW x \in Transaction, NEW k,
           MaxUndo \in Nat, Len(x.undo_log) <= MaxUndo
    PROVE  Cardinality(Earlier(Append(cs, x), Len(cs) + 2, k)) =
             Cardinality(Earlier(cs, Len(cs) + 1, k)) + Writes(x.undo_log, k)
<1> DEFINE n == Len(cs) + 1
           W == {j \in DOMAIN x.undo_log : x.undo_log[j] = k}
           New == {n} \X W
           Old == Earlier(cs, n, k)
<1>0. n \in Nat /\ n >= 1 /\ x.undo_log \in Seq(Keys)
  BY DEF Transaction
<1>1. Append(cs, x)[n] = x /\ \A j \in 1 .. n - 1 : Append(cs, x)[j] = cs[j]
  OBVIOUS
<1>2. W \subseteq 1 .. MaxUndo
  <2>1. DOMAIN x.undo_log = 1 .. Len(x.undo_log) /\ Len(x.undo_log) \in Nat
    BY <1>0
  <2>2. QED
    BY <2>1
<1> DEFINE cs2 == Append(cs, x)
<1> HIDE DEF n, cs2
<1>3. Earlier(cs2, n + 1, k) = Old \cup New
  <2>1. ASSUME NEW e \in Earlier(cs2, n + 1, k) PROVE e \in Old \cup New
    <3>1. /\ e \in (1 .. n) \X (1 .. MaxUndo) /\ e[2] \in DOMAIN cs2[e[1]].undo_log
          /\ cs2[e[1]].undo_log[e[2]] = k
      BY <1>0 DEF Earlier
    <3>2. CASE e[1] = n
      <4>1. e[2] \in W
        BY <1>1, <3>1, <3>2 DEF cs2
      <4>2. e = <<n, e[2]>>
        BY <3>1, <3>2
      <4>3. QED
        BY <4>1, <4>2
    <3>3. CASE e[1] # n
      <4>0. e[1] \in 1 .. n /\ \A a \in 1 .. n : a # n => a \in 1 .. n - 1
        BY <1>0, <3>1
      <4>1. e[1] \in 1 .. n - 1 /\ cs2[e[1]] = cs[e[1]]
        <5>1. e[1] \in 1 .. n - 1
          BY <3>3, <4>0
        <5>2. QED
          BY <1>1, <5>1 DEF cs2
      <4>2. e \in (1 .. n - 1) \X (1 .. MaxUndo)
        BY <3>1, <4>1
      <4>3. QED
        BY <3>1, <4>1, <4>2 DEF Earlier
    <3>4. QED
      BY <3>2, <3>3
  <2>2. ASSUME NEW e \in Old PROVE e \in Earlier(cs2, n + 1, k)
    <3>1. /\ e \in (1 .. n - 1) \X (1 .. MaxUndo) /\ e[2] \in DOMAIN cs[e[1]].undo_log
          /\ cs[e[1]].undo_log[e[2]] = k
      BY DEF Earlier
    <3>2. e \in (1 .. n) \X (1 .. MaxUndo) /\ cs2[e[1]] = cs[e[1]]
      <4>1. 1 .. n - 1 \subseteq 1 .. n /\ e[1] \in 1 .. n - 1
        BY <1>0, <3>1
      <4>2. e \in (1 .. n) \X (1 .. MaxUndo)
        BY <3>1, <4>1
      <4>3. QED
        BY <1>1, <4>1, <4>2 DEF cs2
    <3>3. QED
      BY <1>0, <3>1, <3>2 DEF Earlier
  <2>3. ASSUME NEW w \in W PROVE <<n, w>> \in Earlier(cs2, n + 1, k)
    <3>1. <<n, w>> \in (1 .. n) \X (1 .. MaxUndo) /\ cs2[n] = x
      BY <1>0, <1>1, <1>2 DEF cs2
    <3>2. QED
      BY <1>0, <3>1 DEF Earlier
  <2>4. QED
    BY <2>1, <2>2, <2>3
<1>4. IsFiniteSet(Old) /\ Cardinality(Old) \in Nat
  BY <1>0, EarlierFinite
<1>5. IsFiniteSet(W)
  <2>1. IsFiniteSet(1 .. MaxUndo)
    BY FS_Interval
  <2>2. QED
    BY <1>2, <2>1, FS_Subset
<1>6. IsFiniteSet(New) /\ Cardinality(New) = Cardinality(W) /\ Cardinality(W) \in Nat
  <2>1. IsFiniteSet({n}) /\ Cardinality({n}) = 1
    BY FS_Singleton
  <2>2. Cardinality(W) \in Nat
    BY <1>5, FS_CardinalityType
  <2>3. QED
    BY <1>5, <2>1, <2>2, FS_Product
<1>7. Old \cap New = {}
  <2>1. \A e \in Old : e[1] \in 1 .. n - 1
    BY DEF Earlier
  <2>2. \A e \in New : e[1] = n
    OBVIOUS
  <2>3. QED
    BY <1>0, <2>1, <2>2
<1>8. Cardinality(Old \cup New) = Cardinality(Old) + Cardinality(New)
  <2> HIDE DEF Old, New
  <2>1. Cardinality(Old \cup New) =
          Cardinality(Old) + Cardinality(New) - Cardinality(Old \cap New)
    BY <1>4, <1>6, FS_Union
  <2>2. Cardinality(Old \cap New) = 0
    BY <1>7, FS_EmptySet
  <2>3. QED
    BY <1>4, <1>6, <2>1, <2>2
<1>9. n + 1 = Len(cs) + 2
  BY DEF n
<1>10. Cardinality(Earlier(cs2, n + 1, k)) = Cardinality(Old) + Writes(x.undo_log, k)
  BY <1>3, <1>6, <1>8 DEF Writes
<1>11. QED
  BY <1>9, <1>10 DEF n, cs2

(* The count of versions is kept by every step.                            *)
LEMMA VersionsStep ==
    ASSUME ManagerAssumption, TypeOK, VersionsCounted, [Next]_vars
    PROVE  VersionsCounted'
<1> USE DEF VersionsCounted
<1>0. MaxUndo \in Nat
  BY DEF ManagerAssumption
<1> DEFINE Same == UNCHANGED <<versions, commits, loaded>>
<1>1. ASSUME Same, \A t \in Txns : Len(txns'[t].undo_log) <= MaxUndo,
             \A t \in Txns : txns[t].state # "none" => txns'[t].state # "none"
      PROVE  VersionsCounted'
  BY <1>1
<1>2. ASSUME NEW t \in Txns, NEW i \in Isolations, Begin(t, i) PROVE VersionsCounted'
  <2>1. \A u \in Txns : txns'[u] = IF u = t THEN NewTransaction("active", i) ELSE txns[u]
    BY <1>2 DEF Begin, TypeOK
  <2>2. QED
    BY <1>0, <1>1, <1>2, <2>1 DEF Begin, NewTransaction
<1>3. ASSUME NEW t \in Txns, CommitOk(t) PROVE VersionsCounted'
  <2>1. /\ \A u \in Txns : txns'[u].undo_log = txns[u].undo_log
        /\ txns'[t].state = "committed"
    BY <1>3 DEF CommitOk, TypeOK, Transaction
  <2>2. /\ commits \in Seq(Transaction) /\ txns[t] \in Transaction
        /\ commits' = Append(commits, txns[t])
        /\ Len(commits') + 1 = Len(commits) + 2
        /\ Len(txns[t].undo_log) <= MaxUndo
    BY <1>3 DEF CommitOk, TypeOK
  <2>3. ASSUME NEW k \in Keys
        PROVE  versions'[k] =
                 loaded'[k] + Cardinality(Earlier(commits', Len(commits') + 1, k))
    <3>1. Cardinality(Earlier(Append(commits, txns[t]), Len(commits) + 2, k)) =
            Cardinality(Earlier(commits, Len(commits) + 1, k)) + Writes(txns[t].undo_log, k)
      BY <1>0, <2>2, EarlierCounts
    <3>2. /\ Writes(txns[t].undo_log, k) \in Nat
          /\ Cardinality(Earlier(commits, Len(commits) + 1, k)) \in Nat
      BY <1>0, <2>2, WritesType, EarlierFinite DEF Transaction
    <3>3. versions'[k] = versions[k] + Writes(txns[t].undo_log, k) /\ loaded' = loaded
      BY <1>3 DEF CommitOk
    <3>4. loaded[k] \in Nat
      BY DEF TypeOK
    <3>5. QED
      BY <2>2, <3>1, <3>2, <3>3, <3>4
  <2>4. QED
    BY <2>1, <2>3
<1>4. ASSUME NEW t \in Txns, CommitConflict(t) \/ Rollback(t) PROVE VersionsCounted'
  <2>1. /\ \A u \in Txns : txns'[u].undo_log = txns[u].undo_log
        /\ \A u \in Txns : u # t => txns'[u] = txns[u]
        /\ txns'[t].state = "rolled_back"
    BY <1>4 DEF CommitConflict, Rollback, TypeOK, Transaction
  <2>2. QED
    BY <1>1, <1>4, <2>1 DEF CommitConflict, Rollback
<1>5. ASSUME NEW t \in Txns, NEW k \in LockKeys, NEW mode \in LockType,
             AcquireLock(t, k, mode)
      PROVE  VersionsCounted'
  BY <1>1, <1>5 DEF AcquireLock
<1>6. ASSUME NEW t \in Txns, NEW k \in Keys, RecordUndo(t, k) PROVE VersionsCounted'
  <2>1. /\ txns'[t].undo_log = Append(txns[t].undo_log, k)
        /\ \A u \in Txns : txns'[u].state = txns[u].state
        /\ \A u \in Txns : u # t => txns'[u] = txns[u]
    BY <1>6 DEF RecordUndo, TypeOK, Transaction
  <2>2. Len(txns'[t].undo_log) = Len(txns[t].undo_log) + 1 /\ Len(txns[t].undo_log) \in Nat
    BY <2>1 DEF TypeOK, Transaction
  <2>3. Len(txns'[t].undo_log) <= MaxUndo
    BY <1>0, <1>6, <2>2 DEF RecordUndo
  <2>4. QED
    BY <1>1, <1>6, <2>1, <2>3 DEF RecordUndo
<1>7. ASSUME NEW t \in Txns, NEW k \in ReadKeys, ReadVersion(t, k) PROVE VersionsCounted'
  BY <1>1, <1>7 DEF ReadVersion
<1>8. ASSUME NEW c \in calls, LockTableAcquire(c) PROVE VersionsCounted'
  <2>1. Same /\ txns' = txns
    BY <1>8 DEF LockTableAcquire, Granted, Conflict, ConflictWith, UpgradeConflict
  <2>2. QED
    BY <1>1, <2>1
<1>9. ASSUME NEW c \in calls, RecordLock(c) \/ RecordRead(c) PROVE VersionsCounted'
  <2>1. c.txn \in Txns
    BY DEF TypeOK, Call
  <2>2. \A u \in Txns : /\ txns'[u].undo_log = txns[u].undo_log
                        /\ txns'[u].state = txns[u].state
    <3>1. CASE RecordLock(c)
      BY <2>1, <3>1 DEF RecordLock, TypeOK, Transaction
    <3>2. CASE RecordRead(c)
      BY <2>1, <3>2 DEF RecordRead, TypeOK, Transaction
    <3>3. QED
      BY <1>9, <3>1, <3>2
  <2>3. QED
    BY <1>1, <1>9, <2>2 DEF RecordLock, RecordRead
<1>10. ASSUME NEW k \in Keys, NEW v \in 0 .. MaxLoaded, SetVersion(k, v)
       PROVE  VersionsCounted'
  <2>1. commits = <<>> /\ commits' = <<>> /\ txns' = txns
    BY <1>10 DEF SetVersion
  <2>2. \A j \in Keys : Cardinality(Earlier(<<>>, 1, j)) = 0
    <3>1. \A j \in Keys : Earlier(<<>>, 1, j) = {}
      <4>1. 1 .. 1 - 1 = {}
        OBVIOUS
      <4>2. QED
        BY <4>1 DEF Earlier
    <3>2. QED
      BY <3>1, FS_EmptySet
  <2>3. \A j \in Keys : versions'[j] = loaded'[j] /\ loaded'[j] \in Nat
    <3>1. \A j \in Keys : versions[j] = loaded[j] + Cardinality(Earlier(<<>>, 1, j))
      BY <2>1
    <3>2. \A j \in Keys : versions[j] = loaded[j] /\ loaded[j] \in Nat
      BY <2>2, <3>1 DEF TypeOK
    <3>3. v \in Nat
      BY DEF ManagerAssumption
    <3>4. QED
      BY <1>10, <3>2, <3>3 DEF SetVersion, TypeOK
  <2>4. Len(commits') + 1 = 1
    BY <2>1
  <2>5. \A j \in Keys : versions'[j] = loaded'[j] + Cardinality(Earlier(commits', Len(commits') + 1, j))
    BY <2>1, <2>2, <2>3, <2>4
  <2>6. QED
    BY <2>1, <2>5
<1>11. CASE PurgeCompleted
  <2>1. \A u \in Txns : \/ txns'[u] = txns[u]
                        \/ txns'[u] = NewTransaction("purged", "read_committed")
    BY <1>11 DEF PurgeCompleted
  <2>2. \A u \in Txns : /\ Len(txns'[u].undo_log) <= MaxUndo
                        /\ txns[u].state # "none" => txns'[u].state # "none"
    BY <1>0, <2>1 DEF NewTransaction
  <2>3. QED
    BY <1>1, <1>11, <2>2 DEF PurgeCompleted
<1>12. CASE UNCHANGED vars
  BY <1>1, <1>12 DEF vars
<1>13. QED
  BY <1>2, <1>3, <1>4, <1>5, <1>6, <1>7, <1>8, <1>9, <1>10, <1>11, <1>12 DEF Next

(* A serializable transaction that commits read, of every key, the version *)
(* that the commits before its own left behind, although record_read takes *)
(* the version before it looks the transaction up and other transactions   *)
(* commit in between.                                                      *)
THEOREM ReadsSerializable == Spec => []SerializableReads
<1> DEFINE Reads(cs, base, i) == cs[i].isolation_level = "serializable" =>
             \A r \in cs[i].read_set :
               r.version = base[r.key] + Cardinality(Earlier(cs, i, r.key))
<1>0. SerializableReads <=> \A i \in DOMAIN commits : Reads(commits, loaded, i)
  BY DEF SerializableReads, Earlier
<1> DEFINE IInv == VersionsCounted /\ SerializableReads
<1>1. Init => IInv
  <2> SUFFICES ASSUME Init PROVE IInv
    OBVIOUS
  <2>1. \A k \in Keys : Earlier(<<>>, 1, k) = {}
    <3>1. 1 .. 1 - 1 = {}
      OBVIOUS
    <3>2. QED
      BY <3>1 DEF Earlier
  <2>2. \A k \in Keys : Cardinality(Earlier(<<>>, 1, k)) = 0
    BY <2>1, FS_EmptySet
  <2>3. commits = <<>> /\ Len(commits) + 1 = 1
    BY DEF Init
  <2>4. \A k \in Keys : versions[k] = 0 /\ loaded[k] = 0
    BY DEF Init
  <2>5. \A k \in Keys :
          versions[k] = loaded[k] + Cardinality(Earlier(commits, Len(commits) + 1, k))
    BY <2>2, <2>3, <2>4
  <2>6. \A t \in Txns : Len(txns[t].undo_log) <= MaxUndo
    BY ManagerAssumption DEF Init, NewTransaction, ManagerAssumption
  <2>7. SerializableReads
    BY <2>3 DEF SerializableReads
  <2>8. QED
    BY <2>3, <2>5, <2>6, <2>7 DEF VersionsCounted
<1>2. TypeOK /\ IInv /\ [Next]_vars => IInv'
  <2> SUFFICES ASSUME TypeOK, IInv, [Next]_vars PROVE SerializableReads'
    BY VersionsStep, ManagerAssumption
  <2>0. MaxUndo \in Nat
    BY ManagerAssumption DEF ManagerAssumption
  <2>1. CASE UNCHANGED <<commits, loaded>>
    BY <2>1 DEF SerializableReads
  <2>2. CASE commits = <<>> /\ commits' = <<>>
    BY <2>2 DEF SerializableReads
  <2>3. ASSUME NEW t \in Txns, CommitOk(t) PROVE SerializableReads'
    <3>1. /\ commits \in Seq(Transaction) /\ txns[t] \in Transaction
          /\ commits' = Append(commits, txns[t]) /\ loaded' = loaded
          /\ Validates(t)
      BY <2>3 DEF CommitOk, TypeOK
    <3> DEFINE n == Len(commits) + 1
    <3>2. DOMAIN commits' = 1 .. n /\ n \in Nat /\ DOMAIN commits = 1 .. n - 1
      BY <3>1
    <3>3. ASSUME NEW i \in 1 .. n PROVE Reads(commits', loaded', i)
      <4>1. \A k : Earlier(commits', i, k) = Earlier(commits, i, k)
        BY <3>1, EarlierKept
      <4>2. CASE i < n
        <5>1. i \in DOMAIN commits /\ commits'[i] = commits[i]
          BY <3>1, <3>2, <4>2
        <5>2. Reads(commits, loaded, i)
          BY <1>0, <5>1
        <5>3. QED
          BY <3>1, <4>1, <5>1, <5>2
      <4>3. CASE i = n
        <5>1. commits'[i] = txns[t]
          BY <3>1, <4>3
        <5> SUFFICES ASSUME txns[t].isolation_level = "serializable",
                            NEW r \in txns[t].read_set
                     PROVE  r.version = loaded[r.key] + Cardinality(Earlier(commits, n, r.key))
          BY <3>1, <4>1, <4>3, <5>1
        <5>2. r.version = versions[r.key] /\ r.key \in Keys
          BY <3>1 DEF Validates, Transaction, Stamp
        <5>3. QED
          BY <5>2 DEF VersionsCounted
      <4>4. QED
        BY <3>2, <4>2, <4>3
    <3>4. QED
      BY <3>2, <3>3 DEF SerializableReads, Earlier
  <2>4. QED
    <3>1. ASSUME NEW k \in Keys, NEW v \in 0 .. MaxLoaded, SetVersion(k, v)
          PROVE  commits = <<>> /\ commits' = <<>>
      BY <3>1 DEF SetVersion, VersionsCounted
    <3>2. \/ UNCHANGED <<commits, loaded>>
          \/ \E t \in Txns : CommitOk(t)
          \/ \E k \in Keys, v \in 0 .. MaxLoaded : SetVersion(k, v)
      BY DEF Next, vars, Begin, CommitConflict, Rollback, AcquireLock, RecordUndo,
             ReadVersion, LockTableAcquire, Granted, Conflict, ConflictWith,
             UpgradeConflict, RecordLock, RecordRead, PurgeCompleted
    <3>3. QED
      BY <2>1, <2>2, <2>3, <3>1, <3>2
<1>3. QED
  BY <1>1, <1>2, TypeCorrect, PTL DEF Spec
=============================================================================
