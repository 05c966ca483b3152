-------------------------- MODULE TransactionManager --------------------------
(***************************************************************************)
(* The ACID transaction manager of the hexad store (transaction.rs): the   *)
(* transaction map, the modality-level lock table with its wait-for graph, *)
(* and the MVCC version table, each behind an RwLock of its own.           *)
(*                                                                         *)
(* begin, commit, rollback, record_undo, set_version and purge_completed   *)
(* hold the transaction map's (or the only) lock from start to end and are *)
(* one action each.  acquire_lock and record_read take one lock after the  *)
(* other: they are split where a lock is dropped, and the calls in between *)
(* are the elements of calls.                                              *)
(*                                                                         *)
(* The Vec of a key's holders is a set whose entries know the holders that *)
(* stand before them (ahead): acquire's loop depends on that order.        *)
(*                                                                         *)
(* commits, loaded and refused are history variables.                      *)
(***************************************************************************)
EXTENDS Naturals, FiniteSets, Sequences, TLC

LockType == {"shared", "exclusive"}
IsolationLevel == {"read_committed", "serializable"}

CONSTANTS Txns,       \* transaction identifiers
          Keys,       \* (entity_id, modality) pairs, the modality a valid one
          Isolations, \* the isolation levels that callers ask for
          LockKeys,   \* the keys that callers lock
          ReadKeys,   \* the keys that callers read with record_read
          OneTask,    \* every transaction is driven by one task, as in store.rs
          MaxUndo,    \* bound on a transaction's undo log
          MaxLoaded,  \* bound on the versions set_version loads
          MaxCalls    \* bound on the calls in flight

ASSUME ManagerAssumption ==
    /\ Isolations \subseteq IsolationLevel
    /\ LockKeys \subseteq Keys /\ ReadKeys \subseteq Keys
    /\ OneTask \in BOOLEAN
    /\ {MaxUndo, MaxLoaded, MaxCalls} \subseteq Nat

VARIABLES txns,      \* active_transactions
          locks,     \* lock_table.locks
          wait_for,  \* lock_table.wait_for
          versions,  \* version_table
          calls,     \* acquire_lock and record_read calls between two locks
          commits,   \* the transactions committed, in order
          loaded,    \* the versions set by set_version
          refused    \* held_by of the LockConflict answers still standing

vars == <<txns, locks, wait_for, versions, calls, commits, loaded, refused>>

(* Transaction::new; "none" stands for an id that is not in the map.       *)
NewTransaction(state, isolation) ==
    [state           |-> state,
     isolation_level |-> isolation,
     undo_log        |-> <<>>,
     locks           |-> {},
     read_set        |-> {}]

Init ==
    /\ txns = [t \in Txns |-> NewTransaction("none", "read_committed")]
    /\ locks = [k \in Keys |-> {}]
    /\ wait_for = [t \in Txns |-> {}]
    /\ versions = [k \in Keys |-> 0]
    /\ calls = {}
    /\ commits = <<>>
    /\ loaded = [k \in Keys |-> 0]
    /\ refused = [t \in Txns |-> {}]

IsActive(t) == txns[t].state = "active"

(* The task that drives t is not inside another call.                      *)
Free(t) == OneTask => \A c \in calls : c.txn # t
-----------------------------------------------------------------------------
(* The lock table.                                                         *)

(* acquire's loop stops at the first holder that is the transaction itself *)
(* or conflicts with the request.                                          *)
StopsAt(h, t, mode) ==
    h.holder = t \/ h.lock_type = "exclusive" \/ mode = "exclusive"

FirstStop(hs, t, mode) ==
    {h \in hs : /\ StopsAt(h, t, mode)
                /\ \A g \in hs : StopsAt(g, t, mode) => g.holder \notin h.ahead}

Blockers(hs, t, mode) == {h.holder : h \in FirstStop(hs, t, mode)} \ {t}

(* Held shared, wanted exclusive.                                          *)
Upgrades(hs, t, mode) ==
    /\ mode = "exclusive"
    /\ \E h \in FirstStop(hs, t, mode) : h.holder = t /\ h.lock_type = "shared"

AlreadyHeld(hs, t, mode) ==
    /\ \E h \in FirstStop(hs, t, mode) : h.holder = t
    /\ ~Upgrades(hs, t, mode)

SoleHolder(hs) == \E h \in hs : hs = {h}

Grantable_AnyUpgrade(hs, t, mode) ==
    Upgrades(hs, t, mode) \/ \A h \in hs : ~StopsAt(h, t, mode)

Grantable_Downgrades(hs, t, mode) ==
    \/ SoleHolder(hs) /\ \E h \in hs : h.holder = t
    \/ \A h \in hs : ~StopsAt(h, t, mode)

(* Upgrade of a sole holder, or Grant: nothing stopped the loop.           *)
Grantable(hs, t, mode) ==
    \/ Upgrades(hs, t, mode) /\ SoleHolder(hs)
    \/ \A h \in hs : ~StopsAt(h, t, mode)

(* The holder right behind t, which find() meets first.                    *)
UpgradeBlockers(hs, t) == {h.holder : h \in {g \in hs : g.holder # t /\ g.ahead \subseteq {t}}}

Without(hs, t) ==
    {[holder |-> h.holder, lock_type |-> h.lock_type, ahead |-> h.ahead \ {t}] :
       h \in {g \in hs : g.holder # t}}

WithHolder(hs, t, mode) ==
    LET others == Without(hs, t)
    IN  others \cup {[holder |-> t, lock_type |-> mode,
                      ahead |-> {h.holder : h \in others}]}

(* detect_cycle's search comes back to start: start is in every set that   *)
(* holds its direct dependencies and is closed under wait_for.             *)
DetectCycle(w, start) ==
    \A S \in SUBSET Txns :
        (w[start] \subseteq S /\ \A t \in S : w[t] \subseteq S) => start \in S

ForgetWaits_OwnOnly(w, t) == [w EXCEPT ![t] = {}]

(* release_all on a map from transactions to the ones they wait for.       *)
ForgetWaits(w, t) == [u \in Txns |-> IF u = t THEN {} ELSE w[u] \ {t}]

ReleaseAll_WaitsOnly(t) ==
    /\ wait_for' = ForgetWaits(wait_for, t)
    /\ refused' = ForgetWaits(refused, t)
    /\ UNCHANGED locks

ReleaseAll(t) ==
    /\ locks' = [k \in Keys |-> Without(locks[k], t)]
    /\ wait_for' = ForgetWaits(wait_for, t)
    /\ refused' = ForgetWaits(refused, t)
-----------------------------------------------------------------------------
Begin(t, isolation) ==
    /\ txns[t].state = "none"
    /\ txns' = [txns EXCEPT ![t] = NewTransaction("active", isolation)]
    /\ UNCHANGED <<locks, wait_for, versions, calls, commits, loaded, refused>>

Validates_Skipped(t) == TRUE

(* commit: validation of a serializable transaction's read set, one        *)
(* version increment per undo entry, release of the locks.                 *)
Validates(t) ==
    txns[t].isolation_level = "serializable" =>
        \A r \in txns[t].read_set : versions[r.key] = r.version

Writes(undo_log, k) == Cardinality({i \in DOMAIN undo_log : undo_log[i] = k})

CommitOk(t) ==
    /\ IsActive(t) /\ Free(t)
    /\ Validates(t)
    /\ versions' = [k \in Keys |-> versions[k] + Writes(txns[t].undo_log, k)]
    /\ txns' = [txns EXCEPT ![t].state = "committed"]
    /\ ReleaseAll(t)
    /\ commits' = Append(commits, txns[t])
    /\ UNCHANGED <<calls, loaded>>

CommitConflict(t) ==
    /\ IsActive(t) /\ Free(t)
    /\ ~Validates(t)
    /\ txns' = [txns EXCEPT ![t].state = "rolled_back"]
    /\ ReleaseAll(t)
    /\ UNCHANGED <<versions, calls, commits, loaded>>

Rollback_StartsAnew(t) ==
    /\ IsActive(t) /\ Free(t)
    /\ txns' = [txns EXCEPT ![t] = NewTransaction("none", @.isolation_level)]
    /\ ReleaseAll(t)
    /\ UNCHANGED <<versions, calls, commits, loaded>>

Rollback(t) ==
    /\ IsActive(t) /\ Free(t)
    /\ txns' = [txns EXCEPT ![t].state = "rolled_back"]
    /\ ReleaseAll(t)
    /\ UNCHANGED <<versions, calls, commits, loaded>>

(* purge_completed forgets every finished transaction.                     *)
PurgeCompleted ==
    /\ \E t \in Txns : txns[t].state \in {"committed", "rolled_back"}
    /\ txns' = [t \in Txns |->
                  IF txns[t].state \in {"committed", "rolled_back"}
                  THEN NewTransaction("purged", "read_committed") ELSE txns[t]]
    /\ UNCHANGED <<locks, wait_for, versions, calls, commits, loaded, refused>>
-----------------------------------------------------------------------------
(* acquire_lock, first block: the transaction is active.                   *)
AcquireLock(t, k, mode) ==
    /\ IsActive(t) /\ Free(t)
    /\ Cardinality(calls) < MaxCalls
    /\ calls' = calls \cup {[op |-> "acquire", txn |-> t, key |-> k, lock_type |-> mode]}
    /\ UNCHANGED <<txns, locks, wait_for, versions, commits, loaded, refused>>

(* Second block, LockTable::acquire: granted, ...                          *)
Granted(c) ==
    LET hs == locks[c.key]
    IN  /\ \/ /\ Grantable(hs, c.txn, c.lock_type)
              /\ locks' = [locks EXCEPT ![c.key] = WithHolder(hs, c.txn, c.lock_type)]
              /\ wait_for' = [wait_for EXCEPT ![c.txn] = {}]
              /\ refused' = [refused EXCEPT ![c.txn] = {}]
           \/ /\ AlreadyHeld(hs, c.txn, c.lock_type)
              /\ UNCHANGED <<locks, wait_for, refused>>
        /\ calls' = (calls \ {c}) \cup {[c EXCEPT !.op = "record"]}
        /\ UNCHANGED <<txns, versions, commits, loaded>>

ConflictWith_KeepsEdges(c, b) ==
    LET waits == [wait_for EXCEPT ![c.txn] = @ \cup {b}]
    IN  /\ wait_for' = waits
        /\ calls' = calls \ {c}
        /\ UNCHANGED <<txns, locks, versions, commits, loaded, refused>>

(* ... refused for another holder, with a wait-for edge unless it closes a *)
(* cycle, ...                                                              *)
ConflictWith(c, b) ==
    LET waits == [wait_for EXCEPT ![c.txn] = @ \cup {b}]
    IN  /\ \/ /\ ~DetectCycle(waits, c.txn)
              /\ wait_for' = waits
              /\ refused' = [refused EXCEPT ![c.txn] = @ \cup {b}]
           \/ /\ DetectCycle(waits, c.txn)
              /\ wait_for' = [wait_for EXCEPT ![c.txn] = {}]
              /\ refused' = [refused EXCEPT ![c.txn] = {}]
        /\ calls' = calls \ {c}
        /\ UNCHANGED <<txns, locks, versions, commits, loaded>>

Conflict(c) ==
    \E b \in Blockers(locks[c.key], c.txn, c.lock_type) : ConflictWith(c, b)

(* ... or refused an upgrade, with no edge.                                *)
UpgradeConflict(c) ==
    LET hs == locks[c.key]
    IN  /\ Upgrades(hs, c.txn, c.lock_type) /\ ~SoleHolder(hs)
        /\ refused' = [refused EXCEPT ![c.txn] = @ \cup UpgradeBlockers(hs, c.txn)]
        /\ calls' = calls \ {c}
        /\ UNCHANGED <<txns, locks, wait_for, versions, commits, loaded>>

LockTableAcquire(c) ==
    /\ c.op = "acquire"
    /\ Granted(c) \/ Conflict(c) \/ UpgradeConflict(c)

(* Third block: the transaction's own list, if it is still in the map.     *)
RecordLock(c) ==
    /\ c.op = "record"
    /\ txns' = IF txns[c.txn].state = "purged" THEN txns
               ELSE [txns EXCEPT ![c.txn].locks =
                       {l \in @ : l.key # c.key}
                         \cup {[key |-> c.key, lock_type |-> c.lock_type]}]
    /\ calls' = calls \ {c}
    /\ UNCHANGED <<locks, wait_for, versions, commits, loaded, refused>>

RecordUndo(t, k) ==
    /\ IsActive(t) /\ Free(t)
    /\ Len(txns[t].undo_log) < MaxUndo
    /\ txns' = [txns EXCEPT ![t].undo_log = Append(@, k)]
    /\ UNCHANGED <<locks, wait_for, versions, calls, commits, loaded, refused>>

(* record_read: the version is read before the transaction is looked up.   *)
ReadVersion(t, k) ==
    /\ txns[t].state # "none" /\ Free(t)
    /\ Cardinality(calls) < MaxCalls
    /\ calls' = calls \cup {[op |-> "read", txn |-> t, key |-> k, version |-> versions[k]]}
    /\ UNCHANGED <<txns, locks, wait_for, versions, commits, loaded, refused>>

RecordRead(c) ==
    /\ c.op = "read"
    /\ txns' = IF IsActive(c.txn)
               THEN [txns EXCEPT ![c.txn].read_set =
                       @ \cup {[key |-> c.key, version |-> c.version]}]
               ELSE txns
    /\ calls' = calls \ {c}
    /\ UNCHANGED <<locks, wait_for, versions, commits, loaded, refused>>

(* set_version, used while data is loaded, before the first transaction.   *)
SetVersion(k, v) ==
    /\ \A t \in Txns : txns[t].state = "none"
    /\ versions' = [versions EXCEPT ![k] = v]
    /\ loaded' = [loaded EXCEPT ![k] = v]
    /\ UNCHANGED <<txns, locks, wait_for, calls, commits, refused>>

Next ==
    \/ \E t \in Txns :
         \/ \E i \in Isolations : Begin(t, i)
         \/ CommitOk(t)
         \/ CommitConflict(t)
         \/ Rollback(t)
         \/ \E k \in LockKeys, mode \in LockType : AcquireLock(t, k, mode)
         \/ \E k \in Keys : RecordUndo(t, k)
         \/ \E k \in ReadKeys : ReadVersion(t, k)
    \/ \E c \in calls : LockTableAcquire(c) \/ RecordLock(c) \/ RecordRead(c)
    \/ \E k \in Keys, v \in 0 .. MaxLoaded : SetVersion(k, v)
    \/ PurgeCompleted

Spec == Init /\ [][Next]_vars
-----------------------------------------------------------------------------
(* Properties.                                                             *)

States == {"none", "active", "committed", "rolled_back", "purged"}
Stamp == [key : Keys, version : Nat]
Lock == [key : Keys, lock_type : LockType]
Transaction ==
    [state : States, isolation_level : IsolationLevel, undo_log : Seq(Keys),
     locks : SUBSET Lock, read_set : SUBSET Stamp]
Holder == [holder : Txns, lock_type : LockType, ahead : SUBSET Txns]
Call ==
    [op : {"acquire", "record"}, txn : Txns, key : Keys, lock_type : LockType]
      \cup [op : {"read"}, txn : Txns, key : Keys, version : Nat]

(* Type correctness.                                                       *)
TypeOK ==
    /\ txns \in [Txns -> Transaction]
    /\ locks \in [Keys -> SUBSET Holder]
    /\ wait_for \in [Txns -> SUBSET Txns]
    /\ refused \in [Txns -> SUBSET Txns]
    /\ versions \in [Keys -> Nat]
    /\ loaded \in [Keys -> Nat]
    /\ calls \in SUBSET Call
    /\ commits \in Seq(Transaction)

Finished(t) == txns[t].state \in {"committed", "rolled_back", "purged"}

HoldsOn(t, k) == \E h \in locks[k] : h.holder = t

Holds(t) == \E k \in Keys : HoldsOn(t, k)

Compatible(hs) ==
    \A g, h \in hs : (g.holder = h.holder \/ g.lock_type = "exclusive") => g = h

(* A transaction that holds a key exclusively is alone on it, and no       *)
(* transaction holds a key twice, through grants, upgrades and releases of *)
(* any number of transactions (LockTable::acquire).                        *)
LockExclusion == \A k \in Keys : Compatible(locks[k])

(* The wait-for graph has no cycle: a request that would close one is      *)
(* refused and its edges are dropped, and the search from the requester    *)
(* alone is enough (detect_cycle).                                         *)
WaitForAcyclic == \A t \in Txns : ~DetectCycle(wait_for, t)

(* Nobody waits for a transaction that holds nothing: release_all removes  *)
(* the edges to the transaction along with its locks.                      *)
WaitsForHolder == \A t \in Txns : \A b \in wait_for[t] : Holds(b)

(* A finished transaction holds no lock: commit and rollback release all   *)
(* of them and acquire_lock refuses a finished transaction.                *)
FinishedHoldsNothing == \A t \in Txns : Finished(t) => ~Holds(t)

(* The list a transaction keeps of its locks names the keys it holds in    *)
(* the lock table, whenever no call of it is in flight.                    *)
LockSetKeys ==
    \A t \in Txns :
        (IsActive(t) /\ \A c \in calls : c.txn # t) =>
            {l.key : l \in txns[t].locks} = {k \in Keys : HoldsOn(t, k)}

(* Strict two-phase locking: a transaction loses a lock, or has it         *)
(* weakened, only when it finishes.                                        *)
StrictTwoPhase ==
    [][\A t \in Txns : IsActive(t) /\ IsActive(t)' =>
         \A k \in Keys : \A h \in locks[k] : h.holder = t =>
            \E g \in locks'[k] :
                g.holder = t /\ (h.lock_type = "exclusive" => g.lock_type = "exclusive")]_vars

(* Serializable transactions take effect in commit order: every version a  *)
(* committed one read is the one that the commits before its own left      *)
(* behind (validation in commit, with record_read's stamp taken earlier).  *)
SerializableReads ==
    \A i \in DOMAIN commits : commits[i].isolation_level = "serializable" =>
        \A r \in commits[i].read_set :
            r.version = loaded[r.key]
              + Cardinality({e \in (1 .. i - 1) \X (1 .. MaxUndo) :
                               /\ e[2] \in DOMAIN commits[e[1]].undo_log
                               /\ commits[e[1]].undo_log[e[2]] = r.key})

(* The LockConflict answers still standing name no circle of transactions  *)
(* that refuse one another: such a circle is answered DeadlockDetected.    *)
RefusalsAcyclic == \A t \in Txns : ~DetectCycle(refused, t)

(* The modes in which t is among the holders of a key.                     *)
HeldModes(hs, t) == {h.lock_type : h \in {g \in hs : g.holder = t}}

(* The lock table as its callers see it.                                   *)
phaseBar ==
    [t \in Txns |-> CASE txns[t].state = "none" -> "new"
                      [] txns[t].state = "active" -> "running"
                      [] OTHER -> "finished"]

heldBar == [k \in Keys |-> [t \in Txns |-> HeldModes(locks[k], t)]]

Service == INSTANCE LockService WITH phase <- phaseBar, held <- heldBar

(* The transaction manager implements LockService: no interleaving of      *)
(* acquire_lock's blocks with commits and rollbacks of other transactions  *)
(* grants an incompatible lock, grants one to a finished transaction, or   *)
(* takes one back early (a transaction driven by one task, as in store.rs).*)
ImplementsLockService == Service!LockSpec
-----------------------------------------------------------------------------
(* Transactions are interchangeable, and so are the keys of their locks.   *)
TxnSymmetry == Permutations(Txns)

TxnKeySymmetry == Permutations(Txns) \cup Permutations(Keys)
=============================================================================
