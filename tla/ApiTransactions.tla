----------------------------- MODULE ApiTransactions -----------------------------
(***************************************************************************)
(* Transactions of the API (verisim-api/src/transaction.rs and their       *)
(* handlers in lib.rs): operations are buffered and handed to the caller   *)
(* of commit.  Every call runs under the write lock; a handler makes two   *)
(* calls, the second for the status it answers with.                       *)
(*                                                                         *)
(* The id of a transaction is a hash of the clock: two that begin at the   *)
(* same reading have the same id.  serial, begun, handed and clashed are   *)
(* history.                                                                *)
(***************************************************************************)
EXTENDS Naturals, Sequences, FiniteSets

CONSTANTS TxnClients,    \* concurrent requests
          TxnOps,        \* operations to buffer
          MaxConcurrent, \* TransactionConfig::max_concurrent
          TxnTimeout,    \* TransactionConfig::timeout_seconds
          MaxTxnTime, MaxBegun, MaxBuffered   \* bounds

ASSUME TimeoutAssumption == TxnTimeout \in Nat

VARIABLES table,         \* TransactionManager::transactions: id -> transaction
          txnNow,        \* the clock
          answering,     \* request -> call whose status is still to be read
          begun,         \* number of transactions begun
          handed,        \* the operations commit returned: [serial, ops]
          buffered,      \* serial -> the operations accepted
          clashed        \* serials overwritten by one with the same id

txnApiVars == <<table, txnNow, answering, begun, handed, buffered, clashed>>

NotAnswering == [pc |-> "idle", id |-> 0, verb |-> "none"]

TxnInit ==
    /\ table = [i \in {} |-> NotAnswering] /\ txnNow = 0
    /\ answering = [c \in TxnClients |-> NotAnswering] /\ begun = 0
    /\ handed = {} /\ buffered = [s \in {} |-> <<>>] /\ clashed = {}

ActiveIds == {i \in DOMAIN table : table[i].state = "active"}

BeginTransaction(c) ==
    /\ answering[c] = NotAnswering /\ begun < MaxBegun
    /\ Cardinality(ActiveIds) < MaxConcurrent
    /\ begun' = begun + 1
    /\ table' = [i \in DOMAIN table \cup {txnNow} |->
                   IF i = txnNow THEN [serial |-> begun, state |-> "active", ops |-> <<>>, started |-> txnNow, completed |-> txnNow]
                   ELSE table[i]]
    /\ clashed' = IF txnNow \in DOMAIN table THEN clashed \cup {table[txnNow].serial} ELSE clashed
    /\ buffered' = [s \in DOMAIN buffered \cup {begun} |-> IF s = begun THEN <<>> ELSE buffered[s]]
    /\ answering' = [answering EXCEPT ![c] = [pc |-> "done", id |-> txnNow, verb |-> "begin"]]
    /\ UNCHANGED <<txnNow, handed>>

BufferOperation(i, op) ==
    /\ i \in ActiveIds /\ Len(table[i].ops) < MaxBuffered
    /\ table' = [table EXCEPT ![i].ops = Append(@, op)]
    /\ buffered' = [buffered EXCEPT ![table[i].serial] = Append(@, op)]
    /\ UNCHANGED <<txnNow, answering, begun, handed, clashed>>

Completed(i, state, ops) == [table EXCEPT ![i].state = state, ![i].ops = ops, ![i].completed = txnNow]

CommitTransaction(c, i) ==
    /\ answering[c] = NotAnswering /\ i \in ActiveIds
    /\ table' = Completed(i, "committed", table[i].ops)
    /\ handed' = handed \cup {[serial |-> table[i].serial, ops |-> table[i].ops]}
    /\ answering' = [answering EXCEPT ![c] = [pc |-> "done", id |-> i, verb |-> "commit"]]
    /\ UNCHANGED <<txnNow, begun, buffered, clashed>>

RollbackTransaction(c, i) ==
    /\ answering[c] = NotAnswering /\ i \in ActiveIds
    /\ table' = Completed(i, "rolled back", <<>>)
    /\ answering' = [answering EXCEPT ![c] = [pc |-> "done", id |-> i, verb |-> "rollback"]]
    /\ UNCHANGED <<txnNow, begun, handed, buffered, clashed>>

(* The handler reads the status; a transaction removed meanwhile makes it  *)
(* answer with an internal error though the call succeeded.                *)
AnswerStatus(c) ==
    /\ answering[c].pc = "done"
    /\ answering' = [answering EXCEPT ![c] = NotAnswering]
    /\ UNCHANGED <<table, txnNow, begun, handed, buffered, clashed>>

(* Completed transactions expire from their completion, active ones from   *)
(* their start.                                                            *)
Expired(t) == txnNow - (IF t.state = "active" THEN t.started ELSE t.completed) > TxnTimeout

(* cleanup_expired: an expired active transaction is removed as well.      *)
CleanupExpired ==
    /\ \E i \in DOMAIN table : Expired(table[i])
    /\ table' = [i \in {x \in DOMAIN table : ~Expired(table[x])} |-> table[i]]
    /\ UNCHANGED <<txnNow, answering, begun, handed, buffered, clashed>>

TxnTick ==
    /\ txnNow < MaxTxnTime
    /\ txnNow' = txnNow + 1
    /\ UNCHANGED <<table, answering, begun, handed, buffered, clashed>>

TxnNext ==
    \/ \E c \in TxnClients : BeginTransaction(c) \/ AnswerStatus(c)
    \/ \E i \in DOMAIN table, op \in TxnOps : BufferOperation(i, op)
    \/ \E c \in TxnClients, i \in DOMAIN table : CommitTransaction(c, i) \/ RollbackTransaction(c, i)
    \/ CleanupExpired \/ TxnTick

-----------------------------------------------------------------------------

(* The operations of a transaction are handed to a caller of commit at     *)
(* most once, all that were accepted, in order: concurrent commits, a      *)
(* rollback or a late operation do not hand over others.                   *)
HandedOverOnce ==
    /\ \A h, g \in handed : h.serial = g.serial => h = g
    /\ \A h \in handed : h.ops = buffered[h.serial]

(* A client can ask for the outcome of its transaction for as long as the  *)
(* timeout after completion, however long it was open before, unless       *)
(* another transaction began at the same reading of the clock.             *)
OutcomeKept ==
    [][\A i \in DOMAIN table :
          (table[i].state # "active" /\ txnNow - table[i].completed <= TxnTimeout) =>
              i \in DOMAIN table' /\ (table'[i] = table[i] \/ table[i].serial \in clashed')]_txnApiVars
=============================================================================
