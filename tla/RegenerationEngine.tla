-------------------------- MODULE RegenerationEngine --------------------------
(***************************************************************************)
(* The regeneration pipeline (regeneration.rs): a drifted modality of an   *)
(* entity is rebuilt from the most authoritative other modality, merged    *)
(* from all of them, or queued for a human.  Calls run concurrently: the   *)
(* queue and the audit trail each have a lock of their own, taken one      *)
(* after the other, and the regenerator is awaited in between.             *)
(*                                                                         *)
(* The regenerator is a trait object: its answers are any.  Scores are     *)
(* tenths.  asked, returned and taken are history variables: calls begun,  *)
(* the results handed out, and the items that left the queue.              *)
(***************************************************************************)
EXTENDS Naturals, SequencesExt, FiniteSets

CONSTANTS Repairers,        \* tasks that call regenerate
          RepairEntities,   \* entities and the modalities present on them: functions' domain
          PresentOn,        \* [RepairEntities -> SUBSET modalities]
          DriftedModalities,
          RepairScores,
          AuthorityOrder,   \* config.authority_order
          StrategyFor,      \* config.strategy_for, per drifted modality
          RepairThreshold,  \* config.drift_threshold
          MaxRepairs        \* bound on the calls

ASSUME EngineAssumption ==
    /\ MaxRepairs \in Nat /\ RepairThreshold \in Nat /\ RepairScores \subseteq Nat
    /\ AuthorityOrder \in Seq(Range(AuthorityOrder))
    /\ \A m \in DriftedModalities :
         StrategyFor[m] \in {"from_authoritative", "merge", "user_resolve"}

VARIABLES repair,     \* the call each task is in
          pending,    \* NormalizationQueue.pending
          events,     \* the audit trail
          asked, returned, taken

repairVars == <<repair, pending, events, asked, returned, taken>>

NoSource == "none"

Idle == [at |-> "idle", call |-> 0, entity |-> NoSource, modality |-> NoSource,
         score |-> 0, source |-> NoSource, success |-> FALSE]

RepairInit ==
    /\ repair = [t \in Repairers |-> Idle]
    /\ pending = <<>> /\ events = <<>>
    /\ asked = 0 /\ returned = {} /\ taken = <<>>

(* The first of the other modalities present, in the order of authority.   *)
FirstSource(e, m) == SelectInSeq(AuthorityOrder, LAMBDA s : s # m /\ s \in PresentOn[e])

(* find takes that one; a merge has no single source.                      *)
SourceOf(e, m) ==
    IF StrategyFor[m] = "from_authoritative" /\ FirstSource(e, m) # 0
    THEN AuthorityOrder[FirstSource(e, m)] ELSE NoSource

FirstStep(e, m) ==
    IF StrategyFor[m] = "user_resolve" THEN "enqueue"
    ELSE IF FirstSource(e, m) = 0 THEN "record" ELSE "rebuild"

NewCall(e, m, s) ==
    [at |-> FirstStep(e, m), call |-> asked + 1, entity |-> e, modality |-> m,
     score |-> s, source |-> SourceOf(e, m), success |-> FALSE]

BelowThreshold(s) == s <= RepairThreshold

(* regenerate up to its first await.                                       *)
Regenerate(t, e, m, s) ==
    /\ repair[t].at = "idle" /\ asked < MaxRepairs
    /\ asked' = asked + 1
    /\ IF BelowThreshold(s)
       THEN /\ returned' = returned \cup {[call |-> asked + 1, entity |-> e, modality |-> m,
                                           score |-> s, result |-> "no_action"]}
            /\ UNCHANGED repair
       ELSE /\ repair' = [repair EXCEPT ![t] = NewCall(e, m, s)]
            /\ UNCHANGED returned
    /\ UNCHANGED <<pending, events, taken>>

(* regenerate_from or merge_into answers; the score measured afterwards    *)
(* only goes into the event, whatever it is.                               *)
Rebuild(t, answer) ==
    /\ repair[t].at = "rebuild"
    /\ repair' = [repair EXCEPT ![t].at = "record", ![t].success = (answer = "ok")]
    /\ UNCHANGED <<pending, events, asked, returned, taken>>

(* execute_user_resolve: queued first, logged afterwards.                  *)
Enqueue(t) ==
    /\ repair[t].at = "enqueue"
    /\ pending' = Append(pending, [call |-> repair[t].call, entity |-> repair[t].entity,
                                   modality |-> repair[t].modality])
    /\ repair' = [repair EXCEPT ![t].at = "record", ![t].success = TRUE]
    /\ UNCHANGED <<events, asked, returned, taken>>

ResultOf(c) ==
    IF ~c.success THEN "failed"
    ELSE IF StrategyFor[c.modality] = "user_resolve" THEN "pending" ELSE "repaired"

(* record_event, and the call returns.                                     *)
Record(t) ==
    LET c == repair[t]
    IN  /\ c.at = "record"
        /\ events' = Append(events, [call |-> c.call, entity |-> c.entity,
                                     modality |-> c.modality, source |-> c.source,
                                     score |-> c.score, success |-> c.success])
        /\ returned' = returned \cup {[call |-> c.call, entity |-> c.entity,
                                       modality |-> c.modality, score |-> c.score,
                                       result |-> ResultOf(c)]}
        /\ repair' = [repair EXCEPT ![t] = Idle]
        /\ UNCHANGED <<pending, asked, taken>>

RepairStep(t) ==
    \/ \E a \in {"ok", "err"} : Rebuild(t, a)
    \/ Enqueue(t)
    \/ Record(t)

Matches(e, m) == {i \in DOMAIN pending : pending[i].entity = e /\ pending[i].modality = m}

(* NormalizationQueue::resolve removes the first item that matches.        *)
ResolveItem(e, m) ==
    /\ Matches(e, m) # {}
    /\ LET i == CHOOSE k \in Matches(e, m) : \A l \in Matches(e, m) : k <= l
       IN  /\ pending' = RemoveAt(pending, i)
           /\ taken' = Append(taken, pending[i])
    /\ UNCHANGED <<repair, events, asked, returned>>

Drain ==
    /\ pending # <<>>
    /\ taken' = taken \o pending
    /\ pending' = <<>>
    /\ UNCHANGED <<repair, events, asked, returned>>

RepairNext ==
    \/ \E t \in Repairers, e \in RepairEntities, m \in DriftedModalities, s \in RepairScores :
         Regenerate(t, e, m, s)
    \/ \E t \in Repairers : RepairStep(t)
    \/ \E e \in RepairEntities, m \in DriftedModalities : ResolveItem(e, m)
    \/ Drain
-----------------------------------------------------------------------------
(* Properties.                                                             *)

Logged(c) == {i \in DOMAIN events : events[i].call = c}

(* The audit trail has one event for every call that acted and none for    *)
(* the others, failures included, and the event says of its success what   *)
(* the caller was told (execute_from_authoritative, execute_merge,         *)
(* execute_user_resolve).                                                  *)
AuditComplete ==
    /\ \A r \in returned :
         /\ Cardinality(Logged(r.call)) = IF r.result = "no_action" THEN 0 ELSE 1
         /\ \A i \in Logged(r.call) : events[i].success = (r.result # "failed")
    /\ \A i \in DOMAIN events : \E r \in returned : r.call = events[i].call

(* A modality is never rebuilt from itself or from one that is absent, nor *)
(* from a less authoritative one than another present, and a call fails    *)
(* for lack of a source only when the entity has no other modality in the  *)
(* authority order.                                                        *)
BestSource ==
    \A i \in DOMAIN events :
        LET v == events[i]
            Other == {k \in DOMAIN AuthorityOrder :
                        AuthorityOrder[k] # v.modality /\ AuthorityOrder[k] \in PresentOn[v.entity]}
        IN  StrategyFor[v.modality] # "user_resolve" =>
              /\ v.success => Other # {}
              /\ v.source # NoSource =>
                   \E k \in Other : AuthorityOrder[k] = v.source /\ \A l \in Other : k <= l

InQueue(c) == {i \in DOMAIN pending : pending[i].call = c}
WasTaken(c) == {i \in DOMAIN taken : taken[i].call = c}

(* Nothing that waits for a human is lost or handed out twice: a call that *)
(* was answered PendingResolution has its item in the queue or it was      *)
(* handed out once, whatever resolve and drain do meanwhile, also when two *)
(* items of one entity and modality wait.                                  *)
QueueConserved ==
    /\ \A r \in returned : r.result = "pending" =>
         Cardinality(InQueue(r.call)) + Cardinality(WasTaken(r.call)) = 1
    /\ \A c \in 1 .. asked : Cardinality(InQueue(c)) + Cardinality(WasTaken(c)) <= 1

=============================================================================
