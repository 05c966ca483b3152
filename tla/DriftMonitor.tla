------------------------------ MODULE DriftMonitor ------------------------------
(***************************************************************************)
(* Drift orchestration (elixir-orchestration): the DriftMonitor process,   *)
(* the tasks it starts, and one EntityServer process per entity.  Entities *)
(* ask the Rust core for their drift every 30 seconds and report it; the   *)
(* monitor starts a normalization for critical drift, at most so many at   *)
(* once, and sweeps over what it has recorded every minute.                *)
(*                                                                         *)
(* EntityServer.normalize is a cast, which returns :ok whether or not the  *)
(* entity exists: the task that calls it always reports success, and it    *)
(* may do so before the entity has begun.  A handler runs as one step; the *)
(* tasks' calls and messages are steps of their own.                       *)
(*                                                                         *)
(* Of the core this module needs two handlers.  entity_drift_handler       *)
(* answers the worst score of the whole detector for every stored entity   *)
(* (drift); a missing one counts as 0.0 in RustClient, whose ten-second    *)
(* cache of answers is left out.  trigger_normalization_handler looks the  *)
(* entity up and answers 202: it repairs nothing, so the drift only        *)
(* changes when something is measured (DriftDetector::record).             *)
(***************************************************************************)
EXTENDS Naturals, FiniteSets, Sequences

CONSTANTS DmEntities,
          MaxNormalizations,  \* max_concurrent_normalizations
          MaxChanges,         \* bound on measurements and on entities stored or deleted
          MaxFailures,        \* bound on calls that fail for a stored entity
          MaxQueued           \* bound on an entity's undelivered reports, casts and core calls

VARIABLES drift,              \* worst current score of the core's DriftDetector
          stored,             \* entities in the core's HexadStore
          entityDrift,        \* entity -> last recorded score, "none" if not in the map
          dmPending,          \* pending_normalizations
          dmTasks,            \* entity -> state of the monitor's task for it
          reported,           \* entity -> reports on their way to the monitor
          casts,              \* entity -> normalize casts in its mailbox
          serverStatus,       \* entity -> status of its EntityServer
          cores,              \* entity -> calls of the core under way
          outcomes,           \* entity -> results in its mailbox
          changes, failures

dmVars == <<drift, stored, entityDrift, dmPending, dmTasks, reported, casts, serverStatus, cores, outcomes, changes, failures>>

Scores == {"low", "warning", "critical"}

DmInit ==
    /\ drift \in Scores /\ stored \in SUBSET DmEntities /\ entityDrift = [e \in DmEntities |-> "none"]
    /\ dmPending = {} /\ dmTasks = [e \in DmEntities |-> "none"]
    /\ reported = [e \in DmEntities |-> <<>>] /\ casts = [e \in DmEntities |-> 0]
    /\ serverStatus = [e \in DmEntities |-> "active"] /\ cores = [e \in DmEntities |-> 0]
    /\ outcomes = [e \in DmEntities |-> <<>>] /\ changes = 0 /\ failures = 0

(* DriftDetector::record: a new measurement of any type changes the worst. *)
WorstChanges(s) ==
    /\ drift # s /\ changes < MaxChanges
    /\ drift' = s /\ changes' = changes + 1
    /\ UNCHANGED <<stored, entityDrift, dmPending, dmTasks, reported, casts, serverStatus, cores, outcomes, failures>>

(* A client creates or deletes the entity in the core.                     *)
StoredOrDeleted(e) ==
    /\ changes < MaxChanges
    /\ stored' = IF e \in stored THEN stored \ {e} ELSE stored \cup {e}
    /\ changes' = changes + 1
    /\ UNCHANGED <<drift, entityDrift, dmPending, dmTasks, reported, casts, serverStatus, cores, outcomes, failures>>

(* entity_drift_handler through RustClient.get_drift_score.                *)
ScoreOf(e) == IF e \in stored THEN drift ELSE "low"

-----------------------------------------------------------------------------

(* maybe_trigger_normalization and trigger_normalization: a request beyond *)
(* the limit is dropped; a later sweep finds the recorded score again.     *)
Triggers(state, e, score) ==
    IF score = "critical" /\ e \notin state.pending /\ Cardinality(state.pending) < MaxNormalizations
    THEN [pending |-> state.pending \cup {e}, tasks |-> [state.tasks EXCEPT ![e] = "started"]]
    ELSE state

Monitor == [pending |-> dmPending, tasks |-> dmTasks]

ReportDrift(e) ==
    /\ reported[e] # <<>>
    /\ LET score == Head(reported[e])
           next == Triggers(Monitor, e, score)
       IN  /\ entityDrift' = [entityDrift EXCEPT ![e] = score]
           /\ dmPending' = next.pending /\ dmTasks' = next.tasks
    /\ reported' = [reported EXCEPT ![e] = Tail(@)]
    /\ UNCHANGED <<drift, stored, casts, serverStatus, cores, outcomes, changes, failures>>

(* perform_sweep visits the recorded entities one after the other, in the  *)
(* map's order, which is not known: each critical one triggers a task      *)
(* while there is room.                                                    *)
Unattended == {e \in DmEntities : entityDrift[e] = "critical" /\ e \notin dmPending}

PerformSweep ==
    \E S \in SUBSET Unattended :
        /\ Cardinality(dmPending \cup S) <= MaxNormalizations
        /\ S # Unattended => Cardinality(dmPending \cup S) = MaxNormalizations
        /\ dmPending' = dmPending \cup S
        /\ dmTasks' = [e \in DmEntities |-> IF e \in S THEN "started" ELSE dmTasks[e]]
        /\ UNCHANGED <<drift, stored, entityDrift, reported, casts, serverStatus, cores, outcomes, changes, failures>>

(* The task: the cast, then the message to the monitor.                    *)
TaskCasts(e) ==
    /\ dmTasks[e] = "started" /\ casts[e] < MaxQueued
    /\ dmTasks' = [dmTasks EXCEPT ![e] = "complete"]
    /\ casts' = [casts EXCEPT ![e] = @ + 1]
    /\ UNCHANGED <<drift, stored, entityDrift, dmPending, reported, serverStatus, cores, outcomes, changes, failures>>

(* normalization_complete, always with :success: the record goes, also one *)
(* that was reported after the task began.                                 *)
Complete(e) ==
    /\ dmTasks[e] = "complete"
    /\ dmTasks' = [dmTasks EXCEPT ![e] = "none"]
    /\ dmPending' = dmPending \ {e}
    /\ entityDrift' = [entityDrift EXCEPT ![e] = "none"]
    /\ UNCHANGED <<drift, stored, reported, casts, serverStatus, cores, outcomes, changes, failures>>

-----------------------------------------------------------------------------

(* check_drift of the EntityServer: a score above 0.3 is reported.         *)
CheckDrift(e) ==
    /\ ScoreOf(e) # "low"
    /\ Len(reported[e]) < MaxQueued
    /\ reported' = [reported EXCEPT ![e] = Append(@, ScoreOf(e))]
    /\ UNCHANGED <<drift, stored, entityDrift, dmPending, dmTasks, casts, serverStatus, cores, outcomes, changes, failures>>

NormalizeCast_SkipsBusy(e) ==
    /\ casts[e] > 0 /\ cores[e] < MaxQueued
    /\ casts' = [casts EXCEPT ![e] = @ - 1]
    /\ serverStatus' = [serverStatus EXCEPT ![e] = "normalizing"]
    /\ cores' = [cores EXCEPT ![e] = IF serverStatus[e] = "normalizing" THEN @ ELSE @ + 1]
    /\ UNCHANGED <<drift, stored, entityDrift, dmPending, dmTasks, reported, outcomes, changes, failures>>

(* handle_cast(:normalize): the entity starts a task that calls the core.  *)
NormalizeCast(e) ==
    /\ casts[e] > 0 /\ cores[e] < MaxQueued
    /\ casts' = [casts EXCEPT ![e] = @ - 1]
    /\ serverStatus' = [serverStatus EXCEPT ![e] = "normalizing"]
    /\ cores' = [cores EXCEPT ![e] = @ + 1]
    /\ UNCHANGED <<drift, stored, entityDrift, dmPending, dmTasks, reported, outcomes, changes, failures>>

(* trigger_normalization_handler finds the entity, answers 202 and leaves  *)
(* everything as it is.  RustClient.normalize makes a bare :ok of it, which*)
(* no clause of the task's case matches: the task dies and the entity is   *)
(* never told.                                                             *)
CoreSucceeds(e) ==
    /\ cores[e] > 0 /\ e \in stored
    /\ cores' = [cores EXCEPT ![e] = @ - 1]
    /\ UNCHANGED <<drift, stored, entityDrift, dmPending, dmTasks, reported, casts, serverStatus, outcomes, changes, failures>>

(* 404 for a missing entity, or a call that fails.                         *)
CoreFails(e) ==
    /\ cores[e] > 0
    /\ e \in stored => failures < MaxFailures
    /\ failures' = IF e \in stored THEN failures + 1 ELSE failures
    /\ cores' = [cores EXCEPT ![e] = @ - 1]
    /\ outcomes' = [outcomes EXCEPT ![e] = Append(@, "failure")]
    /\ UNCHANGED <<drift, stored, entityDrift, dmPending, dmTasks, reported, casts, serverStatus, changes>>

(* normalization_complete of the EntityServer.                             *)
Settled(e) ==
    /\ outcomes[e] # <<>>
    /\ serverStatus' = [serverStatus EXCEPT ![e] = IF Head(outcomes[e]) = "success" THEN "active" ELSE "stale"]
    /\ outcomes' = [outcomes EXCEPT ![e] = Tail(@)]
    /\ UNCHANGED <<drift, stored, entityDrift, dmPending, dmTasks, reported, casts, cores, changes, failures>>

Delivers(e) == ReportDrift(e) \/ TaskCasts(e) \/ Complete(e) \/ CheckDrift(e) \/ NormalizeCast(e) \/ Settled(e)

DmNext ==
    \/ \E s \in Scores : WorstChanges(s)
    \/ \E e \in DmEntities : StoredOrDeleted(e) \/ Delivers(e) \/ CoreSucceeds(e) \/ CoreFails(e)
    \/ PerformSweep

(* The drift-check timer fires again and again, mailboxes are served in    *)
(* order, tasks run and calls return: one condition for each path of       *)
(* messages, on which one action at a time is enabled.  Sweeps need no     *)
(* fairness: an entity whose score is still critical reports again.        *)
DmFairness ==
    \A e \in DmEntities :
        /\ WF_dmVars(CheckDrift(e) \/ ReportDrift(e))
        /\ WF_dmVars(TaskCasts(e) \/ Complete(e))
        /\ WF_dmVars(NormalizeCast(e) \/ CoreSucceeds(e) \/ CoreFails(e))

-----------------------------------------------------------------------------

(* The slots of the limit do not leak: an entity is pending exactly while  *)
(* a task of the monitor is on its way for it.                             *)
PendingHasTask == \A e \in DmEntities : e \in dmPending <=> dmTasks[e] # "none"

(* As long as the drift stays critical, the core is asked to normalize     *)
(* again and again, although requests at the limit are dropped, a          *)
(* completion deletes newer records, an entity is never told of a success  *)
(* and calls fail: some stored entity is always served in the end, and     *)
(* each of them is where the slots suffice for all.  With more entities    *)
(* than slots one of them can starve (EachIsServed).                       *)
CriticalIsServed ==
    /\ <>[](drift = "critical" /\ stored # {}) => []<>(\E e \in stored : cores[e] > 0)
    /\ \A e \in DmEntities :
         <>[](drift = "critical" /\ e \in stored /\ Cardinality(stored) <= MaxNormalizations)
           => []<>(cores[e] > 0)

(* Does not hold: each of them is, however many there are.                 *)
EachIsServed ==
    \A e \in DmEntities : <>[](drift = "critical" /\ e \in stored) => []<>(cores[e] > 0)

(* Does not hold: what was asked for is done in the end.                   *)
CriticalIsRepaired == drift = "critical" /\ stored # {} ~> drift # "critical" \/ stored = {}
=============================================================================
