----------------------------- MODULE DriftPipeline -----------------------------
(***************************************************************************)
(* From a measured drift score to a normalized entity: DriftDetector       *)
(* (verisim-drift/src/lib.rs) updates its metrics under one lock, reads    *)
(* the moving average under it again, and sends an event into a bounded    *)
(* channel; Normalizer::handle_drift (verisim-normalizer/src/lib.rs) finds *)
(* a strategy, counts itself active, normalizes, counts itself done and    *)
(* sends the result into a second bounded channel.  handle_drift keeps its *)
(* read guard on the strategies to the end, across both awaits; tokio's    *)
(* RwLock is fair, so a registration that waits keeps later readers out.   *)
(*                                                                         *)
(* The two channels and the tasks at their far ends belong to the caller   *)
(* (external).  Scores are thousandths, averages rounded down.  started,   *)
(* alarms and settled are history variables.                               *)
(***************************************************************************)
EXTENDS Naturals, SequencesExt, FiniteSets

CONSTANTS Meters,            \* tasks that record scores
          Handlers,          \* tasks that handle events
          DriftTypes, Readings,
          AdaptivePolicies,  \* adaptive_policies: [subset of DriftTypes -> [base, sensitivity]]
          FixedThreshold,    \* [DriftTypes -> threshold]
          Hexads,            \* [DriftTypes -> the entities a type is measured on: sets of modalities]
          Installed,         \* the strategies at the start, in order
          LateStrategy,      \* a strategy registered while events are handled
          MinScore,          \* config.min_score
          HistoryLimit,      \* 100 in the code
          EventCapacity, ResultCapacity,
          MaxReadings        \* bound on the recorded scores

ASSUME PipelineAssumption ==
    /\ DriftTypes # {} /\ IsFiniteSet(Handlers) /\ Installed \in Seq(Range(Installed))
    /\ \A s \in Readings : s \in Nat /\ s <= 1000
    /\ HistoryLimit \in Nat \ {0}
    /\ EventCapacity \in Nat \ {0} /\ ResultCapacity \in Nat \ {0} /\ MaxReadings \in Nat

VARIABLES metrics,      \* DriftMetrics of every type
          meter,        \* the record call of each task
          eventQueue, eventsOpen, \* the event channel, and whether its receiver lives
          handler,      \* the handle_drift call of each task
          strategies,   \* the registered strategies, in order
          registering,  \* register_strategy: "new", "waits", "done"
          status,       \* active_count, completed_count, failure_count
          resultQueue,
          started, alarms, settled

detectorVars == <<metrics, meter, eventQueue, eventsOpen, alarms>>
normalizerVars == <<handler, strategies, registering, status, resultQueue, started, settled>>
pipelineVars == <<detectorVars, normalizerVars>>

NoReading == [at |-> "idle", type |-> "none", score |-> 0, hexad |-> {}]
NoEvent == [at |-> "idle", type |-> "none", score |-> 0, hexad |-> {}, strategy |-> "none", ok |-> FALSE]

PipelineInit ==
    /\ metrics = [d \in DriftTypes |-> [current |-> 0, average |-> 0, max |-> 0,
                                        count |-> 0, history |-> <<>>]]
    /\ meter = [r \in Meters |-> NoReading]
    /\ eventQueue = <<>> /\ eventsOpen = TRUE
    /\ handler = [h \in Handlers |-> NoEvent]
    /\ strategies = Installed /\ registering = "new"
    /\ status = [active |-> 0, completed |-> 0, failures |-> 0]
    /\ resultQueue = <<>>
    /\ started = 0 /\ alarms = {} /\ settled = 0
-----------------------------------------------------------------------------
(* DriftMetrics::record.                                                   *)
Recorded(m, s) ==
    LET h == Append(m.history, s)
    IN  [current |-> s, average |-> (s + 9 * m.average) \div 10,
         max |-> IF s > m.max THEN s ELSE m.max, count |-> m.count + 1,
         history |-> IF Len(h) > HistoryLimit THEN Tail(h) ELSE h]

(* effective_threshold: an adaptive policy before the fixed threshold.     *)
Threshold(d, average) ==
    IF d \in DOMAIN AdaptivePolicies
    THEN AdaptivePolicies[d].base + average * AdaptivePolicies[d].sensitivity
    ELSE FixedThreshold[d]

Severity(s) ==
    IF s > 900 THEN "emergency" ELSE IF s > 700 THEN "critical"
    ELSE IF s > 500 THEN "warning" ELSE "info"

Measured == LET Sum[D \in SUBSET DriftTypes] ==
                    IF D = {} THEN 0
                    ELSE LET d == CHOOSE x \in D : TRUE IN metrics[d].count + Sum[D \ {d}]
            IN  Sum[DriftTypes]

(* record, first block: the metrics under the write lock.                  *)
Measure(r, d, s, x) ==
    /\ meter[r].at = "idle" /\ Measured < MaxReadings
    /\ metrics' = [metrics EXCEPT ![d] = Recorded(@, s)]
    /\ meter' = [meter EXCEPT ![r] = [at |-> "compare", type |-> d, score |-> s, hexad |-> x]]
    /\ UNCHANGED <<eventQueue, eventsOpen, alarms, normalizerVars>>

Compare_Current(r) ==
    LET d == meter[r].type
    IN  /\ meter[r].at = "compare"
        /\ IF metrics[d].current > Threshold(d, metrics[d].average)
           THEN meter' = [meter EXCEPT ![r].at = "send"]
           ELSE meter' = [meter EXCEPT ![r] = NoReading]
        /\ alarms' = alarms \cup {[type |-> d, score |-> meter[r].score,
                                raised |-> metrics[d].current > Threshold(d, metrics[d].average)]}
        /\ UNCHANGED <<metrics, eventQueue, eventsOpen, normalizerVars>>

(* The moving average is read under the lock anew; the score is the own.   *)
Compare(r) ==
    LET d == meter[r].type
        raised == meter[r].score > Threshold(d, metrics[d].average)
    IN  /\ meter[r].at = "compare"
        /\ meter' = [meter EXCEPT ![r] = IF raised THEN [@ EXCEPT !.at = "send"] ELSE NoReading]
        /\ alarms' = alarms \cup {[type |-> d, score |-> meter[r].score, raised |-> raised]}
        /\ UNCHANGED <<metrics, eventQueue, eventsOpen, normalizerVars>>

(* send().await: waits while the channel is full, fails once it is closed. *)
SendEvent(r) ==
    /\ meter[r].at = "send"
    /\ IF eventsOpen
       THEN /\ Len(eventQueue) < EventCapacity
            /\ eventQueue' = Append(eventQueue, [type |-> meter[r].type, score |-> meter[r].score,
                                                 hexad |-> meter[r].hexad])
       ELSE UNCHANGED eventQueue
    /\ meter' = [meter EXCEPT ![r] = NoReading]
    /\ UNCHANGED <<metrics, eventsOpen, alarms, normalizerVars>>

RecordStep(r) == Compare(r) \/ SendEvent(r)

(* The receiver is dropped; what is queued is gone.                        *)
CloseEvents ==
    /\ eventsOpen
    /\ eventsOpen' = FALSE /\ eventQueue' = <<>>
    /\ UNCHANGED <<metrics, meter, alarms, normalizerVars>>

(* health_check: the worst current score over the types.                   *)
HealthOf(m) ==
    LET worst == CHOOSE s \in {0} \cup {m[d].current : d \in DOMAIN m} :
                    \A d \in DOMAIN m : s >= m[d].current
    IN  IF worst > 900 THEN "critical" ELSE IF worst > 700 THEN "degraded"
        ELSE IF worst > 500 THEN "warning" ELSE "healthy"
-----------------------------------------------------------------------------
(* The strategies: the drift types one applies to, and whether it finds a  *)
(* source on the entity.  The quality strategy cascades through the others *)
(* and skips those that cannot apply.                                      *)
AppliesTo(s, d) ==
    CASE s = "semantic-vector-sync" -> d = "semantic_vector"
      [] s = "graph-document-sync" -> d = "graph_document"
      [] s = "tensor-regeneration" -> d = "tensor"
      [] s = "temporal-repair" -> d = "temporal_consistency"
      [] OTHER -> d \in {"quality", "schema"}

(* What each strategy would change on entity x; nothing: it fails.         *)
SemanticVectorChanges(x) == IF x \cap {"document", "semantic"} # {} THEN {"vector"} ELSE {}

GraphDocumentChanges(x) ==
    IF "document" \in x THEN {"graph"} ELSE IF "graph" \in x THEN {"document"} ELSE {}

TensorChanges(x) == IF x \cap {"vector", "document"} # {} THEN {"tensor"} ELSE {}

TemporalChanges(x) == {"temporal"}

QualityChanges(x) ==
    SemanticVectorChanges(x) \cup GraphDocumentChanges(x) \cup TensorChanges(x) \cup TemporalChanges(x)

Changes(s, x) ==
    CASE s = "semantic-vector-sync" -> SemanticVectorChanges(x)
      [] s = "graph-document-sync" -> GraphDocumentChanges(x)
      [] s = "tensor-regeneration" -> TensorChanges(x)
      [] s = "temporal-repair" -> TemporalChanges(x)
      [] OTHER -> QualityChanges(x)

FirstApplicable(d) == SelectInSeq(strategies, LAMBDA s : AppliesTo(s, d))

Reading(h) == handler[h].at \in {"count_up", "normalize", "count_down", "send"}

(* The consumer takes an event and calls handle_drift.                     *)
TakeEvent(h) ==
    /\ handler[h].at = "idle" /\ eventQueue # <<>>
    /\ handler' = [handler EXCEPT ![h] =
                     IF Head(eventQueue).score < MinScore THEN NoEvent
                     ELSE [at |-> "lock", type |-> Head(eventQueue).type, score |-> Head(eventQueue).score,
                           hexad |-> Head(eventQueue).hexad, strategy |-> "none", ok |-> FALSE]]
    /\ eventQueue' = Tail(eventQueue)
    /\ UNCHANGED <<metrics, meter, eventsOpen, alarms, strategies, registering, status,
                   resultQueue, started, settled>>

(* The read guard, behind a registration that waits; no strategy: None.    *)
FindStrategy(h) ==
    /\ handler[h].at = "lock" /\ registering # "waits"
    /\ handler' = [handler EXCEPT ![h] =
                     IF FirstApplicable(@.type) = 0 THEN NoEvent
                     ELSE [@ EXCEPT !.at = "count_up", !.strategy = strategies[FirstApplicable(handler[h].type)]]]
    /\ UNCHANGED <<detectorVars, strategies, registering, status, resultQueue, started, settled>>

CountUp(h) ==
    /\ handler[h].at = "count_up"
    /\ status' = [status EXCEPT !.active = @ + 1]
    /\ started' = started + 1
    /\ handler' = [handler EXCEPT ![h].at = "normalize"]
    /\ UNCHANGED <<detectorVars, strategies, registering, resultQueue, settled>>

Normalize(h) ==
    /\ handler[h].at = "normalize"
    /\ handler' = [handler EXCEPT ![h].at = "count_down",
                                  ![h].ok = (Changes(handler[h].strategy, handler[h].hexad) # {})]
    /\ UNCHANGED <<detectorVars, strategies, registering, status, resultQueue, started, settled>>

(* The counters, and then `result?`: a failure returns, the guard goes.    *)
CountDown(h) ==
    /\ handler[h].at = "count_down"
    /\ status' = IF handler[h].ok THEN [status EXCEPT !.active = @ - 1, !.completed = @ + 1]
                 ELSE [status EXCEPT !.active = @ - 1, !.failures = @ + 1]
    /\ handler' = [handler EXCEPT ![h] = IF @.ok THEN [@ EXCEPT !.at = "send"] ELSE NoEvent]
    /\ settled' = IF handler[h].ok THEN settled ELSE settled + 1
    /\ UNCHANGED <<detectorVars, strategies, registering, resultQueue, started>>

(* The result waits for room with the guard still held.                    *)
SendResult(h) ==
    /\ handler[h].at = "send" /\ Len(resultQueue) < ResultCapacity
    /\ resultQueue' = Append(resultQueue, [type |-> handler[h].type, hexad |-> handler[h].hexad,
                                           changes |-> Changes(handler[h].strategy, handler[h].hexad)])
    /\ handler' = [handler EXCEPT ![h] = NoEvent]
    /\ settled' = settled + 1
    /\ UNCHANGED <<detectorVars, strategies, registering, status, started>>

HandleStep(h) ==
    FindStrategy(h) \/ CountUp(h) \/ Normalize(h) \/ CountDown(h) \/ SendResult(h)

TakeResult ==
    /\ resultQueue # <<>>
    /\ resultQueue' = Tail(resultQueue)
    /\ UNCHANGED <<detectorVars, handler, strategies, registering, status, started, settled>>

RegisterStrategy ==
    /\ registering = "new"
    /\ registering' = "waits"
    /\ UNCHANGED <<detectorVars, handler, strategies, status, resultQueue, started, settled>>

Registered_WhenIdle ==
    /\ registering = "waits" /\ \A h \in Handlers : handler[h].at = "idle"
    /\ strategies' = Append(strategies, LateStrategy)
    /\ registering' = "done"
    /\ UNCHANGED <<detectorVars, handler, status, resultQueue, started, settled>>

(* The write guard is free once no reader has one.                         *)
Registered ==
    /\ registering = "waits" /\ \A h \in Handlers : ~Reading(h)
    /\ strategies' = Append(strategies, LateStrategy)
    /\ registering' = "done"
    /\ UNCHANGED <<detectorVars, handler, status, resultQueue, started, settled>>

PipelineNext ==
    \/ \E r \in Meters, d \in DriftTypes, s \in Readings : \E x \in Hexads[d] : Measure(r, d, s, x)
    \/ \E r \in Meters : RecordStep(r)
    \/ CloseEvents
    \/ \E h \in Handlers : TakeEvent(h) \/ HandleStep(h)
    \/ TakeResult \/ RegisterStrategy \/ Registered

(* Tasks that are ready run; the consumers keep taking.                    *)
PipelineFairness ==
    /\ \A r \in Meters : WF_pipelineVars(RecordStep(r))
    /\ \A h \in Handlers : WF_pipelineVars(TakeEvent(h) \/ HandleStep(h))
    /\ WF_pipelineVars(TakeResult) /\ WF_pipelineVars(Registered)
-----------------------------------------------------------------------------
(* Properties.                                                             *)

(* active_count is the number of handlers between the two updates of the   *)
(* status, on the error path too, so it never goes below zero (usize), and *)
(* every normalization started is active, completed or failed.             *)
ActiveCountExact ==
    /\ status.active = Cardinality({h \in Handlers : handler[h].at \in {"normalize", "count_down"}})
    /\ started = status.active + status.completed + status.failures
    /\ settled = started - status.active - Cardinality({h \in Handlers : handler[h].at = "send"})

(* The metrics of a type fit together whatever tasks record at once: the   *)
(* history ends in the current score and holds the last HistoryLimit ones, *)
(* no score is above the maximum and the average is not either.            *)
MetricsCoherent ==
    \A d \in DriftTypes :
        LET m == metrics[d]
        IN  /\ Len(m.history) = IF m.count > HistoryLimit THEN HistoryLimit ELSE m.count
            /\ m.count > 0 => m.history[Len(m.history)] = m.current
            /\ \A i \in DOMAIN m.history : m.history[i] <= m.max
            /\ m.average <= m.max

(* A score of a type with a fixed threshold raises an event exactly when   *)
(* it is above the threshold itself, whatever other tasks measured between *)
(* the update of the metrics and the comparison.                           *)
AlarmIsOwn ==
    \A a \in alarms : a.type \notin DOMAIN AdaptivePolicies =>
        (a.raised <=> a.score > FixedThreshold[a.type])

Grade(x) == CASE x \in {"info", "healthy"} -> 0 [] x = "warning" -> 1
              [] x \in {"critical", "degraded"} -> 2 [] OTHER -> 3

(* health_check ranks the system by the drift types' current scores as the *)
(* events' severities rank them: as bad as the worst, and no worse.        *)
HealthReflectsDrift ==
    LET health == IF HealthOf(metrics) = "critical" THEN 3 ELSE Grade(HealthOf(metrics))
    IN  /\ \A d \in DriftTypes : Grade(Severity(metrics[d].current)) <= health
        /\ \E d \in DriftTypes : Grade(Severity(metrics[d].current)) = health

(* A normalization never rewrites the document of an entity that has one,  *)
(* whichever strategy ran, alone or in the quality cascade: the document   *)
(* is the source the others are rebuilt from; and it changes something of  *)
(* the kind that the event was about.                                      *)
DocumentIsAuthoritative ==
    \A i \in DOMAIN resultQueue :
        /\ "document" \in resultQueue[i].changes => "document" \notin resultQueue[i].hexad
        /\ resultQueue[i].type = "semantic_vector" => resultQueue[i].changes = {"vector"}
        /\ resultQueue[i].type = "quality" => "temporal" \in resultQueue[i].changes

(* A registration that waits for the strategies gets them although every   *)
(* handler keeps its guard while it waits for room for its result.         *)
RegistrationReturns == registering = "waits" ~> registering = "done"

(* A raised event is delivered unless the receiver is gone.                *)
RecordReturns == \A r \in Meters : meter[r].at # "idle" ~> meter[r].at = "idle"
=============================================================================
