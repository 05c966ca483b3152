---------------------------- MODULE MCNormalization ----------------------------
(* The components of self-normalization share no state: focus picks the    *)
(* one that runs, the others stay in their initial states.                 *)
EXTENDS ConflictResolver, RegenerationEngine, DriftPipeline, DriftCalculator, DriftMonitor

VARIABLE focus

mcDisputes == {<<"vector", "document">>, <<"vector", "graph", "document">>}
mcPairPolicies == {<<<<"document", "graph">>, "modality_priority">>}
mcPriorityOrder == <<"semantic", "graph", "document">>

mcPresentOn == [e1 |-> {"document", "vector"}, e2 |-> {"vector"}]
mcAuthorityOrder == <<"document", "semantic", "graph", "vector">>
mcStrategyFor == [vector |-> "from_authoritative", document |-> "user_resolve", graph |-> "merge"]

mcAdaptive == [quality |-> [base |-> 300, sensitivity |-> 1]]
mcFixed == [semantic_vector |-> 300, quality |-> 250]
mcInstalled == <<"semantic-vector-sync">>
mcHexads == [semantic_vector |-> {{"vector"}, {"graph", "document"}}, quality |-> {{"graph", "document"}}]

mcSimilarities == {-3600, 0, 1800, 3600}

vars == <<focus, conflictVars, repairVars, pipelineVars, sample, dmVars>>

Init ==
    /\ focus \in {"conflict", "repair", "pipeline", "calculator", "monitor"}
    /\ ConflictInit /\ RepairInit /\ PipelineInit /\ CalcInit /\ DmInit
    /\ focus # "monitor" => drift = "low" /\ stored = {}

Next ==
    /\ UNCHANGED focus
    /\ \/ focus = "conflict" /\ ConflictNext /\ UNCHANGED <<repairVars, pipelineVars, sample, dmVars>>
       \/ focus = "repair" /\ RepairNext /\ UNCHANGED <<conflictVars, pipelineVars, sample, dmVars>>
       \/ focus = "pipeline" /\ PipelineNext /\ UNCHANGED <<conflictVars, repairVars, sample, dmVars>>
       \/ focus = "calculator" /\ sample.of = "none" /\ CalcNext
            /\ UNCHANGED <<conflictVars, repairVars, pipelineVars, dmVars>>
       \/ focus = "monitor" /\ DmNext /\ UNCHANGED <<conflictVars, repairVars, pipelineVars, sample>>

Spec ==
    /\ Init /\ [][Next]_vars
    /\ \A t \in Resolvers : WF_conflictVars(Move(t))
    /\ PipelineFairness
    /\ DmFairness

-----------------------------------------------------------------------------

(* Every conflict is decided once, by whom its drift allows and in favour  *)
(* of one of its parties, and is active, under way or filed; every         *)
(* regeneration has its best source, its audit event and, when it waits    *)
(* for a human, its one place in the queue.                                *)
RepairsAccounted ==
    /\ ResolvedOnce /\ NoConflictLost /\ EvictsOldest /\ ManualAboveThreshold /\ WinnerIsParty
    /\ AuditComplete /\ BestSource /\ QueueConserved

(* The counters and alarms between a measurement and its repair are exact  *)
(* whatever tasks run at once: metrics, events, severities and active      *)
(* handlers fit together, no strategy rewrites the document, and the       *)
(* monitor's slots do not leak.                                            *)
PipelineSound ==
    /\ MetricsCoherent /\ AlarmIsOwn /\ HealthReflectsDrift
    /\ ActiveCountExact /\ DocumentIsAuthoritative /\ PendingHasTask

(* A drift score is comparable with a threshold but for the one shape that *)
(* gives NaN, zero only when nothing that it looks at disagrees, a mean of *)
(* its parts, and names its worst part.                                    *)
ScoresMeaningful == ScoreInRange /\ ZeroMeansConsistent /\ QualityIsMean /\ PrimaryIsWorst

(* Nothing waits for ever: a decided conflict leaves the active list, a    *)
(* registration gets the strategies, and a raised event is delivered,      *)
(* although channels are bounded and guards are held across awaits.        *)
PipelineMoves == DecidedLeaves /\ RegistrationReturns /\ RecordReturns
=============================================================================
