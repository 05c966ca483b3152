----------------------------- MODULE QueryPlanner -----------------------------
(***************************************************************************)
(* The query planner: a VQL query becomes a logical plan (VqlBridge), the  *)
(* optimizer costs, orders and combines its nodes (optimizer.rs, cost.rs), *)
(* the profiler records what each step took and feeds it into the store    *)
(* statistics (profiler.rs, stats.rs), from which the next estimates and   *)
(* the adaptive tuner's modes come.                                        *)
(*                                                                         *)
(* Times are thousandths of a millisecond, selectivities ten-thousandths;  *)
(* both are rounded down.  seen, finished and asked are history variables. *)
(***************************************************************************)
EXTENDS VqlBridge

CONSTANTS Queries,            \* the syntax trees that arrive
          Measurements,       \* what the execution of a step may take and return
          RowCounts, Counted, \* what is counted, and for which stores
          Weight,             \* statistics_weight in tenths
          ParallelThreshold,
          MinSamples,         \* AdaptiveTuner.min_samples
          MaxQueries,         \* bound on the queries planned
          MaxRecords          \* bound on the steps recorded of one plan

ASSUME PlannerAssumption ==
    /\ \A q \in Queries :
         /\ DOMAIN q = QueryFields /\ q.modalities \in Seq(STRING) /\ q.where \in Seq(Conditions)
         /\ q.proof \in Seq([tag : {"Proof"}, type : ProofTypes])
         /\ q.group_by \in BOOLEAN /\ q.order_by \in BOOLEAN
         /\ q.limit \in Nat \cup {NoLimit} /\ q.offset \in 0 .. MaxCount
    /\ \A x \in Measurements : x.ms \in Nat /\ x.rows \in Nat
    /\ RowCounts \subseteq Nat /\ Counted \subseteq ElemsOf(AllModalities) /\ Weight \in 0 .. 10
    /\ ParallelThreshold \in Nat /\ MinSamples \in Nat /\ MaxQueries \in Nat /\ MaxRecords \in Nat

VARIABLES modes,       \* config.mode_for every modality
          stats,       \* StatisticsCollector
          plan,        \* the physical plan being executed
          recorded,    \* Profiler.recorded_steps
          profile,     \* the QueryProfile last returned
          asked, finished, seen

plannerVars == <<modes, stats, plan, recorded, profile, asked, finished, seen>>

PlanModalities == ElemsOf(AllModalities)

NotRun == [ms |-> -1, rows |-> 0]

NoPlan == [query |-> [tag |-> "none"], steps |-> <<>>, strategy |-> "none", time |-> 0, rows |-> 0]
Planned == plan.strategy # "none"

PlannerInit ==
    /\ modes = [m \in PlanModalities |->
                  CASE m = "vector" -> "aggressive" [] m \in {"graph", "semantic"} -> "conservative"
                    [] OTHER -> "balanced"]
    /\ stats = [m \in PlanModalities |-> [total |-> 0, latency |-> 0, returned |-> 0, count |-> 0]]
    /\ plan = NoPlan /\ recorded = <<>> /\ profile = [overall |-> "none", steps |-> <<>>]
    /\ asked = 0 /\ finished = 0
    /\ seen = [m \in PlanModalities |-> {}]
-----------------------------------------------------------------------------
(* BaseCost::for_modality.                                                 *)
BaseTime == [graph |-> 150000, vector |-> 50000, tensor |-> 200000, semantic |-> 300000,
             document |-> 80000, temporal |-> 30000]
BaseSelectivity == [graph |-> 2000, vector |-> 100, tensor |-> 5000, semantic |-> 8000,
                    document |-> 500, temporal |-> 1000]

CostMultiplier == [conservative |-> 15, balanced |-> 10, aggressive |-> 8]
SelectivityMultiplier == [conservative |-> 20, balanced |-> 10, aggressive |-> 5]

AtMost(x, top) == IF x > top THEN top ELSE x
AtLeast(x, low) == IF x < low THEN low ELSE x

(* ProofCost::for_type, total_ms.                                          *)
ProofTime ==
    [existence |-> 1000, citation |-> 5000, access |-> 15000, integrity |-> 60000,
     provenance |-> 30000, custom |-> 300000]

Blend(estimate, measured) == (estimate * (10 - Weight) + measured * Weight) \div 10

(* The factors of a condition on time and selectivity.                     *)
AdjustedBy(c, k) ==
    CASE k.kind = "equality" -> [c EXCEPT !.selectivity = @ \div 10, !.time = (@ * 7) \div 10]
      [] k.kind = "range" -> [c EXCEPT !.selectivity = (@ * 3) \div 10, !.time = (@ * 8) \div 10]
      [] k.kind = "similarity" -> [c EXCEPT !.selectivity = AtMost(k.of.k, 10000)]
      [] k.kind = "fulltext" -> [c EXCEPT !.time = (@ * 6) \div 10]
      [] k.kind = "proof" -> [c EXCEPT !.proof = @ + ProofTime[k.of.type]]
      [] OTHER -> c

Adjusted(cost, conditions) ==
    LET Run[i \in 0 .. Len(conditions)] ==
            IF i = 0 THEN cost ELSE AdjustedBy(Run[i - 1], conditions[i])
    IN  Run[Len(conditions)]

(* CostModel::estimate.                                                    *)
Estimate(node) ==
    LET m == node.modality
        s == stats[m]
        time == (BaseTime[m] * CostMultiplier[modes[m]]) \div 10
        sel == AtMost((BaseSelectivity[m] * SelectivityMultiplier[modes[m]]) \div 10, 10000)
        base == [time |-> IF s.count > 0 THEN Blend(time, s.latency) ELSE time,
                 selectivity |-> IF s.count > 0 /\ s.total > 0
                                 THEN Blend(sel, (10000 * s.returned) \div s.total) ELSE sel,
                 proof |-> 0]
        c == Adjusted(base, node.conditions)
    IN  [time |-> c.time + c.proof, selectivity |-> c.selectivity,
         rows |-> AtLeast((s.total * c.selectivity) \div 10000, 1)]

(* PostProcessingCost::estimate; the sort's logarithm is left at one.      *)
PostCost(p, rows) ==
    LET n == AtLeast(rows, 1)
    IN  CASE p.op = "order_by" -> [time |-> n, rows |-> rows]
          [] p.op = "limit" -> [time |-> 100, rows |-> AtMost(rows, p.count)]
          [] p.op = "group_by" -> [time |-> 3 * n, rows |-> AtLeast(n \div 10, 1)]
          [] OTHER -> [time |-> 0, rows |-> rows]

(* estimate_with_post_processing: rows flow through the pipeline.          *)
WithPostProcessing(cost, post) ==
    LET Run[i \in 0 .. Len(post)] ==
            IF i = 0 THEN cost
            ELSE LET c == PostCost(post[i], Run[i - 1].rows)
                 IN  [time |-> Run[i - 1].time + c.time, rows |-> c.rows]
    IN  Run[Len(post)]

Largest(S) == CHOOSE x \in S : \A y \in S : y <= x

SumOf(s) == LET Add[i \in 0 .. Len(s)] == IF i = 0 THEN 0 ELSE Add[i - 1] + s[i] IN Add[Len(s)]

(* CostEstimate::combine: parallel steps overlap, sequential ones add up.  *)
Combine(steps, parallel) ==
    [time |-> IF parallel THEN Largest({steps[i].time : i \in DOMAIN steps})
              ELSE SumOf([i \in DOMAIN steps |-> steps[i].time]),
     rows |-> Largest({steps[i].rows : i \in DOMAIN steps})]

(* Planner::optimize; a stable sort by cost and one by priority are a sort *)
(* by priority, then cost.                                                 *)
Optimize(q) ==
    LET logical == ToLogicalPlan(q)
        Step(n) == [modality |-> n.modality, pushed |-> n.conditions,
                    time |-> Estimate(n).time, rows |-> Estimate(n).rows,
                    selectivity |-> Estimate(n).selectivity]
        costed == [i \in DOMAIN logical.nodes |-> Step(logical.nodes[i])]
        cheap == SortedBy(costed, [i \in DOMAIN costed |-> costed[i].time])
        steps == SortedBy(cheap, [i \in DOMAIN cheap |-> Priority[cheap[i].modality]])
        parallel == Len(steps) >= ParallelThreshold
        total == WithPostProcessing(Combine(steps, parallel), logical.post)
    IN  [query |-> q, steps |-> steps,
         strategy |-> IF parallel THEN "parallel" ELSE "sequential",
         time |-> total.time, rows |-> total.rows]

StepTime(p) == SumOf([i \in DOMAIN p.steps |-> p.steps[i].time])

(* The steps' parts of the summed step costs, in tenths of a percent.      *)
Shares(p) ==
    LET total == StepTime(p)
    IN  [i \in DOMAIN p.steps |-> IF total > 0 THEN (1000 * p.steps[i].time) \div total ELSE 0]

SlowPlan == 500000
SlowStep == 200000

(* ExplainOutput::from_physical_plan: the breakdown, largest part first,   *)
(* and the hints.                                                          *)
Explain(p) ==
    [breakdown |->
        LET share == Shares(p)
        IN  SortedBy([i \in DOMAIN p.steps |-> [modality |-> p.steps[i].modality, share |-> share[i]]],
                     [i \in DOMAIN p.steps |-> -share[i]]),
     hints |-> {<<"add_limit", 0>> : t \in {x \in {p.time} : x > SlowPlan}}
               \cup {<<"expensive_step", i>> : i \in {k \in DOMAIN p.steps : p.steps[k].time > SlowStep}}
               \cup {<<"reorder", i>> : i \in {k \in DOMAIN p.steps \cap {1} : p.steps[k].selectivity > 1000}}
               \cup {<<"parallelize", i>> : i \in {k \in DOMAIN p.steps \cap {2} : p.strategy = "sequential"}}]

PlanQuery(q) ==
    /\ ~Planned /\ asked < MaxQueries
    /\ asked' = asked + 1
    /\ IF Plans(q)
       THEN /\ plan' = Optimize(q)
            /\ recorded' = [i \in DOMAIN Optimize(q).steps |-> NotRun]
       ELSE UNCHANGED <<plan, recorded>>
    /\ UNCHANGED <<modes, stats, profile, finished, seen>>

(* Profiler::record_step; a second record of a step replaces the first.    *)
RecordStep(i, x) ==
    /\ recorded[i] # NotRun \/ Cardinality({k \in DOMAIN recorded : recorded[k] # NotRun}) < MaxRecords
    /\ recorded' = [recorded EXCEPT ![i] = x]
    /\ UNCHANGED <<modes, stats, plan, profile, asked, finished, seen>>

(* record_execution: the first measurement is taken as it is.              *)
Executed(s, ms, rows) ==
    IF s.count = 0
    THEN [s EXCEPT !.count = 1, !.latency = ms, !.returned = rows]
    ELSE [s EXCEPT !.count = @ + 1, !.latency = (ms + 9 * @) \div 10,
                   !.returned = (rows + 9 * @) \div 10]

Actual(i) == IF recorded[i] = NotRun THEN [ms |-> 0, rows |-> 0] ELSE recorded[i]

(* Faster than half or slower than twice the estimate; an estimate of      *)
(* nothing has no finite ratio and gets no hint.                           *)
TimeHint(actual, estimated) ==
    IF estimated = 0 THEN "unrated"
    ELSE IF actual > 2 * estimated THEN "slow"
    ELSE IF 2 * actual < estimated THEN "fast" ELSE "none"

RowHint(actual, estimated) ==
    IF actual > 3 * estimated THEN "more" ELSE IF 100 * actual < 33 * estimated THEN "fewer" ELSE "none"

(* The QueryProfile: generate_hints on the totals and on every step.       *)
Profiled(p) ==
    [overall |-> TimeHint(SumOf([i \in DOMAIN p.steps |-> Actual(i).ms]),
                          StepTime(p)),
     steps |-> [i \in DOMAIN p.steps |-> [time |-> TimeHint(Actual(i).ms, p.steps[i].time),
                                          rows |-> RowHint(Actual(i).rows, p.steps[i].rows)]]]

(* Profiler::finish: a step never recorded counts as zero.                 *)
Finish ==
    /\ Planned
    /\ LET StepOf(m) == {i \in DOMAIN plan.steps : plan.steps[i].modality = m}
       IN  /\ stats' = [m \in PlanModalities |->
                          IF StepOf(m) = {} THEN stats[m]
                          ELSE LET i == CHOOSE x \in StepOf(m) : TRUE
                               IN  Executed(stats[m], Actual(i).ms, Actual(i).rows)]
           /\ seen' = [m \in PlanModalities |-> seen[m] \cup {Actual(i).ms : i \in StepOf(m)}]
    /\ finished' = finished + Len(plan.steps)
    /\ profile' = Profiled(plan)
    /\ plan' = NoPlan /\ recorded' = <<>>
    /\ UNCHANGED <<modes, asked>>

UpdateRowCount(m, n) ==
    /\ stats' = [stats EXCEPT ![m].total = n]
    /\ UNCHANGED <<modes, plan, recorded, profile, asked, finished, seen>>

(* suggest_adjustments: the latency against what the mode expects.         *)
Suggested(m, mode) ==
    LET estimated == (BaseTime[m] * CostMultiplier[mode]) \div 10
    IN  IF stats[m].count < MinSamples THEN mode
        ELSE IF 2 * stats[m].latency < estimated THEN "aggressive"
        ELSE IF stats[m].latency > 2 * estimated THEN "conservative"
        ELSE "balanced"

(* AdaptiveTuner::apply with adaptive mode enabled, set_config.            *)
Tune ==
    /\ modes' = [m \in PlanModalities |-> Suggested(m, modes[m])]
    /\ UNCHANGED <<stats, plan, recorded, profile, asked, finished, seen>>

PlannerNext ==
    \/ \E q \in Queries : PlanQuery(q)
    \/ \E i \in DOMAIN recorded, x \in Measurements : RecordStep(i, x)
    \/ Finish
    \/ \E m \in Counted, n \in RowCounts : UpdateRowCount(m, n)
    \/ Tune
-----------------------------------------------------------------------------
(* Properties.                                                             *)

Asked(m) ==
    m \in PlanModalities /\ \E i \in DOMAIN plan.query.modalities : plan.query.modalities[i] \in {m, "All"}

Pushed(m) == UNION {{plan.steps[i].pushed[k].of : k \in DOMAIN plan.steps[i].pushed} :
                      i \in {j \in DOMAIN plan.steps : plan.steps[j].modality = m}}

(* No conjunct of the WHERE clause is lost between the syntax tree and the *)
(* physical steps, and none is narrowed to one store when it does not      *)
(* belong to it: what its kind can carry (see Carried: the operator of a   *)
(* comparison is gone) is pushed to the step of the modality it aims at,   *)
(* or to every step (flatten_conditions, optimize).                        *)
ConditionsKept ==
    Planned =>
        \A i \in DOMAIN plan.query.where :
            LET c == plan.query.where[i]
            IN  IF c.tag \in SimpleTags /\ Asked(TargetOf(c))
                THEN Carried(c) \in Pushed(TargetOf(c))
                ELSE \A j \in DOMAIN plan.steps : Carried(c) \in Pushed(plan.steps[j].modality)

(* Does not hold: a step also knows the operator of every comparison, so   *)
(* that the executor could interpret it.                                   *)
OperatorsKept ==
    Planned => \A i \in DOMAIN plan.query.where :
                   \E j \in DOMAIN plan.steps : plan.query.where[i] \in Pushed(plan.steps[j].modality)

(* A plan has one step per modality of the query, All and repetitions      *)
(* included, cheap lookups before expensive verification, so that a later  *)
(* step of a sequential plan never has a smaller execution priority.       *)
StepsOrdered ==
    Planned =>
        /\ \A m \in PlanModalities :
             Cardinality({i \in DOMAIN plan.steps : plan.steps[i].modality = m})
               = IF Asked(m) THEN 1 ELSE 0
        /\ \A i, j \in DOMAIN plan.steps :
             i < j => Priority[plan.steps[i].modality] < Priority[plan.steps[j].modality]

(* The estimate never promises more rows than the query's LIMIT, whatever  *)
(* stands before it in the pipeline and whatever the statistics say.       *)
RowsWithinLimit ==
    (Planned /\ plan.query.limit # NoLimit) => plan.rows <= plan.query.limit

(* A plan is estimated to take at least as long as its longest step, and a *)
(* sequential one at least as long as all of them.                         *)
CostCoversSteps ==
    Planned =>
        /\ \A i \in DOMAIN plan.steps : plan.steps[i].time <= plan.time
        /\ plan.strategy = "sequential" =>
             StepTime(plan) <= plan.time

(* EXPLAIN accounts for every step once: the parts add up to the whole but *)
(* for rounding, the bottleneck stands first, and a plan over the limit of *)
(* half a second gets a hint even when none of its steps is expensive.     *)
ExplainAccounts ==
    Planned =>
        LET b == Explain(plan).breakdown
            shares == SumOf([i \in DOMAIN b |-> b[i].share])
        IN  /\ {b[i].modality : i \in DOMAIN b} = {plan.steps[i].modality : i \in DOMAIN plan.steps}
            /\ shares <= 1000 /\ (StepTime(plan) > 0 => shares > 1000 - Len(b))
            /\ \A i \in DOMAIN plan.steps : Shares(plan)[i] <= b[1].share
            /\ (plan.time > SlowPlan => Explain(plan).hints # {})

(* The hint on the whole query never stands alone: a query can only be     *)
(* slow (fast) against its estimate if one of its steps is, also when      *)
(* steps ran in parallel or were never recorded; only a step estimated at  *)
(* nothing may slow a query down without a hint of its own.                *)
HintsExplained ==
    profile.overall \in {"slow", "fast"} =>
        \E i \in DOMAIN profile.steps :
            \/ profile.steps[i].time = profile.overall
            \/ profile.overall = "slow" /\ profile.steps[i].time = "unrated"

(* The average latency of a store lies within what was measured for it,    *)
(* from the first measurement on, and every executed step was counted once *)
(* for its store.                                                          *)
StatsWithinObserved ==
    /\ \A m \in PlanModalities : stats[m].count > 0 =>
         \E a, b \in seen[m] : a <= stats[m].latency /\ stats[m].latency <= b
    /\ SumOf([i \in 1 .. 6 |-> stats[AllModalities[i]].count]) = finished

(* Between 0.4 and 0.5, and between 2 and 3 times the base cost, the mode  *)
(* changes the estimate that the next mode is chosen by, and the tuner     *)
(* alternates; outside of these bands three applications without a new     *)
(* measurement leave the mode where two of them put it.                    *)
TunerSettles ==
    \A m \in PlanModalities :
        LET l == 10 * stats[m].latency
            b == BaseTime[m]
            two == Suggested(m, Suggested(m, modes[m]))
        IN  (l >= 4 * b /\ l < 5 * b) \/ (l > 20 * b /\ l <= 30 * b) \/ Suggested(m, two) = two

(* Does not hold: without the bands.                                       *)
TunerAlwaysSettles ==
    \A m \in PlanModalities :
        LET two == Suggested(m, Suggested(m, modes[m])) IN Suggested(m, two) = two

(* Every PROOF obligation of a query is verified by some step.             *)
ProofsPlanned ==
    Planned =>
        \A i \in DOMAIN plan.query.proof : plan.query.proof[i] \in Pushed("semantic")
=============================================================================
