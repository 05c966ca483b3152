------------------------------- MODULE PlannerApi -------------------------------
(***************************************************************************)
(* The planner behind its handlers (verisim-api/src/lib.rs, graphql.rs,    *)
(* grpc.rs): its configuration can be set over three surfaces, and         *)
(* prepared statements are executed by a handler that takes the statement  *)
(* from the cache, plans it under the planner lock and puts the physical   *)
(* plan back into the cache, three calls with others in between.           *)
(*                                                                         *)
(* A physical plan is known by the logical plan it was made for (the       *)
(* configuration it was made under shows in no property).  answered and   *)
(* replaced are history.                                                   *)
(***************************************************************************)
EXTENDS Naturals, FiniteSets

CONSTANTS Callers,       \* concurrent execute requests
          Statements,    \* prepared ids
          LogicalPlans,  \* plans clients submit with a text
          Settings,      \* [mode, weight, adaptive, threshold], 0 and "" not given
          FirstSettings, \* PlannerConfig::default
          MaxConfigs, MaxEvictions   \* bounds

VARIABLES config,        \* the planner's configuration
          slots,         \* id -> [logical, plan]
          executing,     \* request -> where prepared_execute_handler is
          configured,    \* number of configuration changes
          evicted,       \* number of evictions
          answered,      \* the last request answered
          replaced       \* ids prepared again while a request executed them

planApiVars == <<config, slots, executing, configured, evicted, answered, replaced>>

Unplanned == "none"
Waiting == [pc |-> "idle", id |-> "none", logical |-> "none", plan |-> Unplanned]

PlanApiInit ==
    /\ config = FirstSettings /\ configured = 0 /\ evicted = 0
    /\ slots = [i \in {} |-> Unplanned] /\ executing = [c \in Callers |-> Waiting]
    /\ answered = Waiting /\ replaced = {}

(* An unknown mode counts as balanced.                                     *)
ParseMode(mode) == IF mode \in {"conservative", "aggressive"} THEN mode ELSE "balanced"

FieldOr(v, absent, old) == IF v = absent THEN old ELSE v

MergeMode(s) == IF s.mode = "" THEN config.mode ELSE ParseMode(s.mode)

SetConfig(new) ==
    /\ configured < MaxConfigs /\ configured' = configured + 1
    /\ config' = new
    /\ UNCHANGED <<slots, executing, evicted, answered, replaced>>

(* put_planner_config_handler replaces the whole configuration; a body     *)
(* that lacks a field or names an unknown mode is refused.                 *)
PutConfig(s) ==
    /\ s.mode \in {"conservative", "balanced", "aggressive"} /\ s.weight # 0 /\ s.threshold # 0
    /\ SetConfig(s)

(* update_planner_config of GraphQL: every field is optional.              *)
UpdateConfig(s, adaptiveGiven) ==
    SetConfig([mode |-> MergeMode(s), weight |-> FieldOr(s.weight, 0, config.weight),
               adaptive |-> IF adaptiveGiven THEN s.adaptive ELSE config.adaptive,
               threshold |-> FieldOr(s.threshold, 0, config.threshold)])

(* set_config of gRPC: zeros and the empty mode leave a field alone;       *)
(* enable_adaptive is a plain boolean and is always taken over.            *)
SetConfigGrpc(s) ==
    SetConfig([mode |-> MergeMode(s), weight |-> FieldOr(s.weight, 0, config.weight),
               adaptive |-> s.adaptive, threshold |-> FieldOr(s.threshold, 0, config.threshold)])

(* prepared_create_handler: the id is the fingerprint of the text, so a    *)
(* text that is in the cache keeps the plan it was first prepared with.    *)
PreparedCreate(i, logical) ==
    /\ slots' = [x \in DOMAIN slots \cup {i} |->
                   IF x = i /\ i \notin DOMAIN slots THEN [logical |-> logical, plan |-> Unplanned] ELSE slots[x]]
    /\ replaced' = IF i \notin DOMAIN slots /\ \E c \in Callers : executing[c].id = i
                   THEN replaced \cup {i} ELSE replaced
    /\ UNCHANGED <<config, executing, configured, evicted, answered>>

(* The cache evicts or expires a statement.                                *)
EvictStatement(i) ==
    /\ i \in DOMAIN slots /\ evicted < MaxEvictions /\ evicted' = evicted + 1
    /\ slots' = [x \in DOMAIN slots \ {i} |-> slots[x]]
    /\ UNCHANGED <<config, executing, configured, answered, replaced>>

ExecuteTakes(c, i) ==
    /\ executing[c] = Waiting /\ i \in DOMAIN slots
    /\ executing' = [executing EXCEPT ![c] = [pc |-> IF slots[i].plan = Unplanned THEN "plan" ELSE "keep",
                                              id |-> i, logical |-> slots[i].logical, plan |-> slots[i].plan]]
    /\ UNCHANGED <<config, slots, configured, evicted, answered, replaced>>

ExecutePlans(c) ==
    /\ executing[c].pc = "plan"
    /\ executing' = [executing EXCEPT ![c].pc = "keep", ![c].plan = executing[c].logical]
    /\ UNCHANGED <<config, slots, configured, evicted, answered, replaced>>

(* cache_plan: nothing happens if the statement is gone; whoever holds the *)
(* id now gets the plan.                                                   *)
CachePlan(e) ==
    [i \in DOMAIN slots |-> IF i = e.id THEN [slots[i] EXCEPT !.plan = e.plan] ELSE slots[i]]

ExecuteAnswers(c) ==
    /\ executing[c].pc = "keep"
    /\ slots' = CachePlan(executing[c])
    /\ answered' = executing[c]
    /\ executing' = [executing EXCEPT ![c] = Waiting]
    /\ UNCHANGED <<config, configured, evicted, replaced>>

PlanApiNext ==
    \/ \E s \in Settings : PutConfig(s) \/ SetConfigGrpc(s) \/ \E b \in BOOLEAN : UpdateConfig(s, b)
    \/ \E i \in Statements, l \in LogicalPlans : PreparedCreate(i, l)
    \/ \E i \in Statements : EvictStatement(i)
    \/ \E c \in Callers, i \in Statements : ExecuteTakes(c, i)
    \/ \E c \in Callers : ExecutePlans(c) \/ ExecuteAnswers(c)

-----------------------------------------------------------------------------

(* The physical plan answered for a prepared statement is one for the      *)
(* logical plan the statement had when the request took it from the cache, *)
(* though evictions and other requests run between taking, planning and    *)
(* caching; the exception is an id that was evicted and prepared again     *)
(* with another plan while a request still executed it.                    *)
PlanIsOfStatement ==
    answered.plan = answered.logical \/ answered.id \in replaced

(* The same without the exception.  Not so: cache_plan gives the plan to   *)
(* whoever holds the id by then, and the next request is answered with it. *)
PlanIsAlwaysOfStatement == answered.plan = answered.logical
=============================================================================
