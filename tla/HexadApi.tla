-------------------------------- MODULE HexadApi --------------------------------
(***************************************************************************)
(* The handlers that write hexads (verisim-api/src/lib.rs, graphql.rs,     *)
(* grpc.rs): the same entities are created, updated and deleted over       *)
(* REST, GraphQL and gRPC, and a stored query is optimized by a handler    *)
(* that reads it, computes costs and writes them back.                     *)
(*                                                                         *)
(* The hexad store is seen from here as a map that each call reads or      *)
(* writes atomically; HexadStore models the call itself.  Field values are *)
(* model data: "none" is a field the client left out, "empty" an empty     *)
(* string or list, and cost 0 means no tensor.  written and scaled are     *)
(* history.                                                                *)
(***************************************************************************)
EXTENDS Naturals, FiniteSets

CONSTANTS ApiIds,        \* ids the store can hand out
          Requests,      \* [title, body, embedding, types, tensor]
          Optimizers,    \* concurrent optimize requests
          PlanCost,      \* what the planner estimates for a submitted plan
          MaxApiWrites   \* bound on the writes of clients

VARIABLES entities,      \* id -> its modalities
          optimizing,    \* optimize request -> the cost vector to write
          issued,        \* ids handed out so far
          written,       \* id -> modality -> what a client last sent
          scaled         \* id -> costs an optimize request has computed

apiVars == <<entities, optimizing, issued, written, scaled>>

NoDocument == [title |-> "none", body |-> "none"]
NoInput == [document |-> NoDocument, vector |-> "none", semantic |-> "none", tensor |-> 0, provenance |-> 0]
NotOptimizing == [id |-> "none", cost |-> 0, seen |-> NoInput]

ApiInit ==
    /\ entities = [i \in {} |-> NoInput] /\ optimizing = [o \in Optimizers |-> NotOptimizing]
    /\ issued = {} /\ written = [i \in {} |-> NoInput] /\ scaled = [i \in ApiIds |-> {}]

(* A field left out of a gRPC message arrives as an empty one.             *)
IsGiven(surface, v) == v # "none" /\ (surface = "grpc" => v # "empty")

(* The conversions of the three surfaces: a title makes a document, a body *)
(* alone does not; GraphQL declares tensor fields and drops them, and gRPC *)
(* has none.                                                               *)
ToHexadInput(surface, r) ==
    [document |-> IF IsGiven(surface, r.title)
                  THEN [title |-> r.title, body |-> IF r.body = "none" THEN "empty" ELSE r.body]
                  ELSE NoDocument,
     vector |-> IF IsGiven(surface, r.embedding) THEN r.embedding ELSE "none",
     semantic |-> IF IsGiven(surface, r.types) THEN r.types ELSE "none",
     tensor |-> IF surface = "rest" THEN r.tensor ELSE 0,
     provenance |-> 0]

(* QueryHexadBuilder::build: the text of the query is the document, its    *)
(* costs the tensor, its proof obligations the types.                      *)
QueryInput(r) ==
    [document |-> [title |-> "VQL Query", body |-> r.body],
     vector |-> r.embedding, semantic |-> IF r.types = "empty" THEN "none" ELSE r.types,
     tensor |-> r.tensor, provenance |-> 0]

(* HexadStore::update keeps the modalities that the input does not give;   *)
(* provenance events add to the chain.                                     *)
Overlaid(old, input) ==
    [document |-> IF input.document = NoDocument THEN old.document ELSE input.document,
     vector |-> IF input.vector = "none" THEN old.vector ELSE input.vector,
     semantic |-> IF input.semantic = "none" THEN old.semantic ELSE input.semantic,
     tensor |-> IF input.tensor = 0 THEN old.tensor ELSE input.tensor,
     provenance |-> old.provenance + input.provenance]

Budget == Cardinality(issued) < Cardinality(ApiIds)

StoresNew(input) ==
    \E i \in ApiIds \ issued :
        /\ issued' = issued \cup {i}
        /\ entities' = [x \in DOMAIN entities \cup {i} |-> IF x = i THEN input ELSE entities[x]]
        /\ written' = [x \in DOMAIN written \cup {i} |-> IF x = i THEN input ELSE written[x]]
        /\ UNCHANGED <<optimizing, scaled>>

CreateHexad(surface, r) == StoresNew(ToHexadInput(surface, r))

(* store_query_handler.                                                    *)
StoreQuery(r) == StoresNew(QueryInput(r))

Writes(i, input) ==
    /\ i \in DOMAIN entities
    /\ entities' = [entities EXCEPT ![i] = Overlaid(@, input)]
    /\ written' = [written EXCEPT ![i] = Overlaid(@, input)]
    /\ UNCHANGED <<optimizing, issued, scaled>>

(* update is offered over REST and gRPC; an unknown id is an error.        *)
UpdateHexad(surface, i, r) == Writes(i, ToHexadInput(surface, r))

(* provenance_record_handler: an update with nothing but the event.        *)
RecordProvenance(i) ==
    /\ i \in DOMAIN entities /\ entities[i].provenance < MaxApiWrites
    /\ Writes(i, [NoInput EXCEPT !.provenance = 1])

DeleteHexad(i) ==
    /\ i \in DOMAIN entities
    /\ entities' = [x \in DOMAIN entities \ {i} |-> entities[x]]
    /\ written' = [x \in DOMAIN written \ {i} |-> written[x]]
    /\ UNCHANGED <<optimizing, issued, scaled>>

(* With a plan in the body the costs are the planner's estimate, without   *)
(* one the tensor just read times 0.95, or 1.0 (in hundredths).            *)
CostVector(h, planned) ==
    IF planned THEN PlanCost ELSE IF h.tensor = 0 THEN 100 ELSE (h.tensor * 95) \div 100

OptimizeReads(o, i, planned) ==
    /\ optimizing[o] = NotOptimizing /\ i \in DOMAIN entities
    /\ LET cost == CostVector(entities[i], planned) IN
         /\ optimizing' = [optimizing EXCEPT ![o] = [id |-> i, cost |-> cost, seen |-> entities[i]]]
         /\ scaled' = [scaled EXCEPT ![i] = @ \cup {cost}]
    /\ UNCHANGED <<entities, issued, written>>

OptimizeWrites_WholeHexad(o) ==
    LET i == optimizing[o].id IN
    /\ optimizing[o] # NotOptimizing
    /\ entities' = IF i \in DOMAIN entities
                   THEN [entities EXCEPT ![i] = [optimizing[o].seen EXCEPT !.tensor = optimizing[o].cost]]
                   ELSE entities
    /\ optimizing' = [optimizing EXCEPT ![o] = NotOptimizing]
    /\ UNCHANGED <<issued, written, scaled>>

(* The update gives the tensor alone; an entity deleted meanwhile makes    *)
(* the request fail.                                                       *)
OptimizeWrites(o) ==
    LET i == optimizing[o].id IN
    /\ optimizing[o] # NotOptimizing
    /\ entities' = IF i \in DOMAIN entities
                   THEN [entities EXCEPT ![i] = Overlaid(@, [NoInput EXCEPT !.tensor = optimizing[o].cost])]
                   ELSE entities
    /\ optimizing' = [optimizing EXCEPT ![o] = NotOptimizing]
    /\ UNCHANGED <<issued, written, scaled>>

(* Only so many rescaled costs per entity.                                 *)
OptimizeBounded(o, i, planned) == Cardinality(scaled[i]) < MaxApiWrites /\ OptimizeReads(o, i, planned)

ApiNext ==
    \/ \E r \in Requests, surface \in {"rest", "graphql", "grpc"} : Budget /\ CreateHexad(surface, r)
    \/ \E r \in Requests : Budget /\ StoreQuery(r)
    \/ \E r \in Requests, i \in DOMAIN entities, surface \in {"rest", "grpc"} : UpdateHexad(surface, i, r)
    \/ \E i \in DOMAIN entities : RecordProvenance(i) \/ DeleteHexad(i)
    \/ \E o \in Optimizers, i \in DOMAIN entities, planned \in BOOLEAN : OptimizeBounded(o, i, planned)
    \/ \E o \in Optimizers : OptimizeWrites(o)

-----------------------------------------------------------------------------

(* Optimizing a stored query, which reads it and writes its costs back     *)
(* later, undoes nothing but costs: every other modality of an entity is   *)
(* what a client last sent for it, the costs are those or ones an optimize *)
(* request computed for this entity, and a deleted entity stays deleted.   *)
OptimizeKeepsWrites ==
    /\ DOMAIN entities = DOMAIN written
    /\ \A i \in DOMAIN entities :
          /\ [entities[i] EXCEPT !.tensor = 0] = [written[i] EXCEPT !.tensor = 0]
          /\ entities[i].tensor \in {written[i].tensor} \cup scaled[i]

(* Costs are replaced only by ones computed from them.  Not so: costs that *)
(* a client or another request wrote after the read are overwritten.       *)
CostsKept ==
    [][\A o \in Optimizers :
         (OptimizeWrites(o) /\ optimizing[o].id \in DOMAIN entities) =>
             entities[optimizing[o].id].tensor = optimizing[o].seen.tensor]_apiVars
=============================================================================
