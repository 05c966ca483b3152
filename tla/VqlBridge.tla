------------------------------- MODULE VqlBridge -------------------------------
(***************************************************************************)
(* From a VQL syntax tree in JSON to a logical plan (vql_bridge.rs).       *)
(*                                                                         *)
(* A WHERE clause is the sequence of its conjuncts, left to right: And     *)
(* only joins its branches.  A conjunct has a tag, the modality it names   *)
(* (none, All or one of six) and whether its fields are all there.  An     *)
(* OR or NOT conjunct becomes one predicate on every node.  Expressions    *)
(* and names are not spelled out.                                          *)
(***************************************************************************)
EXTENDS Integers, Sequences, FiniteSets

NoLimit == -1
MaxCount == 1000000          \* stands for usize::MAX

AllModalities == <<"graph", "vector", "tensor", "semantic", "document", "temporal">>

ElemsOf(s) == {s[i] : i \in DOMAIN s}

(* Modality::execution_priority.                                           *)
Priority == [temporal |-> 10, vector |-> 20, document |-> 30, graph |-> 40,
             tensor |-> 50, semantic |-> 90]

Concat(ss) == LET Join[i \in 0 .. Len(ss)] == IF i = 0 THEN <<>> ELSE Join[i - 1] \o ss[i]
              IN  Join[Len(ss)]

(* Stable sort of a sequence by the keys of its positions.                 *)
SortedBy(s, key) ==
    LET Rank(i) == Cardinality({j \in DOMAIN s : key[j] < key[i] \/ (key[j] = key[i] /\ j < i)})
    IN  [k \in DOMAIN s |-> s[CHOOSE i \in DOMAIN s : Rank(i) = k - 1]]

(* What stands at the positions, in order.                                 *)
KeptAt(s, positions) ==
    LET Kept[i \in 0 .. Len(s)] ==
            IF i = 0 THEN <<>> ELSE IF i \in positions THEN Append(Kept[i - 1], s[i]) ELSE Kept[i - 1]
    IN  Kept[Len(s)]
-----------------------------------------------------------------------------
LogicalTags == {"Or", "Not"}
SimpleTags == {"FulltextContains", "VectorSimilar", "GraphPattern", "FieldCondition",
               "CrossModalFieldCompare", "ModalityDrift", "ModalityExists",
               "ModalityNotExists", "ModalityConsistency"}

(* parse_simple_condition: the tag is known and no field is missing.       *)
ParsesSimple(c) == c.tag \in SimpleTags /\ c.complete

(* parse_condition: every operand of the tree parses.                      *)
ParsesCondition(c) == ParsesSimple(c) \/ (c.tag \in LogicalTags /\ c.complete)

ParsesModality(m) == m \in ElemsOf(AllModalities) \cup {"All"}

(* The fields of a VqlQuery; aggregates and HAVING reach no plan.          *)
QueryFields == {"tag", "modalities", "source", "where", "proof", "group_by", "order_by", "limit",
                "offset", "projections"}

Conditions == [tag : STRING, modality : STRING, op : STRING, k : Nat, complete : BOOLEAN]
ProofTypes == {"existence", "citation", "access", "integrity", "provenance", "custom"}

(* VqlAst::from_json.                                                      *)
FromJson(q) ==
    /\ q.tag = "Query"
    /\ \A i \in DOMAIN q.modalities : ParsesModality(q.modalities[i])
    /\ \A i \in DOMAIN q.where : ParsesCondition(q.where[i])

(* resolve_modalities: All is expanded, duplicates dropped in order.       *)
ResolveModalities(ms) ==
    LET wide == Concat([i \in DOMAIN ms |-> IF ms[i] = "All" THEN AllModalities ELSE <<ms[i]>>])
    IN  KeptAt(wide, {i \in DOMAIN wide : \A j \in 1 .. i - 1 : wide[j] # wide[i]})

(* map_source: a Store of All has no planner modality.                     *)
MapsSource(src) == src.tag = "Store" => src.modality # "All"

(* map_simple_condition: the modality aimed at, or none for a broadcast.   *)
TargetOf(c) ==
    CASE c.tag = "FulltextContains" -> "document"
      [] c.tag = "VectorSimilar" -> "vector"
      [] c.tag = "GraphPattern" -> "graph"
      [] c.tag = "FieldCondition" -> IF c.modality = "All" THEN "none" ELSE c.modality
      [] c.tag \in {"ModalityDrift", "ModalityExists", "ModalityNotExists"} -> c.modality
      [] OTHER -> "none"

(* drift and existence of All are refused, a field of All is broadcast.    *)
MapsSimple(c) ==
    c.tag \in {"ModalityDrift", "ModalityExists", "ModalityNotExists"} => c.modality # "All"

Equalities == {"=", "==", "!=", "<>"}
Ranges == {">", ">=", "<", "<=", "BETWEEN"}

KindOf(c) ==
    CASE c.tag = "FulltextContains" -> "fulltext"
      [] c.tag = "VectorSimilar" -> "similarity"
      [] c.tag = "GraphPattern" -> "traversal"
      [] c.tag = "FieldCondition" /\ c.op \in Equalities -> "equality"
      [] c.tag = "FieldCondition" /\ c.op \in Ranges -> "range"
      [] OTHER -> "predicate"

(* What a ConditionKind still says of the condition: Equality and Range    *)
(* have the field and the value and no operator.                           *)
Carried(c) ==
    IF c.tag = "FieldCondition" /\ c.op \in Equalities \cup Ranges THEN [c EXCEPT !.op = "none"] ELSE c

ConditionsOn_TargetOnly(m, active, where) ==
    LET here == KeptAt(where, {i \in DOMAIN where : TargetOf(where[i]) \in {m, "none"}})
    IN  [i \in DOMAIN here |-> [kind |-> KindOf(here[i]), of |-> Carried(here[i])]]

(* flatten_conditions: what reaches the node of m.  A target outside the   *)
(* query's modalities becomes a predicate on every node.                   *)
ConditionsOn(m, active, where) ==
    LET here == KeptAt(where, {i \in DOMAIN where : TargetOf(where[i]) \in {m, "none"}
                                                    \/ TargetOf(where[i]) \notin active})
    IN  [i \in DOMAIN here |->
           [kind |-> IF TargetOf(here[i]) \notin active \cup {"none"} THEN "predicate"
                     ELSE KindOf(here[i]),
            of |-> Carried(here[i])]]

(* The proofs go to the bucket of Semantic; buckets become nodes for the   *)
(* query's modalities only.                                                *)
ProofsOn(m, proof) ==
    [i \in DOMAIN (IF m = "semantic" THEN proof ELSE <<>>) |-> [kind |-> "proof", of |-> proof[i]]]

(* build_projection_map: unqualified columns go to every node.             *)
ProjectionsOn(m, projections) == SelectSeq(projections, LAMBDA p : p.modality \in {m, "none"})

PostProcessing(q) ==
    (IF q.group_by THEN <<[op |-> "group_by", count |-> 0]>> ELSE <<>>)
    \o (IF q.order_by THEN <<[op |-> "order_by", count |-> 0]>> ELSE <<>>)
    \o (IF q.limit # NoLimit THEN <<[op |-> "limit", count |-> q.limit]>> ELSE <<>>)
    \o (IF q.offset = 0 THEN <<>>
        ELSE (IF q.limit = NoLimit THEN <<[op |-> "limit", count |-> MaxCount - q.offset]>> ELSE <<>>)
             \o <<[op |-> "offset", count |-> q.offset]>>)
    \o (IF ~q.group_by /\ q.projections # <<>> THEN <<[op |-> "project", count |-> 0]>> ELSE <<>>)

(* to_logical_plan.                                                        *)
Plans(q) ==
    /\ FromJson(q) /\ q.modalities # <<>> /\ MapsSource(q.source)
    /\ \A i \in DOMAIN q.where : MapsSimple(q.where[i])

ToLogicalPlan(q) ==
    LET ms == ResolveModalities(q.modalities)
        Node(m) == [modality |-> m,
                    conditions |-> ConditionsOn(m, ElemsOf(ms), q.where) \o ProofsOn(m, q.proof),
                    projections |-> ProjectionsOn(m, q.projections)]
    IN  [source |-> q.source,
         nodes |-> SortedBy([i \in DOMAIN ms |-> Node(ms[i])], [i \in DOMAIN ms |-> Priority[ms[i]]]),
         post |-> PostProcessing(q)]
=============================================================================
