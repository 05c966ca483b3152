---------------------------- MODULE SchemaRegistry ----------------------------
(***************************************************************************)
(* The schema registry (schema_registry.ex): one process with the types    *)
(* registered so far.  Types are never checked against one another when    *)
(* they are registered: a supertype may be unknown, come later or close a  *)
(* cycle.  Reads are operators; type_cache is emptied and never filled, so *)
(* it is left out, and so are labels and messages.  A property's value is  *)
(* <<"number", n>> or <<"text", t>>; a pattern is the set of matching t.   *)
(***************************************************************************)
EXTENDS Naturals, Sequences, SequencesExt, FiniteSets

CONSTANTS SchemaIris,      \* iris users register
          SchemaBodies,    \* [supertypes, constraints]
          SchemaEntities   \* entities to validate: [types, properties]

ASSUME SchemaAssumption == \A b \in SchemaBodies : b.supertypes \in Seq(ToSet(b.supertypes))

VARIABLE schemaTypes       \* types: iri -> definition

(* register_builtin_types; Node and TimeSeries are like Entity with one    *)
(* supertype and add nothing to it.                                        *)
BuiltinTypes ==
    [Entity |-> [supertypes |-> <<>>, constraints |-> {}],
     Document |-> [supertypes |-> <<"Entity">>,
                   constraints |-> {[kind |-> "required", property |-> "title"]}]]

SchemaInit == schemaTypes = BuiltinTypes

SchemaRegister(iri, body) ==
    /\ iri \notin DOMAIN schemaTypes
    /\ schemaTypes' = [i \in DOMAIN schemaTypes \cup {iri} |-> IF i = iri THEN body ELSE schemaTypes[i]]

-----------------------------------------------------------------------------

Joined(lists) ==
    LET Join[i \in 0..Len(lists)] == IF i = 0 THEN <<>> ELSE Join[i - 1] \o lists[i] IN Join[Len(lists)]

SchemaNames == DOMAIN schemaTypes \cup UNION {ToSet(schemaTypes[t].supertypes) : t \in DOMAIN schemaTypes}

(* One call of compute_hierarchy, given what the calls it makes return:    *)
(* path holds the types on the way here, not all that were met, so a       *)
(* diamond lists its top twice.                                            *)
HierarchyCall(below, path, t) ==
    IF t \in path \/ t \notin DOMAIN schemaTypes THEN <<>>
    ELSE LET supers == schemaTypes[t].supertypes
         IN  <<t>> \o Joined([i \in DOMAIN supers |-> below[path \cup {t}][supers[i]]])

(* The calls by their depth: each puts one more type on the path.          *)
HierarchyCalls ==
    LET Call[n \in 0..Cardinality(DOMAIN schemaTypes)] ==
            [path \in SUBSET DOMAIN schemaTypes |-> [t \in SchemaNames |->
                IF n = 0 THEN <<>> ELSE HierarchyCall(Call[n - 1], path, t)]]
    IN  Call[Cardinality(DOMAIN schemaTypes)]

ComputeHierarchy(iri, visited) == IF iri \in SchemaNames THEN HierarchyCalls[visited][iri] ELSE <<>>

TypeHierarchy(iri) == ToSet(ComputeHierarchy(iri, {}))

(* validate_constraint: a property that is absent offends "required" only, *)
(* and a range says nothing about what is not a number.  A constraint of   *)
(* another kind, and one without kind or message, offends always.          *)
Offends(c, properties) ==
    CASE c.kind = "required" -> c.property \notin DOMAIN properties
      [] c.kind = "pattern" -> /\ c.property \in DOMAIN properties
                               /\ properties[c.property][1] = "text"
                               /\ properties[c.property][2] \notin c.matches
      [] c.kind = "range" -> /\ c.property \in DOMAIN properties
                             /\ properties[c.property][1] = "number"
                             /\ properties[c.property][2] \notin c.min..c.max
      [] OTHER -> TRUE

(* validate: the declared types that are registered, not their supertypes. *)
SchemaChecks(entity) == UNION {schemaTypes[t].constraints : t \in entity.types \cap DOMAIN schemaTypes}

SchemaViolations(entity) == {c \in SchemaChecks(entity) : Offends(c, entity.properties)}

(* Regex.match? raises for a number: the registry dies, and its supervisor *)
(* starts one that knows the built-in types only.                          *)
ValidateRaises(entity) ==
    /\ \E c \in SchemaChecks(entity) :
         /\ c.kind = "pattern" /\ c.property \in DOMAIN entity.properties
         /\ entity.properties[c.property][1] = "number"
    /\ schemaTypes' = BuiltinTypes

SchemaNext ==
    \/ \E iri \in SchemaIris, body \in SchemaBodies : SchemaRegister(iri, body)
    \/ \E entity \in SchemaEntities : ValidateRaises(entity)

-----------------------------------------------------------------------------

(* The registered types that a chain of registered types leads to: the    *)
(* members of every set that has the type and, with a type, its            *)
(* supertypes.                                                             *)
ClosedUpwards(S) == \A s \in S : ToSet(schemaTypes[s].supertypes) \cap DOMAIN schemaTypes \subseteq S
Ancestors(iri) ==
    {t \in DOMAIN schemaTypes : \A S \in SUBSET DOMAIN schemaTypes : iri \in S /\ ClosedUpwards(S) => t \in S}

(* Whatever was registered in whatever order, cycles and types that are    *)
(* not known yet included, type_hierarchy returns exactly the ancestors,   *)
(* with the type itself first and once.                                    *)
HierarchyIsClosure ==
    \A iri \in SchemaIris \cap DOMAIN schemaTypes :
        LET h == ComputeHierarchy(iri, {}) IN
        /\ ToSet(h) = Ancestors(iri)
        /\ h[1] = iri /\ \A i \in 2..Len(h) : h[i] # iri
=============================================================================
