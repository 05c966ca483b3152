-------------------------------- MODULE MCStores --------------------------------
(* The modality stores and the key-value layer, one of which moves in each *)
(* behaviour.                                                              *)
EXTENDS ProvenanceStore, VersionStore, VectorIndex, GraphStore, ZkpBridge, CircuitRegistry,
        SemanticStore, DocumentStore, StorageBackend, SpatialStore, TensorStore,
        SchemaRegistry

VARIABLE focus

mcPoints == [v \in {"v1", "v2", "v3", "v4"} |->
    CASE v = "v1" -> {0} [] v = "v2" -> {1} [] v = "v3" -> {4} [] v = "v4" -> {6, 20}]

Wire(n, public, output) == [name |-> n, public |-> public, output |-> output]
Gate(type, ins, out) == [type |-> type, inputs |-> ins, output |-> out]

mcWires == <<Wire("p", TRUE, FALSE), Wire("q", TRUE, FALSE), Wire("out", FALSE, TRUE), Wire("w", FALSE, FALSE)>>
mcAndXor == [name |-> "and xor", wires |-> mcWires,
             gates |-> <<Gate("and", <<"p", "q">>, "w"), Gate("xor", <<"w", "q">>, "out")>>]
mcXor == [name |-> "xor", wires |-> mcWires, gates |-> <<Gate("xor", <<"p", "w">>, "out")>>]
mcUnwired == [name |-> "unwired", wires |-> mcWires, gates |-> <<Gate("and", <<"p", "z">>, "out")>>]
mcThreeWay == [name |-> "three way", wires |-> mcWires, gates |-> <<Gate("and", <<"p", "q", "w">>, "out")>>]
mcOneWay == [name |-> "one way", wires |-> mcWires, gates |-> <<Gate("xor", <<"p">>, "out")>>]
mcSurplus == [name |-> "surplus", wires |-> mcWires, gates |-> <<Gate("xor", <<"q", "w", "z">>, "out")>>]
mcWitnessFirst == [name |-> "witness first", wires |-> Reverse(mcWires), gates |-> <<Gate("and", <<"p", "q">>, "out")>>]
mcDefinitions == {mcAndXor, mcXor, mcUnwired, mcThreeWay, mcOneWay, mcSurplus, mcWitnessFirst}
mcOr == [name |-> "or", wires |-> mcWires, gates |-> <<Gate("or", <<"p", "q">>, "out")>>]
mcNot == [name |-> "not", wires |-> mcWires, gates |-> <<Gate("not", <<"p">>, "out")>>]
mcAllGates == {mcAndXor, mcOr, mcNot}

Required(p) == [kind |-> "required", property |-> p]
Pattern(p, ok) == [kind |-> "pattern", property |-> p, compiles |-> ok, matches |-> {"good"}]
Lit(v, typed) == [value |-> v, typed |-> typed]
mcTypeBodies == {{}, {Required("name")}, {Required("name"), Pattern("code", TRUE)}, {Pattern("code", FALSE)}}
mcAnnotations ==
    {[entity |-> "e1", types |-> <<"T", "U">>, props |-> [name |-> Lit("bad", FALSE)]],
     [entity |-> "e1", types |-> <<"T", "U">>, props |-> [code |-> Lit("bad", TRUE)]],
     [entity |-> "e2", types |-> <<"T", "U">>, props |-> [name |-> Lit("good", TRUE), code |-> Lit("good", TRUE)]]}

mcPlaces == {<<0, 3>>, <<0, -3>>, <<-1, 1>>, <<1, -2>>, <<2, 0>>, <<0, 4>>}
mcBox(south, west, north, east) == [minLat |-> south, minLon |-> west, maxLat |-> north, maxLon |-> east]
mcBoxes == {mcBox(-1, -3, 1, 1), mcBox(-1, -3, 1, -1), mcBox(0, 2, 0, 4), mcBox(1, 0, -1, 0)}
mcElements == {-1, 2}
mcShapes == {<<2>>, <<2, 1>>, <<2, 1, 2>>, <<0, 2>>}

mcTexts == {<<>>, <<"a">>, <<"a", "sep", "a">>}

mcBody(supers, constraints) == [supertypes |-> supers, constraints |-> constraints]
mcAge == [kind |-> "range", property |-> "age", min |-> 1, max |-> 5]
mcCode == [kind |-> "pattern", property |-> "code", matches |-> {"good"}]
mcUnique == [kind |-> "unique", property |-> "code"]
mcSchemaBodies ==
    {mcBody(s, {}) : s \in {<<>>, <<"Entity">>, <<"A">>, <<"B", "C">>, <<"C", "A">>, <<"A", "Document">>}}
      \cup {mcBody(<<"B">>, {mcAge, mcUnique}), mcBody(<<"Document", "C">>, {mcAge, mcCode})}
mcSchemaEntities ==
    {[types |-> {"A", "Document"}, properties |-> [title |-> <<"text", "good">>, age |-> <<"number", 9>>]],
     [types |-> {"B", "C"}, properties |-> [age |-> <<"text", "bad">>, code |-> <<"text", "bad">>]],
     [types |-> {"C"}, properties |-> [code |-> <<"number", 1>>]]}

mcNamespaces == {<<1>>, <<1, 2>>}
mcLogicalKeys == {<<2>>, <<2, 3>>}

vars == <<focus, provVars, versionVars, vectorVars, graphVars, zkpVars, circuitVars, keyVars,
          semanticVars, docVars, storageVars, spatialVars, tensorVars, bridgeVars, schemaTypes>>

Init ==
    /\ focus \in {"provenance", "versions", "vectors", "graph", "proofs", "circuits", "keys", "semantic", "documents", "storage", "spatial", "tensors", "bridges", "schema"}
    /\ ProvInit /\ VersionInit /\ VectorInit /\ GraphInit /\ ZkpInit /\ CircuitInit /\ KeyInit
    /\ SemanticInit /\ DocInit /\ StorageInit /\ SpatialInit /\ TensorInit /\ BridgesInit /\ SchemaInit
    /\ focus # "graph" => backend = "simple"
    /\ focus # "storage" => engine = "memory"

Next ==
    /\ UNCHANGED focus
    /\ \/ focus = "provenance" /\ ProvNext
       \/ focus = "versions" /\ VersionNext
       \/ focus = "vectors" /\ VectorNext
       \/ focus = "graph" /\ GraphNext
       \/ focus = "proofs" /\ ZkpNext
       \/ focus = "circuits" /\ CircuitNext
       \/ focus = "keys" /\ KeyNext
       \/ focus = "semantic" /\ SemanticNext
       \/ focus = "documents" /\ DocNext
       \/ focus = "storage" /\ StorageNext
       \/ focus = "spatial" /\ SpatialNext
       \/ focus = "tensors" /\ TensorNext
       \/ focus = "bridges" /\ BridgesNext
       \/ focus = "schema" /\ SchemaNext
    /\ focus # "provenance" => UNCHANGED provVars
    /\ focus # "versions" => UNCHANGED versionVars
    /\ focus # "vectors" => UNCHANGED vectorVars
    /\ focus # "graph" => UNCHANGED graphVars
    /\ focus # "proofs" => UNCHANGED zkpVars
    /\ focus # "circuits" => UNCHANGED circuitVars
    /\ focus # "keys" => UNCHANGED keyVars
    /\ focus # "semantic" => UNCHANGED semanticVars
    /\ focus # "documents" => UNCHANGED docVars
    /\ focus # "storage" => UNCHANGED storageVars
    /\ focus # "spatial" => UNCHANGED spatialVars
    /\ focus # "tensors" => UNCHANGED tensorVars
    /\ focus # "bridges" => UNCHANGED bridgeVars
    /\ focus # "schema" => UNCHANGED schemaTypes

Spec == Init /\ [][Next]_vars

-----------------------------------------------------------------------------

(* What was recorded stays what it was: lineages verify and show every     *)
(* change, later moments answer with later versions, ranges that meet      *)
(* split their versions, and a diff stays true, wherever the clock moves.  *)
HistoriesSound ==
    /\ LineageVerifies /\ TamperEvident
    /\ AtTimeMonotone /\ RangesPartition /\ DiffIsCurrent

(* A search returns what is stored: the HNSW graph is well formed, returns *)
(* live nodes nearest first and agrees with brute force where it has room; *)
(* radius, nearest and box searches agree with one another around the      *)
(* antimeridian.                                                           *)
SearchesSound ==
    /\ LayersNested /\ ResultsLive /\ ExactWhenRoomy
    /\ RadiusAgreesWithNearest /\ BoxesCoverTheWorld

(* Structures that are updated in several steps agree with one another     *)
(* when no step is pending: edges and their indexes (in the in-memory      *)
(* graph, edges an insert and a delete have not worked on at once), walks  *)
(* and the edges they followed, namespaces that share a backend, bytes     *)
(* written with bytes stored, and the full-text index with the map of the  *)
(* documents (exactly for ids of one token; for all others the index has   *)
(* the present revision among older ones).                                 *)
IndexesSound ==
    /\ IndexesAgree /\ WalkJustified /\ ScanIsOwnNamespace /\ WrittenCoversStored
    /\ SearchAgreesWithGet /\ NothingUnsearchable

(* Proofs show what they were asked to: those of true requests verify,     *)
(* public and private ones for no other claim, and a root commits to its   *)
(* leaves up to padding (not that the claim is a leaf: ClaimIsMember);     *)
(* circuits of AND and XOR gates accept exactly what satisfies them; a     *)
(* proof's report and an imported key are the right ones unless the        *)
(* circuit was replaced meanwhile or an older bundle came late; signatures *)
(* bind texts without colons; contracts whose summary was computed from    *)
(* their issues are honest.                                                *)
ProofsSound ==
    /\ ProofsComplete /\ ProofsBindClaim /\ MembershipSound /\ RootCommits
    /\ CircuitsExact /\ ResultIsOfOneCircuit /\ CurrentKeyAccepted
    /\ SignatureBinds /\ ContractsHonest

(* Stored annotations satisfy their types, though validation and insertion *)
(* take different locks, and a type hierarchy is exactly the ancestors, in *)
(* whatever order, and with whatever cycles, types were registered.        *)
TypesSound == AnnotationsValid /\ HierarchyIsClosure

(* Tensors keep their layout through any sequence of maps and reductions:  *)
(* axes commute, maximum and minimum are dual, and only the mean of an     *)
(* empty axis panics.                                                      *)
TensorsSound == ReductionsCommute /\ MaxMinDual /\ PanicsOnlyOnEmptyMean
=============================================================================
