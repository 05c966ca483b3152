----------------------------- MODULE CircuitRegistry -----------------------------
(***************************************************************************)
(* Custom proof circuits (verisim-semantic: circuit_compiler.rs,           *)
(* circuit_registry.rs, and generate_zkp_with_circuit of zkp_bridge.rs)    *)
(* and the verification keys federation peers exchange                     *)
(* (verification_keys.rs).  Wire values are 0 and 1.                       *)
(***************************************************************************)
EXTENDS Integers, Sequences, SequencesExt, FiniteSetsExt

CONSTANTS Definitions,   \* circuit definitions
          Names,         \* names circuits are registered under
          KeyBundles,    \* bound on the exported bundles
          MaxCircuitOps  \* bound on registrations and proofs

VARIABLES circuits,      \* CircuitRegistry::circuits: name -> compiled circuit
          proving,       \* the call of generate_zkp_with_circuit in progress
          replaced,      \* history: the circuit was unregistered between its two reads
          circuitOps,
          sourceKey,     \* the exporter's entry for one circuit: [version, key]
          bundles,       \* the bundles exported so far
          imported,      \* the importer's entry
          newest         \* history: the newest bundle imported, and whether in order

circuitVars == <<circuits, proving, replaced, circuitOps>>
keyVars == <<sourceKey, bundles, imported, newest>>

-----------------------------------------------------------------------------
(* Compilation                                                             *)

(* Wires are numbered in the order of the definition.                      *)
WireIndex(d, name) == CHOOSE i \in DOMAIN d.wires : d.wires[i].name = name

Known(d, name) == \E i \in DOMAIN d.wires : d.wires[i].name = name

Public(d) == {i \in DOMAIN d.wires : d.wires[i].public \/ d.wires[i].output}

(* The constant-one wire is no index of any assignment.                    *)
One == 0

Term(i, c) == <<i, c>>

XorFactor == 2

(* The R1CS constraint (sum a) * (sum b) = (sum c) of a gate.              *)
Constraint(d, g) ==
    LET in(k) == WireIndex(d, g.inputs[k])
        out == WireIndex(d, g.output)
    IN  CASE g.type \in {"and", "or"} -> [a |-> {Term(in(1), 1)}, b |-> {Term(in(2), 1)}, c |-> {Term(out, 1)}]
          [] g.type = "xor" -> [a |-> {Term(in(1), 1)}, b |-> {Term(in(2), XorFactor)},
                                c |-> {Term(in(1), 1), Term(in(2), 1), Term(out, -1)}]
          [] g.type = "not" -> [a |-> {Term(in(1), 1)}, b |-> {Term(One, 1)}, c |-> {Term(in(1), 1), Term(out, -1)}]
          [] g.type = "linear" -> [a |-> {Term(in(k), 1) : k \in DOMAIN g.inputs}, b |-> {Term(One, 1)}, c |-> {Term(out, 1)}]

(* The inputs a gate is compiled from.  AND and NOT refuse any other       *)
(* number; OR and XOR index the first two, panic when there are fewer and  *)
(* never look at the others.  Compilation holds no lock, so an error and a *)
(* panic both leave the registry as it was.                                *)
Arity(g) ==
    CASE g.type \in {"and", "or", "xor"} -> 2
      [] g.type = "not" -> 1
      [] g.type = "linear" -> Len(g.inputs)

Compiles(d) ==
    \A i \in DOMAIN d.gates :
        LET g == d.gates[i]
        IN  /\ Known(d, g.output)
            /\ g.type \in {"and", "not"} => Len(g.inputs) = Arity(g)
            /\ Len(g.inputs) >= Arity(g)
            /\ \A k \in 1..Arity(g) : Known(d, g.inputs[k])

CompileCircuit(d) ==
    [def |-> d, publicInputs |-> Cardinality(Public(d)), wires |-> Len(d.wires),
     constraints |-> [i \in DOMAIN d.gates |-> Constraint(d, d.gates[i])]]

(* eval_linear: a wire the assignment does not have counts as zero.        *)
EvalLinear(terms, v) == MapThenSumSet(LAMBDA t : IF t[1] \in DOMAIN v THEN t[2] * v[t[1]] ELSE 0, terms)

(* CompiledCircuit::verify: public inputs first, then the witness.         *)
VerifyCircuit(c, public, witness) ==
    LET v == public \o witness
    IN  /\ Len(public) = c.publicInputs /\ Len(witness) = c.wires - c.publicInputs
        /\ \A i \in DOMAIN c.constraints :
              LET k == c.constraints[i] IN EvalLinear(k.a, v) * EvalLinear(k.b, v) = EvalLinear(k.c, v)

-----------------------------------------------------------------------------
(* The registry                                                            *)

NotProving == [pc |-> "idle", name |-> "none", def |-> "none", constraints |-> 0]

CircuitInit == circuits = [n \in {} |-> {}] /\ proving = NotProving /\ replaced = FALSE /\ circuitOps = 0

CircuitOp == circuitOps < MaxCircuitOps /\ circuitOps' = circuitOps + 1

RegisterCircuit(n, d) ==
    /\ CircuitOp
    /\ Compiles(d)
    /\ n \notin DOMAIN circuits
    /\ circuits' = [x \in DOMAIN circuits \cup {n} |-> IF x = n THEN CompileCircuit(d) ELSE circuits[x]]
    /\ UNCHANGED <<proving, replaced>>

UnregisterCircuit(n) ==
    /\ CircuitOp
    /\ n \in DOMAIN circuits
    /\ circuits' = [x \in DOMAIN circuits \ {n} |-> circuits[x]]
    /\ replaced' = (replaced \/ (proving.pc = "verified" /\ proving.name = n))
    /\ UNCHANGED proving

(* generate_zkp_with_circuit: verify_with_circuit under one lock, then     *)
(* get_circuit under another for the number of constraints.                *)
ProvingVerifies(n) ==
    /\ CircuitOp
    /\ proving.pc = "idle"
    /\ n \in DOMAIN circuits
    /\ proving' = [pc |-> "verified", name |-> n, def |-> circuits[n].def.name, constraints |-> Len(circuits[n].constraints)]
    /\ replaced' = FALSE
    /\ UNCHANGED circuits

Checked(n) == IF n \in DOMAIN circuits THEN Len(circuits[n].constraints) ELSE 0

ProvingReturns ==
    /\ proving.pc = "verified"
    /\ proving' = [proving EXCEPT !.pc = IF Checked(proving.name) = proving.constraints THEN "same" ELSE "other"]
    /\ UNCHANGED <<circuits, replaced, circuitOps>>

ProvingDone ==
    /\ proving.pc \in {"same", "other"}
    /\ proving' = NotProving
    /\ UNCHANGED <<circuits, replaced, circuitOps>>

CircuitNext ==
    \/ \E n \in Names, d \in Definitions : RegisterCircuit(n, d)
    \/ \E n \in Names : UnregisterCircuit(n)
    \/ \E n \in Names : ProvingVerifies(n)
    \/ ProvingReturns \/ ProvingDone

-----------------------------------------------------------------------------
(* Verification keys: the n-th key of the source is n.                     *)

NoEntry == [version |-> 0, key |-> 0, previous |-> 0]

KeyInit == sourceKey = [NoEntry EXCEPT !.version = 1, !.key = 1] /\ bundles = <<>> /\ imported = NoEntry
           /\ newest = [key |-> 0, ordered |-> TRUE]

Rotate(e, k) == [version |-> e.version + 1, key |-> k, previous |-> e.key]

(* store_key for a circuit that has a key.                                 *)
StoreKey ==
    /\ sourceKey' = Rotate(sourceKey, sourceKey.key + 1)
    /\ sourceKey.key <= KeyBundles
    /\ UNCHANGED <<bundles, imported, newest>>

ExportKeys ==
    /\ Len(bundles) < KeyBundles
    /\ bundles' = Append(bundles, [key |-> sourceKey.key, version |-> sourceKey.version])
    /\ UNCHANGED <<sourceKey, imported, newest>>

Newer(e, b) == e.version < b.version

(* import_keys: a bundle may arrive late, again or never.  The first       *)
(* import starts the importer's own count at 1.                            *)
ImportKeys(b) ==
    /\ imported' = IF imported = NoEntry THEN [version |-> 1, key |-> b.key, previous |-> 0]
                   ELSE IF Newer(imported, b) THEN Rotate(imported, b.key) ELSE imported
    /\ newest' = [key |-> IF b.key > newest.key THEN b.key ELSE newest.key, ordered |-> newest.ordered /\ b.key >= newest.key]
    /\ UNCHANGED <<sourceKey, bundles>>

KeyNext == StoreKey \/ ExportKeys \/ \E b \in ToSet(bundles) : ImportKeys(b)

-----------------------------------------------------------------------------

Bits(n) == [1..n -> {0, 1}]

(* What the gates of a definition say of the values of its wires.          *)
GateHolds(d, g, v) ==
    LET in(k) == v[WireIndex(d, g.inputs[k])]
        out == v[WireIndex(d, g.output)]
    IN  CASE g.type = "and" -> out = in(1) * in(2)
          [] g.type = "or" -> out = in(1) + in(2) - in(1) * in(2)
          [] g.type = "xor" -> out = in(1) + in(2) - 2 * in(1) * in(2)
          [] g.type = "not" -> out = 1 - in(1)
          [] g.type = "linear" -> out = MapThenSumSet(LAMBDA k : in(k), DOMAIN g.inputs)

PublicFirst(d) == \A i, j \in DOMAIN d.wires : i < j /\ j \in Public(d) => i \in Public(d)

(* The values of some of the wires, in the order of the definition.        *)
Values(v, wires) == LET order == SetToSortSeq(wires, <) IN [k \in DOMAIN order |-> v[order[k]]]

VerifiesExactly(c) ==
    LET public == Public(c.def)
    IN  \A v \in Bits(c.wires) :
            VerifyCircuit(c, Values(v, public), Values(v, DOMAIN v \ public))
                = \A i \in DOMAIN c.def.gates : GateHolds(c.def, c.def.gates[i], v)

(* A registered circuit of AND and XOR gates, its public wires defined     *)
(* first, accepts exactly the wire values that satisfy its gates.  Of the  *)
(* other gates, and of wires in another order, that is not so: see         *)
(* GatesCompute and WiresInAnyOrder.                                       *)
CircuitsExact ==
    \A n \in DOMAIN circuits :
        LET d == circuits[n].def
        IN  PublicFirst(d) /\ (\A i \in DOMAIN d.gates : d.gates[i].type \in {"and", "xor"}) => VerifiesExactly(circuits[n])

(* The same of every gate type.                                            *)
GatesCompute == \A n \in DOMAIN circuits : PublicFirst(circuits[n].def) => VerifiesExactly(circuits[n])

(* The same of AND and XOR gates wherever the public wires are defined:    *)
(* compile_circuit numbers wires in the order of the definition, verify    *)
(* puts the public ones first.                                             *)
WiresInAnyOrder ==
    \A n \in DOMAIN circuits :
        LET d == circuits[n].def
        IN  (\A i \in DOMAIN d.gates : d.gates[i].type \in {"and", "xor"}) => VerifiesExactly(circuits[n])

(* The number of constraints reported with a proof is that of the circuit  *)
(* the witness was verified against, unless the name was unregistered      *)
(* between the two reads: a registered circuit is never overwritten.       *)
ResultIsOfOneCircuit == proving.pc = "other" => replaced

(* The same of every interleaving, which two separate reads do not give.   *)
ResultIsOfTheVerified == proving.pc # "other"

(* Once the newest bundle has been imported, and none after a newer one,   *)
(* the importer accepts proofs under the key the bundle carries, though    *)
(* the two sides count versions separately and bundles may be repeated.    *)
CurrentKeyAccepted ==
    newest.ordered /\ newest.key # 0 => imported.key = newest.key

(* The same for bundles in any order: an older bundle is skipped.  Not so, *)
(* for the importer's version counts its imports, not the source's keys.   *)
NewestKeyAccepted == newest.key # 0 => imported.key = newest.key
=============================================================================
