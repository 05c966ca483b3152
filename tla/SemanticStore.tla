------------------------------ MODULE SemanticStore ------------------------------
(***************************************************************************)
(* The semantic modality (verisim-semantic/src/lib.rs): an ontology of     *)
(* types with constraints, and annotations that must satisfy them.         *)
(* annotate validates under the lock of the types and stores under the     *)
(* lock of the annotations: two steps.                                     *)
(*                                                                         *)
(* The bridges of the same crate turn outside evidence into proof blobs:   *)
(* certificates of the proven library (proven_bridge.rs) and contracts on  *)
(* sanctify's reports (sanctify_bridge.rs).  A text is a sequence of       *)
(* characters, "sep" being the colon that the signature puts between its   *)
(* fields; SHA-256 is taken to be injective (external), so a signature is  *)
(* the text it is computed of.                                             *)
(***************************************************************************)
EXTENDS Naturals, Sequences, SequencesExt, FiniteSets, FiniteSetsExt

CONSTANTS TypeIris,      \* type IRIs
          TypeBodies,    \* sets of constraints a type may be registered with
          Annotations,   \* annotations callers submit: [entity, types, props]
          Annotators,    \* concurrent callers of annotate
          MaxSemanticOps

VARIABLES types,         \* IRI -> set of constraints
          annotations,   \* entity -> stored annotation
          annotating,    \* caller -> the call in progress
          unvalidated,   \* history: entity -> types registered since its annotation was validated
          semanticOps

semanticVars == <<types, annotations, annotating, unvalidated, semanticOps>>

Resting == [pc |-> "idle", since |-> {}]

SemanticInit ==
    /\ types = [t \in {} |-> {}] /\ annotations = [e \in {} |-> Resting]
    /\ annotating = [a \in Annotators |-> Resting] /\ unvalidated = [e \in {} |-> {}] /\ semanticOps = 0

SemanticOp == semanticOps < MaxSemanticOps /\ semanticOps' = semanticOps + 1

(* A required property must be there; a pattern is matched against typed   *)
(* literals only, and only when its expression compiles.  Ranges and       *)
(* custom constraints are not looked at.                                   *)
Violates(c, props) ==
    \/ c.kind = "required" /\ c.property \notin DOMAIN props
    \/ c.kind = "pattern" /\ c.property \in DOMAIN props /\ props[c.property].typed
        /\ c.compiles /\ props[c.property].value \notin c.matches

Violations_FirstType(ann) ==
    {c \in UNION {types[t] : t \in {Head(ann.types)} \cap DOMAIN types} : Violates(c, ann.props)}

(* validate: a type that is not registered constrains nothing.             *)
Violations(ann) ==
    {c \in UNION {types[t] : t \in ToSet(ann.types) \cap DOMAIN types} : Violates(c, ann.props)}

(* Registering a type again replaces it.  Annotations are not revisited.   *)
RegisterType(t, body) ==
    /\ SemanticOp
    /\ types' = [x \in DOMAIN types \cup {t} |-> IF x = t THEN body ELSE types[x]]
    /\ annotating' = [a \in Annotators |-> IF annotating[a].pc = "valid" THEN [annotating[a] EXCEPT !.since = @ \cup {t}]
                                           ELSE annotating[a]]
    /\ unvalidated' = [e \in DOMAIN unvalidated |-> unvalidated[e] \cup {t}]
    /\ UNCHANGED annotations

AnnotateValidates(a, ann) ==
    /\ SemanticOp
    /\ annotating[a] = Resting
    /\ Violations(ann) = {}
    /\ annotating' = [annotating EXCEPT ![a] = [pc |-> "valid", since |-> {}, ann |-> ann]]
    /\ UNCHANGED <<types, annotations, unvalidated>>

AnnotateStores(a) ==
    LET k == annotating[a]
        e == k.ann.entity
    IN  /\ k.pc = "valid"
        /\ annotations' = [x \in DOMAIN annotations \cup {e} |-> IF x = e THEN k.ann ELSE annotations[x]]
        /\ unvalidated' = [x \in DOMAIN unvalidated \cup {e} |-> IF x = e THEN k.since ELSE unvalidated[x]]
        /\ annotating' = [annotating EXCEPT ![a] = Resting]
        /\ UNCHANGED <<types, semanticOps>>

SemanticNext ==
    \/ \E t \in TypeIris, b \in TypeBodies : RegisterType(t, b)
    \/ \E a \in Annotators, n \in Annotations : AnnotateValidates(a, n)
    \/ \E a \in Annotators : AnnotateStores(a)

-----------------------------------------------------------------------------

(* A stored annotation satisfies every type it names, but for the types    *)
(* that were registered or replaced after its validation.                  *)
AnnotationsValid ==
    \A e \in DOMAIN annotations : \A t \in (ToSet(annotations[e].types) \cap DOMAIN types) \ unvalidated[e] :
        \A c \in types[t] : ~Violates(c, annotations[e].props)

-----------------------------------------------------------------------------
(* The bridges                                                             *)

CONSTANTS Texts,           \* texts of provers, statements and proof terms
          Severities,      \* all severities; "critical" and "high" are flagged
          MaxIssues,
          MaxBridgeOps

VARIABLES certificates,    \* certificates created or received
          corrupted,       \* history: received certificate -> the one that was sent
          contracts,       \* contracts bound to hexads
          bridgeOps

bridgeVars == <<certificates, corrupted, contracts, bridgeOps>>

BridgesInit == certificates = {} /\ corrupted = {} /\ contracts = {} /\ bridgeOps = 0

BridgeOp == bridgeOps < MaxBridgeOps /\ bridgeOps' = bridgeOps + 1

ComputeSignature(c) == c.prover \o <<"sep">> \o c.statement \o <<"sep">> \o c.term

(* create_certificate; a missing proof term counts as an empty one.        *)
CreateCertificate(prover, statement, term, valid) ==
    /\ BridgeOp
    /\ LET c == [prover |-> prover, statement |-> statement, term |-> term, valid |-> valid,
                 version |-> "1.0", time |-> "ok", signature |-> <<>>]
       IN  certificates' = certificates \cup {[c EXCEPT !.signature = ComputeSignature(c)]}
    /\ UNCHANGED <<corrupted, contracts>>

(* verify_proven_certificate: an error, or the answer.                     *)
VerifyCertificate(c) ==
    CASE c.version # "1.0" -> "error"
      [] c.version = "1.0" /\ c.signature # ComputeSignature(c) -> "false"
      [] c.version = "1.0" /\ c.signature = ComputeSignature(c) /\ c.time # "ok" -> "error"
      [] OTHER -> IF c.valid THEN "true" ELSE "false"

(* certificate_to_proof_blob keeps the statement as the claim and the      *)
(* whole certificate as the data; parsing gives the certificate back.      *)
ToProofBlob(c) == [claim |-> c.statement, type |-> "attestation", data |-> c]
ParseCertificate(blob) == blob.data

(* A stored certificate is read back with other fields than it was sent    *)
(* with.                                                                   *)
Corrupt(c, prover, statement, term) ==
    /\ BridgeOp
    /\ LET d == [c EXCEPT !.prover = prover, !.statement = statement, !.term = term]
       IN  d # c /\ corrupted' = corrupted \cup {[sent |-> c, received |-> ParseCertificate(ToProofBlob(d))]}
    /\ UNCHANGED <<certificates, contracts>>

-----------------------------------------------------------------------------

Count(issues, s) == Cardinality({i \in DOMAIN issues : issues[i] = s})

(* IssueSummary::from_issues.                                              *)
FromIssues(issues) == [s \in Severities |-> Count(issues, s)]

Total(summary) == MapThenSumSet(LAMBDA s : summary[s], Severities)

(* bind_contract_to_hexad: the flags are read off the summary.  named says *)
(* whether the contract id and the hexad id are both non-empty.            *)
BindContract(issues, summary, named) ==
    /\ BridgeOp
    /\ contracts' = contracts \cup {[issues |-> issues, summary |-> summary, named |-> named, bound |-> TRUE,
                                     criticalResolved |-> summary["critical"] = 0, highResolved |-> summary["high"] = 0]}
    /\ UNCHANGED <<certificates, corrupted>>

(* A contract may also come from a client with flags of its own.           *)
ReceiveContract(issues, summary, critical, high) ==
    /\ BridgeOp
    /\ contracts' = contracts \cup {[issues |-> issues, summary |-> summary, named |-> TRUE, bound |-> FALSE,
                                     criticalResolved |-> critical, highResolved |-> high]}
    /\ UNCHANGED <<certificates, corrupted>>

(* An empty id is an error; of the summary only the total is compared with *)
(* the issues.                                                             *)
ValidateContract(c) ==
    IF ~c.named \/ Total(FromIssues(c.issues)) # Total(c.summary) THEN "error"
    ELSE IF \/ c.criticalResolved /\ c.summary["critical"] > 0
            \/ c.highResolved /\ c.summary["high"] > 0
         THEN "false" ELSE "true"

Reports == UNION {[1..n -> Severities] : n \in 0..MaxIssues}
(* The computed summary, an empty one, and one that plays every issue down.*)
Summaries(issues) ==
    {FromIssues(issues), [s \in Severities |-> 0], [s \in Severities |-> IF s = "low" THEN Len(issues) ELSE 0]}

BridgesNext ==
    \/ \E p, s, t \in Texts, valid \in BOOLEAN : CreateCertificate(p, s, t, valid)
    \/ \E c \in certificates, p, s, t \in Texts : Corrupt(c, p, s, t)
    \/ \E r \in Reports : \E m \in Summaries(r), named \in BOOLEAN : BindContract(r, m, named)
    \/ \E r \in Reports, critical, high \in BOOLEAN : \E m \in Summaries(r) : ReceiveContract(r, m, critical, high)

-----------------------------------------------------------------------------

Plain(c) == "sep" \notin ToSet(c.statement) \cup ToSet(c.term)

(* A certificate made here verifies as what it says, and one that comes    *)
(* back with another prover, statement or proof term never verifies as     *)
(* valid, as long as statements and terms hold no colon.                   *)
SignatureBinds ==
    /\ \A c \in certificates : VerifyCertificate(c) = IF c.valid THEN "true" ELSE "false"
    /\ \A x \in corrupted : Plain(x.sent) /\ Plain(x.received) => VerifyCertificate(x.received) # "true"

(* A contract that validates is named and claims nothing resolved that its *)
(* report still lists, and every named contract bound here validates, when *)
(* the summary of the report was computed from its issues; no contract     *)
(* whose summary has another total validates.                              *)
ContractsHonest ==
    \A c \in contracts :
        /\ c.summary = FromIssues(c.issues) =>
              /\ ValidateContract(c) = "true" =>
                    /\ c.named
                    /\ c.criticalResolved => "critical" \notin ToSet(c.issues)
                    /\ c.highResolved => "high" \notin ToSet(c.issues)
              /\ c.bound /\ c.named => ValidateContract(c) = "true"
        /\ ValidateContract(c) # "error" => Total(c.summary) = Len(c.issues)

(* The same without the condition: a summary of the right total and wrong  *)
(* counts passes, and hides the severity of the issues.                    *)
SummariesMatch == \A c \in contracts : ValidateContract(c) = "true" => c.summary = FromIssues(c.issues)
=============================================================================
