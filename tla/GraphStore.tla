------------------------------- MODULE GraphStore -------------------------------
(***************************************************************************)
(* The graph modality (verisim-graph): triples with a subject and an       *)
(* object index.  SimpleGraphStore (lib.rs) keeps the three maps behind    *)
(* three locks and updates them one after the other; RedbGraphStore        *)
(* (redb_backend.rs) updates its three tables in one write transaction.    *)
(* A walk of the neighbourhood reads the store node by node.               *)
(***************************************************************************)
EXTENDS Naturals, Sequences, SequencesExt, FiniteSets

CONSTANTS Iris,            \* node IRIs
          Literals,        \* literal values
          GraphCallers,    \* concurrent callers of insert and delete
          MaxGraphOps,     \* bound on their calls
          Hops             \* the radius of a walk

ASSUME HopsAssumption == Hops \in Nat

VARIABLES backend,         \* "simple" or "redb"
          triples,         \* the stored edges
          subjectIdx,      \* <<subject IRI, edge>> entries
          objectIdx,       \* <<object IRI, edge>> entries, node objects only
          calls,           \* caller -> the call in progress
          walk,            \* the walk in progress
          graphOps,
          contested,       \* history: edges an insert and a delete worked on at once
          during           \* history: every edge stored at some time of the walk

graphVars == <<backend, triples, subjectIdx, objectIdx, calls, walk, graphOps, contested, during>>

(* TripleKey, triple_key: the datatype of a literal is not part of the     *)
(* key, so an edge of the model is its key.                                *)
Nodes == [kind : {"node"}, name : Iris]
GraphEdges == [subject : Iris, object : Nodes \cup [kind : {"literal"}, name : Literals]]

HasNode(e) == e.object.kind = "node"

NoCall == [op |-> "none", pc |-> "idle"]
NoWalk == [active |-> FALSE, from |-> "none", left |-> 0, frontier |-> <<>>, next |-> <<>>, visited |-> {}, turn |-> "out", still |-> TRUE]

GraphInit ==
    /\ backend \in {"simple", "redb"}
    /\ triples = {} /\ subjectIdx = {} /\ objectIdx = {}
    /\ calls = [c \in GraphCallers |-> NoCall]
    /\ walk = NoWalk /\ graphOps = 0 /\ contested = {} /\ during = {}

Overlaps(c, op, e) ==
    \E d \in GraphCallers \ {c} : calls[d] # NoCall /\ calls[d].edge = e /\ calls[d].op # op

Start(c, op, e) ==
    /\ calls[c] = NoCall
    /\ graphOps < MaxGraphOps
    /\ graphOps' = graphOps + 1
    /\ calls' = [calls EXCEPT ![c] = [op |-> op, pc |-> IF backend = "redb" THEN "commit" ELSE "subject", edge |-> e]]
    /\ contested' = IF Overlaps(c, op, e) THEN contested \cup {e} ELSE contested
    /\ walk' = [walk EXCEPT !.still = @ /\ ~walk.active]
    /\ UNCHANGED <<backend, triples, subjectIdx, objectIdx, during>>

Put(op, S, x) == IF op = "insert" THEN S \cup {x} ELSE S \ {x}

(* The subject index under its own lock.                                   *)
SubjectStep(c) ==
    LET k == calls[c]
    IN  /\ k.pc = "subject"
        /\ subjectIdx' = Put(k.op, subjectIdx, <<k.edge.subject, k.edge>>)
        /\ calls' = [calls EXCEPT ![c].pc = IF HasNode(k.edge) THEN "object" ELSE "edges"]
        /\ UNCHANGED <<backend, triples, objectIdx, walk, graphOps, contested, during>>

ObjectStep_Skipped(c) ==
    LET k == calls[c]
    IN  /\ k.pc = "object"
        /\ objectIdx' = IF k.op = "insert" THEN Put(k.op, objectIdx, <<k.edge.object.name, k.edge>>) ELSE objectIdx
        /\ calls' = [calls EXCEPT ![c].pc = "edges"]
        /\ UNCHANGED <<backend, triples, subjectIdx, walk, graphOps, contested, during>>

ObjectStep(c) ==
    LET k == calls[c]
    IN  /\ k.pc = "object"
        /\ objectIdx' = Put(k.op, objectIdx, <<k.edge.object.name, k.edge>>)
        /\ calls' = [calls EXCEPT ![c].pc = "edges"]
        /\ UNCHANGED <<backend, triples, subjectIdx, walk, graphOps, contested, during>>

Written(k) ==
    /\ triples' = Put(k.op, triples, k.edge)
    /\ during' = IF walk.active THEN during \cup triples' ELSE during

EdgesStep(c) ==
    /\ calls[c].pc = "edges"
    /\ Written(calls[c])
    /\ calls' = [calls EXCEPT ![c] = NoCall]
    /\ UNCHANGED <<backend, subjectIdx, objectIdx, walk, graphOps, contested>>

(* redb: one write transaction over the three tables; begin_write admits   *)
(* one writer at a time.                                                   *)
CommitTables(c) ==
    LET k == calls[c]
    IN  /\ k.pc = "commit"
        /\ Written(k)
        /\ subjectIdx' = Put(k.op, subjectIdx, <<k.edge.subject, k.edge>>)
        /\ objectIdx' = IF HasNode(k.edge) THEN Put(k.op, objectIdx, <<k.edge.object.name, k.edge>>) ELSE objectIdx
        /\ calls' = [calls EXCEPT ![c] = NoCall]
        /\ UNCHANGED <<backend, walk, graphOps, contested>>

(* Entries of an index whose edge is gone are filtered out.                *)
Outgoing(n) == {e \in triples : <<n, e>> \in subjectIdx}
Incoming(n) == {e \in triples : <<n, e>> \in objectIdx}

NodesOut(n) == {e.object.name : e \in {d \in Outgoing(n) : HasNode(d)}}

NodesIn(n) == {e.subject : e \in Incoming(n)}

(* neighborhood: for each node of the frontier one call of outgoing and    *)
(* one of incoming, then the next hop with the nodes seen first.           *)
WalkStarts(n) ==
    /\ ~walk.active
    /\ walk' = [active |-> TRUE, from |-> n, left |-> Hops, frontier |-> <<n>>, next |-> <<>>, visited |-> {n},
                turn |-> "out", still |-> \A c \in GraphCallers : calls[c] = NoCall]
    /\ during' = triples
    /\ UNCHANGED <<backend, triples, subjectIdx, objectIdx, calls, graphOps, contested>>

WalkVisits ==
    /\ walk.active /\ walk.left > 0 /\ walk.frontier # <<>>
    /\ LET n == walk.frontier[1]
           found == (IF walk.turn = "out" THEN NodesOut(n) ELSE NodesIn(n)) \ walk.visited
       IN  walk' = [walk EXCEPT !.frontier = IF walk.turn = "out" THEN @ ELSE Tail(@),
                                !.turn = IF @ = "out" THEN "in" ELSE "out",
                                !.next = @ \o SetToSeq(found), !.visited = @ \cup found]
    /\ UNCHANGED <<backend, triples, subjectIdx, objectIdx, calls, graphOps, contested, during>>

WalkHops ==
    /\ walk.active /\ walk.left > 0 /\ walk.frontier = <<>>
    /\ walk' = [walk EXCEPT !.left = @ - 1, !.frontier = walk.next, !.next = <<>>]
    /\ UNCHANGED <<backend, triples, subjectIdx, objectIdx, calls, graphOps, contested, during>>

WalkReturns ==
    /\ walk.active /\ walk.left = 0
    /\ walk' = NoWalk /\ during' = {}
    /\ UNCHANGED <<backend, triples, subjectIdx, objectIdx, calls, graphOps, contested>>

GraphNext ==
    \/ \E c \in GraphCallers, op \in {"insert", "delete"}, e \in GraphEdges : Start(c, op, e)
    \/ \E c \in GraphCallers : SubjectStep(c) \/ ObjectStep(c) \/ EdgesStep(c) \/ CommitTables(c)
    \/ \E n \in Iris : WalkStarts(n)
    \/ WalkVisits \/ WalkHops \/ WalkReturns

-----------------------------------------------------------------------------

Quiet(e) == \A c \in GraphCallers : calls[c] = NoCall \/ calls[c].edge # e

(* An edge no call is working on is in the store exactly when the indexes  *)
(* name it.  In redb, with one transaction, always; in the in-memory       *)
(* store, with three locks, as long as an insert and a delete of the edge  *)
(* have never overlapped (EdgesFound is what that loses).                  *)
IndexesAgree ==
    \A e \in GraphEdges : Quiet(e) /\ (backend = "simple" => e \notin contested) =>
        /\ (e \in triples) = (<<e.subject, e>> \in subjectIdx)
        /\ HasNode(e) => (e \in triples) = (<<e.object.name, e>> \in objectIdx)

(* Every stored edge that no call is working on is found from its subject  *)
(* and its object.  Not so in the in-memory store: a delete that overlaps  *)
(* an insert can empty the indexes and still leave the edge.               *)
EdgesFound ==
    \A e \in triples : Quiet(e) =>
        /\ <<e.subject, e>> \in subjectIdx
        /\ HasNode(e) => <<e.object.name, e>> \in objectIdx

(* The nodes that edges, taken as undirected, connect with S.              *)
Near(E, S) ==
    S \cup {e.object.name : e \in {d \in E : HasNode(d) /\ d.subject \in S}}
      \cup {e.subject : e \in {d \in E : HasNode(d) /\ d.object.name \in S}}

(* The nodes within a number of hops.                                      *)
Ball(E, n, h) ==
    LET reach[i \in 0..h] == IF i = 0 THEN {n} ELSE Near(E, reach[i - 1]) IN reach[h]

(* A walk returns only nodes that edges stored at some time during the     *)
(* walk connect within its radius, and exactly the ball when nothing was   *)
(* written meanwhile and, in the in-memory store, no edge was contested.   *)
WalkJustified ==
    walk.active /\ walk.left = 0 =>
        /\ walk.visited \subseteq Ball(during, walk.from, Hops)
        /\ walk.still /\ (backend = "simple" => contested = {}) => Ball(triples, walk.from, Hops) \subseteq walk.visited
=============================================================================
