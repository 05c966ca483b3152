------------------------------ MODULE VectorIndex ------------------------------
(***************************************************************************)
(* The vector modality: the HNSW index (verisim-vector/src/hnsw.rs) beside *)
(* the brute-force store it stands in for (lib.rs).  Every operation holds *)
(* the graph's lock, so it is one step.                                    *)
(*                                                                         *)
(* A vector is a point on a line and the metric the Euclidean one.  The    *)
(* level of a new node, a hash of its id and of a global counter, may be   *)
(* any of Levels.  Nodes at the same distance are ordered by their index;  *)
(* the instances use points whose distances all differ.                    *)
(***************************************************************************)
EXTENDS Integers, Sequences, SequencesExt, FiniteSets

CONSTANTS VectorIds,     \* entities with an embedding
          Points,        \* id -> the points its embedding may be at
          Probes,        \* the points searched for
          Levels,        \* the levels assign_level may return
          MaxConn, MaxConn0,         \* max_connections, max_connections_layer0
          EfConstruction, EfSearch,  \* sizes of the candidate lists
          MaxVectorOps               \* bound on the operations of a behaviour

(* The lists of layer 0 and of an insertion hold something (the defaults   *)
(* are 32 and 200).                                                        *)
ASSUME VectorAssumption ==
    /\ \A id \in VectorIds : Points[id] \subseteq Int
    /\ Probes \subseteq Int /\ Levels \subseteq Nat
    /\ MaxConn \in Nat /\ MaxConn0 \in Nat \ {0} /\ EfConstruction \in Nat \ {0} /\ EfSearch \in Nat

VARIABLES nodes,         \* Graph::nodes; indices from 1
          entry,         \* Graph::entry_point; 0 for None
          topLevel,      \* Graph::current_max_level
          roomy,         \* history: nothing was deleted and no list was pruned
          vectorOps

vectorVars == <<nodes, entry, topLevel, roomy, vectorOps>>

Distance(p, q) == IF p < q THEN q - p ELSE p - q

Closer(g, q, i, j) ==
    LET d == Distance(q, g[i].point)  e == Distance(q, g[j].point)
    IN  d < e \/ (d = e /\ i < j)

Nearest(g, q, S) == CHOOSE i \in S : \A j \in S \ {i} : Closer(g, q, i, j)
Furthest(g, q, S) == CHOOSE i \in S : \A j \in S \ {i} : Closer(g, q, j, i)

(* The k-th nearest is the one that k - 1 others are closer than.          *)
ByDistance(g, q, S) ==
    [k \in 1..Cardinality(S) |-> CHOOSE i \in S : Cardinality({j \in S : Closer(g, q, j, i)}) = k - 1]

Live(g) == {i \in DOMAIN g : ~g[i].deleted}

LinksAt(g, i, l) == IF l < Len(g[i].links) THEN g[i].links[l + 1] ELSE <<>>

(* One neighbour of the candidate being expanded.                          *)
Consider(g, q, ef, s, n) ==
    IF n \in s.visited THEN s
    ELSE LET admitted == ~g[n].deleted
                         /\ (Cardinality(s.results) < ef
                             \/ Distance(q, g[n].point) < Distance(q, g[Furthest(g, q, s.results)].point))
             results == IF admitted THEN s.results \cup {n} ELSE s.results
         IN  [visited |-> s.visited \cup {n}, candidates |-> s.candidates \cup {n},
              results |-> IF Cardinality(results) > ef THEN results \ {Furthest(g, q, results)} ELSE results]

(* The neighbours of a candidate, in the order of its list.                *)
ConsiderAll(g, q, ef, start, list) ==
    LET After[i \in 0..Len(list)] == IF i = 0 THEN start ELSE Consider(g, q, ef, After[i - 1], list[i])
    IN  After[Len(list)]

Finished(g, q, ef, s) ==
    \/ s.candidates = {}
    \/ /\ Cardinality(s.results) >= ef
       /\ s.results # {}
       /\ Distance(q, g[Nearest(g, q, s.candidates)].point) > Distance(q, g[Furthest(g, q, s.results)].point)

Expand(g, q, ef, l, s) ==
    LET c == Nearest(g, q, s.candidates)
    IN  IF Finished(g, q, ef, s) THEN s
        ELSE ConsiderAll(g, q, ef, [s EXCEPT !.candidates = @ \ {c}], LinksAt(g, c, l))

(* The loop over the candidates: a node becomes a candidate at most once,  *)
(* so that there are no more rounds than nodes.                            *)
Explore(g, q, ef, l, start) ==
    LET Round[k \in 0..Len(g)] == IF k = 0 THEN start ELSE Expand(g, q, ef, l, Round[k - 1])
    IN  Round[Len(g)].results

(* search_layer: deleted nodes are walked through and never returned.      *)
SearchLayer(g, q, eps, ef, l) ==
    ByDistance(g, q, Explore(g, q, ef, l, [visited |-> eps, candidates |-> eps, results |-> eps \cap Live(g)]))

(* The greedy descent through the layers above l, one entry from each.     *)
NextEntries(g, q, eps, l) ==
    LET found == SearchLayer(g, q, eps, 1, l) IN IF found = <<>> THEN eps ELSE {found[1]}

Descend(g, q, eps, from, l) ==
    LET Entries[k \in 0..from] == IF k = 0 THEN eps ELSE NextEntries(g, q, Entries[k - 1], from + 1 - k)
    IN  IF from <= l THEN eps ELSE Entries[from - l]

CapacityAt(l) == IF l = 0 THEN MaxConn0 ELSE MaxConn

Truncated(s, k) == SubSeq(s, 1, IF Len(s) < k THEN Len(s) ELSE k)

Linked_Unbounded(g, i, j, l) == Append(LinksAt(g, i, l), j)

(* The list of i at layer l with a link to j; over capacity it keeps its   *)
(* nearest.                                                                *)
Linked(g, i, j, l) ==
    LET list == Append(LinksAt(g, i, l), j)
    IN  IF Len(list) <= CapacityAt(l) THEN list ELSE Truncated(ByDistance(g, g[i].point, ToSet(list)), CapacityAt(l))

(* A neighbour that lacks the layer gets it.                               *)
WithLinks(node, l, list) ==
    [node EXCEPT !.links = [k \in 1..(IF Len(@) > l THEN Len(@) ELSE l + 1) |->
        IF k = l + 1 THEN list ELSE IF k <= Len(@) THEN @[k] ELSE <<>>]]

(* Links from the new node n, which has none at layer l, and back.         *)
Connect(g, n, selected, l) ==
    [i \in DOMAIN g |-> IF i = n THEN WithLinks(g[n], l, selected)
                        ELSE IF i \in ToSet(selected) THEN WithLinks(g[i], l, Linked(g, i, n, l)) ELSE g[i]]

(* Phase 2: layer by layer from top down to 0.                             *)
InsertLayer(s, n, l) ==
    LET found == SearchLayer(s.g, s.g[n].point, s.eps, EfConstruction, l)
    IN  [g |-> Connect(s.g, n, Truncated(found, CapacityAt(l)), l), eps |-> IF found = <<>> THEN {entry} ELSE ToSet(found)]

InsertLayers(graph, n, eps, top) ==
    LET Down[k \in 0..(top + 1)] ==
            IF k = 0 THEN [g |-> graph, eps |-> eps] ELSE InsertLayer(Down[k - 1], n, top + 1 - k)
    IN  Down[top + 1].g

VectorInit == nodes = <<>> /\ entry = 0 /\ topLevel = 0 /\ roomy = TRUE /\ vectorOps = 0

IndexOf(id) == IF \E i \in DOMAIN nodes : nodes[i].id = id THEN CHOOSE i \in DOMAIN nodes : nodes[i].id = id ELSE 0

(* An id that is known, deleted or not, keeps its node, its level and its  *)
(* links: only the vector changes.                                         *)
UpsertKnown(id, p) ==
    /\ IndexOf(id) # 0
    /\ nodes' = [nodes EXCEPT ![IndexOf(id)].point = p, ![IndexOf(id)].deleted = FALSE]
    /\ UNCHANGED <<entry, topLevel, roomy>>

Pushed(id, p, level) ==
    Append(nodes, [id |-> id, point |-> p, level |-> level, deleted |-> FALSE,
                   links |-> [k \in 1..(level + 1) |-> <<>>]])

UpsertFirst(id, p, level) ==
    /\ entry = 0
    /\ nodes' = Pushed(id, p, level)
    /\ entry' = 1 /\ topLevel' = level
    /\ UNCHANGED roomy

UpsertNew(id, p, level) ==
    LET n == Len(nodes) + 1
        g == Pushed(id, p, level)
        inserted == InsertLayers(g, n, Descend(g, p, {entry}, topLevel, level), IF level < topLevel THEN level ELSE topLevel)
    IN  /\ entry # 0
        /\ IndexOf(id) = 0
        /\ nodes' = inserted
        /\ entry' = IF level > topLevel THEN n ELSE entry
        /\ topLevel' = IF level > topLevel THEN level ELSE topLevel
        /\ roomy' = (roomy /\ \A l \in 0..level : \A i \in ToSet(LinksAt(inserted, n, l)) :
                        Len(LinksAt(nodes, i, l)) < CapacityAt(l))

DeleteVector(id) ==
    /\ nodes' = IF IndexOf(id) = 0 THEN nodes ELSE [nodes EXCEPT ![IndexOf(id)].deleted = TRUE]
    /\ roomy' = (roomy /\ IndexOf(id) = 0)
    /\ UNCHANGED <<entry, topLevel>>

VectorNext ==
    /\ vectorOps < MaxVectorOps
    /\ vectorOps' = vectorOps + 1
    /\ \/ \E id \in VectorIds : \E p \in Points[id] : UpsertKnown(id, p)
       \/ \E id \in VectorIds, level \in Levels : \E p \in Points[id] : UpsertFirst(id, p, level)
       \/ \E id \in VectorIds, level \in Levels : \E p \in Points[id] : UpsertNew(id, p, level)
       \/ \E id \in VectorIds : DeleteVector(id)

-----------------------------------------------------------------------------

Search(q, k) ==
    IF entry = 0 THEN <<>>
    ELSE LET ef == IF EfSearch > k THEN EfSearch ELSE k
         IN  Truncated(SearchLayer(nodes, q, Descend(nodes, q, {entry}, topLevel, 0), ef, 0), k)

(* BruteForceVectorStore::search over the same embeddings.                 *)
BruteForce(q, k) == Truncated(ByDistance(nodes, q, Live(nodes)), k)

(* A link at layer l joins two different nodes that both exist at layer l, *)
(* no list exceeds its capacity, and the entry point is a node of the top  *)
(* level: the descent never steps on a layer its node does not have.       *)
LayersNested ==
    /\ \A i \in DOMAIN nodes :
        /\ Len(nodes[i].links) = nodes[i].level + 1
        /\ \A l \in 0..nodes[i].level :
            /\ Len(LinksAt(nodes, i, l)) <= CapacityAt(l)
            /\ IsInjective(LinksAt(nodes, i, l))
            /\ \A j \in ToSet(LinksAt(nodes, i, l)) : j # i /\ j \in DOMAIN nodes /\ nodes[j].level >= l
    /\ entry # 0 => \A i \in DOMAIN nodes : nodes[i].level <= nodes[entry].level /\ topLevel = nodes[entry].level

(* A search returns live nodes only, nearest first, each once, at most k,  *)
(* whatever was deleted, revived or moved before.                          *)
ResultsLive ==
    \A q \in Probes, k \in 1..2 :
        LET found == Search(q, k)
        IN  /\ Len(found) <= k
            /\ ToSet(found) \subseteq Live(nodes)
            /\ \A i, j \in DOMAIN found : i < j => Closer(nodes, q, found[i], found[j])

(* While nothing has been deleted, no neighbour list has been pruned and   *)
(* the candidate list has room for every node, the approximate index       *)
(* answers as the brute-force store does.                                  *)
ExactWhenRoomy ==
    roomy /\ Len(nodes) <= EfSearch =>
        \A q \in Probes, k \in 1..2 : Search(q, k) = BruteForce(q, k)
=============================================================================
