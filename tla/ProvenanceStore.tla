---------------------------- MODULE ProvenanceStore ----------------------------
(***************************************************************************)
(* The provenance modality: one hash chain of lineage events per entity    *)
(* (verisim-provenance).  Every operation holds the store's lock from its  *)
(* first read to its last write, so it is one step.                        *)
(*                                                                         *)
(* SHA-256 is taken to be injective: the digest of a record is the tuple   *)
(* of the fields it is computed from, the parent's digest among them.      *)
(***************************************************************************)
EXTENDS Naturals, Sequences, SequencesExt

CONSTANTS ChainIds,     \* entities with a provenance chain
          Actors,       \* who records an event
          Events,       \* ProvenanceEventType
          MaxChain,     \* bound on the records of one chain
          MaxTime       \* bound on the wall clock

VARIABLES chains,       \* entity -> ProvenanceChain::records, for the entities that have a chain
          provTime      \* Utc::now()

provVars == <<chains, provTime>>

GenesisHash == <<>>

ComputeHash_NoTime(r) == <<r.event, r.actor, r.parent>>

(* compute_hash: every field but content_hash itself.                      *)
ComputeHash(r) == <<r.event, r.actor, r.time, r.parent>>

NewRecord(event, actor, parent) ==
    LET r == [event |-> event, actor |-> actor, time |-> provTime, parent |-> parent]
    IN  [event |-> event, actor |-> actor, time |-> provTime, parent |-> parent, hash |-> ComputeHash(r)]

RecordVerifies(r) == r.hash = ComputeHash(r)

ParentOf(c, i) == IF i = 1 THEN GenesisHash ELSE c[i - 1].hash

(* ProvenanceChain::verify                                                 *)
ChainVerifies(c) ==
    \A i \in DOMAIN c : c[i].parent = ParentOf(c, i) /\ RecordVerifies(c[i])

LastHash(c) == ParentOf(c, Len(c) + 1)

AppendRecord(c, event, actor) == Append(c, NewRecord(event, actor, LastHash(c)))

ProvInit == chains = [e \in {} |-> <<>>] /\ provTime = 0

(* or_insert_with an empty chain, then append.                             *)
RecordEvent(e, event, actor) ==
    LET c == IF e \in DOMAIN chains THEN chains[e] ELSE <<>>
    IN  /\ Len(c) < MaxChain
        /\ chains' = [x \in DOMAIN chains \cup {e} |-> IF x = e THEN AppendRecord(c, event, actor) ELSE chains[x]]
        /\ UNCHANGED provTime

DeleteChain(e) ==
    /\ chains' = [x \in DOMAIN chains \ {e} |-> chains[x]]
    /\ UNCHANGED provTime

(* The wall clock is not monotonic.                                        *)
ClockMoves == provTime' \in (0..MaxTime) \ {provTime} /\ UNCHANGED chains

ProvNext ==
    \/ \E e \in ChainIds, v \in Events, a \in Actors : RecordEvent(e, v, a)
    \/ \E e \in ChainIds : DeleteChain(e)
    \/ ClockMoves

-----------------------------------------------------------------------------

(* The edits of a stored chain that leave its last digest alone: a record  *)
(* altered or altered and rehashed, two records exchanged, one removed or  *)
(* repeated.                                                               *)
Altered(r) ==
    [event : Events, actor : Actors, time : 0..MaxTime, parent : {r.parent, GenesisHash}, hash : {r.hash}]
Rehashed(r) == [r EXCEPT !.hash = ComputeHash(r)]
Edits(c) ==
    (UNION {UNION {{ReplaceAt(c, i, x), ReplaceAt(c, i, Rehashed(x))} : x \in Altered(c[i])} : i \in DOMAIN c})
    \cup {[c EXCEPT ![p[1]] = c[p[2]], ![p[2]] = c[p[1]]] : p \in (DOMAIN c) \X (DOMAIN c)}
    \cup {RemoveAt(c, i) : i \in DOMAIN c}
    \cup {InsertAt(c, i, c[i]) : i \in DOMAIN c}

(* Whatever is recorded, in whatever order the clock moves, every chain    *)
(* verifies: verify_chain never reports corruption of what record_event    *)
(* built.                                                                  *)
LineageVerifies == \A e \in DOMAIN chains : ChainVerifies(chains[e])

(* A chain that was edited and still verifies ends in another digest: who  *)
(* kept the content_hash of the latest record sees every change to the     *)
(* lineage before it.                                                      *)
TamperEvident ==
    \A e \in DOMAIN chains : \A d \in Edits(chains[e]) :
        ChainVerifies(d) /\ LastHash(d) = LastHash(chains[e]) => d = chains[e]
=============================================================================
