------------------------------ MODULE FederationApi ------------------------------
(***************************************************************************)
(* The federation endpoints (federation.rs): a registry of peers that      *)
(* authenticate with pre-shared keys, heartbeats, and queries that are     *)
(* sent to every matching peer at once and merged.  A heartbeat is checked *)
(* under the read lock and applied under the write lock; a query works on  *)
(* a snapshot of the registry and gives each peer ten seconds.             *)
(***************************************************************************)
EXTENDS Naturals, Sequences, SequencesExt, FiniteSets

CONSTANTS Stores,        \* store ids: sequences of pieces of their text
          SelfStore,     \* self_store_id
          PeerKeys,      \* VERISIM_FEDERATION_KEYS: store -> key
          Secrets,       \* secrets callers present
          Offered,       \* modality sets peers register with
          FedQueries,    \* queries: [pattern, modalities, policy, limit]
          Holdings,      \* store -> the scores of what it holds for any query, best first
          Beaters,       \* concurrent heartbeats
          MaxRegistrations, MaxFedQueries   \* bounds

VARIABLES peers,         \* store -> [modalities, trust, secret, since, lastSeen]
          beats,         \* heartbeat in progress: [pc, store]
          fedQuery,      \* the query in progress
          answer,        \* the response of the last query
          fedTime, registrations, fedQueries,
          standing       \* history: stores registered and not deregistered since

fedVars == <<peers, beats, fedQuery, answer, fedTime, registrations, fedQueries, standing>>

NoBeat == [pc |-> "idle"]
NoQuery == [pc |-> "idle"]
NoAnswer == [scores |-> <<>>, answers |-> [s \in {} |-> <<>>], limit |-> 0]

FedInit ==
    /\ peers = [s \in {} |-> NoBeat] /\ beats = [b \in Beaters |-> NoBeat]
    /\ fedQuery = NoQuery /\ answer = NoAnswer
    /\ fedTime = 0 /\ registrations = 0 /\ fedQueries = 0 /\ standing = {}

(* register_peer: closed without keys; the secret must be the store's key. *)
RegisterPeer(s, secret, mods) ==
    /\ registrations < MaxRegistrations
    /\ registrations' = registrations + 1 /\ fedTime' = fedTime + 1
    /\ s \in DOMAIN PeerKeys /\ secret = PeerKeys[s]
    /\ peers' = [x \in DOMAIN peers \cup {s} |->
                   IF x = s THEN [modalities |-> mods, trust |-> 10, secret |-> secret, since |-> fedTime, lastSeen |-> fedTime]
                   ELSE peers[x]]
    /\ standing' = standing \cup {s}
    /\ UNCHANGED <<beats, fedQuery, answer, fedQueries>>

DeregisterPeer(s) ==
    /\ s \in DOMAIN peers
    /\ peers' = [x \in DOMAIN peers \ {s} |-> peers[x]]
    /\ standing' = standing \ {s}
    /\ UNCHANGED <<beats, fedQuery, answer, fedTime, registrations, fedQueries>>

(* validate_peer_header                                                    *)
HeartbeatChecked(b, s, secret) ==
    /\ beats[b] = NoBeat
    /\ s \in DOMAIN peers /\ peers[s].secret = secret
    /\ beats' = [beats EXCEPT ![b] = [pc |-> "checked", store |-> s]]
    /\ UNCHANGED <<peers, fedQuery, answer, fedTime, registrations, fedQueries, standing>>

(* A peer that has gone since is not found.                                *)
Touched(s) == [x \in DOMAIN peers |-> IF x = s THEN [peers[x] EXCEPT !.lastSeen = fedTime] ELSE peers[x]]

(* heartbeat: the drift scores it carries are not kept.                    *)
HeartbeatApplied(b) ==
    /\ beats[b].pc = "checked"
    /\ peers' = Touched(beats[b].store)
    /\ beats' = [beats EXCEPT ![b] = NoBeat]
    /\ UNCHANGED <<fedQuery, answer, fedTime, registrations, fedQueries, standing>>

-----------------------------------------------------------------------------
(* Queries                                                                 *)

(* pattern_matches: "*", "<prefix>/*" or a store id.  The prefix need not  *)
(* end at a slash of the id.                                               *)
PatternMatches(p, s) ==
    CASE p.kind = "all" -> TRUE [] p.kind = "under" -> IsPrefix(p.prefix, s) [] p.kind = "exact" -> p.store = s

Matching(q) == {s \in DOMAIN peers \ {SelfStore} : PatternMatches(q.pattern, s) /\ q.modalities \subseteq peers[s].modalities}

Included(q) == {s \in Matching(q) : q.policy = "strict" => peers[s].trust >= 7}

StartQuery(q) ==
    /\ fedQuery = NoQuery /\ fedQueries < MaxFedQueries
    /\ fedQueries' = fedQueries + 1
    /\ fedQuery' = [pc |-> "fan out", query |-> q, queried |-> Included(q), excluded |-> Matching(q) \ Included(q),
                    pending |-> Included(q), answers |-> [s \in {} |-> <<>>]]
    /\ UNCHANGED <<peers, beats, answer, fedTime, registrations, standing>>

Least(a, b) == IF a < b THEN a ELSE b

TopOf(s, k) == SubSeq(s, 1, Least(k, Len(s)))

(* A peer answers with its best items, up to the limit.                    *)
PeerAnswers(s) ==
    /\ fedQuery.pc = "fan out" /\ s \in fedQuery.pending
    /\ fedQuery' = [fedQuery EXCEPT !.pending = @ \ {s},
                      !.answers = [x \in DOMAIN @ \cup {s} |-> IF x = s THEN TopOf(Holdings[s], fedQuery.query.limit) ELSE @[x]]]
    /\ UNCHANGED <<peers, beats, answer, fedTime, registrations, fedQueries, standing>>

PeerFails_Hangs(s) == FALSE /\ UNCHANGED fedVars

(* An error, or ten seconds without an answer: the peer contributes        *)
(* nothing and the query goes on.                                          *)
PeerFails(s) ==
    /\ fedQuery.pc = "fan out" /\ s \in fedQuery.pending
    /\ fedQuery' = [fedQuery EXCEPT !.pending = @ \ {s}]
    /\ UNCHANGED <<peers, beats, answer, fedTime, registrations, fedQueries, standing>>

Descending(s) == SortSeq(s, LAMBDA a, b : a > b)

Together(answers) == FoldLeft(LAMBDA acc, s : acc \o answers[s], <<>>, SetToSeq(DOMAIN answers))

Merged(answers, limit) == TopOf(Descending(Together(answers)), limit)

QueryAnswers ==
    /\ fedQuery.pc = "fan out" /\ fedQuery.pending = {}
    /\ answer' = [scores |-> Merged(fedQuery.answers, fedQuery.query.limit), answers |-> fedQuery.answers,
                  limit |-> fedQuery.query.limit]
    /\ fedQuery' = NoQuery
    /\ UNCHANGED <<peers, beats, fedTime, registrations, fedQueries, standing>>

FedNext ==
    \/ \E s \in Stores, x \in Secrets, m \in Offered : RegisterPeer(s, x, m)
    \/ \E s \in Stores : DeregisterPeer(s) \/ PeerAnswers(s) \/ PeerFails(s)
    \/ \E b \in Beaters, s \in Stores, x \in Secrets : HeartbeatChecked(b, s, x)
    \/ \E b \in Beaters : HeartbeatApplied(b)
    \/ \E q \in FedQueries : StartQuery(q)
    \/ QueryAnswers

(* A spawned task ends by itself or by its timeout; the handler awaits     *)
(* them all.  No peer needs to answer.                                     *)
FedFairness ==
    /\ \A s \in Stores : WF_fedVars(PeerFails(s))
    /\ WF_fedVars(QueryAnswers)

-----------------------------------------------------------------------------

CountOf(s, v) == Cardinality({i \in DOMAIN s : s[i] = v})

(* Cutting each peer's answer to the limit loses nothing: the response is  *)
(* what sorting everything the answering peers hold and cutting it once    *)
(* would give.                                                             *)
ResponseIsGlobalTop ==
    LET everything == Together([s \in DOMAIN answer.answers |-> Holdings[s]])
    IN  answer.scores = TopOf(Descending(everything), answer.limit)

(* Every peer in the registry registered and was not removed since: a      *)
(* heartbeat checked before a deregistration does not bring the peer back. *)
NoResurrection == DOMAIN peers = standing

(* A federated query is answered though peers never do.                    *)
QueryReturns == (fedQuery.pc = "fan out") ~> (fedQuery = NoQuery)
=============================================================================
