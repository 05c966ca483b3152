------------------------------ MODULE HexadReads ------------------------------
(***************************************************************************)
(* The handlers that read hexads (verisim-api): get, list, text, vector    *)
(* and related search and the search for similar queries, over REST,       *)
(* GraphQL and gRPC.  A handler first takes ids from the registry or from  *)
(* an index and then loads the hexads one by one; writers run in between.  *)
(*                                                                         *)
(* The registry is a hash map: an insertion may change the order of its    *)
(* keys, a removal keeps it.  A client lists page by page, its next offset *)
(* the number of hexads it has.  gone and disturbed are history.           *)
(***************************************************************************)
EXTENDS Integers, Sequences, SequencesExt, FiniteSets

CONSTANTS ReadIds,
          Relevance,       \* the ids in the order a search ranks them
          QueryIds,        \* the hexads that hold stored queries
          ReadClients,
          LimitCap,        \* MAX_RESULT_LIMIT
          LimitDefault,    \* the limit of a request that gives none
          MaxReadWrites    \* bound on creations and deletions

VARIABLES listing,         \* live ids in the order of the registry
          indexed,         \* ids the indexes find
          reading,         \* client -> its request
          readWrites

readVars == <<listing, indexed, reading, readWrites>>

None == -100               \* no limit given
Kinds == {"text", "vector", "related", "queries"}
AtRest == [kind |-> "none", want |-> <<>>, got |-> <<>>, hits |-> <<>>, offset |-> 0, gone |-> {}, disturbed |-> FALSE]

ReadsInit ==
    /\ listing = <<>> /\ indexed = {} /\ readWrites = 0
    /\ reading = [c \in ReadClients |-> AtRest]

-----------------------------------------------------------------------------

Noted(i) == [c \in ReadClients |-> IF reading[c] = AtRest THEN AtRest
                                   ELSE [reading[c] EXCEPT !.disturbed = TRUE, !.gone = @ \cup {i}]]

(* A create or delete of HexadStore, seen from the readers.                *)
Created(i) ==
    /\ i \notin ToSet(listing)
    /\ \E order \in SetToSeqs(ToSet(listing) \cup {i}) : listing' = order
    /\ indexed' = indexed \cup {i}
    /\ reading' = Noted(i)

(* An index may still find a deleted entity.                               *)
Deleted(i) ==
    /\ i \in ToSet(listing)
    /\ listing' = SelectSeq(listing, LAMBDA j : j # i)
    /\ \E stale \in BOOLEAN : indexed' = IF stale THEN indexed ELSE indexed \ {i}
    /\ reading' = Noted(i)

Starts(c, kind, ids, hits) ==
    reading' = [reading EXCEPT ![c] = [@ EXCEPT !.kind = kind, !.want = ids, !.hits = hits]]

FirstN(s, n) == SubSeq(s, 1, IF n < Len(s) THEN n ELSE Len(s))

Given(n) == IF n = None THEN LimitDefault ELSE n

(* validate_limit caps over REST.  GraphQL makes its i32 a usize, so that  *)
(* a negative limit is none at all.  gRPC's absent limit is 0.             *)
RestLimit(n) == IF Given(n) < LimitCap THEN Given(n) ELSE LimitCap
GraphqlLimit(n) == IF Given(n) < 0 THEN Cardinality(ReadIds) ELSE Given(n)
GrpcLimit(n) == IF n > 0 THEN n ELSE LimitDefault

(* The keys under the read lock: skip, then take.                          *)
Page(offset, n) == FirstN(SubSeq(listing, offset + 1, Len(listing)), n)

GetHexad(c, i) ==
    /\ reading[c] = AtRest
    /\ Starts(c, "get", <<i>>, <<i>>)

ListHexads(c, n) ==
    /\ reading[c] = AtRest \/ (reading[c].kind = "list" /\ reading[c].want = <<>>)
    /\ LET page == Page(reading[c].offset, RestLimit(n)) IN Starts(c, "list", page, page)

Hits == SelectSeq(Relevance, LAMBDA i : i \in indexed)

Searches(c, kind, n) ==
    /\ reading[c] = AtRest
    /\ Starts(c, kind, FirstN(Hits, n), FirstN(Hits, n))

(* The text search of the three surfaces, the vector search of two.  A     *)
(* request REST refuses (an empty text, a vector that does not fit) never  *)
(* gets here.                                                              *)
TextSearch(c, n) == n # -1 /\ Searches(c, "text", RestLimit(n))
TextSearchGraphql(c, n) == Searches(c, "text", GraphqlLimit(n))
TextSearchGrpc(c, n) == Searches(c, "text", GrpcLimit(n))
VectorSearch(c, n) == n # -1 /\ Searches(c, "vector", RestLimit(n))
VectorSearchGrpc(c, n) == Searches(c, "vector", GrpcLimit(n))

(* Related entities come without rank or limit.                            *)
RelatedSearch(c) == Searches(c, "related", Cardinality(ReadIds))

(* The limit applies before hexads that are no queries are left out.       *)
SimilarQueries(c, n) == n # -1 /\ Searches(c, "queries", RestLimit(n))

Shown(kind, i) == kind = "queries" => i \in QueryIds

LoadNext_StopsAtDead(c) ==
    LET k == reading[c]
        i == Head(k.want)
        live == i \in ToSet(listing)
    IN  /\ k.want # <<>>
        /\ reading' = [reading EXCEPT ![c].want = IF live THEN Tail(@) ELSE <<>>,
                                      ![c].got = IF live /\ Shown(k.kind, i) THEN Append(@, i) ELSE @,
                                      ![c].offset = IF k.kind = "list" /\ live THEN @ + 1 ELSE @]

(* load_hexad, and the hexad in the response if it is still there;         *)
(* similar_queries_handler keeps the stored queries only.                  *)
LoadNext(c) ==
    LET k == reading[c]
        i == Head(k.want)
        live == i \in ToSet(listing)
    IN  /\ k.want # <<>>
        /\ reading' = [reading EXCEPT ![c].want = Tail(@),
                                      ![c].got = IF live /\ Shown(k.kind, i) THEN Append(@, i) ELSE @,
                                      ![c].offset = IF k.kind = "list" /\ live THEN @ + 1 ELSE @]

Answered(c) ==
    /\ reading[c] # AtRest /\ reading[c].want = <<>>
    /\ reading' = [reading EXCEPT ![c] = AtRest]

ReadsNext ==
    \/ /\ readWrites < MaxReadWrites
       /\ readWrites' = readWrites + 1
       /\ \E i \in ReadIds : Created(i) \/ Deleted(i)
    \/ /\ UNCHANGED <<listing, indexed, readWrites>>
       /\ \E c \in ReadClients :
            \/ \E i \in ReadIds : GetHexad(c, i)
            \/ \E n \in {None} \cup 1..Cardinality(ReadIds) : ListHexads(c, n)
            \/ \E n \in {None} \cup -1..Cardinality(ReadIds) :
                 \/ TextSearch(c, n) \/ TextSearchGraphql(c, n) \/ TextSearchGrpc(c, n)
                 \/ VectorSearch(c, n) \/ VectorSearchGrpc(c, n) \/ SimilarQueries(c, n)
            \/ RelatedSearch(c)
            \/ LoadNext(c)
            \/ Answered(c)

-----------------------------------------------------------------------------

(* A client that pages through the list, advancing by what it received,    *)
(* while nothing is created or deleted, sees every hexad up to its offset  *)
(* once and none twice, whatever limits it asks for, and an empty page     *)
(* tells it that it has them all.                                          *)
PagesPartition ==
    \A c \in ReadClients : LET k == reading[c] IN
        k.kind = "list" /\ ~k.disturbed =>
            /\ k.got \o k.want = FirstN(listing, Len(k.got \o k.want))
            /\ k.hits = <<>> => Len(k.got) = Len(listing)

(* A hit whose hexad is deleted while the answer is put together hides no  *)
(* other: the answer holds, in the order of the ranking, every hit within  *)
(* the limit that stayed, and nothing that was dead all along.             *)
AnswerIsTop ==
    \A c \in ReadClients : LET k == reading[c] IN
        k.kind \in Kinds /\ k.want = <<>> =>
            /\ k.got = SelectSeq(k.hits, LAMBDA i : i \in ToSet(k.got))
            /\ \A i \in ToSet(k.hits) \ k.gone : i \in ToSet(k.got) <=> i \in ToSet(listing) /\ Shown(k.kind, i)
=============================================================================
