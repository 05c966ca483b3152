------------------------------ MODULE SpatialStore ------------------------------
(***************************************************************************)
(* The spatial modality (verisim-spatial) and the three search endpoints   *)
(* of the API over it.  A search walks a hash map, sorts by distance and   *)
(* cuts: entities at the same distance come in any order.                  *)
(*                                                                         *)
(* Coordinates are multiples of 60 degrees, where the haversine of two     *)
(* points is a multiple of 1/16 and the model computes it exactly; the     *)
(* distance in kilometres is an increasing function of it, so comparisons  *)
(* and radii use the haversine itself.  Boxes have their centre on that    *)
(* grid (MCStores chooses them so).                                        *)
(***************************************************************************)
EXTENDS Integers, Sequences, SequencesExt, FiniteSets

CONSTANTS SpatialIds,      \* entities
          Places,          \* coordinates callers index, some outside WGS84: <<lat, lon>>
          Boxes,           \* boxes callers search: [minLat, minLon, maxLat, maxLon]
          MaxSpatialOps,
          MaxResultLimit,  \* the cap of validate_limit
          DefaultLimit, DefaultK

ASSUME SpatialAssumption ==
    /\ IsFiniteSet(SpatialIds) /\ Places \subseteq Int \X Int
    /\ Boxes \subseteq [minLat : Int, minLon : Int, maxLat : Int, maxLon : Int]
    /\ MaxResultLimit \in Nat /\ DefaultLimit \in Nat /\ DefaultK \in Nat

VARIABLES places,          \* entity -> coordinates
          spatialOps

spatialVars == <<places, spatialOps>>

NoLimit == -1              \* the request names no limit
BadRequest == <<"bad request">>

SpatialInit == places = [e \in {} |-> <<0, 0>>] /\ spatialOps = 0

(* 4 * sin^2 of half of d * 60 degrees, and 2 * cos of lat * 60 degrees.   *)
HalfSine(d) == <<0, 1, 3, 4, 3, 1>>[((IF d < 0 THEN -d ELSE d) % 6) + 1]
Cosine(lat) == IF lat = 0 THEN 2 ELSE 1

(* haversine_distance: 16 times the haversine.                             *)
Haversine(a, b) == 4 * HalfSine(b[1] - a[1]) + Cosine(a[1]) * Cosine(b[1]) * HalfSine(b[2] - a[2])

Wgs84(p) == p[1] \in -1..1 /\ p[2] \in -3..3

(* index validates even what was built without Coordinates::new.           *)
IndexValid(p) == Wgs84(p)

Index(e, p) ==
    /\ spatialOps < MaxSpatialOps
    /\ spatialOps' = spatialOps + 1
    /\ places' = IF IndexValid(p) THEN [x \in DOMAIN places \cup {e} |-> IF x = e THEN p ELSE places[x]] ELSE places

DeletePlace(e) ==
    /\ spatialOps < MaxSpatialOps
    /\ spatialOps' = spatialOps + 1
    /\ places' = [x \in DOMAIN places \ {e} |-> places[x]]

SpatialNext ==
    \/ \E e \in SpatialIds, p \in Places : Index(e, p)
    \/ \E e \in SpatialIds : DeletePlace(e)

-----------------------------------------------------------------------------

Orders(S) == {o \in [1..Cardinality(S) -> S] : \A i, j \in DOMAIN o : i # j => o[i] # o[j]}

Sortings(S, centre) ==
    {o \in Orders(S) : \A i \in 1..Cardinality(S) - 1 :
        Haversine(centre, places[o[i]]) <= Haversine(centre, places[o[i + 1]])}

Cut(o, limit) == SubSeq(o, 1, IF limit < Len(o) THEN limit ELSE Len(o))

(* The answers sort_by and truncate may give for the entities found.       *)
Ranked(S, centre, limit) == {Cut(o, limit) : o \in Sortings(S, centre)}

SearchRadius(centre, radius, limit) ==
    Ranked({e \in DOMAIN places : Haversine(centre, places[e]) <= radius}, centre, limit)

SearchWithin(b, limit) ==
    LET inside == {e \in DOMAIN places : /\ places[e][1] >= b.minLat /\ places[e][1] <= b.maxLat
                                         /\ places[e][2] >= b.minLon /\ places[e][2] <= b.maxLon}
    IN  Ranked(inside, <<(b.minLat + b.maxLat) \div 2, (b.minLon + b.maxLon) \div 2>>, limit)

NearestPlaces(p, k) == Ranked(DOMAIN places, p, k)

ValidateLimit(limit, default) ==
    LET n == IF limit = NoLimit THEN default ELSE limit IN IF n < MaxResultLimit THEN n ELSE MaxResultLimit

(* The handlers: the answers a request may get.                            *)
SpatialRadiusSearch(centre, radius, limit) ==
    IF ~Wgs84(centre) \/ radius <= 0 THEN {BadRequest}
    ELSE SearchRadius(centre, radius, ValidateLimit(limit, DefaultLimit))

(* The box is compared as numbers: its corners may lie outside WGS84.      *)
SpatialBoundsSearch(b, limit) ==
    IF b.minLat > b.maxLat \/ b.minLon > b.maxLon THEN {BadRequest}
    ELSE SearchWithin(b, ValidateLimit(limit, DefaultLimit))

SpatialNearest(p, k) == IF ~Wgs84(p) THEN {BadRequest} ELSE NearestPlaces(p, ValidateLimit(k, DefaultK))

-----------------------------------------------------------------------------

Limits == {NoLimit} \cup 0..Cardinality(SpatialIds)

(* A radius answer is never worse than its limit forces: asking for as     *)
(* many nearest entities gives the same distances, and an answer shorter   *)
(* than the limit leaves out only entities beyond the radius, on whichever *)
(* side of the antimeridian they were indexed.                             *)
RadiusAgreesWithNearest ==
    places # <<>> => \A c \in Places, r \in 1..16, n \in Limits \ {NoLimit} :
        \A ans \in SpatialRadiusSearch(c, r, n) :
            ans # BadRequest =>
              /\ \A o \in SpatialNearest(c, Len(ans)) : \A i \in DOMAIN ans :
                    Haversine(c, places[o[i]]) = Haversine(c, places[ans[i]])
              /\ Len(ans) < ValidateLimit(n, DefaultLimit) =>
                    \A e \in DOMAIN places \ ToSet(ans) : Haversine(c, places[e]) > r

World == [minLat |-> -1, minLon |-> -3, maxLat |-> 1, maxLon |-> 3]

(* Two boxes that split the world at a meridian find every entity, when    *)
(* no answer is cut: index lets nothing in that no box could reach.        *)
BoxesCoverTheWorld ==
    Cardinality(DOMAIN places) \in 1..MaxResultLimit =>
        \A b \in Boxes : b.minLat = -1 /\ b.maxLat = 1 /\ b.minLon = -3 /\ b.maxLon \in -3..2 =>
            \A west \in SpatialBoundsSearch(b, MaxResultLimit),
               east \in SpatialBoundsSearch([World EXCEPT !.minLon = b.maxLon], MaxResultLimit) :
                ToSet(west) \cup ToSet(east) = DOMAIN places
=============================================================================
