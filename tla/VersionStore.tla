------------------------------ MODULE VersionStore ------------------------------
(***************************************************************************)
(* The temporal modality (verisim-temporal): numbered versions of an       *)
(* entity, stamped with the wall clock, and time series.  Versions are     *)
(* never changed or removed, and each operation holds the store's lock,    *)
(* so it is one step; diff takes the lock twice, once per version.         *)
(***************************************************************************)
EXTENDS Naturals, Sequences, SequencesExt

CONSTANTS VersionData,   \* the data a version holds
          MaxVersions,   \* bound on the versions of the entity
          MaxPoints,     \* bound on the points of the series
          MaxStamp       \* bound on the wall clock

ASSUME StampAssumption == MaxStamp \in Nat

VARIABLES versions,      \* version number -> [data, stamp], the BTreeMap of one entity
          series,        \* the points of one time series
          stampClock,    \* Utc::now(): not monotonic
          pending        \* the diff that has read its first version

versionVars == <<versions, series, stampClock, pending>>

Absent == [data |-> "absent", stamp |-> 0]
Idle == [v1 |-> 0, v2 |-> 0, old |-> Absent, result |-> "none"]

VersionInit == versions = <<>> /\ series = <<>> /\ stampClock = 0 /\ pending = Idle

AppendVersion(d) ==
    /\ Len(versions) < MaxVersions
    /\ versions' = Append(versions, [data |-> d, stamp |-> stampClock])
    /\ UNCHANGED <<series, stampClock, pending>>

(* A time point carries the caller's own time.                             *)
AppendPoint(t) ==
    /\ Len(series) < MaxPoints
    /\ series' = Append(series, [data |-> "point", stamp |-> t])
    /\ UNCHANGED <<versions, stampClock, pending>>

StampMoves == stampClock' \in (0..MaxStamp) \ {stampClock} /\ UNCHANGED <<versions, series, pending>>

AtVersion(v) == IF v \in DOMAIN versions THEN versions[v] ELSE Absent

(* at_time: the last in version order of those stamped at or before t;     *)
(* 0 when there is none.                                                   *)
AtTime(t) ==
    LET eligible == {v \in DOMAIN versions : versions[v].stamp <= t}
    IN  IF eligible = {} THEN 0 ELSE CHOOSE v \in eligible : \A w \in eligible : w <= v

Within(start, end, t) == start <= t /\ t < end

(* in_range and the series' query: the stored order is kept.  TimeRange    *)
(* refuses a range that does not start before its end.                     *)
InRange(s, start, end) ==
    LET Kept[i \in 0..Len(s)] ==
            IF i = 0 THEN <<>>
            ELSE IF Within(start, end, s[i].stamp) THEN Append(Kept[i - 1], s[i]) ELSE Kept[i - 1]
    IN  Kept[Len(s)]

(* compare_values: what changed from old to new.                           *)
CompareValues(old, new) ==
    IF old = Absent /\ new = Absent THEN [kind |-> "incomparable", old |-> Absent.data, new |-> Absent.data]
    ELSE [kind |-> CASE old = Absent -> "added" [] new = Absent -> "removed"
                     [] old # Absent /\ new # Absent -> IF old.data = new.data THEN "no change" ELSE "changed",
          old |-> old.data, new |-> new.data]

(* diff reads the first version under one lock and the second under        *)
(* another: versions may be appended in between.                           *)
DiffReads(v1, v2) ==
    /\ pending = Idle
    /\ pending' = [v1 |-> v1, v2 |-> v2, old |-> AtVersion(v1), result |-> "none"]
    /\ UNCHANGED <<versions, series, stampClock>>

DiffReturns ==
    /\ pending # Idle
    /\ pending.result = "none"
    /\ pending' = [pending EXCEPT !.result = CompareValues(pending.old, AtVersion(pending.v2)).kind]
    /\ UNCHANGED <<versions, series, stampClock>>

DiffDone == pending.result # "none" /\ pending' = Idle /\ UNCHANGED <<versions, series, stampClock>>

VersionNext ==
    \/ \E d \in VersionData : AppendVersion(d)
    \/ \E t \in 0..MaxStamp : AppendPoint(t)
    \/ StampMoves
    \/ \E v, w \in 1..MaxVersions : DiffReads(v, w)
    \/ DiffReturns
    \/ DiffDone

-----------------------------------------------------------------------------

(* Asking for a later moment never answers with an earlier version, though *)
(* the stamps of successive versions may run backwards.                    *)
AtTimeMonotone == \A t \in 0..MaxStamp : \A u \in t..MaxStamp : AtTime(t) <= AtTime(u)

(* Two ranges that meet split the versions, and the points, of the range   *)
(* they make up: nothing is reported twice or left out at the boundary.    *)
RangesPartition ==
    \A s \in {versions, series} : \A a \in 0..MaxStamp : \A c \in (a + 1)..(MaxStamp + 1) : \A b \in (a + 1)..(c - 1) :
        Len(InRange(s, a, c)) = Len(InRange(s, a, b)) + Len(InRange(s, b, c))

(* A finished diff that compared two versions still holds of the store:    *)
(* versions are never rewritten, so what was appended and how the clock    *)
(* moved between its two reads makes no difference to it.                  *)
DiffIsCurrent ==
    pending.result \in {"no change", "changed"} =>
        (pending.result = "no change") = (versions[pending.v1].data = versions[pending.v2].data)
=============================================================================
