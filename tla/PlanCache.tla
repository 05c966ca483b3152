------------------------------- MODULE PlanCache -------------------------------
(***************************************************************************)
(* The cache of prepared statements (prepared.rs): statements by the       *)
(* fingerprint of their normalized text, a second map from fingerprints,   *)
(* and atomic counters.  The two maps have a lock each; whoever takes both *)
(* takes the statements' first.  prepare looks under the read lock, lets   *)
(* it go, and inserts later; the generation is bumped after the locks.     *)
(*                                                                         *)
(* A text is a sequence of tokens [word, upper] and a spacing.  inserted,  *)
(* expelled, orphaned and changes are history variables.                   *)
(***************************************************************************)
EXTENDS Integers, Sequences, FiniteSets

CONSTANTS Preparers,       \* the callers
          Texts,           \* the query texts they send
          Keywords, Params,\* the words that are keywords, and parameters
          Supplied,        \* the parameter sets supplied on execution
          CacheLimits,     \* the values of config.max_entries
          TTL,
          MaxClock, MaxCalls   \* bounds

ASSUME CacheAssumption ==
    /\ CacheLimits \subseteq Nat /\ TTL \in Nat /\ MaxClock \in Nat /\ MaxCalls \in Nat
    /\ IsFiniteSet(Preparers)

VARIABLES maxEntries,      \* fixed when the cache is made
          statements, fingerprints, generation, hits, misses, evictions, cacheClock,
          preparing,       \* each caller's prepare: [step, text]
          calls, inserted, expelled, orphaned, changes

cacheVars == <<maxEntries, statements, fingerprints, generation, hits, misses, evictions, cacheClock,
               preparing, calls, inserted, expelled, orphaned, changes>>

WordsOf(s) == {s[i] : i \in DOMAIN s}

(* normalize_query: spacing goes, keywords are lowered wherever they stand.*)
NormalizeQuery(t) ==
    [i \in DOMAIN t.tokens |->
       [t.tokens[i] EXCEPT !.upper = @ /\ t.tokens[i].word \notin Keywords]]

(* The SHA-256 of the normalized text; distinct texts do not collide.      *)
Fingerprint(t) == NormalizeQuery(t)

(* extract_parameters.                                                     *)
ExtractParameters(t) == {t.tokens[i].word : i \in DOMAIN t.tokens} \cap Params

Ids == {Fingerprint(t) : t \in Texts}
NoText == [step |-> "idle"]

CacheInit ==
    /\ maxEntries \in CacheLimits
    /\ statements = <<>> /\ fingerprints = {}
    /\ generation = 0 /\ hits = 0 /\ misses = 0 /\ evictions = 0 /\ cacheClock = 0
    /\ preparing = [p \in Preparers |-> NoText]
    /\ calls = 0 /\ inserted = 0 /\ expelled = 0 /\ orphaned = {} /\ changes = 0

Without(f, S) == [x \in DOMAIN f \ S |-> f[x]]
Cached == DOMAIN statements

(* is_expired: by the time of creation, not of the last use.               *)
IsExpired(s) == cacheClock - s.created > TTL

Call == calls < MaxCalls /\ calls' = calls + 1

(* A mutation and its generation.                                          *)
Bump == generation' = generation + 1 /\ changes' = changes + 1
-----------------------------------------------------------------------------
(* prepare: the look-up under the read lock.                               *)
PrepareLooks(p, t) ==
    /\ Call /\ preparing[p].step = "idle"
    /\ preparing' = [preparing EXCEPT ![p] =
                       [step |-> IF Fingerprint(t) \in Cached THEN "refresh" ELSE "insert", text |-> t]]
    /\ UNCHANGED <<statements, fingerprints, generation, hits, misses, evictions, cacheClock,
                   inserted, expelled, orphaned, changes>>

(* The entry found is touched under the write lock, if it is still there.  *)
PrepareRefreshes(p) ==
    /\ preparing[p].step = "refresh"
    /\ LET id == Fingerprint(preparing[p].text)
       IN  statements' = IF id \in Cached THEN [statements EXCEPT ![id].used = cacheClock] ELSE statements
    /\ preparing' = [preparing EXCEPT ![p] = NoText]
    /\ Bump
    /\ UNCHANGED <<fingerprints, hits, misses, evictions, cacheClock, calls, inserted, expelled, orphaned>>

(* evict_lru_inner: the order of a HashMap picks among equals.             *)
LeastRecent(f) == {x \in DOMAIN f : \A y \in DOMAIN f : f[x].used <= f[y].used}

(* Cached statements that make room for one more.                          *)
Victims == IF Cardinality(Cached) >= maxEntries /\ Cached # {}
           THEN {{x} : x \in LeastRecent(statements)} ELSE {{}}

(* prepare: room is made and the statement stored under both write locks,  *)
(* without looking again.                                                  *)
PrepareInserts(p) ==
    /\ preparing[p].step = "insert"
    /\ \E gone \in Victims :
         LET id == Fingerprint(preparing[p].text)
             stmt == [params |-> ExtractParameters(preparing[p].text), plan |-> FALSE,
                      created |-> cacheClock, used |-> cacheClock, count |-> 0]
             rest == Without(statements, gone)
         IN  /\ statements' = [x \in DOMAIN rest \cup {id} |-> IF x = id THEN stmt ELSE rest[x]]
             /\ fingerprints' = (fingerprints \ gone) \cup {id}
             /\ evictions' = evictions + Cardinality(gone)
             /\ generation' = generation + Cardinality(gone)
             /\ changes' = changes + Cardinality(gone) + 1
             /\ inserted' = inserted + (IF id \in DOMAIN rest THEN 0 ELSE 1)
             /\ orphaned' = orphaned \ {id}
    /\ preparing' = [preparing EXCEPT ![p] = [step |-> "bump"]]
    /\ UNCHANGED <<hits, misses, cacheClock, calls, expelled>>

PrepareReturns(p) ==
    /\ preparing[p].step = "bump"
    /\ preparing' = [preparing EXCEPT ![p] = NoText]
    /\ generation' = generation + 1
    /\ UNCHANGED <<statements, fingerprints, hits, misses, evictions, cacheClock, calls, inserted,
                   expelled, orphaned, changes>>

(* get: an expired statement is a miss and stays.                          *)
Get(id) ==
    /\ Call
    /\ IF id \in Cached /\ ~IsExpired(statements[id])
       THEN hits' = hits + 1 /\ UNCHANGED misses
       ELSE misses' = misses + 1 /\ UNCHANGED hits
    /\ UNCHANGED <<statements, fingerprints, generation, evictions, cacheClock, preparing, inserted,
                   expelled, orphaned, changes>>

(* execute_prepared: an expired statement is dropped and its fingerprint   *)
(* kept, with no other trace; a statement without parameters takes any.    *)
ExecutePrepared(id, params) ==
    /\ Call
    /\ CASE id \notin Cached ->
              UNCHANGED <<statements, hits, generation, changes, expelled, orphaned>>
         [] id \in Cached /\ IsExpired(statements[id]) ->
              /\ statements' = Without(statements, {id})
              /\ expelled' = expelled + 1 /\ orphaned' = orphaned \cup {id}
              /\ UNCHANGED <<hits, generation, changes>>
         [] OTHER ->
              /\ IF statements[id].params \in {{}, params}
                 THEN /\ statements' = [statements EXCEPT ![id].count = @ + 1, ![id].used = cacheClock]
                      /\ hits' = hits + 1
                      /\ Bump
                 ELSE UNCHANGED <<statements, hits, generation, changes>>
              /\ UNCHANGED <<expelled, orphaned>>
    /\ UNCHANGED <<fingerprints, misses, evictions, cacheClock, preparing, inserted>>

Removed_FingerprintStays(gone) ==
    /\ statements' = Without(statements, gone)
    /\ evictions' = evictions + Cardinality(gone)
    /\ UNCHANGED <<fingerprints, orphaned>>

(* The removal under both locks that the evicting operations share.        *)
Removed(gone) ==
    /\ statements' = Without(statements, gone)
    /\ fingerprints' = fingerprints \ gone
    /\ evictions' = evictions + Cardinality(gone)
    /\ UNCHANGED orphaned

(* invalidate.                                                             *)
Invalidate(id) ==
    /\ Call /\ id \in Cached
    /\ Removed({id}) /\ Bump
    /\ UNCHANGED <<hits, misses, cacheClock, preparing, inserted, expelled>>

InvalidateAll ==
    /\ Call
    /\ statements' = <<>> /\ fingerprints' = {} /\ orphaned' = {}
    /\ evictions' = evictions + Cardinality(Cached)
    /\ Bump
    /\ UNCHANGED <<hits, misses, cacheClock, preparing, inserted, expelled>>

(* evict_expired; nothing expired, nothing counted.                        *)
EvictExpired ==
    /\ Call
    /\ LET gone == {x \in Cached : IsExpired(statements[x])}
       IN  Removed(gone) /\ IF gone # {} THEN Bump ELSE UNCHANGED <<generation, changes>>
    /\ UNCHANGED <<hits, misses, cacheClock, preparing, inserted, expelled>>

(* evict_lru: only above the limit, where an insertion never leaves it     *)
(* unless the limit is zero.                                               *)
EvictLru ==
    /\ Call /\ Cardinality(Cached) > maxEntries
    /\ \E x \in LeastRecent(statements) : Removed({x})
    /\ Bump
    /\ UNCHANGED <<hits, misses, cacheClock, preparing, inserted, expelled>>

(* lookup_by_query trusts the fingerprints alone.                          *)
LookupByQuery(t) ==
    /\ Call
    /\ IF Fingerprint(t) \in fingerprints
       THEN hits' = hits + 1 /\ UNCHANGED misses
       ELSE misses' = misses + 1 /\ UNCHANGED hits
    /\ UNCHANGED <<statements, fingerprints, generation, evictions, cacheClock, preparing, inserted,
                   expelled, orphaned, changes>>

(* cache_plan.                                                             *)
KeepPlan(id) ==
    /\ Call /\ id \in Cached
    /\ statements' = [statements EXCEPT ![id].plan = TRUE]
    /\ Bump
    /\ UNCHANGED <<fingerprints, hits, misses, evictions, cacheClock, preparing, inserted, expelled, orphaned>>

CacheTick ==
    /\ cacheClock < MaxClock /\ cacheClock' = cacheClock + 1
    /\ UNCHANGED <<statements, fingerprints, generation, hits, misses, evictions, preparing, calls,
                   inserted, expelled, orphaned, changes>>

CacheNext ==
    /\ UNCHANGED maxEntries
    /\ \/ \E p \in Preparers : \/ \E t \in Texts : PrepareLooks(p, t)
                               \/ PrepareRefreshes(p)
                               \/ PrepareInserts(p)
                               \/ PrepareReturns(p)
       \/ \E id \in Ids : \/ Get(id)
                          \/ \E s \in Supplied : ExecutePrepared(id, s)
                          \/ Invalidate(id)
                          \/ KeepPlan(id)
       \/ \E t \in Texts : LookupByQuery(t)
       \/ InvalidateAll \/ EvictExpired \/ EvictLru \/ CacheTick
-----------------------------------------------------------------------------
(* Properties.                                                             *)

(* However many prepares have looked and not yet inserted, the cache stays *)
(* within max_entries, or one entry when that is zero.                     *)
CacheBounded == Cardinality(Cached) <= (IF maxEntries = 0 THEN 1 ELSE maxEntries)

(* The two maps agree but for what expiry on execution leaves behind: each *)
(* statement is found by its text, and a fingerprint without a statement   *)
(* is one whose statement was dropped by execute_prepared.                 *)
FingerprintsCover ==
    /\ Cached \subseteq fingerprints
    /\ fingerprints \ Cached = orphaned

(* What was stored is in the cache, was counted as an eviction, or expired *)
(* on execution, which is not counted: no other way out is uncounted.      *)
EvictionsCounted == inserted = Cardinality(Cached) + evictions + expelled

(* The generation lags behind the mutations by the prepares that have      *)
(* stored their statement and not yet returned, and by the statements that *)
(* execute_prepared dropped (which changes leaves out), by nothing else.   *)
GenerationFollows ==
    generation + Cardinality({p \in Preparers : preparing[p].step = "bump"}) = changes

(* What the documentation says of the three, and expiry on execution       *)
(* breaks: a text is found when a statement with its fingerprint exists;   *)
(* every entry evicted by its TTL is counted; and the generation is bumped *)
(* on every mutation.                                                      *)
FoundMeansCached == fingerprints = Cached
EveryEvictionCounted == inserted = Cardinality(Cached) + evictions
EveryMutationBumps ==
    (\A p \in Preparers : preparing[p].step # "bump") => generation = changes + expelled

(* To make room, prepare drops a statement that was used no later than any *)
(* other, and never the one that it stores.                                *)
LeastRecentGoes ==
    [][\A p \in Preparers :
         (preparing[p].step = "insert" /\ preparing'[p].step = "bump") =>
             LET id == Fingerprint(preparing[p].text)
             IN  /\ id \in DOMAIN statements'
                 /\ \A x \in Cached \ (DOMAIN statements' \cup {id}), y \in Cached :
                      statements[x].used <= statements[y].used]_cacheVars
=============================================================================
