------------------------ MODULE MCNormalization_proofs ------------------------
(***************************************************************************)
(* Proofs about the self-normalizer.  The first part is the repair of      *)
(* drifted entities: conflict.rs and regeneration.rs, whose calls hold no  *)
(* lock from their decision to the record of it.  The second is the way    *)
(* from a measured drift score to a normalization: the detector's metrics  *)
(* and alarms, the normalizer's counters and results, and the slots of the *)
(* Elixir monitor.                                                         *)
(***************************************************************************)
EXTENDS MCNormalization, FiniteSetTheorems, SequenceTheorems, TLAPS

-----------------------------------------------------------------------------
(* Sequences and sets of positions.                                        *)

(* The first position of a search is there and before all others.          *)
LEMMA MinProperties ==
    ASSUME NEW P \in SUBSET Nat, P # {}
    PROVE  Min(P) \in P /\ \A j \in P : Min(P) <= j
<1>1. PICK m \in P : \A y \in P : <<y, m>> \notin OpToRel(<, Nat)
  BY NatLessThanWellFounded, WFMin
<1>2. m \in Nat /\ \A y \in P : y \in Nat /\ ~(y < m)
  BY <1>1 DEF OpToRel
<1>3. \A y \in P : m <= y
  BY <1>2
<1> QED
  BY <1>3 DEF Min

(* RemoveAt shifts what follows the position.                              *)
LEMMA RemoveAtProperties ==
    ASSUME NEW S, NEW s \in Seq(S), NEW i \in 1 .. Len(s)
    PROVE  /\ RemoveAt(s, i) \in Seq(S)
           /\ Len(RemoveAt(s, i)) = Len(s) - 1
           /\ \A k \in 1 .. (Len(s) - 1) :
                RemoveAt(s, i)[k] = IF k < i THEN s[k] ELSE s[k + 1]
<1> DEFINE a == SubSeq(s, 1, i - 1)
           b == SubSeq(s, i + 1, Len(s))
<1>0. Len(s) \in Nat
  BY LenProperties
<1>1. /\ a \in Seq(S) /\ Len(a) = i - 1
      /\ \A k \in 1 .. (i - 1) : a[k] = s[k]
  <2>1. /\ 1 \in 1 .. Len(s) + 1 /\ i - 1 \in 1 - 1 .. Len(s)
    BY <1>0
  <2>2. \A k \in 1 .. (i - 1) : k \in 1 .. Len(s)
    BY <1>0
  <2> QED
    BY <2>1, <2>2, <1>0, SubSeqProperties
<1>2. /\ b \in Seq(S) /\ Len(b) = Len(s) - i
      /\ \A k \in 1 .. (Len(s) - i) : b[k] = s[i + k]
  <2>1. /\ i + 1 \in 1 .. Len(s) + 1 /\ Len(s) \in i .. Len(s)
    BY <1>0
  <2>2. \A k \in 1 .. (Len(s) - i) : i + 1 + k - 1 = i + k
    BY <1>0
  <2> QED
    BY <2>1, <2>2, <1>0, SubSeqProperties
<1> HIDE DEF a, b
<1>3. a \o b \in Seq(S) /\ Len(a \o b) = Len(s) - 1
  <2>1. a \o b \in Seq(S) /\ Len(a \o b) = Len(a) + Len(b)
    BY <1>1, <1>2, ConcatProperties
  <2>2. (i - 1) + (Len(s) - i) = Len(s) - 1
    BY <1>0
  <2> QED
    BY <2>1, <2>2, <1>1, <1>2
<1>4. ASSUME NEW k \in 1 .. (Len(s) - 1)
      PROVE  (a \o b)[k] = IF k < i THEN s[k] ELSE s[k + 1]
  <2>1. CASE k < i
    BY <2>1, <1>0, <1>1, <1>2, ConcatProperties
  <2>2. CASE ~(k < i)
    <3>1. (a \o b)[k] = b[k - (i - 1)]
      BY <2>2, <1>0, <1>1, <1>2, ConcatProperties
    <3>2. k - (i - 1) \in 1 .. (Len(s) - i) /\ i + (k - (i - 1)) = k + 1
      BY <2>2, <1>0
    <3> QED
      BY <3>1, <3>2, <1>2, <2>2
  <2> QED
    BY <2>1, <2>2
<1> QED
  BY <1>3, <1>4 DEF RemoveAt, a, b

(* r has the elements of s but the one at i, and each of them as often.    *)
Dropped(s, i, r) ==
    /\ \A k \in DOMAIN r : \E j \in DOMAIN s : j # i /\ r[k] = s[j]
    /\ \A j \in DOMAIN s : j # i => \E k \in DOMAIN r : r[k] = s[j]
    /\ \A k, l \in DOMAIN r : k # l =>
         \E m, n \in DOMAIN s : m # n /\ m # i /\ n # i /\ r[k] = s[m] /\ r[l] = s[n]

(* ... so every other element stays, and no other comes.                   *)
LEMMA RemoveAtElements ==
    ASSUME NEW S, NEW s \in Seq(S), NEW i \in 1 .. Len(s)
    PROVE  Dropped(s, i, RemoveAt(s, i))
<1> DEFINE r == RemoveAt(s, i)
           At(k) == IF k < i THEN k ELSE k + 1
<1>0. Len(s) \in Nat /\ DOMAIN s = 1 .. Len(s)
  BY LenProperties
<1>1. /\ DOMAIN r = 1 .. (Len(s) - 1)
      /\ \A k \in 1 .. (Len(s) - 1) : r[k] = IF k < i THEN s[k] ELSE s[k + 1]
  BY RemoveAtProperties, LenProperties
<1> HIDE DEF r
<1>2. \A k \in DOMAIN r : At(k) \in DOMAIN s /\ At(k) # i /\ r[k] = s[At(k)]
  BY <1>0, <1>1
<1>3. \A j \in DOMAIN s : j # i => \E k \in DOMAIN r : At(k) = j
  <2> SUFFICES ASSUME NEW j \in DOMAIN s, j # i
               PROVE  \E k \in DOMAIN r : At(k) = j
    OBVIOUS
  <2>1. CASE j < i
    <3>1. j \in DOMAIN r /\ At(j) = j
      BY <2>1, <1>0, <1>1
    <3> QED
      BY <3>1
  <2>2. CASE ~(j < i)
    <3>1. j - 1 \in DOMAIN r /\ At(j - 1) = j
      BY <2>2, <1>0, <1>1
    <3> QED
      BY <3>1
  <2> QED
    BY <2>1, <2>2
<1>4. \A k, l \in DOMAIN r : k # l => At(k) # At(l)
  BY <1>0, <1>1
<1> HIDE DEF At
<1>5. \A k \in DOMAIN r : \E j \in DOMAIN s : j # i /\ r[k] = s[j]
  BY <1>2
<1>6. \A j \in DOMAIN s : j # i => \E k \in DOMAIN r : r[k] = s[j]
  BY <1>2, <1>3
<1>7. \A k, l \in DOMAIN r : k # l =>
        \E m, n \in DOMAIN s : m # n /\ m # i /\ n # i /\ r[k] = s[m] /\ r[l] = s[n]
  BY <1>2, <1>4
<1> QED
  BY <1>5, <1>6, <1>7 DEF r, Dropped

-----------------------------------------------------------------------------
(* Conflicts.                                                              *)

Parties == UNION {Range(d) : d \in Disputes}

Conflict == [id : Nat, modalities : Disputes, drift_score : DriftScores,
             status : {"open", "in_progress", "resolved", "dismissed"}]

MoveRec == [at : {"remove", "archive"}, conflict : Conflict, outcome : {"resolved", "dismissed"},
            policy : ConflictPolicies \cup {"none"}, winner : Parties \cup {"none"}]

Archived == [id : Nat, modalities : Disputes, drift_score : DriftScores,
             status : {"resolved", "dismissed"},
             policy : ConflictPolicies \cup {"none"}, winner : Parties \cup {"none"}]

ConflictTypes ==
    /\ detected \in Nat
    /\ active \in Seq(Conflict)
    /\ archive \in Seq(Archived)
    /\ filed \in Seq([id : Nat, by : Resolvers])
    /\ moving \in [Resolvers -> MoveRec \cup {NoMove}]

Held(t) == moving[t].at # "idle"

(* Conflicts in the active list: detected, each once.                      *)
ActiveIds ==
    /\ \A i \in DOMAIN active : active[i].id \in 1 .. detected
    /\ \A i, j \in DOMAIN active : active[i].id = active[j].id => i = j

(* A conflict in a task's hands is no other task's; until it is removed it *)
(* stays decided in the active list, which is what keeps the others away.  *)
HeldIds ==
    /\ \A t \in Resolvers : Held(t) => moving[t].conflict.id \in 1 .. detected
    /\ \A t, u \in Resolvers :
         Held(t) /\ Held(u) /\ moving[t].conflict.id = moving[u].conflict.id => t = u
    /\ \A t \in Resolvers : moving[t].at = "remove" =>
         \E i \in DOMAIN active : active[i].id = moving[t].conflict.id /\ ~Undecided(i)
    /\ \A t \in Resolvers : moving[t].at = "archive" =>
         \A i \in DOMAIN active : active[i].id # moving[t].conflict.id

(* A filed conflict was filed once, and is nowhere else.                   *)
FiledIds ==
    /\ \A i \in DOMAIN filed : filed[i].id \in 1 .. detected
    /\ \A i, j \in DOMAIN filed : filed[i].id = filed[j].id => i = j
    /\ \A i \in DOMAIN filed, j \in DOMAIN active : filed[i].id # active[j].id
    /\ \A i \in DOMAIN filed, t \in Resolvers : Held(t) => filed[i].id # moving[t].conflict.id

Somewhere ==
    \A id \in 1 .. detected :
        \/ \E i \in DOMAIN active : active[i].id = id
        \/ \E t \in Resolvers : moving[t].at = "archive" /\ moving[t].conflict.id = id
        \/ \E i \in DOMAIN filed : filed[i].id = id

(* What the archive may say of a conflict.                                 *)
Allowed(score, outcome, policy) ==
    (score >= RequireManualAbove /\ outcome = "resolved") => policy = "manual_resolve"

FairWinner(mods, policy, winner) ==
    winner # "none" =>
        /\ winner \in Range(mods)
        /\ policy = "modality_priority" =>
             \A m \in Range(mods) : \A j \in Rank(m) : \E i \in Rank(winner) : i <= j

MovesSound ==
    \A t \in Resolvers : Held(t) =>
        /\ Allowed(moving[t].conflict.drift_score, moving[t].outcome, moving[t].policy)
        /\ FairWinner(moving[t].conflict.modalities, moving[t].policy, moving[t].winner)

ArchiveSound ==
    \A i \in DOMAIN archive :
        /\ Allowed(archive[i].drift_score, archive[i].status, archive[i].policy)
        /\ FairWinner(archive[i].modalities, archive[i].policy, archive[i].winner)

ConflictInv ==
    /\ ConflictTypes /\ ActiveIds /\ HeldIds /\ FiledIds /\ Somewhere
    /\ MovesSound /\ ArchiveSound /\ EvictsOldest

(* The policies that need no human choose a party of the conflict, and     *)
(* modality_priority one that none precedes.                               *)
LEMMA WinnerFair ==
    ASSUME NEW mods \in Disputes, NEW policy
    PROVE  /\ Winner(mods, policy) \in Range(mods) \cup {"none"}
           /\ FairWinner(mods, policy, Winner(mods, policy))
<1>1. /\ mods # <<>> /\ mods \in Seq(Range(mods))
      /\ PriorityOrder \in Seq(Range(PriorityOrder))
  BY ResolverAssumption
<1>2. /\ Len(mods) \in Nat /\ DOMAIN mods = 1 .. Len(mods) /\ Len(mods) # 0
      /\ DOMAIN PriorityOrder = 1 .. Len(PriorityOrder) /\ Len(PriorityOrder) \in Nat
  BY <1>1, LenProperties, EmptySeq
<1>3. mods[1] \in Range(mods) /\ mods[Len(mods)] \in Range(mods)
  <2>1. 1 \in DOMAIN mods /\ Len(mods) \in DOMAIN mods
    BY <1>2
  <2> QED
    BY <2>1 DEF Range
<1>4. CASE policy = "last_writer_wins"
  BY <1>3, <1>4 DEF Winner, FairWinner
<1>5. CASE policy = "modality_priority" /\ Ranked(mods) = {}
  <2>1. Winner(mods, policy) = mods[1]
    BY <1>5 DEF Winner
  <2>2. \A m \in Range(mods) : Rank(m) = {}
    BY <1>5 DEF Ranked
  <2> QED
    BY <1>3, <2>1, <2>2 DEF FairWinner
<1>6. CASE policy = "modality_priority" /\ Ranked(mods) # {}
  <2> DEFINE Q(m) == \A n \in Ranked(mods) : \E i \in Rank(m) : \A j \in Rank(n) : i <= j
             P == UNION {Rank(m) : m \in Ranked(mods)}
  <2>1. P \in SUBSET Nat /\ P # {}
    BY <1>2, <1>6 DEF Rank, Ranked
  <2>2. Min(P) \in P /\ \A j \in P : Min(P) <= j
    BY <2>1, MinProperties
  <2>3. PICK m \in Ranked(mods) : Min(P) \in Rank(m)
    BY <2>2
  <2>4. Q(m)
    BY <2>2, <2>3
  <2> HIDE DEF P
  <2>5. Winner(mods, policy) = CHOOSE x \in Ranked(mods) : Q(x)
    BY <1>6 DEF Winner
  <2>6. Winner(mods, policy) \in Ranked(mods) /\ Q(Winner(mods, policy))
    <3> DEFINE w == CHOOSE x \in Ranked(mods) : Q(x)
    <3> HIDE DEF Q
    <3>1. w \in Ranked(mods) /\ Q(w)
      BY <2>3, <2>4
    <3> QED
      BY <3>1, <2>5
  <2>7. ASSUME NEW n \in Range(mods), NEW j \in Rank(n)
        PROVE  \E i \in Rank(Winner(mods, policy)) : i <= j
    <3>1. n \in Ranked(mods)
      BY <2>7 DEF Ranked
    <3> QED
      BY <2>6, <2>7, <3>1
  <2>8. Winner(mods, policy) \in Range(mods)
    BY <2>6 DEF Ranked
  <2> HIDE DEF Q
  <2> QED
    BY <2>7, <2>8 DEF FairWinner
<1>7. CASE policy \notin {"last_writer_wins", "modality_priority"}
  BY <1>7 DEF Winner, FairWinner
<1> QED
  BY <1>4, <1>5, <1>6, <1>7


(* r is s with another status at i.                                        *)
Restated(s, i, o, r) ==
    /\ r \in Seq(Conflict) /\ DOMAIN r = DOMAIN s
    /\ \A j \in DOMAIN s : r[j].id = s[j].id
    /\ \A j \in DOMAIN s : j # i => r[j] = s[j]
    /\ r[i].status = o

(* A change of status keeps the conflicts and their places.                *)
LEMMA StatusUpdate ==
    ASSUME NEW s \in Seq(Conflict), NEW i \in DOMAIN s,
           NEW o \in {"open", "in_progress", "resolved", "dismissed"}
    PROVE  Restated(s, i, o, [s EXCEPT ![i].status = o])
<1> DEFINE c == [s[i] EXCEPT !.status = o]
           r == [s EXCEPT ![i] = c]
<1>1. s[i] \in Conflict
  BY ElementOfSeq, LenProperties
<1>2. c \in Conflict /\ c.id = s[i].id /\ c.status = o
  BY <1>1 DEF Conflict
<1>3. [s EXCEPT ![i].status = o] = r
  OBVIOUS
<1> HIDE DEF c
<1>4. r \in Seq(Conflict) /\ DOMAIN r = DOMAIN s
  BY <1>2, ExceptSeq
<1>5. \A j \in DOMAIN s : j # i => r[j] = s[j]
  OBVIOUS
<1>6. r[i] = c
  OBVIOUS
<1>7. \A j \in DOMAIN s : r[j].id = s[j].id
  BY <1>2, <1>5, <1>6
<1> HIDE DEF r
<1> QED
  BY <1>2, <1>3, <1>4, <1>5, <1>6, <1>7 DEF Restated

RemoveId(s, k) == RemoveFirstMatch(s, LAMBDA c : c.id = k)

(* r has the conflicts of s but the one with id k, each once.              *)
WithoutId(s, k, r) ==
    /\ r \in Seq(Conflict)
    /\ \A j \in DOMAIN r : \E i \in DOMAIN s : r[j] = s[i] /\ s[i].id # k
    /\ \A i \in DOMAIN s : s[i].id # k => \E j \in DOMAIN r : r[j] = s[i]
    /\ \A i, j \in DOMAIN r : r[i].id = r[j].id => i = j

(* Removal by an id that is one conflict's.                                *)
LEMMA RemovedId ==
    ASSUME NEW s \in Seq(Conflict), NEW k,
           \A i, j \in DOMAIN s : s[i].id = s[j].id => i = j
    PROVE  WithoutId(s, k, RemoveId(s, k))
<1> DEFINE r == RemoveId(s, k)
<1> DEFINE P == {i \in 1 .. Len(s) : s[i].id = k}
<1>0. Len(s) \in Nat /\ DOMAIN s = 1 .. Len(s)
  BY LenProperties
<1>1. CASE P = {}
  <2>1. r = s /\ \A i \in DOMAIN s : s[i].id # k
    BY <1>0, <1>1 DEF RemoveFirstMatch, RemoveId
  <2> QED
    BY <2>1 DEF WithoutId
<1>2. CASE P # {}
  <2> DEFINE m == Min(P)
  <2>0. P \in SUBSET Nat
    BY <1>0
  <2>1. m \in P
    <3> HIDE DEF P
    <3> QED
      BY <1>2, <2>0, MinProperties
  <2>2. r = RemoveAt(s, m)
    BY <1>2 DEF RemoveFirstMatch, SelectInSeq, RemoveId
  <2>3. m \in 1 .. Len(s) /\ s[m].id = k
    BY <2>1
  <2> HIDE DEF m, P, r
  <2>4. \A i \in DOMAIN s : i # m => s[i].id # k
    BY <1>0, <2>3
  <2>5. Dropped(s, m, r)
    BY <2>2, <2>3, RemoveAtElements
  <2>6. r \in Seq(Conflict)
    BY <2>2, <2>3, RemoveAtProperties
  <2>7. \A a, b \in DOMAIN r : r[a].id = r[b].id => a = b
    <3> SUFFICES ASSUME NEW a \in DOMAIN r, NEW b \in DOMAIN r, a # b
                 PROVE  r[a].id # r[b].id
      OBVIOUS
    <3>1. \E x, y \in DOMAIN s : x # y /\ x # m /\ y # m /\ r[a] = s[x] /\ r[b] = s[y]
      BY ONLY <2>5, a # b, a \in DOMAIN r, b \in DOMAIN r DEF Dropped
    <3> QED
      BY <3>1
  <2>8. \A j \in DOMAIN r : \E i \in DOMAIN s : r[j] = s[i] /\ s[i].id # k
    BY <2>4, <2>5 DEF Dropped
  <2>9. \A i \in DOMAIN s : s[i].id # k => \E j \in DOMAIN r : r[j] = s[i]
    BY <2>3, <2>5 DEF Dropped
  <2> QED
    BY <2>6, <2>7, <2>8, <2>9 DEF WithoutId, r
<1> QED
  BY <1>1, <1>2


(* detect_conflict: a new id at the end of the active list.                *)
LEMMA DetectStep ==
    ASSUME ConflictInv, NEW mods \in Disputes, NEW score \in DriftScores,
           DetectConflict(mods, score)
    PROVE  ConflictInv'
<1> DEFINE c == [id |-> detected + 1, modalities |-> mods, drift_score |-> score,
                 status |-> "open"]
           n == Len(active) + 1
<1>0. /\ detected \in Nat /\ detected' = detected + 1
      /\ active \in Seq(Conflict) /\ active' = Append(active, c)
      /\ UNCHANGED <<archive, moving, filed>>
  BY DEF ConflictInv, ConflictTypes, DetectConflict
<1>1. c \in Conflict /\ c.id = detected + 1 /\ c.status = "open"
  BY <1>0 DEF Conflict
<1> HIDE DEF c
<1>2. /\ active' \in Seq(Conflict)
      /\ Len(active) \in Nat /\ DOMAIN active = 1 .. Len(active) /\ DOMAIN active' = 1 .. n
      /\ \A i \in DOMAIN active : active'[i] = active[i]
      /\ active'[n] = c
  BY <1>0, <1>1, AppendProperties, LenProperties
<1>3. DOMAIN active' = DOMAIN active \cup {n} /\ n \notin DOMAIN active
  BY <1>2
<1> HIDE DEF n
<1>4. \A id \in 1 .. detected : id \in 1 .. detected' /\ id # detected + 1
  BY <1>0
<1>5. detected + 1 \in 1 .. detected' /\ \A id \in 1 .. detected' : id \in 1 .. detected \/ id = detected + 1
  BY <1>0
<1>6. ConflictTypes'
  BY <1>0, <1>2 DEF ConflictInv, ConflictTypes
<1>7. ActiveIds'
  BY <1>1, <1>2, <1>3, <1>4, <1>5 DEF ConflictInv, ActiveIds
<1>8. HeldIds'
  <2>1. \A t \in Resolvers : Held(t)' = Held(t)
    BY <1>0 DEF Held
  <2>2. \A t \in Resolvers : moving[t].at = "archive" => Held(t)
    BY DEF Held
  <2>3. \A t \in Resolvers : moving[t].at = "remove" =>
          \E i \in DOMAIN active' : active'[i].id = moving[t].conflict.id /\ ~Undecided(i)'
    BY <1>2, <1>3 DEF ConflictInv, HeldIds, Undecided
  <2>4. \A t \in Resolvers : moving[t].at = "archive" =>
          \A i \in DOMAIN active' : active'[i].id # moving[t].conflict.id
    BY <1>1, <1>2, <1>3, <1>4, <2>2 DEF ConflictInv, HeldIds
  <2> QED
    BY <1>0, <1>4, <2>1, <2>3, <2>4 DEF ConflictInv, HeldIds
<1>9. FiledIds'
  <2>1. \A t \in Resolvers : Held(t)' = Held(t)
    BY <1>0 DEF Held
  <2>2. \A i \in DOMAIN filed, j \in DOMAIN active' : filed[i].id # active'[j].id
    BY <1>1, <1>2, <1>3, <1>4, ZenonT(30) DEF ConflictInv, FiledIds
  <2> QED
    BY <1>0, <1>4, <2>1, <2>2 DEF ConflictInv, FiledIds
<1>10. Somewhere'
  <2>1. \A i \in DOMAIN active : i \in DOMAIN active' /\ active'[i].id = active[i].id
    BY <1>2, <1>3
  <2>2. n \in DOMAIN active' /\ active'[n].id = detected + 1
    BY <1>1, <1>2, <1>3
  <2> SUFFICES ASSUME NEW id \in 1 .. detected'
               PROVE  \/ \E i \in DOMAIN active' : active'[i].id = id
                      \/ \E t \in Resolvers : moving[t].at = "archive" /\ moving[t].conflict.id = id
                      \/ \E i \in DOMAIN filed : filed[i].id = id
    BY <1>0 DEF Somewhere
  <2>3. CASE id = detected + 1
    BY <2>2, <2>3
  <2>4. CASE id \in 1 .. detected
    BY <2>1, <2>4 DEF ConflictInv, Somewhere
  <2> QED
    BY <1>5, <2>3, <2>4
<1>11. MovesSound' /\ ArchiveSound' /\ EvictsOldest'
  BY <1>0 DEF ConflictInv, MovesSound, ArchiveSound, EvictsOldest, Held, Allowed, FairWinner, Rank
<1> QED
  BY <1>6, <1>7, <1>8, <1>9, <1>10, <1>11 DEF ConflictInv

(* A status that changes in place: the ids stay where they are, and none   *)
(* that was decided is undecided again.                                    *)
LEMMA InPlace ==
    ASSUME ConflictInv, NEW i \in DOMAIN active, Undecided(i),
           NEW o \in {"open", "in_progress", "resolved", "dismissed"},
           active' = [active EXCEPT ![i].status = o], UNCHANGED <<detected, archive, filed>>
    PROVE  /\ active' \in Seq(Conflict) /\ DOMAIN active' = DOMAIN active
           /\ \A j \in DOMAIN active : active'[j].id = active[j].id
           /\ \A j \in DOMAIN active : ~Undecided(j) => ~Undecided(j)'
           /\ active'[i].status = o
           /\ ActiveIds' /\ ArchiveSound' /\ EvictsOldest'
<1>1. active \in Seq(Conflict)
  BY DEF ConflictInv, ConflictTypes
<1>2. /\ active' \in Seq(Conflict) /\ DOMAIN active' = DOMAIN active
      /\ \A j \in DOMAIN active : active'[j].id = active[j].id
      /\ \A j \in DOMAIN active : j # i => active'[j] = active[j]
      /\ active'[i].status = o
  <2>1. Restated(active, i, o, active')
    BY <1>1, StatusUpdate
  <2> QED
    BY <2>1 DEF Restated
<1>3. \A j \in DOMAIN active : ~Undecided(j) => ~Undecided(j)'
  BY <1>2 DEF Undecided
<1>4. ActiveIds'
  BY <1>2 DEF ConflictInv, ActiveIds
<1>5. ArchiveSound' /\ EvictsOldest'
  BY DEF ConflictInv, ArchiveSound, EvictsOldest, Allowed, FairWinner, Rank
<1> QED
  BY <1>2, <1>3, <1>4, <1>5

(* resolve, when it escalates to a human.                                  *)
LEMMA EscalateStep ==
    ASSUME ConflictInv, NEW t \in Resolvers, NEW i, NEW wish, Escalate(t, i, wish)
    PROVE  ConflictInv'
<1>0. /\ i \in DOMAIN active /\ Undecided(i)
      /\ active' = [active EXCEPT ![i].status = "in_progress"]
      /\ UNCHANGED <<archive, moving, detected, filed>>
  BY DEF Escalate
<1>1. /\ active' \in Seq(Conflict) /\ DOMAIN active' = DOMAIN active
      /\ \A j \in DOMAIN active : active'[j].id = active[j].id
      /\ \A j \in DOMAIN active : ~Undecided(j) => ~Undecided(j)'
      /\ ActiveIds' /\ ArchiveSound' /\ EvictsOldest'
  BY <1>0, InPlace
<1>2. \A u \in Resolvers : Held(u)' = Held(u)
  BY <1>0 DEF Held
<1>3. ConflictTypes'
  BY <1>0, <1>1 DEF ConflictInv, ConflictTypes
<1>4. HeldIds'
  <2>1. \A u \in Resolvers : moving[u].at = "remove" =>
          \E j \in DOMAIN active' : active'[j].id = moving[u].conflict.id /\ ~Undecided(j)'
    BY <1>1 DEF ConflictInv, HeldIds
  <2>2. \A u \in Resolvers : moving[u].at = "archive" =>
          \A j \in DOMAIN active' : active'[j].id # moving[u].conflict.id
    BY <1>1 DEF ConflictInv, HeldIds
  <2> QED
    BY <1>0, <1>2, <2>1, <2>2 DEF ConflictInv, HeldIds
<1>5. FiledIds'
  BY <1>0, <1>1, <1>2 DEF ConflictInv, FiledIds
<1>6. Somewhere'
  BY <1>0, <1>1 DEF ConflictInv, Somewhere
<1>7. MovesSound'
  BY <1>0 DEF ConflictInv, MovesSound, Held, Allowed, FairWinner, Rank
<1> QED
  BY <1>1, <1>3, <1>4, <1>5, <1>6, <1>7 DEF ConflictInv


(* A decision under the lock: the conflict was undecided, so no task holds *)
(* it, and from now on one does.                                           *)
LEMMA DecideStep ==
    ASSUME ConflictInv, NEW t \in Resolvers, moving[t].at = "idle",
           NEW i \in DOMAIN active, Undecided(i),
           NEW o \in {"resolved", "dismissed"}, NEW p \in ConflictPolicies \cup {"none"},
           NEW w \in Range(active[i].modalities) \cup {"none"},
           Allowed(active[i].drift_score, o, p), FairWinner(active[i].modalities, p, w),
           Decide(t, i, o, p, w)
    PROVE  ConflictInv'
<1> DEFINE m == [at |-> "remove", conflict |-> active[i], outcome |-> o,
                 policy |-> p, winner |-> w]
<1>0. /\ active' = [active EXCEPT ![i].status = o]
      /\ moving' = [moving EXCEPT ![t] = m]
      /\ UNCHANGED <<archive, detected, filed>>
      /\ moving \in [Resolvers -> MoveRec \cup {NoMove}]
  BY DEF Decide, ConflictInv, ConflictTypes
<1>1. /\ active' \in Seq(Conflict) /\ DOMAIN active' = DOMAIN active
      /\ \A j \in DOMAIN active : active'[j].id = active[j].id
      /\ \A j \in DOMAIN active : ~Undecided(j) => ~Undecided(j)'
      /\ active'[i].status = o
      /\ ActiveIds' /\ ArchiveSound' /\ EvictsOldest'
  BY <1>0, InPlace
<1>2. active[i] \in Conflict
  BY ElementOfSeq, LenProperties DEF ConflictInv, ConflictTypes
<1>3. m \in MoveRec /\ m.at = "remove" /\ m.conflict = active[i]
  <2>1. active[i].modalities \in Disputes
    BY <1>2 DEF Conflict
  <2>2. w \in Parties \cup {"none"}
    BY <2>1 DEF Parties
  <2> QED
    BY <1>2, <2>2 DEF MoveRec
<1>4. /\ Allowed(m.conflict.drift_score, m.outcome, m.policy)
      /\ FairWinner(m.conflict.modalities, m.policy, m.winner)
  OBVIOUS
<1> HIDE DEF m
<1>5. moving'[t] = m /\ \A u \in Resolvers : u # t => moving'[u] = moving[u]
  BY <1>0
<1>6. ~Undecided(i)'
  BY <1>1 DEF Undecided
<1>7. \A u \in Resolvers : Held(u) => moving[u].conflict.id # active[i].id
  <2> SUFFICES ASSUME NEW u \in Resolvers, Held(u), moving[u].conflict.id = active[i].id
               PROVE  FALSE
    OBVIOUS
  <2>1. moving[u].at \in {"remove", "archive"}
    BY <1>0 DEF Held, MoveRec, NoMove
  <2>2. CASE moving[u].at = "remove"
    <3>1. PICK j \in DOMAIN active : active[j].id = moving[u].conflict.id /\ ~Undecided(j)
      BY <2>2 DEF ConflictInv, HeldIds
    <3>2. j = i
      BY <3>1 DEF ConflictInv, ActiveIds
    <3> QED
      BY <3>1, <3>2
  <2>3. CASE moving[u].at = "archive"
    BY <2>3 DEF ConflictInv, HeldIds
  <2> QED
    BY <2>1, <2>2, <2>3
<1>8. Held(t)' /\ ~Held(t) /\ \A u \in Resolvers : u # t => Held(u)' = Held(u)
  BY <1>3, <1>5 DEF Held
<1>9. ConflictTypes'
  BY <1>0, <1>1, <1>3 DEF ConflictInv, ConflictTypes
<1>10. HeldIds'
  <2>1. active[i].id \in 1 .. detected
    BY DEF ConflictInv, ActiveIds
  <2>2. \A u \in Resolvers : Held(u)' => moving'[u].conflict.id \in 1 .. detected'
    BY <1>0, <1>3, <1>5, <1>8, <2>1 DEF ConflictInv, HeldIds
  <2>3. \A u, v \in Resolvers :
          Held(u)' /\ Held(v)' /\ moving'[u].conflict.id = moving'[v].conflict.id => u = v
    BY <1>3, <1>5, <1>7, <1>8 DEF ConflictInv, HeldIds
  <2>4. ASSUME NEW u \in Resolvers, moving'[u].at = "remove"
        PROVE  \E j \in DOMAIN active' : active'[j].id = moving'[u].conflict.id /\ ~Undecided(j)'
    <3>1. CASE u = t
      BY <3>1, <1>1, <1>3, <1>5, <1>6
    <3>2. CASE u # t
      <4>1. PICK j \in DOMAIN active : active[j].id = moving[u].conflict.id /\ ~Undecided(j)
        BY <2>4, <3>2, <1>5 DEF ConflictInv, HeldIds
      <4> QED
        BY <4>1, <3>2, <1>1, <1>5
    <3> QED
      BY <3>1, <3>2
  <2>5. ASSUME NEW u \in Resolvers, moving'[u].at = "archive"
        PROVE  \A j \in DOMAIN active' : active'[j].id # moving'[u].conflict.id
    <3>1. u # t
      BY <2>5, <1>3, <1>5
    <3> QED
      BY <3>1, <2>5, <1>1, <1>5 DEF ConflictInv, HeldIds
  <2> QED
    BY <2>2, <2>3, <2>4, <2>5 DEF HeldIds
<1>11. FiledIds'
  <2>1. \A k \in DOMAIN filed, u \in Resolvers : Held(u)' => filed[k].id # moving'[u].conflict.id
    BY <1>3, <1>5, <1>8 DEF ConflictInv, FiledIds
  <2>2. \A k \in DOMAIN filed, j \in DOMAIN active' : filed[k].id # active'[j].id
    BY <1>1 DEF ConflictInv, FiledIds
  <2> QED
    BY <1>0, <2>1, <2>2 DEF ConflictInv, FiledIds
<1>12. Somewhere'
  <2> SUFFICES ASSUME NEW id \in 1 .. detected
               PROVE  \/ \E k \in DOMAIN active' : active'[k].id = id
                      \/ \E u \in Resolvers : moving'[u].at = "archive" /\ moving'[u].conflict.id = id
                      \/ \E k \in DOMAIN filed : filed[k].id = id
    BY <1>0 DEF Somewhere
  <2>1. CASE \E k \in DOMAIN active : active[k].id = id
    BY <2>1, <1>1
  <2>2. CASE \E u \in Resolvers : moving[u].at = "archive" /\ moving[u].conflict.id = id
    <3>1. PICK u \in Resolvers : moving[u].at = "archive" /\ moving[u].conflict.id = id
      BY <2>2
    <3>2. moving'[u] = moving[u]
      BY <3>1, <1>5
    <3> QED
      BY <3>1, <3>2
  <2> QED
    BY <2>1, <2>2 DEF ConflictInv, Somewhere
<1>13. MovesSound'
  <2> SUFFICES ASSUME NEW u \in Resolvers, Held(u)'
               PROVE  /\ Allowed(moving'[u].conflict.drift_score, moving'[u].outcome, moving'[u].policy)
                      /\ FairWinner(moving'[u].conflict.modalities, moving'[u].policy, moving'[u].winner)
    BY DEF MovesSound, Allowed, FairWinner, Rank
  <2>1. CASE u = t
    BY <2>1, <1>4, <1>5
  <2>2. CASE u # t
    BY <2>2, <1>5, <1>8 DEF ConflictInv, MovesSound
  <2> QED
    BY <2>1, <2>2
<1> QED
  BY <1>1, <1>9, <1>10, <1>11, <1>12, <1>13 DEF ConflictInv

(* resolve, when it decides: only below the threshold, by a policy that    *)
(* needs no human.                                                         *)
LEMMA ResolveStep ==
    ASSUME ConflictInv, NEW t \in Resolvers, NEW i, NEW wish, Resolve(t, i, wish)
    PROVE  ConflictInv'
<1> DEFINE p == IF wish = "none" THEN SelectPolicy(active[i].modalities) ELSE wish
           w == Winner(active[i].modalities, p)
<1>1. /\ moving[t].at = "idle" /\ i \in DOMAIN active /\ Undecided(i)
      /\ ~(active[i].drift_score >= RequireManualAbove) /\ p \in Automatic
      /\ Decide(t, i, "resolved", p, w)
  BY DEF Resolve, Escalates
<1> HIDE DEF p
<1>2. active[i] \in Conflict
  BY <1>1, ElementOfSeq, LenProperties DEF ConflictInv, ConflictTypes
<1>3. active[i].modalities \in Disputes
  BY <1>2 DEF Conflict
<1>4. /\ w \in Range(active[i].modalities) \cup {"none"}
      /\ FairWinner(active[i].modalities, p, w)
  BY <1>3, WinnerFair
<1> HIDE DEF w
<1>5. p \in ConflictPolicies \cup {"none"} /\ Allowed(active[i].drift_score, "resolved", p)
  BY <1>1 DEF Automatic, ConflictPolicies, Allowed
<1> QED
  BY <1>1, <1>4, <1>5, DecideStep

(* resolve_manual: a human names one of the parties.                       *)
LEMMA ResolveManualStep ==
    ASSUME ConflictInv, NEW t \in Resolvers, NEW i, NEW m, ResolveManual(t, i, m)
    PROVE  ConflictInv'
<1>1. /\ moving[t].at = "idle" /\ i \in DOMAIN active /\ Undecided(i)
      /\ m \in Range(active[i].modalities)
      /\ Decide(t, i, "resolved", "manual_resolve", m)
  BY DEF ResolveManual
<1>2. /\ FairWinner(active[i].modalities, "manual_resolve", m)
      /\ Allowed(active[i].drift_score, "resolved", "manual_resolve")
      /\ "manual_resolve" \in ConflictPolicies \cup {"none"}
  BY <1>1 DEF FairWinner, Allowed, ConflictPolicies
<1> QED
  BY <1>1, <1>2, DecideStep

(* dismiss: no winner.                                                     *)
LEMMA DismissStep ==
    ASSUME ConflictInv, NEW t \in Resolvers, NEW i, Dismiss(t, i)
    PROVE  ConflictInv'
<1>1. /\ moving[t].at = "idle" /\ i \in DOMAIN active /\ Undecided(i)
      /\ Decide(t, i, "dismissed", "none", "none")
  BY DEF Dismiss
<1>2. FairWinner(active[i].modalities, "none", "none") /\ Allowed(active[i].drift_score, "dismissed", "none")
  BY DEF FairWinner, Allowed
<1> QED
  BY <1>1, <1>2, DecideStep


(* move_to_history, first block: the conflict goes from the active list    *)
(* into the hands of its task.                                             *)
LEMMA RemoveStep ==
    ASSUME ConflictInv, NEW t \in Resolvers, RemoveFromActive(t)
    PROVE  ConflictInv'
<1> DEFINE k == moving[t].conflict.id
           m == [moving[t] EXCEPT !.at = "archive"]
<1>0. /\ moving[t].at = "remove"
      /\ active' = RemoveId(active, k)
      /\ moving' = [moving EXCEPT ![t] = m]
      /\ UNCHANGED <<archive, detected, filed>>
      /\ moving \in [Resolvers -> MoveRec \cup {NoMove}]
  BY DEF RemoveFromActive, RemoveId, ConflictInv, ConflictTypes
<1>1. moving[t] \in MoveRec
  BY <1>0 DEF NoMove
<1>2. /\ m \in MoveRec /\ m.at = "archive" /\ m.conflict = moving[t].conflict
      /\ m.outcome = moving[t].outcome /\ m.policy = moving[t].policy /\ m.winner = moving[t].winner
  BY <1>1 DEF MoveRec
<1> HIDE DEF m
<1>3. moving'[t] = m /\ \A u \in Resolvers : u # t => moving'[u] = moving[u]
  BY <1>0
<1>4. /\ active' \in Seq(Conflict)
      /\ \A j \in DOMAIN active' : \E i \in DOMAIN active : active'[j] = active[i] /\ active[i].id # k
      /\ \A i \in DOMAIN active : active[i].id # k => \E j \in DOMAIN active' : active'[j] = active[i]
      /\ \A i, j \in DOMAIN active' : active'[i].id = active'[j].id => i = j
  <2>1. active \in Seq(Conflict) /\ \A i, j \in DOMAIN active : active[i].id = active[j].id => i = j
    BY DEF ConflictInv, ConflictTypes, ActiveIds
  <2>2. WithoutId(active, k, active')
    BY <1>0, <2>1, RemovedId
  <2> QED
    BY <2>2 DEF WithoutId
<1>5. Held(t) /\ Held(t)' /\ \A u \in Resolvers : u # t => Held(u)' = Held(u)
  BY <1>0, <1>2, <1>3 DEF Held
<1>6. \A u \in Resolvers : moving'[u].conflict = moving[u].conflict /\ (Held(u)' => Held(u))
  BY <1>2, <1>3, <1>5
<1>7. ConflictTypes'
  BY <1>0, <1>2, <1>4 DEF ConflictInv, ConflictTypes
<1>8. ActiveIds'
  <2>1. \A j \in DOMAIN active' : active'[j].id \in 1 .. detected
    BY <1>4 DEF ConflictInv, ActiveIds
  <2> QED
    BY <2>1, <1>0, <1>4 DEF ActiveIds
<1>9. HeldIds'
  <2>1. \A u \in Resolvers : Held(u)' => moving'[u].conflict.id \in 1 .. detected'
    BY <1>0, <1>6 DEF ConflictInv, HeldIds
  <2>2. \A u, v \in Resolvers :
          Held(u)' /\ Held(v)' /\ moving'[u].conflict.id = moving'[v].conflict.id => u = v
    BY <1>6 DEF ConflictInv, HeldIds
  <2>3. ASSUME NEW u \in Resolvers, moving'[u].at = "remove"
        PROVE  \E j \in DOMAIN active' : active'[j].id = moving'[u].conflict.id /\ ~Undecided(j)'
    <3>1. u # t /\ moving'[u] = moving[u]
      BY <2>3, <1>2, <1>3
    <3>2. Held(u)
      BY <2>3, <3>1 DEF Held
    <3>3. moving[u].conflict.id # k
      BY <3>1, <3>2, <1>5 DEF ConflictInv, HeldIds
    <3>4. PICK i \in DOMAIN active : active[i].id = moving[u].conflict.id /\ ~Undecided(i)
      BY <2>3, <3>1 DEF ConflictInv, HeldIds
    <3>5. PICK j \in DOMAIN active' : active'[j] = active[i]
      BY <3>3, <3>4, <1>4
    <3> QED
      BY <3>1, <3>4, <3>5 DEF Undecided
  <2>4. ASSUME NEW u \in Resolvers, moving'[u].at = "archive", NEW j \in DOMAIN active'
        PROVE  active'[j].id # moving'[u].conflict.id
    <3>1. PICK i \in DOMAIN active : active'[j] = active[i] /\ active[i].id # k
      BY <1>4
    <3>2. CASE u = t
      BY <3>1, <3>2, <1>6
    <3>3. CASE u # t
      BY <3>1, <3>3, <2>4, <1>3 DEF ConflictInv, HeldIds
    <3> QED
      BY <3>2, <3>3
  <2> QED
    BY <2>1, <2>2, <2>3, <2>4 DEF HeldIds
<1>10. FiledIds'
  <2>1. \A f \in DOMAIN filed, u \in Resolvers : Held(u)' => filed[f].id # moving'[u].conflict.id
    BY <1>6 DEF ConflictInv, FiledIds
  <2>2. \A f \in DOMAIN filed, j \in DOMAIN active' : filed[f].id # active'[j].id
    BY <1>4 DEF ConflictInv, FiledIds
  <2> QED
    BY <1>0, <2>1, <2>2 DEF ConflictInv, FiledIds
<1>11. Somewhere'
  <2> SUFFICES ASSUME NEW id \in 1 .. detected
               PROVE  \/ \E j \in DOMAIN active' : active'[j].id = id
                      \/ \E u \in Resolvers : moving'[u].at = "archive" /\ moving'[u].conflict.id = id
                      \/ \E f \in DOMAIN filed : filed[f].id = id
    BY <1>0 DEF Somewhere
  <2>1. CASE \E i \in DOMAIN active : active[i].id = id
    <3>1. CASE id = k
      BY <3>1, <1>2, <1>3
    <3>2. CASE id # k
      BY <2>1, <3>2, <1>4
    <3> QED
      BY <3>1, <3>2
  <2>2. CASE \E u \in Resolvers : moving[u].at = "archive" /\ moving[u].conflict.id = id
    <3>1. PICK u \in Resolvers : moving[u].at = "archive" /\ moving[u].conflict.id = id
      BY <2>2
    <3>2. moving'[u] = moving[u]
      BY <3>1, <1>0, <1>3
    <3> QED
      BY <3>1, <3>2
  <2> QED
    BY <2>1, <2>2 DEF ConflictInv, Somewhere
<1>12. MovesSound'
  <2> SUFFICES ASSUME NEW u \in Resolvers, Held(u)'
               PROVE  /\ Allowed(moving'[u].conflict.drift_score, moving'[u].outcome, moving'[u].policy)
                      /\ FairWinner(moving'[u].conflict.modalities, moving'[u].policy, moving'[u].winner)
    BY DEF MovesSound, Allowed, FairWinner, Rank
  <2>1. /\ moving'[u].conflict = moving[u].conflict /\ moving'[u].outcome = moving[u].outcome
        /\ moving'[u].policy = moving[u].policy /\ moving'[u].winner = moving[u].winner
    BY <1>2, <1>3
  <2> QED
    BY <2>1, <1>6 DEF ConflictInv, MovesSound
<1>13. ArchiveSound' /\ EvictsOldest'
  BY <1>0 DEF ConflictInv, ArchiveSound, EvictsOldest, Allowed, FairWinner, Rank
<1> QED
  BY <1>7, <1>8, <1>9, <1>10, <1>11, <1>12, <1>13 DEF ConflictInv

(* h is the run of the newest of g.                                        *)
Newest(h, g) ==
    /\ Len(h) = IF Len(g) > MaxHistory THEN MaxHistory ELSE Len(g)
    /\ \A i \in DOMAIN h : h[i].id = g[Len(g) - Len(h) + i].id

(* r holds elements of h, and c.                                           *)
Grown(h, c, r) == \A i \in DOMAIN r : r[i] = c \/ \E j \in DOMAIN h : r[i] = h[j]

(* The history after one more conflict: the newest are kept.               *)
LEMMA KeptNewest ==
    ASSUME NEW A, NEW F, NEW h \in Seq(A), NEW g \in Seq(F), NEW c \in A, NEW f \in F,
           f.id = c.id, Newest(h, g)
    PROVE  /\ Kept(Append(h, c)) \in Seq(A) /\ Grown(h, c, Kept(Append(h, c)))
           /\ Newest(Kept(Append(h, c)), Append(g, f))
<1> DEFINE a == Append(h, c)
           r == Kept(a)
           q == Append(g, f)
           n == Len(h)
           l == Len(g)
           M == MaxHistory
<1>0. n \in Nat /\ l \in Nat /\ M \in Nat /\ DOMAIN h = 1 .. n /\ DOMAIN g = 1 .. l
  BY LenProperties, ResolverAssumption
<1>1. /\ a \in Seq(A) /\ Len(a) = n + 1 /\ DOMAIN a = 1 .. (n + 1)
      /\ \A i \in 1 .. n : a[i] = h[i]
      /\ a[n + 1] = c
  BY <1>0, AppendProperties
<1>2. /\ q \in Seq(F) /\ Len(q) = l + 1
      /\ \A i \in 1 .. l : q[i] = g[i]
      /\ q[l + 1] = f
  BY <1>0, AppendProperties
<1>3. n = (IF l > M THEN M ELSE l) /\ r = Kept(a) /\ \A i \in 1 .. n : h[i].id = g[l - n + i].id
  BY <1>0 DEF Newest
<1> HIDE DEF a, n, l, M, r, q
<1>4. ASSUME NEW i \in 1 .. (n + 1)
      PROVE  a[i].id = q[l - n + i].id
  <2>1. CASE i \in 1 .. n
    <3>1. l - n + i \in 1 .. l
      BY <1>0, <1>3, <2>1
    <3> QED
      BY <3>1, <2>1, <1>1, <1>2, <1>3
  <2>2. CASE i = n + 1
    <3>1. l - n + i = l + 1
      BY <1>0, <2>2
    <3> QED
      BY <3>1, <2>2, <1>1, <1>2
  <2>3. i \in 1 .. n \/ i = n + 1
    BY <1>0
  <2> QED
    BY <2>1, <2>2, <2>3
<1>5. \A i \in 1 .. (n + 1) : a[i] = c \/ \E j \in DOMAIN h : a[i] = h[j]
  <2> SUFFICES ASSUME NEW i \in 1 .. (n + 1)
               PROVE  a[i] = c \/ \E j \in DOMAIN h : a[i] = h[j]
    OBVIOUS
  <2>1. i \in 1 .. n \/ i = n + 1
    BY <1>0
  <2> QED
    BY <2>1, <1>0, <1>1
<1>6. CASE n + 1 > M
  <2>1. n = M /\ l >= M
    BY <1>0, <1>3, <1>6
  <2> DEFINE e == n + 1
  <2>2. r = SubSeq(a, 2, e)
    <3>1. r = SubSeq(a, (n + 1) - M + 1, n + 1)
      BY <1>1, <1>3, <1>6 DEF Kept, M, r
    <3>2. (n + 1) - M + 1 = 2
      BY <1>0, <2>1
    <3> QED
      BY <3>1, <3>2
  <2>3. r \in Seq(A) /\ Len(r) = n /\ DOMAIN r = 1 .. n /\ \A k \in 1 .. n : r[k] = a[k + 1]
    <3>1. 2 \in Int /\ e \in Int /\ \A i \in 2 .. e : i \in 1 .. (n + 1)
      BY <1>0
    <3>2. \A i \in 2 .. e : a[i] \in A
      BY <3>1, <1>1, ElementOfSeq
    <3>4. (IF 2 <= e THEN e - 2 + 1 ELSE 0) = n /\ e - 2 + 1 = n /\ \A k \in 1 .. n : 2 + k - 1 = k + 1
      BY <1>0
    <3> HIDE DEF e
    <3>3. /\ SubSeq(a, 2, e) \in Seq(A)
          /\ Len(SubSeq(a, 2, e)) = (IF 2 <= e THEN e - 2 + 1 ELSE 0)
          /\ \A k \in 1 .. (e - 2 + 1) : SubSeq(a, 2, e)[k] = a[2 + k - 1]
      BY <3>1, <3>2, SubSeqProperties
    <3>5. r \in Seq(A) /\ Len(r) = n /\ \A k \in 1 .. n : r[k] = a[k + 1]
      BY <3>3, <3>4, <2>2
    <3> QED
      BY <3>5, LenProperties
  <2>4. \A k \in 1 .. n : k + 1 \in 1 .. (n + 1) /\ l - n + (k + 1) = Len(q) - Len(r) + k
    BY <1>0, <1>2, <2>3
  <2>5. Len(r) = IF Len(q) > M THEN M ELSE Len(q)
    BY <1>0, <1>2, <2>1, <2>3
  <2>6. \A k \in DOMAIN r : r[k].id = q[Len(q) - Len(r) + k].id
    BY <2>3, <2>4, <1>4
  <2>7. \A k \in DOMAIN r : r[k] = c \/ \E j \in DOMAIN h : r[k] = h[j]
    BY <2>3, <2>4, <1>5, SMTT(30)
  <2> QED
    BY <2>3, <2>5, <2>6, <2>7 DEF M, Newest, Grown, a, r, q
<1>7. CASE ~(n + 1 > M)
  <2>1. r = a /\ n = l
    BY <1>0, <1>1, <1>3, <1>7 DEF Kept, M, r
  <2>2. Len(r) = l + 1 /\ Len(q) = l + 1 /\ ~(l + 1 > M) /\ DOMAIN r = 1 .. (n + 1)
    BY <1>1, <1>2, <1>7, <2>1
  <2>4. \A k \in 1 .. (n + 1) : Len(q) - Len(r) + k = l - n + k
    BY <1>0, <2>1, <2>2
  <2>5. Len(r) = IF Len(q) > M THEN M ELSE Len(q)
    BY <2>2
  <2>3. \A k \in DOMAIN r : r[k].id = q[Len(q) - Len(r) + k].id
    BY <1>4, <2>1, <2>2, <2>4
  <2>6. \A k \in DOMAIN r : r[k] = c \/ \E j \in DOMAIN h : r[k] = h[j]
    BY <2>1, <2>2, <1>5
  <2> QED
    BY <1>1, <2>1, <2>3, <2>5, <2>6 DEF M, Newest, Grown, a, r, q
<1> QED
  BY <1>6, <1>7


(* move_to_history, second block: from the task's hands to the history.    *)
LEMMA AddStep ==
    ASSUME ConflictInv, NEW t \in Resolvers, AddToHistory(t)
    PROVE  ConflictInv'
<1> DEFINE x == moving[t]
           c == [id |-> x.conflict.id, modalities |-> x.conflict.modalities,
                 drift_score |-> x.conflict.drift_score, status |-> x.outcome,
                 policy |-> x.policy, winner |-> x.winner]
           f == [id |-> c.id, by |-> t]
           F == [id : Nat, by : Resolvers]
<1>0. /\ moving[t].at = "archive"
      /\ archive' = Kept(Append(archive, c))
      /\ filed' = Append(filed, f)
      /\ moving' = [moving EXCEPT ![t] = NoMove]
      /\ UNCHANGED <<active, detected>>
      /\ moving \in [Resolvers -> MoveRec \cup {NoMove}]
      /\ filed \in Seq(F) /\ archive \in Seq(Archived)
  BY DEF AddToHistory, ConflictInv, ConflictTypes
<1>1. x \in MoveRec
  BY <1>0 DEF NoMove
<1>2. c \in Archived /\ c.id = x.conflict.id
  BY <1>1 DEF MoveRec, Conflict, Archived
<1>3. /\ Allowed(c.drift_score, c.status, c.policy)
      /\ FairWinner(c.modalities, c.policy, c.winner)
  <2>1. Held(t)
    BY <1>0 DEF Held
  <2> QED
    BY <2>1 DEF ConflictInv, MovesSound
<1> HIDE DEF c
<1>4. f \in F /\ f.id = c.id /\ f.id = x.conflict.id
  BY <1>2 DEF Archived
<1> HIDE DEF f, F
<1>5. /\ archive' \in Seq(Archived)
      /\ \A i \in DOMAIN archive' : archive'[i] = c \/ \E j \in DOMAIN archive : archive'[i] = archive[j]
      /\ EvictsOldest'
  <2>1. Newest(archive, filed)
    BY DEF ConflictInv, EvictsOldest, Newest
  <2>2. archive' \in Seq(Archived) /\ Grown(archive, c, archive') /\ Newest(archive', filed')
    <3>1. /\ Kept(Append(archive, c)) \in Seq(Archived)
          /\ Grown(archive, c, Kept(Append(archive, c)))
          /\ Newest(Kept(Append(archive, c)), Append(filed, f))
      <4>1. /\ archive \in Seq(Archived) /\ filed \in Seq(F) /\ c \in Archived /\ f \in F
            /\ f.id = c.id
        BY <1>0, <1>2, <1>4
      <4> QED
        BY ONLY <4>1, <2>1, KeptNewest, Zenon
    <3> QED
      BY <3>1, <1>0
  <2> QED
    BY <2>2 DEF EvictsOldest, Newest, Grown
<1> DEFINE n == Len(filed) + 1
<1>6. /\ filed' \in Seq(F)
      /\ DOMAIN filed' = DOMAIN filed \cup {n} /\ n \notin DOMAIN filed
      /\ \A i \in DOMAIN filed : filed'[i] = filed[i]
      /\ filed'[n] = f
  <2>1. /\ filed' \in Seq(F) /\ Len(filed) \in Nat
        /\ DOMAIN filed = 1 .. Len(filed) /\ DOMAIN filed' = 1 .. n
        /\ \A i \in 1 .. Len(filed) : filed'[i] = filed[i]
        /\ filed'[n] = f
    BY <1>0, <1>4, AppendProperties, LenProperties
  <2> QED
    BY <2>1
<1> HIDE DEF n
<1>7. moving'[t] = NoMove /\ \A u \in Resolvers : u # t => moving'[u] = moving[u]
  BY <1>0
<1>8. Held(t) /\ ~Held(t)' /\ \A u \in Resolvers : u # t => Held(u)' = Held(u)
  BY <1>0, <1>7 DEF Held, NoMove
<1>9. ConflictTypes'
  BY <1>0, <1>5, <1>6 DEF ConflictInv, ConflictTypes, F
<1>10. ActiveIds'
  BY <1>0 DEF ConflictInv, ActiveIds
<1>11. HeldIds'
  <2>1. \A u \in Resolvers : moving'[u].at \in {"remove", "archive"} => moving'[u] = moving[u]
    BY <1>7 DEF NoMove
  <2>2. \A u \in Resolvers : Held(u)' => Held(u) /\ moving'[u] = moving[u]
    BY <1>7, <1>8
  <2> QED
    BY <1>0, <2>1, <2>2 DEF ConflictInv, HeldIds, Undecided
<1>12. FiledIds'
  <2>1. f.id \in 1 .. detected
    BY <1>4, <1>8 DEF ConflictInv, HeldIds
  <2>2. \A j \in DOMAIN active : f.id # active[j].id
    BY <1>0, <1>4 DEF ConflictInv, HeldIds
  <2>3. \A i \in DOMAIN filed : filed[i].id # f.id
    BY <1>4, <1>8 DEF ConflictInv, FiledIds
  <2>4. \A u \in Resolvers : Held(u)' => f.id # moving'[u].conflict.id
    BY <1>4, <1>7, <1>8 DEF ConflictInv, HeldIds
  <2>5. \A i \in DOMAIN filed' : filed'[i].id \in 1 .. detected
    BY <1>6, <2>1 DEF ConflictInv, FiledIds
  <2>6. \A i, j \in DOMAIN filed' : filed'[i].id = filed'[j].id => i = j
    BY <1>6, <2>3 DEF ConflictInv, FiledIds
  <2>7. \A i \in DOMAIN filed', j \in DOMAIN active : filed'[i].id # active[j].id
    BY <1>6, <2>2 DEF ConflictInv, FiledIds
  <2>8. \A i \in DOMAIN filed', u \in Resolvers : Held(u)' => filed'[i].id # moving'[u].conflict.id
    BY <1>6, <1>7, <1>8, <2>4 DEF ConflictInv, FiledIds
  <2> QED
    BY <1>0, <2>5, <2>6, <2>7, <2>8 DEF FiledIds
<1>13. Somewhere'
  <2> SUFFICES ASSUME NEW id \in 1 .. detected
               PROVE  \/ \E j \in DOMAIN active : active[j].id = id
                      \/ \E u \in Resolvers : moving'[u].at = "archive" /\ moving'[u].conflict.id = id
                      \/ \E i \in DOMAIN filed' : filed'[i].id = id
    BY <1>0 DEF Somewhere
  <2>1. CASE \E i \in DOMAIN filed : filed[i].id = id
    BY <2>1, <1>6
  <2>2. CASE \E u \in Resolvers : moving[u].at = "archive" /\ moving[u].conflict.id = id
    <3>1. PICK u \in Resolvers : moving[u].at = "archive" /\ moving[u].conflict.id = id
      BY <2>2
    <3>2. CASE u = t
      BY <3>1, <3>2, <1>4, <1>6
    <3>3. CASE u # t
      BY <3>1, <3>3, <1>7
    <3> QED
      BY <3>2, <3>3
  <2> QED
    BY <2>1, <2>2 DEF ConflictInv, Somewhere
<1>14. MovesSound'
  <2> SUFFICES ASSUME NEW u \in Resolvers, Held(u)'
               PROVE  /\ Allowed(moving'[u].conflict.drift_score, moving'[u].outcome, moving'[u].policy)
                      /\ FairWinner(moving'[u].conflict.modalities, moving'[u].policy, moving'[u].winner)
    BY DEF MovesSound, Allowed, FairWinner, Rank
  <2>1. Held(u) /\ moving'[u] = moving[u]
    BY <1>7, <1>8
  <2> QED
    BY <2>1 DEF ConflictInv, MovesSound
<1>15. ArchiveSound'
  <2> SUFFICES ASSUME NEW i \in DOMAIN archive'
               PROVE  /\ Allowed(archive'[i].drift_score, archive'[i].status, archive'[i].policy)
                      /\ FairWinner(archive'[i].modalities, archive'[i].policy, archive'[i].winner)
    BY DEF ArchiveSound, Allowed, FairWinner, Rank
  <2>1. CASE archive'[i] = c
    BY <2>1, <1>3
  <2>2. CASE \E j \in DOMAIN archive : archive'[i] = archive[j]
    <3>1. PICK j \in DOMAIN archive : archive'[i] = archive[j]
      BY <2>2
    <3> QED
      BY <3>1 DEF ConflictInv, ArchiveSound
  <2> QED
    BY <2>1, <2>2, <1>5
<1> QED
  BY <1>5, <1>9, <1>10, <1>11, <1>12, <1>13, <1>14, <1>15 DEF ConflictInv

(* Every step of the conflict resolver.                                    *)
LEMMA ConflictStep ==
    ASSUME ConflictInv, ConflictNext
    PROVE  ConflictInv'
<1>1. ASSUME NEW d \in Disputes, NEW s \in DriftScores, DetectConflict(d, s)
      PROVE  ConflictInv'
  BY <1>1, DetectStep
<1>2. ASSUME NEW t \in Resolvers, NEW i \in 1 .. MaxConflicts, NEW p \in Policies \cup {"none"},
             Escalate(t, i, p) \/ Resolve(t, i, p)
      PROVE  ConflictInv'
  BY <1>2, EscalateStep, ResolveStep
<1>3. ASSUME NEW t \in Resolvers, NEW i \in 1 .. MaxConflicts, NEW m, ResolveManual(t, i, m)
      PROVE  ConflictInv'
  BY <1>3, ResolveManualStep
<1>4. ASSUME NEW t \in Resolvers, NEW i \in 1 .. MaxConflicts, Dismiss(t, i)
      PROVE  ConflictInv'
  BY <1>4, DismissStep
<1>5. ASSUME NEW t \in Resolvers, Move(t)
      PROVE  ConflictInv'
  BY <1>5, RemoveStep, AddStep DEF Move
<1> QED
  BY <1>1, <1>2, <1>3, <1>4, <1>5 DEF ConflictNext

(* It starts without conflicts.                                            *)
LEMMA ConflictStart ==
    ASSUME ConflictInit
    PROVE  ConflictInv
<1>1. /\ active = <<>> /\ archive = <<>> /\ filed = <<>> /\ detected = 0
      /\ moving = [t \in Resolvers |-> NoMove]
  BY DEF ConflictInit
<1>2. DOMAIN active = {} /\ DOMAIN archive = {} /\ DOMAIN filed = {} /\ 1 .. detected = {}
  BY <1>1
<1>3. \A t \in Resolvers : moving[t] = NoMove /\ ~Held(t) /\ moving[t].at \notin {"remove", "archive"}
  BY <1>1 DEF NoMove, Held
<1>4. ConflictTypes
  BY <1>1 DEF ConflictTypes
<1>5. EvictsOldest
  BY <1>1, <1>2, ResolverAssumption DEF EvictsOldest
<1> QED
  BY <1>2, <1>3, <1>4, <1>5 DEF ConflictInv, ActiveIds, HeldIds, FiledIds, Somewhere, MovesSound,
     ArchiveSound

(* The invariant gives the properties of the run.                          *)
LEMMA ConflictProperties ==
    ASSUME ConflictInv
    PROVE  ResolvedOnce /\ NoConflictLost /\ EvictsOldest /\ ManualAboveThreshold /\ WinnerIsParty
<1>1. ResolvedOnce
  BY DEF ConflictInv, FiledIds, ResolvedOnce, Held
<1>2. NoConflictLost
  <2> SUFFICES ASSUME NEW id \in 1 .. detected
               PROVE  Cardinality({p \in 1 .. 3 : Places(id)[p]}) = 1
    BY DEF NoConflictLost
  <2> DEFINE A == \E i \in DOMAIN active : active[i].id = id
             B == \E t \in Resolvers : moving[t].at = "archive" /\ moving[t].conflict.id = id
             C == \E i \in DOMAIN filed : filed[i].id = id
             Q == {p \in 1 .. 3 : Places(id)[p]}
  <2>1. Places(id) = <<A, B, C>>
    BY DEF Places
  <2>2. A \/ B \/ C
    BY DEF ConflictInv, Somewhere
  <2>3. ~(A /\ B)
    BY DEF ConflictInv, HeldIds
  <2>4. ~(A /\ C)
    BY DEF ConflictInv, FiledIds
  <2>5. ~(B /\ C)
    BY DEF ConflictInv, FiledIds, Held
  <2> HIDE DEF A, B, C
  <2>6. \A p : p \in Q <=> (p = 1 /\ A) \/ (p = 2 /\ B) \/ (p = 3 /\ C)
    BY <2>1
  <2>7. \E p : Q = {p}
    <3> HIDE DEF Q
    <3>1. CASE A
      BY <3>1, <2>3, <2>4, <2>6
    <3>2. CASE B
      BY <3>2, <2>3, <2>5, <2>6
    <3>3. CASE C
      BY <3>3, <2>4, <2>5, <2>6
    <3> QED
      BY <2>2, <3>1, <3>2, <3>3
  <2> QED
    BY <2>7, FS_Singleton
<1>3. EvictsOldest
  BY DEF ConflictInv
<1>4. ManualAboveThreshold /\ WinnerIsParty
  BY DEF ConflictInv, ArchiveSound, ManualAboveThreshold, WinnerIsParty, Allowed, FairWinner, Range
<1> QED
  BY <1>1, <1>2, <1>3, <1>4

-----------------------------------------------------------------------------
(* Regenerations.                                                          *)

HasCall(s, c) == \E i \in DOMAIN s : s[i].call = c

OncePerCall(s) == \A i, j \in DOMAIN s : s[i].call = s[j].call => i = j

(* One more element.                                                       *)
LEMMA AppendCall ==
    ASSUME NEW S, NEW s \in Seq(S), NEW x \in S
    PROVE  /\ Append(s, x) \in Seq(S)
           /\ \A c : HasCall(Append(s, x), c) <=> HasCall(s, c) \/ c = x.call
           /\ OncePerCall(s) /\ ~HasCall(s, x.call) => OncePerCall(Append(s, x))
<1> DEFINE r == Append(s, x)
           n == Len(s) + 1
<1>1. /\ r \in Seq(S) /\ Len(s) \in Nat /\ DOMAIN s = 1 .. Len(s) /\ DOMAIN r = 1 .. n
      /\ \A i \in 1 .. Len(s) : r[i] = s[i]
      /\ r[n] = x
  BY AppendProperties, LenProperties
<1>2. /\ DOMAIN r = DOMAIN s \cup {n} /\ n \notin DOMAIN s
      /\ \A i \in DOMAIN s : r[i] = s[i]
  BY <1>1
<1> HIDE DEF r, n
<1>3. \A c : HasCall(r, c) <=> HasCall(s, c) \/ c = x.call
  BY <1>1, <1>2 DEF HasCall
<1>4. OncePerCall(s) /\ ~HasCall(s, x.call) => OncePerCall(r)
  BY <1>1, <1>2 DEF HasCall, OncePerCall
<1> QED
  BY <1>1, <1>3, <1>4 DEF r

(* Two sequences with no call in common.                                   *)
LEMMA ConcatCall ==
    ASSUME NEW S, NEW s \in Seq(S), NEW u \in Seq(S)
    PROVE  /\ s \o u \in Seq(S)
           /\ \A c : HasCall(s \o u, c) <=> HasCall(s, c) \/ HasCall(u, c)
           /\ OncePerCall(s) /\ OncePerCall(u) /\ (\A c : ~(HasCall(s, c) /\ HasCall(u, c)))
                => OncePerCall(s \o u)
<1> DEFINE r == s \o u
           m == Len(s)
           n == Len(u)
<1>1. /\ r \in Seq(S) /\ m \in Nat /\ n \in Nat
      /\ DOMAIN s = 1 .. m /\ DOMAIN u = 1 .. n /\ Len(r) = m + n
  BY ConcatProperties, LenProperties
<1>2. DOMAIN r = 1 .. (m + n)
  BY <1>1, LenProperties
<1>3. /\ \A i \in DOMAIN r : i \in DOMAIN s => r[i] = s[i]
      /\ \A i \in DOMAIN r : i \notin DOMAIN s => i - m \in DOMAIN u /\ r[i] = u[i - m]
      /\ \A i \in DOMAIN u : m + i \in DOMAIN r /\ m + i \notin DOMAIN s /\ r[m + i] = u[i]
      /\ \A i \in DOMAIN s : i \in DOMAIN r
  <2>1. \A i \in 1 .. (m + n) : r[i] = IF i <= m THEN s[i] ELSE u[i - m]
    BY ConcatProperties
  <2> HIDE DEF r, m, n
  <2>2. \A i \in DOMAIN u : m + i \in 1 .. (m + n) /\ ~(m + i <= m) /\ (m + i) - m = i
    BY <1>1
  <2>3. \A i \in DOMAIN u : m + i \in DOMAIN r /\ m + i \notin DOMAIN s /\ r[m + i] = u[i]
    BY <2>1, <2>2, <1>1, <1>2
  <2>4. \A i \in DOMAIN r : i \in DOMAIN s => r[i] = s[i]
    BY <2>1, <1>1, <1>2
  <2>5. \A i \in DOMAIN r : i \notin DOMAIN s => i - m \in DOMAIN u /\ r[i] = u[i - m]
    BY <2>1, <1>1, <1>2
  <2>6. \A i \in DOMAIN s : i \in DOMAIN r
    BY <1>1, <1>2
  <2> QED
    BY <2>3, <2>4, <2>5, <2>6
<1>4. \A i, j \in DOMAIN r : i - m = j - m => i = j
  BY <1>1, <1>2
<1> HIDE DEF r, m, n
<1>5. \A c : HasCall(r, c) <=> HasCall(s, c) \/ HasCall(u, c)
  BY <1>3 DEF HasCall
<1>6. ASSUME OncePerCall(s), OncePerCall(u), \A c : ~(HasCall(s, c) /\ HasCall(u, c))
      PROVE  OncePerCall(r)
  <2> SUFFICES ASSUME NEW i \in DOMAIN r, NEW j \in DOMAIN r, r[i].call = r[j].call
               PROVE  i = j
    BY DEF OncePerCall
  <2>1. CASE i \in DOMAIN s /\ j \in DOMAIN s
    BY <2>1, <1>3, <1>6 DEF OncePerCall
  <2>2. CASE i \notin DOMAIN s /\ j \notin DOMAIN s
    BY <2>2, <1>3, <1>4, <1>6 DEF OncePerCall
  <2>3. CASE i \in DOMAIN s /\ j \notin DOMAIN s
    BY <2>3, <1>3, <1>6, ZenonT(30) DEF HasCall
  <2>4. CASE i \notin DOMAIN s /\ j \in DOMAIN s
    BY <2>4, <1>3, <1>6, ZenonT(30) DEF HasCall
  <2> QED
    BY <2>1, <2>2, <2>3, <2>4
<1> QED
  BY <1>1, <1>5, <1>6 DEF r

(* One element less.                                                       *)
LEMMA RemoveCall ==
    ASSUME NEW S, NEW s \in Seq(S), NEW i \in DOMAIN s, OncePerCall(s)
    PROVE  /\ RemoveAt(s, i) \in Seq(S)
           /\ \A c : HasCall(RemoveAt(s, i), c) <=> HasCall(s, c) /\ c # s[i].call
           /\ OncePerCall(RemoveAt(s, i))
<1> DEFINE r == RemoveAt(s, i)
<1>1. i \in 1 .. Len(s)
  BY LenProperties
<1>2. r \in Seq(S)
  BY <1>1, RemoveAtProperties
<1>3. Dropped(s, i, r)
  BY <1>1, RemoveAtElements
<1> HIDE DEF r
<1>4. \A c : HasCall(r, c) <=> HasCall(s, c) /\ c # s[i].call
  <2> TAKE c
  <2>1. ASSUME HasCall(r, c)
        PROVE  HasCall(s, c) /\ c # s[i].call
    <3>1. PICK k \in DOMAIN r : r[k].call = c
      BY <2>1 DEF HasCall
    <3>2. PICK j \in DOMAIN s : j # i /\ r[k] = s[j]
      BY <1>3 DEF Dropped
    <3> QED
      BY <3>1, <3>2 DEF HasCall, OncePerCall
  <2>2. ASSUME HasCall(s, c), c # s[i].call
        PROVE  HasCall(r, c)
    <3>1. PICK j \in DOMAIN s : s[j].call = c
      BY <2>2 DEF HasCall
    <3>2. PICK k \in DOMAIN r : r[k] = s[j]
      BY <2>2, <3>1, <1>3 DEF Dropped
    <3> QED
      BY <3>1, <3>2 DEF HasCall
  <2> QED
    BY <2>1, <2>2
<1>5. OncePerCall(r)
  <2> SUFFICES ASSUME NEW k \in DOMAIN r, NEW l \in DOMAIN r, k # l
               PROVE  r[k].call # r[l].call
    BY DEF OncePerCall
  <2>1. PICK m, n \in DOMAIN s : m # n /\ m # i /\ n # i /\ r[k] = s[m] /\ r[l] = s[n]
    BY ONLY <1>3, k \in DOMAIN r, l \in DOMAIN r, k # l DEF Dropped
  <2> QED
    BY <2>1 DEF OncePerCall
<1> QED
  BY <1>2, <1>4, <1>5 DEF r


SourceNames == Range(AuthorityOrder) \cup {NoSource}

Busy == [at : {"enqueue", "rebuild", "record"}, call : Nat, entity : RepairEntities,
         modality : DriftedModalities, score : RepairScores, source : SourceNames, success : BOOLEAN]

Item == [call : Nat, entity : RepairEntities, modality : DriftedModalities]

Event == [call : Nat, entity : RepairEntities, modality : DriftedModalities,
          source : SourceNames, score : RepairScores, success : BOOLEAN]

Answer == [call : Nat, entity : RepairEntities, modality : DriftedModalities,
           score : RepairScores, result : {"no_action", "failed", "pending", "repaired"}]

RepairTypes ==
    /\ asked \in Nat
    /\ repair \in [Repairers -> Busy \cup {Idle}]
    /\ pending \in Seq(Item) /\ taken \in Seq(Item)
    /\ events \in Seq(Event)
    /\ returned \in SUBSET Answer

Calling(t) == repair[t].at # "idle"

(* A number names one call, which is under way or has one answer.          *)
CallsApart ==
    /\ \A t \in Repairers : Calling(t) => repair[t].call \in 1 .. asked
    /\ \A t, u \in Repairers : Calling(t) /\ Calling(u) /\ repair[t].call = repair[u].call => t = u
    /\ \A r \in returned : r.call \in 1 .. asked
    /\ \A r, s \in returned : r.call = s.call => r = s
    /\ \A t \in Repairers, r \in returned : Calling(t) => r.call # repair[t].call

(* Events and answers of calls that acted go together.                     *)
EventsMatch ==
    /\ OncePerCall(events)
    /\ \A c : HasCall(events, c) <=> \E r \in returned : r.call = c /\ r.result # "no_action"
    /\ \A i \in DOMAIN events, r \in returned : events[i].call = r.call =>
         events[i].success = (r.result # "failed")

(* A success has a source, or is the queueing for a human.                 *)
Sourced(e, m, source, success) ==
    /\ source = SourceOf(e, m)
    /\ success => StrategyFor[m] = "user_resolve" \/ FirstSource(e, m) # 0

CallsSourced ==
    /\ \A t \in Repairers : Calling(t) =>
         /\ Sourced(repair[t].entity, repair[t].modality, repair[t].source, repair[t].success)
         /\ repair[t].at = "enqueue" => StrategyFor[repair[t].modality] = "user_resolve"
         /\ repair[t].at = "rebuild" => FirstSource(repair[t].entity, repair[t].modality) # 0
         /\ repair[t].at = "rebuild" => StrategyFor[repair[t].modality] # "user_resolve"
    /\ \A i \in DOMAIN events :
         Sourced(events[i].entity, events[i].modality, events[i].source, events[i].success)

Waited(c) == HasCall(pending, c) \/ HasCall(taken, c)

(* The items of the queue and those handed out: each call once, and those  *)
(* of the calls that have queued theirs.                                   *)
QueueMatches ==
    /\ OncePerCall(pending) /\ OncePerCall(taken)
    /\ \A c : ~(HasCall(pending, c) /\ HasCall(taken, c))
    /\ \A c : Waited(c) => c \in 1 .. asked
    /\ \A t \in Repairers : repair[t].at \in {"enqueue", "rebuild"} => ~Waited(repair[t].call)
    /\ \A t \in Repairers :
         repair[t].at = "record" /\ repair[t].success /\ StrategyFor[repair[t].modality] = "user_resolve"
           => Waited(repair[t].call)
    /\ \A r \in returned : r.result = "pending" => Waited(r.call)

RepairInv == RepairTypes /\ CallsApart /\ EventsMatch /\ CallsSourced /\ QueueMatches

(* FirstSource is the first of the other modalities present.               *)
LEMMA FirstSourceIsFirst ==
    ASSUME NEW e, NEW m,
           NEW P, P = {k \in DOMAIN AuthorityOrder : AuthorityOrder[k] # m /\ AuthorityOrder[k] \in PresentOn[e]}
    PROVE  /\ P = {} => FirstSource(e, m) = 0
           /\ P # {} => /\ FirstSource(e, m) # 0 /\ FirstSource(e, m) \in P
                        /\ \A l \in P : FirstSource(e, m) <= l
<1>1. AuthorityOrder \in Seq(Range(AuthorityOrder))
  BY EngineAssumption
<1>2. DOMAIN AuthorityOrder = 1 .. Len(AuthorityOrder) /\ Len(AuthorityOrder) \in Nat
  BY <1>1, LenProperties
<1>3. FirstSource(e, m) = IF P # {} THEN Min(P) ELSE 0
  BY <1>2 DEF FirstSource, SelectInSeq
<1>4. P \in SUBSET Nat /\ 0 \notin P
  BY <1>2
<1>5. P # {} => Min(P) \in P /\ \A l \in P : Min(P) <= l
  BY <1>4, MinProperties
<1> QED
  BY <1>3, <1>4, <1>5

(* The source of a call is a modality, or none.                            *)
LEMMA SourceOfType ==
    ASSUME NEW e, NEW m
    PROVE  SourceOf(e, m) \in SourceNames
<1> DEFINE P == {k \in DOMAIN AuthorityOrder : AuthorityOrder[k] # m /\ AuthorityOrder[k] \in PresentOn[e]}
<1>1. FirstSource(e, m) = 0 \/ FirstSource(e, m) \in DOMAIN AuthorityOrder
  <2>1. P = {} => FirstSource(e, m) = 0
    BY FirstSourceIsFirst
  <2>2. P # {} => FirstSource(e, m) \in P
    BY FirstSourceIsFirst
  <2> QED
    BY <2>1, <2>2
<1> QED
  BY <1>1 DEF SourceOf, SourceNames, Range

(* regenerate up to its first await: a new number.                         *)
LEMMA RegenerateStep ==
    ASSUME RepairInv, NEW t \in Repairers, NEW e \in RepairEntities, NEW m \in DriftedModalities,
           NEW s \in RepairScores, Regenerate(t, e, m, s)
    PROVE  RepairInv'
<1> DEFINE n == asked + 1
           a == [call |-> n, entity |-> e, modality |-> m, score |-> s, result |-> "no_action"]
           b == NewCall(e, m, s)
<1>0. /\ asked \in Nat /\ asked' = n /\ UNCHANGED <<pending, events, taken>>
      /\ repair[t].at = "idle" /\ repair \in [Repairers -> Busy \cup {Idle}]
      /\ returned \in SUBSET Answer
  BY DEF RepairInv, RepairTypes, Regenerate
<1>1. /\ n \in Nat /\ n \in 1 .. asked' /\ n \notin 1 .. asked
      /\ \A c \in 1 .. asked : c \in 1 .. asked'
  BY <1>0
<1> HIDE DEF n
<1>2. ~Calling(t) /\ ~Waited(n) /\ ~HasCall(events, n) /\ \A r \in returned : r.call # n
  <2>1. \A r \in returned : r.call # n
    BY <1>1 DEF RepairInv, CallsApart
  <2> QED
    BY <2>1, <1>0, <1>1 DEF RepairInv, QueueMatches, EventsMatch, Calling
<1>3. \A c : Waited(c)' = Waited(c)
  BY <1>0 DEF Waited
<1>4. CASE returned' = returned \cup {a} /\ UNCHANGED repair
  <2>1. a \in Answer /\ a.call = n /\ a.result = "no_action"
    BY <1>1 DEF Answer
  <2> HIDE DEF a
  <2>2. \A u \in Repairers : Calling(u)' = Calling(u)
    BY <1>4 DEF Calling
  <2>3. \A u \in Repairers : Calling(u) => repair[u].call # n
    BY <1>1 DEF RepairInv, CallsApart
  <2>4. RepairTypes'
    BY <1>0, <1>1, <1>4, <2>1 DEF RepairInv, RepairTypes
  <2>5. CallsApart'
    BY <1>1, <1>2, <1>4, <2>1, <2>2, <2>3 DEF RepairInv, CallsApart
  <2>6. EventsMatch'
    <3>1. \A i \in DOMAIN events : events[i].call # n
      BY <1>2 DEF HasCall
    <3>2. \A i \in DOMAIN events, r \in returned' : events[i].call = r.call =>
            events[i].success = (r.result # "failed")
      BY <1>4, <2>1, <3>1 DEF RepairInv, EventsMatch
    <3>3. \A c : (\E r \in returned' : r.call = c /\ r.result # "no_action")
                   <=> \E r \in returned : r.call = c /\ r.result # "no_action"
      BY <1>4, <2>1
    <3> QED
      BY <1>0, <3>2, <3>3 DEF RepairInv, EventsMatch
  <2>7. CallsSourced'
    BY <1>0, <1>4, <2>2 DEF RepairInv, CallsSourced
  <2>8. QueueMatches'
    BY <1>0, <1>1, <1>3, <1>4, <2>1 DEF RepairInv, QueueMatches
  <2> QED
    BY <2>4, <2>5, <2>6, <2>7, <2>8 DEF RepairInv
<1>5. CASE repair' = [repair EXCEPT ![t] = b] /\ UNCHANGED returned
  <2>1. /\ b = [at |-> FirstStep(e, m), call |-> n, entity |-> e, modality |-> m, score |-> s,
                source |-> SourceOf(e, m), success |-> FALSE]
    BY DEF NewCall, n
  <2>2. /\ FirstStep(e, m) \in {"enqueue", "rebuild", "record"}
        /\ FirstStep(e, m) = "enqueue" => StrategyFor[m] = "user_resolve"
        /\ FirstStep(e, m) = "rebuild" => FirstSource(e, m) # 0 /\ StrategyFor[m] # "user_resolve"
    BY DEF FirstStep
  <2>3. SourceOf(e, m) \in SourceNames
    BY SourceOfType
  <2>4. b \in Busy /\ b.at # "idle" /\ b.call = n
    BY <1>1, <2>1, <2>2, <2>3 DEF Busy
  <2>5. repair'[t] = b /\ \A u \in Repairers : u # t => repair'[u] = repair[u]
    BY <1>0, <1>5
  <2>6. Calling(t)' /\ \A u \in Repairers : u # t => Calling(u)' = Calling(u)
    BY <2>4, <2>5 DEF Calling
  <2>7. RepairTypes'
    BY <1>0, <1>1, <1>5, <2>4 DEF RepairInv, RepairTypes
  <2>8. CallsApart'
    <3>1. \A u \in Repairers : u # t /\ Calling(u)' => repair'[u].call # n
      BY <1>1, <2>5, <2>6 DEF RepairInv, CallsApart
    <3> QED
      BY <1>1, <1>2, <1>5, <2>4, <2>5, <2>6, <3>1 DEF RepairInv, CallsApart
  <2>9. EventsMatch'
    BY <1>0, <1>5 DEF RepairInv, EventsMatch
  <2>10. CallsSourced'
    <3>1. /\ Sourced(b.entity, b.modality, b.source, b.success)
          /\ b.at = "enqueue" => StrategyFor[b.modality] = "user_resolve"
          /\ b.at = "rebuild" => FirstSource(b.entity, b.modality) # 0
          /\ b.at = "rebuild" => StrategyFor[b.modality] # "user_resolve"
      BY <2>1, <2>2 DEF Sourced
    <3> HIDE DEF b
    <3> QED
      BY <1>0, <2>5, <2>6, <3>1 DEF RepairInv, CallsSourced
  <2>11. QueueMatches'
    <3>1. ~b.success
      BY <2>1
    <3> HIDE DEF b
    <3> QED
      BY <1>0, <1>1, <1>2, <1>3, <1>5, <2>4, <2>5, <3>1 DEF RepairInv, QueueMatches
  <2> QED
    BY <2>7, <2>8, <2>9, <2>10, <2>11 DEF RepairInv
<1> QED
  BY <1>4, <1>5 DEF Regenerate, n


(* The regenerator answers.                                                *)
LEMMA RebuildStep ==
    ASSUME RepairInv, NEW t \in Repairers, NEW answer, Rebuild(t, answer)
    PROVE  RepairInv'
<1> DEFINE b == [repair[t] EXCEPT !.at = "record", !.success = (answer = "ok")]
<1>0. /\ repair[t].at = "rebuild" /\ repair' = [repair EXCEPT ![t] = b]
      /\ UNCHANGED <<pending, events, asked, returned, taken>>
      /\ repair \in [Repairers -> Busy \cup {Idle}]
  BY DEF RepairInv, RepairTypes, Rebuild
<1>1. repair[t] \in Busy
  BY <1>0 DEF Idle
<1>2. /\ b \in Busy /\ b.at = "record" /\ b.call = repair[t].call /\ b.entity = repair[t].entity
      /\ b.modality = repair[t].modality /\ b.source = repair[t].source
  BY <1>1 DEF Busy
<1> HIDE DEF b
<1>3. repair'[t] = b /\ \A u \in Repairers : u # t => repair'[u] = repair[u]
  BY <1>0
<1>4. /\ Calling(t) /\ Calling(t)' /\ \A u \in Repairers : Calling(u)' = Calling(u)
      /\ \A u \in Repairers : repair'[u].call = repair[u].call
  BY <1>0, <1>2, <1>3 DEF Calling
<1>5. RepairTypes'
  BY <1>0, <1>2 DEF RepairInv, RepairTypes
<1>6. CallsApart'
  BY <1>0, <1>4 DEF RepairInv, CallsApart
<1>7. EventsMatch'
  BY <1>0 DEF RepairInv, EventsMatch
<1>8. FirstSource(b.entity, b.modality) # 0 /\ StrategyFor[b.modality] # "user_resolve"
  BY <1>0, <1>2, <1>4 DEF RepairInv, CallsSourced
<1>9. CallsSourced'
  <2>1. Sourced(b.entity, b.modality, b.source, b.success)
    BY <1>2, <1>4, <1>8 DEF RepairInv, CallsSourced, Sourced
  <2> QED
    BY <1>0, <1>2, <1>3, <1>4, <2>1 DEF RepairInv, CallsSourced
<1>10. QueueMatches'
  <2>1. \A c : Waited(c)' = Waited(c)
    BY <1>0 DEF Waited
  <2> QED
    BY <1>0, <1>2, <1>3, <1>8, <2>1 DEF RepairInv, QueueMatches
<1> QED
  BY <1>5, <1>6, <1>7, <1>9, <1>10 DEF RepairInv

(* execute_user_resolve: the item reaches the queue before the event.      *)
LEMMA EnqueueStep ==
    ASSUME RepairInv, NEW t \in Repairers, Enqueue(t)
    PROVE  RepairInv'
<1> DEFINE b == [repair[t] EXCEPT !.at = "record", !.success = TRUE]
           x == [call |-> repair[t].call, entity |-> repair[t].entity,
                 modality |-> repair[t].modality]
<1>0. /\ repair[t].at = "enqueue" /\ repair' = [repair EXCEPT ![t] = b]
      /\ pending' = Append(pending, x) /\ pending \in Seq(Item)
      /\ UNCHANGED <<events, asked, returned, taken>>
      /\ repair \in [Repairers -> Busy \cup {Idle}]
  BY DEF RepairInv, RepairTypes, Enqueue
<1>1. repair[t] \in Busy
  BY <1>0 DEF Idle
<1>2. /\ b \in Busy /\ b.at = "record" /\ b.call = repair[t].call /\ b.entity = repair[t].entity
      /\ b.modality = repair[t].modality /\ b.source = repair[t].source
      /\ x \in Item /\ x.call = repair[t].call
  BY <1>1 DEF Busy, Item
<1> HIDE DEF b, x
<1>3. repair'[t] = b /\ \A u \in Repairers : u # t => repair'[u] = repair[u]
  BY <1>0
<1>4. /\ Calling(t) /\ Calling(t)' /\ \A u \in Repairers : Calling(u)' = Calling(u)
      /\ \A u \in Repairers : repair'[u].call = repair[u].call
  BY <1>0, <1>2, <1>3 DEF Calling
<1>5. ~Waited(x.call) /\ ~HasCall(pending, x.call)
  BY <1>0, <1>2 DEF RepairInv, QueueMatches, Waited
<1>6. /\ pending' \in Seq(Item)
      /\ \A c : HasCall(pending', c) <=> HasCall(pending, c) \/ c = x.call
      /\ OncePerCall(pending')
  BY <1>0, <1>2, <1>5, AppendCall DEF RepairInv, QueueMatches
<1>7. \A c : Waited(c)' <=> Waited(c) \/ c = x.call
  BY <1>0, <1>6 DEF Waited
<1>8. RepairTypes'
  BY <1>0, <1>2, <1>6 DEF RepairInv, RepairTypes
<1>9. CallsApart'
  BY <1>0, <1>4 DEF RepairInv, CallsApart
<1>10. EventsMatch'
  BY <1>0 DEF RepairInv, EventsMatch
<1>11. CallsSourced'
  <2>1. Sourced(b.entity, b.modality, b.source, b.success)
    BY <1>0, <1>2, <1>4 DEF RepairInv, CallsSourced, Sourced
  <2> QED
    BY <1>0, <1>2, <1>3, <1>4, <2>1 DEF RepairInv, CallsSourced
<1>12. QueueMatches'
  <2>1. \A c : ~(HasCall(pending', c) /\ HasCall(taken', c))
    BY <1>0, <1>5, <1>6 DEF RepairInv, QueueMatches, Waited
  <2>2. \A c : Waited(c)' => c \in 1 .. asked'
    BY <1>0, <1>2, <1>4, <1>7 DEF RepairInv, QueueMatches, CallsApart
  <2>3. ASSUME NEW u \in Repairers, repair'[u].at \in {"enqueue", "rebuild"}
        PROVE  ~Waited(repair[u].call)'
    <3>1. u # t /\ repair'[u] = repair[u]
      BY <2>3, <1>2, <1>3
    <3>2. Calling(u) /\ repair[u].call # x.call
      BY <2>3, <3>1, <1>2, <1>4 DEF RepairInv, CallsApart, Calling
    <3> QED
      BY <2>3, <3>1, <3>2, <1>7 DEF RepairInv, QueueMatches
  <2>4. \A u \in Repairers :
          repair'[u].at = "record" /\ repair'[u].success /\ StrategyFor[repair'[u].modality] = "user_resolve"
            => Waited(repair[u].call)'
    BY <1>2, <1>3, <1>7 DEF RepairInv, QueueMatches
  <2>5. \A r \in returned' : r.result = "pending" => Waited(r.call)'
    BY <1>0, <1>7 DEF RepairInv, QueueMatches
  <2>6. OncePerCall(taken')
    BY <1>0 DEF RepairInv, QueueMatches
  <2> QED
    BY <1>6, <2>1, <2>2, <2>3, <2>4, <2>5, <2>6 DEF QueueMatches
<1> QED
  BY <1>8, <1>9, <1>10, <1>11, <1>12 DEF RepairInv

(* What the caller is told.                                                *)
LEMMA ResultOfCases ==
    ASSUME NEW b, b.success \in BOOLEAN
    PROVE  /\ ResultOf(b) \in {"failed", "pending", "repaired"}
           /\ ResultOf(b) = "failed" <=> ~b.success
           /\ ResultOf(b) = "pending" => b.success /\ StrategyFor[b.modality] = "user_resolve"
  BY DEF ResultOf

(* record_event: the event and the answer of the call.                     *)
LEMMA RecordStepInv ==
    ASSUME RepairInv, NEW t \in Repairers, Record(t)
    PROVE  RepairInv'
<1> DEFINE b == repair[t]
           v == [call |-> b.call, entity |-> b.entity, modality |-> b.modality, source |-> b.source,
                 score |-> b.score, success |-> b.success]
           a == [call |-> b.call, entity |-> b.entity, modality |-> b.modality, score |-> b.score,
                 result |-> ResultOf(b)]
<1>0. /\ b.at = "record" /\ repair' = [repair EXCEPT ![t] = Idle]
      /\ events' = Append(events, v) /\ events \in Seq(Event)
      /\ returned' = returned \cup {a} /\ returned \in SUBSET Answer
      /\ UNCHANGED <<pending, asked, taken>>
      /\ repair \in [Repairers -> Busy \cup {Idle}]
  BY DEF RepairInv, RepairTypes, Record
<1>1. b \in Busy
  BY <1>0 DEF Idle
<1>2. /\ ResultOf(b) \in {"failed", "pending", "repaired"}
      /\ ResultOf(b) = "failed" <=> ~b.success
      /\ ResultOf(b) = "pending" => b.success /\ StrategyFor[b.modality] = "user_resolve"
  <2>1. b.success \in BOOLEAN
    BY <1>1 DEF Busy
  <2> QED
    BY <2>1, ResultOfCases
<1>3. /\ v \in Event /\ v.call = b.call /\ v.entity = b.entity /\ v.modality = b.modality
      /\ v.source = b.source /\ v.success = b.success
      /\ a \in Answer /\ a.call = b.call /\ a.result = ResultOf(b)
  BY <1>1, <1>2 DEF Busy, Event, Answer
<1>4. v.success = (a.result # "failed")
  BY <1>1, <1>2, <1>3 DEF Busy
<1> HIDE DEF v, a
<1>5. repair'[t] = Idle /\ \A u \in Repairers : u # t => repair'[u] = repair[u]
  BY <1>0
<1>6. /\ Calling(t) /\ ~Calling(t)' /\ \A u \in Repairers : u # t => Calling(u)' = Calling(u)
      /\ Idle.at \notin {"enqueue", "rebuild", "record"}
  BY <1>0, <1>5 DEF Calling, Idle
<1>7. ~HasCall(events, v.call) /\ \A r \in returned : r.call # a.call
  BY <1>3, <1>6 DEF RepairInv, CallsApart, EventsMatch
<1>8. /\ events' \in Seq(Event)
      /\ \A c : HasCall(events', c) <=> HasCall(events, c) \/ c = v.call
      /\ OncePerCall(events')
  BY <1>0, <1>3, <1>7, AppendCall DEF RepairInv, EventsMatch
<1>9. \A i \in DOMAIN events' : events'[i] = v \/ \E j \in DOMAIN events : events'[i] = events[j]
  <2>1. /\ Len(events) \in Nat /\ DOMAIN events = 1 .. Len(events)
        /\ DOMAIN events' = 1 .. (Len(events) + 1)
        /\ \A i \in 1 .. Len(events) : events'[i] = events[i]
        /\ events'[Len(events) + 1] = v
    BY <1>0, <1>3, AppendProperties, LenProperties
  <2>2. \A i \in DOMAIN events' : i \in DOMAIN events \/ i = Len(events) + 1
    BY <2>1
  <2> QED
    BY <2>1, <2>2
<1>10. RepairTypes'
  BY <1>0, <1>3, <1>8 DEF RepairInv, RepairTypes
<1>11. CallsApart'
  <2>1. \A u \in Repairers : Calling(u)' => u # t /\ Calling(u) /\ repair'[u] = repair[u]
    BY <1>5, <1>6
  <2>2. \A u \in Repairers : Calling(u)' => repair[u].call # a.call
    BY <1>3, <1>6, <2>1 DEF RepairInv, CallsApart
  <2>3. a.call \in 1 .. asked
    BY <1>3, <1>6 DEF RepairInv, CallsApart
  <2> QED
    BY <1>0, <1>7, <2>1, <2>2, <2>3 DEF RepairInv, CallsApart
<1>12. EventsMatch'
  <2>1. \A c : HasCall(events', c) <=> \E r \in returned' : r.call = c /\ r.result # "no_action"
    BY <1>0, <1>2, <1>3, <1>8 DEF RepairInv, EventsMatch
  <2>2. ASSUME NEW i \in DOMAIN events', NEW r \in returned', events'[i].call = r.call
        PROVE  events'[i].success = (r.result # "failed")
    <3>1. CASE events'[i] = v
      <4>1. r = a
        BY <3>1, <2>2, <1>0, <1>3, <1>7
      <4> QED
        BY <3>1, <4>1, <1>4
    <3>2. CASE \E j \in DOMAIN events : events'[i] = events[j]
      <4>1. PICK j \in DOMAIN events : events'[i] = events[j]
        BY <3>2
      <4>2. events[j].call # a.call
        BY <1>3, <1>7 DEF HasCall
      <4>3. r \in returned
        BY <4>1, <4>2, <2>2, <1>0
      <4> QED
        BY <4>1, <4>3, <2>2 DEF RepairInv, EventsMatch
    <3> QED
      BY <3>1, <3>2, <1>9
  <2> QED
    BY <1>8, <2>1, <2>2 DEF EventsMatch
<1>13. CallsSourced'
  <2>1. Sourced(v.entity, v.modality, v.source, v.success)
    BY <1>3, <1>6 DEF RepairInv, CallsSourced
  <2>2. \A i \in DOMAIN events' :
          Sourced(events'[i].entity, events'[i].modality, events'[i].source, events'[i].success)
    BY <1>9, <2>1 DEF RepairInv, CallsSourced
  <2>3. \A u \in Repairers : Calling(u)' => Calling(u) /\ repair'[u] = repair[u]
    BY <1>5, <1>6
  <2> QED
    BY <2>2, <2>3 DEF RepairInv, CallsSourced
<1>14. QueueMatches'
  <2>1. \A c : Waited(c)' = Waited(c)
    BY <1>0 DEF Waited
  <2>2. a.result = "pending" => Waited(a.call)
    BY <1>0, <1>2, <1>3 DEF RepairInv, QueueMatches
  <2>3. \A u \in Repairers : repair'[u].at \in {"enqueue", "rebuild", "record"} => repair'[u] = repair[u]
    BY <1>5, <1>6
  <2> QED
    BY <1>0, <2>1, <2>2, <2>3 DEF RepairInv, QueueMatches
<1> QED
  BY <1>10, <1>11, <1>12, <1>13, <1>14 DEF RepairInv


(* Items that leave the queue are handed out, and calls are as before.     *)
LEMMA QueueStep ==
    ASSUME RepairInv, UNCHANGED <<repair, events, asked, returned>>,
           pending' \in Seq(Item), taken' \in Seq(Item),
           OncePerCall(pending'), OncePerCall(taken'),
           \A c : ~(HasCall(pending', c) /\ HasCall(taken', c)),
           \A c : HasCall(pending', c) \/ HasCall(taken', c) <=> Waited(c)
    PROVE  RepairInv'
<1>1. \A c : Waited(c)' <=> Waited(c)
  BY DEF Waited
<1>2. \A t \in Repairers : Calling(t)' = Calling(t)
  BY DEF Calling
<1>3. RepairTypes'
  BY DEF RepairInv, RepairTypes
<1>4. CallsApart' /\ EventsMatch' /\ CallsSourced'
  BY <1>2 DEF RepairInv, CallsApart, EventsMatch, CallsSourced
<1>5. QueueMatches'
  BY <1>1 DEF RepairInv, QueueMatches
<1> QED
  BY <1>3, <1>4, <1>5 DEF RepairInv

(* NormalizationQueue::resolve takes one item.                             *)
LEMMA ResolveItemStep ==
    ASSUME RepairInv, NEW e, NEW m, ResolveItem(e, m)
    PROVE  RepairInv'
<1> DEFINE P == Matches(e, m)
           i == CHOOSE k \in P : \A l \in P : k <= l
<1>0. /\ P # {} /\ pending' = RemoveAt(pending, i) /\ taken' = Append(taken, pending[i])
      /\ UNCHANGED <<repair, events, asked, returned>>
      /\ pending \in Seq(Item) /\ taken \in Seq(Item)
      /\ OncePerCall(pending) /\ OncePerCall(taken)
      /\ \A c : ~(HasCall(pending, c) /\ HasCall(taken, c))
  BY DEF RepairInv, RepairTypes, QueueMatches, ResolveItem
<1>1. i \in DOMAIN pending
  <2>1. P \in SUBSET Nat
    BY <1>0, LenProperties DEF Matches
  <2> HIDE DEF P
  <2>2. Min(P) \in P /\ \A l \in P : Min(P) <= l
    BY <1>0, <2>1, MinProperties
  <2>3. i \in P
    BY <2>2
  <2> QED
    BY <2>3 DEF P, Matches
<1> HIDE DEF i, P
<1>2. pending[i] \in Item /\ HasCall(pending, pending[i].call)
  BY <1>0, <1>1, ElementOfSeq, LenProperties DEF HasCall
<1>3. /\ pending' \in Seq(Item)
      /\ \A c : HasCall(pending', c) <=> HasCall(pending, c) /\ c # pending[i].call
      /\ OncePerCall(pending')
  BY <1>0, <1>1, RemoveCall
<1>4. /\ taken' \in Seq(Item)
      /\ \A c : HasCall(taken', c) <=> HasCall(taken, c) \/ c = pending[i].call
      /\ OncePerCall(taken')
  <2>1. ~HasCall(taken, pending[i].call)
    BY <1>0, <1>2
  <2> QED
    BY <1>0, <1>2, <2>1, AppendCall
<1>5. \A c : ~(HasCall(pending', c) /\ HasCall(taken', c))
  BY <1>0, <1>3, <1>4
<1>6. \A c : HasCall(pending', c) \/ HasCall(taken', c) <=> Waited(c)
  BY <1>2, <1>3, <1>4 DEF Waited
<1> QED
  BY <1>0, <1>3, <1>4, <1>5, <1>6, QueueStep

(* NormalizationQueue::drain takes all.                                    *)
LEMMA DrainStep ==
    ASSUME RepairInv, Drain
    PROVE  RepairInv'
<1>0. /\ taken' = taken \o pending /\ pending' = <<>>
      /\ UNCHANGED <<repair, events, asked, returned>>
      /\ pending \in Seq(Item) /\ taken \in Seq(Item)
      /\ OncePerCall(pending) /\ OncePerCall(taken)
      /\ \A c : ~(HasCall(pending, c) /\ HasCall(taken, c))
  BY DEF RepairInv, RepairTypes, QueueMatches, Drain
<1>1. pending' \in Seq(Item) /\ OncePerCall(pending') /\ \A c : ~HasCall(pending', c)
  BY <1>0 DEF OncePerCall, HasCall
<1>2. /\ taken' \in Seq(Item) /\ OncePerCall(taken')
      /\ \A c : HasCall(taken', c) <=> HasCall(taken, c) \/ HasCall(pending, c)
  BY <1>0, ConcatCall
<1>3. \A c : HasCall(pending', c) \/ HasCall(taken', c) <=> Waited(c)
  BY <1>1, <1>2 DEF Waited
<1> QED
  BY <1>0, <1>1, <1>2, <1>3, QueueStep

(* Every step of the regeneration engine.                                  *)
LEMMA RegenerationStep ==
    ASSUME RepairInv, RepairNext
    PROVE  RepairInv'
<1>1. ASSUME NEW t \in Repairers, NEW e \in RepairEntities, NEW m \in DriftedModalities,
             NEW s \in RepairScores, Regenerate(t, e, m, s)
      PROVE  RepairInv'
  BY <1>1, RegenerateStep
<1>2. ASSUME NEW t \in Repairers, RepairStep(t)
      PROVE  RepairInv'
  BY <1>2, RebuildStep, EnqueueStep, RecordStepInv DEF RepairStep
<1>3. ASSUME NEW e, NEW m, ResolveItem(e, m)
      PROVE  RepairInv'
  BY <1>3, ResolveItemStep
<1>4. ASSUME Drain
      PROVE  RepairInv'
  BY <1>4, DrainStep
<1> QED
  BY <1>1, <1>2, <1>3, <1>4 DEF RepairNext

(* It starts idle, with nothing recorded.                                  *)
LEMMA RegenerationStart ==
    ASSUME RepairInit
    PROVE  RepairInv
<1>1. /\ repair = [t \in Repairers |-> Idle] /\ pending = <<>> /\ events = <<>>
      /\ asked = 0 /\ returned = {} /\ taken = <<>>
  BY DEF RepairInit
<1>2. \A t \in Repairers : repair[t] = Idle /\ ~Calling(t) /\ repair[t].at \notin {"enqueue", "rebuild", "record"}
  BY <1>1 DEF Idle, Calling
<1>3. \A c : ~HasCall(pending, c) /\ ~HasCall(taken, c) /\ ~HasCall(events, c) /\ ~Waited(c)
  BY <1>1 DEF HasCall, Waited
<1>4. OncePerCall(pending) /\ OncePerCall(taken) /\ OncePerCall(events) /\ DOMAIN events = {}
  BY <1>1 DEF OncePerCall
<1>5. RepairTypes
  BY <1>1 DEF RepairTypes
<1> QED
  BY <1>1, <1>2, <1>3, <1>4, <1>5 DEF RepairInv, CallsApart, EventsMatch, CallsSourced, QueueMatches

(* How often a call occurs.                                                *)
LEMMA CallCount ==
    ASSUME NEW s, OncePerCall(s), NEW c
    PROVE  Cardinality({i \in DOMAIN s : s[i].call = c}) = IF HasCall(s, c) THEN 1 ELSE 0
<1> DEFINE P == {i \in DOMAIN s : s[i].call = c}
<1>1. CASE HasCall(s, c)
  <2>1. PICK i \in DOMAIN s : s[i].call = c
    BY <1>1 DEF HasCall
  <2>2. P = {i}
    BY <2>1 DEF OncePerCall
  <2> QED
    BY <1>1, <2>2, FS_Singleton
<1>2. CASE ~HasCall(s, c)
  <2>1. P = {}
    BY <1>2 DEF HasCall
  <2> QED
    BY <1>2, <2>1, FS_EmptySet
<1> QED
  BY <1>1, <1>2

(* The invariant gives the properties of the run.                          *)
LEMMA RepairProperties ==
    ASSUME RepairInv
    PROVE  AuditComplete /\ BestSource /\ QueueConserved
<1>1. AuditComplete
  <2>1. ASSUME NEW r \in returned
        PROVE  Cardinality(Logged(r.call)) = IF r.result = "no_action" THEN 0 ELSE 1
    <3>1. Cardinality(Logged(r.call)) = IF HasCall(events, r.call) THEN 1 ELSE 0
      BY CallCount DEF RepairInv, EventsMatch, Logged
    <3>2. HasCall(events, r.call) <=> r.result # "no_action"
      BY DEF RepairInv, EventsMatch, CallsApart
    <3> QED
      BY <3>1, <3>2
  <2>2. ASSUME NEW r \in returned, NEW i \in Logged(r.call)
        PROVE  events[i].success = (r.result # "failed")
    BY DEF RepairInv, EventsMatch, Logged
  <2>3. ASSUME NEW i \in DOMAIN events
        PROVE  \E r \in returned : r.call = events[i].call
    <3>1. HasCall(events, events[i].call)
      BY DEF HasCall
    <3> QED
      BY <3>1 DEF RepairInv, EventsMatch
  <2> QED
    BY <2>1, <2>2, <2>3 DEF AuditComplete
<1>2. BestSource
  <2> SUFFICES ASSUME NEW i \in DOMAIN events,
                      NEW Other, Other = {k \in DOMAIN AuthorityOrder :
                          AuthorityOrder[k] # events[i].modality /\ AuthorityOrder[k] \in PresentOn[events[i].entity]},
                      StrategyFor[events[i].modality] # "user_resolve"
               PROVE  /\ events[i].success => Other # {}
                      /\ events[i].source # NoSource =>
                           \E k \in Other : AuthorityOrder[k] = events[i].source /\ \A l \in Other : k <= l
    BY DEF BestSource
  <2> DEFINE e == events[i].entity
             m == events[i].modality
  <2>1. Sourced(e, m, events[i].source, events[i].success)
    BY DEF RepairInv, CallsSourced
  <2>2. /\ Other = {} => FirstSource(e, m) = 0
        /\ Other # {} => /\ FirstSource(e, m) # 0 /\ FirstSource(e, m) \in Other
                         /\ \A l \in Other : FirstSource(e, m) <= l
    BY FirstSourceIsFirst
  <2>3. events[i].source # NoSource =>
          FirstSource(e, m) # 0 /\ AuthorityOrder[FirstSource(e, m)] = events[i].source
    BY <2>1 DEF Sourced, SourceOf
  <2> QED
    BY <2>1, <2>2, <2>3 DEF Sourced
<1>3. QueueConserved
  <2>1. \A c : /\ Cardinality(InQueue(c)) = (IF HasCall(pending, c) THEN 1 ELSE 0)
               /\ Cardinality(WasTaken(c)) = (IF HasCall(taken, c) THEN 1 ELSE 0)
    BY CallCount DEF RepairInv, QueueMatches, InQueue, WasTaken
  <2>2. \A c : ~(HasCall(pending, c) /\ HasCall(taken, c))
    BY DEF RepairInv, QueueMatches
  <2>3. \A r \in returned : r.result = "pending" => HasCall(pending, r.call) \/ HasCall(taken, r.call)
    BY DEF RepairInv, QueueMatches, Waited
  <2>4. \A r \in returned : r.result = "pending" =>
          Cardinality(InQueue(r.call)) + Cardinality(WasTaken(r.call)) = 1
    BY <2>1, <2>2, <2>3
  <2>5. \A c \in 1 .. asked : Cardinality(InQueue(c)) + Cardinality(WasTaken(c)) <= 1
    BY <2>1, <2>2
  <2> QED
    BY <2>4, <2>5 DEF QueueConserved
<1> QED
  BY <1>1, <1>2, <1>3

(* What neither component writes stays.                                    *)
LEMMA RepairsStep ==
    ASSUME ConflictInv, RepairInv, [Next]_vars
    PROVE  ConflictInv' /\ RepairInv'
<1>1. ASSUME UNCHANGED conflictVars
      PROVE  ConflictInv'
  BY <1>1, SMTT(30) DEF conflictVars, ConflictInv, ConflictTypes, ActiveIds, HeldIds, FiledIds, Somewhere,
     MovesSound, ArchiveSound, EvictsOldest, Held, Undecided
<1>2. ASSUME UNCHANGED repairVars
      PROVE  RepairInv'
  BY <1>2 DEF repairVars, RepairInv, RepairTypes, CallsApart, EventsMatch, CallsSourced, QueueMatches,
     Calling, Waited
<1>3. CASE UNCHANGED vars
  BY <1>1, <1>2, <1>3 DEF vars
<1>4. CASE ConflictNext /\ UNCHANGED repairVars
  BY <1>2, <1>4, ConflictStep
<1>5. CASE RepairNext /\ UNCHANGED conflictVars
  BY <1>1, <1>5, RegenerationStep
<1>6. CASE UNCHANGED <<conflictVars, repairVars>>
  BY <1>1, <1>2, <1>6
<1> QED
  BY <1>3, <1>4, <1>5, <1>6 DEF Next

(* For any number of tasks, conflicts and regenerations, any dispute,      *)
(* policy, order of authority and history limit: of the tasks that settle  *)
(* one conflict one is answered, no conflict is lost between the active    *)
(* list and the history, the history holds the newest, only a human        *)
(* decides above the threshold and for a party; every regeneration that    *)
(* acted has its audit event and its best source, and what waits for a     *)
(* human is in the queue or was handed out once.                           *)
THEOREM RepairsAreAccounted == Spec => []RepairsAccounted
<1>1. Init => ConflictInv /\ RepairInv
  BY ConflictStart, RegenerationStart DEF Init
<1>2. ConflictInv /\ RepairInv /\ [Next]_vars => (ConflictInv /\ RepairInv)'
  BY RepairsStep
<1>3. ConflictInv /\ RepairInv => RepairsAccounted
  BY ConflictProperties, RepairProperties DEF RepairsAccounted
<1> QED
  BY <1>1, <1>2, <1>3, PTL DEF Spec

-----------------------------------------------------------------------------
(* Metrics.                                                                *)

Top == 1000

Score == 0 .. Top

Metric == [current : Score, average : Score, max : Score, count : Nat,
           history : Seq(Score)]

Coherent(m) ==
    /\ Len(m.history) = IF m.count > HistoryLimit THEN HistoryLimit ELSE m.count
    /\ m.count > 0 => m.history[Len(m.history)] = m.current
    /\ \A i \in DOMAIN m.history : m.history[i] <= m.max
    /\ m.average <= m.max

MetricsInv ==
    /\ metrics \in [DriftTypes -> Metric]
    /\ \A d \in DriftTypes : Coherent(metrics[d])

(* Scores are thousandths.                                                 *)
LEMMA TopNat == Top \in Nat
  BY DEF Top

(* h is the history of n scores, none above x.                             *)
LastOf(h, n, x) ==
    /\ Len(h) = IF n > HistoryLimit THEN HistoryLimit ELSE n
    /\ \A i \in DOMAIN h : h[i] <= x

Pushed(h, s) == IF Len(Append(h, s)) > HistoryLimit THEN Tail(Append(h, s)) ELSE Append(h, s)

(* The average's division.                                                 *)
LEMMA TenthBelow ==
    ASSUME NEW z \in Nat, NEW y \in Nat, z <= 10 * y
    PROVE  z \div 10 \in Nat /\ z \div 10 <= y
  OBVIOUS

(* The history after one more score.                                       *)
LEMMA HistoryGrows ==
    ASSUME NEW h \in Seq(Score), NEW s \in Score, NEW n \in Nat, NEW x \in Score,
           LastOf(h, n, x), NEW y \in Score, x <= y, s <= y
    PROVE  /\ Pushed(h, s) \in Seq(Score)
           /\ LastOf(Pushed(h, s), n + 1, y)
           /\ Pushed(h, s)[Len(Pushed(h, s))] = s
<1> DEFINE a == Append(h, s)
           l == Len(h)
           M == HistoryLimit
           r == Pushed(h, s)
<1>0. l \in Nat /\ M \in Nat /\ M >= 1 /\ DOMAIN h = 1 .. l
  BY LenProperties, PipelineAssumption
<1>1. /\ a \in Seq(Score) /\ Len(a) = l + 1 /\ DOMAIN a = 1 .. (l + 1)
      /\ \A i \in 1 .. l : a[i] = h[i]
      /\ a[l + 1] = s
  BY <1>0, AppendProperties
<1>2. l = (IF n > M THEN M ELSE n) /\ r = (IF Len(a) > M THEN Tail(a) ELSE a)
  BY DEF LastOf, Pushed
<1>6. \A i \in 1 .. l : h[i] <= x
  BY <1>0 DEF LastOf
<1> HIDE DEF a, l, M, r
<1>3. \A i \in 1 .. (l + 1) : a[i] <= y
  <2> SUFFICES ASSUME NEW i \in 1 .. (l + 1)
               PROVE  a[i] <= y
    OBVIOUS
  <2>1. CASE i = l + 1
    BY <2>1, <1>1
  <2>2. CASE i \in 1 .. l
    <3>1. a[i] = h[i] /\ h[i] \in Score /\ h[i] <= x
      BY <2>2, <1>0, <1>1, <1>6, ElementOfSeq DEF l
    <3> QED
      BY <3>1, TopNat DEF Score
  <2> QED
    BY <2>1, <2>2, <1>0
<1>4. CASE l + 1 > M
  <2>1. l = M /\ n >= M
    BY <1>0, <1>2, <1>4
  <2>2. r = Tail(a) /\ a # <<>>
    <3>1. Len(a) # 0
      BY <1>0, <1>1
    <3> QED
      BY <3>1, <1>1, <1>2, <1>4, EmptySeq
  <2>3. r \in Seq(Score) /\ Len(r) = Len(a) - 1 /\ \A i \in 1 .. Len(r) : r[i] = a[i + 1]
    <3>1. /\ Tail(a) \in Seq(Score) /\ Len(Tail(a)) = Len(a) - 1
          /\ \A i \in 1 .. Len(Tail(a)) : Tail(a)[i] = a[i + 1]
      BY <2>2, <1>1, HeadTailProperties
    <3> QED
      BY <3>1, <2>2
  <2>4. Len(r) = l /\ DOMAIN r = 1 .. l
    BY <2>3, <1>0, <1>1, LenProperties
  <2>5. l \in 1 .. l /\ \A i \in 1 .. l : i + 1 \in 1 .. (l + 1)
    BY <1>0, <2>1
  <2>6. r[Len(r)] = s /\ \A i \in DOMAIN r : r[i] <= y
    BY <1>1, <1>3, <2>3, <2>4, <2>5
  <2>7. Len(r) = IF n + 1 > M THEN M ELSE n + 1
    BY <1>0, <2>1, <2>4
  <2> QED
    BY <2>3, <2>6, <2>7 DEF M, r, LastOf
<1>5. CASE ~(l + 1 > M)
  <2>1. r = a /\ l = n /\ Len(r) = n + 1
    BY <1>0, <1>1, <1>2, <1>5
  <2>2. Len(r) = IF n + 1 > M THEN M ELSE n + 1
    BY <1>0, <1>5, <2>1
  <2> QED
    BY <1>0, <1>1, <1>3, <2>1, <2>2 DEF M, r, LastOf
<1> QED
  BY <1>4, <1>5

(* DriftMetrics::record.                                                   *)
LEMMA RecordedCoherent ==
    ASSUME NEW m \in Metric, Coherent(m), NEW s \in Score
    PROVE  Recorded(m, s) \in Metric /\ Coherent(Recorded(m, s))
<1> DEFINE y == IF s > m.max THEN s ELSE m.max
           r == Pushed(m.history, s)
           v == (s + 9 * m.average) \div 10
           q == Recorded(m, s)
<1>1. /\ m.current \in Score /\ m.average \in Score /\ m.max \in Score
      /\ m.count \in Nat /\ m.history \in Seq(Score)
  BY DEF Metric
<1>2. /\ q.current = s /\ q.average = v /\ q.max = y /\ q.count = m.count + 1 /\ q.history = r
      /\ q = [current |-> s, average |-> v, max |-> y, count |-> m.count + 1, history |-> r]
  BY DEF Recorded, Pushed
<1>3. y \in Score /\ m.max <= y /\ s <= y /\ m.average <= y
  BY <1>1, TopNat DEF Coherent, Score
<1>4. v \in Score /\ v <= y
  <2> DEFINE z == s + 9 * m.average
  <2>1. z \in Nat /\ y \in Nat /\ z <= 10 * y /\ y <= Top
    BY <1>1, <1>3, TopNat, SMTT(30) DEF Score
  <2> HIDE DEF z, y
  <2>2. z \div 10 \in Nat /\ z \div 10 <= y
    BY <2>1, TenthBelow
  <2> QED
    BY <2>1, <2>2, TopNat DEF Score, z
<1>5. m.count + 1 \in Nat /\ m.count + 1 > 0
  BY <1>1
<1>6. LastOf(m.history, m.count, m.max)
  BY DEF Coherent, LastOf
<1> HIDE DEF y, v
<1>7. r \in Seq(Score) /\ LastOf(r, m.count + 1, y) /\ r[Len(r)] = s
  BY <1>1, <1>3, <1>6, HistoryGrows
<1> HIDE DEF r, q
<1>8. q \in Metric
  BY <1>2, <1>3, <1>4, <1>5, <1>7 DEF Metric
<1>9. Coherent(q)
  BY <1>2, <1>4, <1>7 DEF Coherent, LastOf
<1> QED
  BY <1>8, <1>9 DEF q

(* A measurement keeps the metrics of every type coherent.                 *)
LEMMA MeasureStep ==
    ASSUME MetricsInv, NEW r, NEW d \in DriftTypes, NEW s \in Readings, NEW x, Measure(r, d, s, x)
    PROVE  MetricsInv'
<1>1. s \in Score
  <2>1. s \in Nat /\ s <= Top
    BY PipelineAssumption DEF Top
  <2> QED
    BY <2>1, TopNat DEF Score
<1>2. metrics' = [metrics EXCEPT ![d] = Recorded(metrics[d], s)]
  BY DEF Measure
<1>3. metrics[d] \in Metric /\ Coherent(metrics[d]) /\ metrics \in [DriftTypes -> Metric]
  BY DEF MetricsInv
<1>4. Recorded(metrics[d], s) \in Metric /\ Coherent(Recorded(metrics[d], s))
  BY <1>1, <1>3, RecordedCoherent
<1> QED
  BY <1>2, <1>3, <1>4 DEF MetricsInv

(* The worst score and its rank.                                           *)
LEMMA HealthIsWorst ==
    ASSUME MetricsInv
    PROVE  HealthReflectsDrift
<1> DEFINE C == {0} \cup {metrics[d].current : d \in DriftTypes}
           P == {Top - c : c \in C}
           W(s) == \A d \in DriftTypes : s >= metrics[d].current
           w == CHOOSE s \in C : W(s)
<1>1. \A d \in DriftTypes : metrics[d].current \in Score
  BY DEF MetricsInv, Metric
<1>2. DOMAIN metrics = DriftTypes /\ \E d : d \in DriftTypes
  BY PipelineAssumption DEF MetricsInv
<1>3. C \in SUBSET Score /\ 0 \in C
  BY <1>1, TopNat DEF Score
<1>4. \E s \in C : W(s)
  <2>1. P \in SUBSET Nat /\ P # {}
    BY <1>3, TopNat DEF Score
  <2> HIDE DEF P
  <2>2. Min(P) \in P /\ \A j \in P : Min(P) <= j
    BY <2>1, MinProperties
  <2>3. PICK c \in C : Min(P) = Top - c
    BY <2>2 DEF P
  <2>4. ASSUME NEW d \in DriftTypes
        PROVE  c >= metrics[d].current
    <3>1. metrics[d].current \in C
      OBVIOUS
    <3>2. Top - metrics[d].current \in P
      BY <3>1 DEF P
    <3>3. Top - c <= Top - metrics[d].current
      BY <2>2, <2>3, <3>2
    <3>4. c \in Score
      BY <1>3
    <3> QED
      BY <1>1, <3>3, <3>4, TopNat DEF Score
  <2> QED
    BY <2>4
<1>5. w \in C /\ W(w)
  <2> HIDE DEF C, W
  <2> QED
    BY <1>4
<1>6. /\ HealthOf(metrics) = IF w > 900 THEN "critical" ELSE IF w > 700 THEN "degraded"
                             ELSE IF w > 500 THEN "warning" ELSE "healthy"
  BY <1>2 DEF HealthOf
<1>7. w \in Score /\ \A d \in DriftTypes : metrics[d].current <= w
  <2>1. w \in Score
    BY <1>3, <1>5
  <2> QED
    BY <1>1, <1>5, <2>1, TopNat DEF Score
<1>8. \E d \in DriftTypes : metrics[d].current = w
  <2> HIDE DEF w
  <2>1. CASE w = 0
    <3>1. PICK d : d \in DriftTypes
      BY <1>2
    <3> QED
      BY <2>1, <3>1, <1>1, <1>7, TopNat DEF Score
  <2>2. CASE w # 0
    BY <2>2, <1>5
  <2> QED
    BY <2>1, <2>2
<1> HIDE DEF w, W, C
<1> DEFINE Level(s) == IF s > 900 THEN 3 ELSE IF s > 700 THEN 2 ELSE IF s > 500 THEN 1 ELSE 0
<1>9. \A s \in Score : Grade(Severity(s)) = Level(s)
  BY TopNat DEF Grade, Severity, Score
<1>10. (IF HealthOf(metrics) = "critical" THEN 3 ELSE Grade(HealthOf(metrics))) = Level(w)
  BY <1>6, <1>7, TopNat DEF Grade, Score
<1>11. \A d \in DriftTypes : Level(metrics[d].current) <= Level(w)
  BY <1>1, <1>7, TopNat DEF Score
<1> HIDE DEF Level
<1> QED
  BY <1>1, <1>7, <1>8, <1>9, <1>10, <1>11 DEF HealthReflectsDrift

-----------------------------------------------------------------------------
(* The detector's calls, its events and its alarms.                        *)

Kinds == DriftTypes \cup {"none"}

Entities == (UNION {Hexads[d] : d \in DriftTypes}) \cup {{}}

Events == [type : Kinds, score : Score, hexad : Entities]

MeterCall == [at : {"idle", "compare", "send"}, type : Kinds, score : Score, hexad : Entities]

DetectorInv ==
    /\ MetricsInv
    /\ meter \in [Meters -> MeterCall]
    /\ eventQueue \in Seq(Events)
    /\ AlarmIsOwn

(* The call of a task that records nothing.                                *)
LEMMA IdleMeter == NoReading \in MeterCall
<1>1. 0 \in Score
  BY TopNat DEF Score
<1>2. {} \in Entities
  BY DEF Entities
<1> QED
  BY <1>1, <1>2 DEF NoReading, MeterCall, Kinds

(* A reading of the inputs is a score.                                     *)
LEMMA ReadingIsScore ==
    ASSUME NEW s \in Readings
    PROVE  s \in Score
<1>1. s \in Nat /\ s <= Top
  BY PipelineAssumption DEF Top
<1> QED
  BY <1>1, TopNat DEF Score

(* The comparison is with the own score, and the alarm says so.            *)
LEMMA CompareStep ==
    ASSUME DetectorInv, NEW r \in Meters, Compare(r)
    PROVE  DetectorInv'
<1> DEFINE d == meter[r].type
           raised == meter[r].score > Threshold(d, metrics[d].average)
           a == [type |-> d, score |-> meter[r].score, raised |-> raised]
           u == [meter[r] EXCEPT !.at = "send"]
           v == IF raised THEN u ELSE NoReading
<1>1. /\ meter' = [meter EXCEPT ![r] = v]
      /\ alarms' = alarms \cup {a}
      /\ UNCHANGED <<metrics, eventQueue>>
  BY DEF Compare
<1>2. meter[r] \in MeterCall
  BY DEF DetectorInv
<1>3. u \in MeterCall
  BY <1>2 DEF MeterCall
<1>4. a.type = d /\ a.score = meter[r].score /\ (a.raised <=> raised)
  OBVIOUS
<1>5. d \notin DOMAIN AdaptivePolicies => (raised <=> meter[r].score > FixedThreshold[d])
  BY DEF Threshold
<1> HIDE DEF a, u, raised
<1>6. v \in MeterCall
  BY <1>3, IdleMeter
<1> HIDE DEF v
<1>7. meter' \in [Meters -> MeterCall]
  BY <1>1, <1>6 DEF DetectorInv
<1>8. AlarmIsOwn'
  <2> SUFFICES ASSUME NEW b \in alarms', b.type \notin DOMAIN AdaptivePolicies
               PROVE  b.raised <=> b.score > FixedThreshold[b.type]
    BY DEF AlarmIsOwn
  <2>1. CASE b \in alarms
    BY <2>1 DEF DetectorInv, AlarmIsOwn
  <2>2. CASE b = a
    BY <2>2, <1>4, <1>5
  <2> QED
    BY <1>1, <2>1, <2>2
<1> QED
  BY <1>1, <1>7, <1>8 DEF DetectorInv, MetricsInv

(* The event enters the channel, or is given up.                           *)
LEMMA SendEventStep ==
    ASSUME DetectorInv, NEW r \in Meters, SendEvent(r)
    PROVE  DetectorInv'
<1> DEFINE e == [type |-> meter[r].type, score |-> meter[r].score, hexad |-> meter[r].hexad]
<1>1. /\ meter' = [meter EXCEPT ![r] = NoReading]
      /\ eventQueue' = Append(eventQueue, e) \/ eventQueue' = eventQueue
      /\ UNCHANGED <<metrics, alarms>>
  BY DEF SendEvent
<1>2. e \in Events
  BY DEF DetectorInv, MeterCall, Events
<1> HIDE DEF e
<1>3. eventQueue' \in Seq(Events)
  BY <1>1, <1>2, AppendProperties DEF DetectorInv
<1>4. meter' \in [Meters -> MeterCall]
  BY <1>1, IdleMeter DEF DetectorInv
<1> QED
  BY <1>1, <1>3, <1>4 DEF DetectorInv, MetricsInv, AlarmIsOwn

(* Every step of the pipeline keeps the detector's part.                   *)
LEMMA DetectorStep ==
    ASSUME DetectorInv, PipelineNext
    PROVE  DetectorInv'
<1>1. ASSUME NEW r \in Meters, NEW d \in DriftTypes, NEW s \in Readings, NEW x \in Hexads[d], Measure(r, d, s, x)
      PROVE  DetectorInv'
  <2> DEFINE v == [at |-> "compare", type |-> d, score |-> s, hexad |-> x]
  <2>1. meter' = [meter EXCEPT ![r] = v] /\ UNCHANGED <<eventQueue, alarms>>
    BY <1>1 DEF Measure
  <2>2. v \in MeterCall
    BY ReadingIsScore DEF MeterCall, Kinds, Entities
  <2>3. MetricsInv'
    BY <1>1, MeasureStep DEF DetectorInv
  <2> HIDE DEF v
  <2> QED
    BY <2>1, <2>2, <2>3 DEF DetectorInv, AlarmIsOwn
<1>2. ASSUME NEW r \in Meters, RecordStep(r)
      PROVE  DetectorInv'
  BY <1>2, CompareStep, SendEventStep DEF RecordStep
<1>3. CASE CloseEvents
  <2>1. eventQueue' = <<>> /\ UNCHANGED <<metrics, meter, alarms>>
    BY <1>3 DEF CloseEvents
  <2>2. eventQueue' \in Seq(Events)
    BY <2>1, EmptySeq
  <2> QED
    BY <2>1, <2>2 DEF DetectorInv, MetricsInv, AlarmIsOwn
<1>4. ASSUME NEW h \in Handlers, TakeEvent(h)
      PROVE  DetectorInv'
  <2>1. eventQueue # <<>> /\ eventQueue' = Tail(eventQueue) /\ UNCHANGED <<metrics, meter, alarms>>
    BY <1>4 DEF TakeEvent
  <2>2. eventQueue' \in Seq(Events)
    BY <2>1, HeadTailProperties DEF DetectorInv
  <2> QED
    BY <2>1, <2>2 DEF DetectorInv, MetricsInv, AlarmIsOwn
<1>5. ASSUME UNCHANGED detectorVars
      PROVE  DetectorInv'
  BY <1>5 DEF detectorVars, DetectorInv, MetricsInv, AlarmIsOwn
<1>6. ASSUME NEW h \in Handlers, HandleStep(h)
      PROVE  DetectorInv'
  BY <1>5, <1>6 DEF HandleStep, FindStrategy, CountUp, Normalize, CountDown, SendResult
<1>7. CASE TakeResult \/ RegisterStrategy \/ Registered
  BY <1>5, <1>7 DEF TakeResult, RegisterStrategy, Registered
<1> QED
  BY <1>1, <1>2, <1>3, <1>4, <1>6, <1>7 DEF PipelineNext

-----------------------------------------------------------------------------
(* The normalizer's calls, counters and results.                           *)

StrategyNames == Range(Installed) \cup {LateStrategy, "none"}

HandlerCall ==
    [at : {"idle", "lock", "count_up", "normalize", "count_down", "send"}, type : Kinds,
     score : Score, hexad : Entities, strategy : StrategyNames, ok : BOOLEAN]

(* A call that has its strategy has one that applies, and one that has     *)
(* succeeded changes something.                                            *)
HandlerSound(c) ==
    /\ c.at \in {"count_up", "normalize", "count_down", "send"} => AppliesTo(c.strategy, c.type)
    /\ (c.at = "count_down" /\ c.ok) \/ c.at = "send" => Changes(c.strategy, c.hexad) # {}

(* What a result says of the entity it is about.                           *)
ResultSound(q) ==
    /\ "document" \in q.changes => "document" \notin q.hexad
    /\ q.type = "semantic_vector" => q.changes = {"vector"}
    /\ q.type = "quality" => "temporal" \in q.changes

Result == [type : Kinds, hexad : Entities,
           changes : SUBSET {"vector", "graph", "document", "tensor", "temporal"}]

Counters == [active : Int, completed : Int, failures : Int]

NormalizerInv ==
    /\ handler \in [Handlers -> HandlerCall]
    /\ \A h \in Handlers : HandlerSound(handler[h])
    /\ strategies \in Seq(StrategyNames)
    /\ status \in Counters /\ started \in Int /\ settled \in Int
    /\ resultQueue \in Seq(Result)
    /\ DocumentIsAuthoritative
    /\ ActiveCountExact

(* The handlers at one of the places A.                                    *)
At(f, A) == {k \in Handlers : f[k].at \in A}

One(b) == IF b THEN 1 ELSE 0

Moved(f, g, h, A) ==
    /\ Cardinality(At(f, A)) \in Nat /\ Cardinality(At(g, A)) \in Nat
    /\ Cardinality(At(g, A)) = Cardinality(At(f, A)) + One(g[h].at \in A) - One(f[h].at \in A)

(* One handler moves: how many are at the places A.                        *)
LEMMA CountMoves ==
    ASSUME NEW f, NEW g, NEW h \in Handlers, NEW A,
           \A k \in Handlers \ {h} : g[k] = f[k]
    PROVE  Moved(f, g, h, A)
<1> DEFINE F == At(f, A)
           G == At(g, A)
<1>1. IsFiniteSet(F) /\ IsFiniteSet(G)
  BY FS_Subset, PipelineAssumption DEF At
<1>2. Cardinality(F) \in Nat /\ Cardinality(G) \in Nat
  BY <1>1, FS_CardinalityType
<1>3. (h \in F <=> f[h].at \in A) /\ (h \in G <=> g[h].at \in A)
  BY DEF At
<1>4. F \ {h} = G \ {h}
  BY DEF At
<1> HIDE DEF F, G
<1>5. /\ Cardinality(F \ {h}) = Cardinality(F) - One(h \in F)
      /\ Cardinality(G \ {h}) = Cardinality(G) - One(h \in G)
  <2>1. /\ Cardinality(F \ {h}) = IF h \in F THEN Cardinality(F) - 1 ELSE Cardinality(F)
        /\ Cardinality(G \ {h}) = IF h \in G THEN Cardinality(G) - 1 ELSE Cardinality(G)
    BY <1>1, FS_RemoveElement
  <2> QED
    BY <2>1, <1>2 DEF One
<1>6. One(h \in F) \in Int /\ One(h \in G) \in Int
  BY DEF One
<1>7. Cardinality(G) = Cardinality(F) + One(h \in G) - One(h \in F)
  <2> DEFINE a == Cardinality(F)
             b == Cardinality(G)
             u == One(h \in F)
             v == One(h \in G)
  <2>1. a \in Int /\ b \in Int /\ u \in Int /\ v \in Int /\ a - u = b - v
    BY <1>2, <1>4, <1>5, <1>6
  <2> HIDE DEF a, b, u, v
  <2>2. b = a + v - u
    BY ONLY <2>1
  <2> QED
    BY <2>2 DEF a, b, u, v
<1> QED
  BY <1>2, <1>3, <1>7 DEF F, G, One, Moved

(* The first applicable strategy applies.                                  *)
LEMMA FirstApplies ==
    ASSUME NEW d, strategies \in Seq(StrategyNames), FirstApplicable(d) # 0
    PROVE  /\ strategies[FirstApplicable(d)] \in StrategyNames
           /\ AppliesTo(strategies[FirstApplicable(d)], d)
<1> DEFINE P == {k \in 1 .. Len(strategies) : AppliesTo(strategies[k], d)}
<1>1. Len(strategies) \in Nat
  BY LenProperties
<1>2. FirstApplicable(d) = IF P # {} THEN Min(P) ELSE 0
  BY DEF FirstApplicable, SelectInSeq
<1>3. P \in SUBSET Nat
  BY <1>1
<1>4. P # {} => Min(P) \in P
  BY <1>3, MinProperties
<1>5. FirstApplicable(d) \in P
  <2> HIDE DEF P
  <2> QED
    BY <1>2, <1>4
<1> QED
  BY <1>5, ElementOfSeq

(* What an applicable strategy changes, when it changes something.         *)
LEMMA ChangesSound ==
    ASSUME NEW s, NEW d, NEW x, AppliesTo(s, d), Changes(s, x) # {},
           NEW q, q.type = d, q.hexad = x, q.changes = Changes(s, x)
    PROVE  ResultSound(q)
<1>1. "document" \in Changes(s, x) => "document" \notin x
  BY DEF Changes, SemanticVectorChanges, GraphDocumentChanges, TensorChanges, TemporalChanges, QualityChanges
<1>2. d = "semantic_vector" => s = "semantic-vector-sync"
  BY DEF AppliesTo
<1>3. s = "semantic-vector-sync" => Changes(s, x) = {"vector"}
  BY DEF Changes, SemanticVectorChanges
<1>4. d = "quality" => "temporal" \in Changes(s, x)
  BY DEF AppliesTo, Changes, QualityChanges, TemporalChanges
<1> QED
  BY <1>1, <1>2, <1>3, <1>4 DEF ResultSound

(* The modalities a strategy may change.                                   *)
LEMMA ChangesType ==
    ASSUME NEW s, NEW x
    PROVE  Changes(s, x) \in SUBSET {"vector", "graph", "document", "tensor", "temporal"}
  BY DEF Changes, SemanticVectorChanges, GraphDocumentChanges, TensorChanges, TemporalChanges, QualityChanges

(* A handler without an event.                                             *)
LEMMA IdleHandler == NoEvent \in HandlerCall /\ HandlerSound(NoEvent) /\ NoEvent.at = "idle"
<1>1. 0 \in Score
  BY TopNat DEF Score
<1>2. {} \in Entities
  BY DEF Entities
<1> QED
  BY <1>1, <1>2 DEF NoEvent, HandlerCall, HandlerSound, Kinds, StrategyNames

InFlight == {"normalize", "count_down"}

(* The part of the invariant that a move of one handler touches.           *)
HandlersInv ==
    /\ handler \in [Handlers -> HandlerCall]
    /\ \A h \in Handlers : HandlerSound(handler[h])
    /\ status \in Counters /\ started \in Int /\ settled \in Int
    /\ ActiveCountExact

(* One handler moves to v, and the counters follow it.                     *)
LEMMA HandlerMoves ==
    ASSUME HandlersInv, NEW h \in Handlers, NEW v \in HandlerCall, HandlerSound(v),
           handler' = [handler EXCEPT ![h] = v],
           status' \in Counters, started' \in Int, settled' \in Int,
           status'.active = status.active + One(v.at \in InFlight) - One(handler[h].at \in InFlight),
           started' = status'.active + status'.completed + status'.failures,
           settled' - started' + status'.active =
               settled - started + status.active - One(v.at \in {"send"}) + One(handler[h].at \in {"send"})
    PROVE  HandlersInv'
<1>1. handler' \in [Handlers -> HandlerCall] /\ handler'[h] = v /\ \A k \in Handlers \ {h} : handler'[k] = handler[k]
  BY DEF HandlersInv
<1>2. \A k \in Handlers : HandlerSound(handler'[k])
  BY <1>1 DEF HandlersInv
<1> DEFINE a == Cardinality(At(handler, InFlight))
           b == Cardinality(At(handler', InFlight))
           c == Cardinality(At(handler, {"send"}))
           d == Cardinality(At(handler', {"send"}))
<1>3. a \in Int /\ b \in Int /\ b = a + One(v.at \in InFlight) - One(handler[h].at \in InFlight)
  <2>1. Moved(handler, handler', h, InFlight)
    BY <1>1, CountMoves
  <2> QED
    BY <1>1, <2>1 DEF Moved
<1>4. c \in Int /\ d \in Int /\ d = c + One(v.at \in {"send"}) - One(handler[h].at \in {"send"})
  <2>1. Moved(handler, handler', h, {"send"})
    BY <1>1, CountMoves
  <2> QED
    BY <1>1, <2>1 DEF Moved
<1>5. /\ At(handler, InFlight) = {k \in Handlers : handler[k].at \in {"normalize", "count_down"}}
      /\ At(handler', InFlight) = {k \in Handlers : handler'[k].at \in {"normalize", "count_down"}}
      /\ At(handler, {"send"}) = {k \in Handlers : handler[k].at = "send"}
      /\ At(handler', {"send"}) = {k \in Handlers : handler'[k].at = "send"}
  BY DEF At, InFlight
<1>6. status.active = a /\ settled = started - status.active - c
  BY <1>5 DEF HandlersInv, ActiveCountExact
<1> HIDE DEF a, b, c, d
<1>7. status'.active = b
  BY <1>3, <1>6
<1>8. settled' = started' - status'.active - d
  <2> DEFINE s1 == status.active
             s2 == status'.active
             u == One(v.at \in {"send"})
             w == One(handler[h].at \in {"send"})
  <2>1. /\ s1 \in Int /\ s2 \in Int /\ u \in Int /\ w \in Int /\ started \in Int /\ settled \in Int
        /\ settled' - started' + s2 = settled - started + s1 - u + w
        /\ d = c + u - w /\ settled = started - s1 - c
    BY <1>4, <1>6 DEF HandlersInv, Counters, One
  <2> HIDE DEF s1, s2, u, w
  <2>2. settled' = started' - s2 - d
    BY <1>4, <2>1
  <2> QED
    BY <2>2 DEF s2
<1>9. ActiveCountExact'
  BY <1>5, <1>7, <1>8 DEF ActiveCountExact, b, d
<1> QED
  BY <1>1, <1>2, <1>9 DEF HandlersInv

(* A handler moves where the counters do not look.                         *)
LEMMA HandlerShifts ==
    ASSUME HandlersInv, NEW h \in Handlers, NEW v \in HandlerCall, HandlerSound(v),
           handler' = [handler EXCEPT ![h] = v], UNCHANGED <<status, started, settled>>,
           v.at \in InFlight <=> handler[h].at \in InFlight, v.at # "send", handler[h].at # "send"
    PROVE  HandlersInv'
<1>1. /\ One(v.at \in InFlight) = One(handler[h].at \in InFlight) /\ One(v.at \in InFlight) \in Int
      /\ One(v.at \in {"send"}) = 0 /\ One(handler[h].at \in {"send"}) = 0
  BY DEF One
<1>2. /\ status \in Counters /\ started \in Int /\ settled \in Int
      /\ started = status.active + status.completed + status.failures
      /\ status.active \in Int
  BY DEF HandlersInv, Counters, ActiveCountExact
<1>3. /\ status.active = status.active + One(v.at \in InFlight) - One(handler[h].at \in InFlight)
      /\ settled - started + status.active =
           settled - started + status.active - One(v.at \in {"send"}) + One(handler[h].at \in {"send"})
  BY <1>1, <1>2
<1> QED
  BY <1>2, <1>3, HandlerMoves

(* The rest of the normalizer's invariant.                                 *)
QueuesInv ==
    /\ strategies \in Seq(StrategyNames)
    /\ resultQueue \in Seq(Result)
    /\ DocumentIsAuthoritative

(* The two parts together.                                                 *)
LEMMA NormalizerParts == NormalizerInv <=> HandlersInv /\ QueuesInv
  BY DEF NormalizerInv, HandlersInv, QueuesInv

(* The queues stay.                                                        *)
LEMMA QueuesStay ==
    ASSUME QueuesInv, UNCHANGED <<strategies, resultQueue>>
    PROVE  QueuesInv'
  BY DEF QueuesInv, DocumentIsAuthoritative

(* An event is taken.                                                      *)
LEMMA TakeEventStep ==
    ASSUME DetectorInv, NormalizerInv, NEW h \in Handlers, TakeEvent(h)
    PROVE  NormalizerInv'
<1> DEFINE e == Head(eventQueue)
           u == [at |-> "lock", type |-> e.type, score |-> e.score, hexad |-> e.hexad,
                 strategy |-> "none", ok |-> FALSE]
           v == IF e.score < MinScore THEN NoEvent ELSE u
<1>1. /\ eventQueue # <<>> /\ handler[h].at = "idle"
      /\ handler' = [handler EXCEPT ![h] = v]
      /\ UNCHANGED <<strategies, status, resultQueue, started, settled>>
  BY DEF TakeEvent
<1>2. e \in Events
  BY <1>1, HeadTailProperties DEF DetectorInv
<1>3. u \in HandlerCall /\ HandlerSound(u) /\ u.at = "lock"
  BY <1>2 DEF Events, HandlerCall, HandlerSound, StrategyNames
<1> HIDE DEF u, e
<1>4. v \in HandlerCall /\ HandlerSound(v) /\ v.at \in {"lock", "idle"}
  BY <1>3, IdleHandler
<1> HIDE DEF v
<1>5. v.at \notin InFlight /\ handler[h].at \notin InFlight /\ v.at # "send" /\ handler[h].at # "send"
  BY <1>1, <1>4 DEF InFlight
<1>6. HandlersInv'
  BY <1>1, <1>4, <1>5, HandlerShifts, NormalizerParts
<1>7. QueuesInv'
  BY <1>1, QueuesStay, NormalizerParts
<1> QED
  BY <1>6, <1>7 DEF NormalizerInv, HandlersInv, QueuesInv

(* The strategy is found, or the event is not handled.                     *)
LEMMA FindStrategyStep ==
    ASSUME NormalizerInv, NEW h \in Handlers, FindStrategy(h)
    PROVE  NormalizerInv'
<1> DEFINE c == handler[h]
           k == FirstApplicable(c.type)
           u == [c EXCEPT !.at = "count_up", !.strategy = strategies[k]]
           v == IF k = 0 THEN NoEvent ELSE u
<1>1. /\ c.at = "lock"
      /\ handler' = [handler EXCEPT ![h] = v]
      /\ UNCHANGED <<strategies, status, resultQueue, started, settled>>
  BY DEF FindStrategy
<1>2. c \in HandlerCall /\ strategies \in Seq(StrategyNames)
  BY DEF NormalizerInv
<1>3. k # 0 => strategies[k] \in StrategyNames /\ AppliesTo(strategies[k], c.type)
  BY <1>2, FirstApplies
<1> HIDE DEF k, c
<1>4. k # 0 => u \in HandlerCall /\ HandlerSound(u) /\ u.at = "count_up"
  <2>1. k # 0 => u \in HandlerCall /\ u.at = "count_up" /\ u.strategy = strategies[k] /\ u.type = c.type
    BY <1>2, <1>3 DEF HandlerCall
  <2> HIDE DEF u
  <2> QED
    BY <2>1, <1>3 DEF HandlerSound
<1> HIDE DEF u
<1>5. v \in HandlerCall /\ HandlerSound(v) /\ v.at \in {"count_up", "idle"}
  BY <1>4, IdleHandler
<1> HIDE DEF v
<1>6. v.at \notin InFlight /\ c.at \notin InFlight /\ v.at # "send" /\ c.at # "send"
  BY <1>1, <1>5 DEF InFlight
<1>7. HandlersInv'
  BY <1>1, <1>5, <1>6, HandlerShifts, NormalizerParts DEF c
<1>8. QueuesInv'
  BY <1>1, QueuesStay, NormalizerParts
<1> QED
  BY <1>7, <1>8 DEF NormalizerInv, HandlersInv, QueuesInv

(* A normalization is counted as active.                                   *)
LEMMA CountUpStep ==
    ASSUME NormalizerInv, NEW h \in Handlers, CountUp(h)
    PROVE  NormalizerInv'
<1> DEFINE c == handler[h]
           v == [c EXCEPT !.at = "normalize"]
           t == [status EXCEPT !.active = status.active + 1]
<1>1. /\ c.at = "count_up" /\ handler' = [handler EXCEPT ![h] = v]
      /\ status' = t /\ started' = started + 1
      /\ UNCHANGED <<strategies, resultQueue, settled>>
  BY DEF CountUp
<1>2. c \in HandlerCall /\ HandlerSound(c)
  BY DEF NormalizerInv
<1>3. v \in HandlerCall /\ v.at = "normalize" /\ v.strategy = c.strategy /\ v.type = c.type
  BY <1>2 DEF HandlerCall
<1>4. /\ status \in Counters /\ started \in Int /\ settled \in Int
      /\ status.active \in Int /\ status.completed \in Int /\ status.failures \in Int
      /\ started = status.active + status.completed + status.failures
  BY DEF NormalizerInv, Counters, ActiveCountExact
<1>5. /\ t \in Counters /\ t.active = status.active + 1
      /\ t.completed = status.completed /\ t.failures = status.failures
  BY <1>4 DEF Counters
<1> HIDE DEF v, t, c
<1>6. HandlerSound(v)
  BY <1>1, <1>2, <1>3 DEF HandlerSound
<1>7. /\ One(v.at \in InFlight) = 1 /\ One(c.at \in InFlight) = 0
      /\ One(v.at \in {"send"}) = 0 /\ One(c.at \in {"send"}) = 0
  BY <1>1, <1>3 DEF One, InFlight
<1>8. /\ t.active = status.active + One(v.at \in InFlight) - One(c.at \in InFlight)
      /\ started + 1 = t.active + t.completed + t.failures /\ started + 1 \in Int
      /\ settled - (started + 1) + t.active =
           settled - started + status.active - One(v.at \in {"send"}) + One(c.at \in {"send"})
  BY <1>4, <1>5, <1>7
<1>9. HandlersInv'
  BY <1>1, <1>3, <1>4, <1>5, <1>6, <1>8, HandlerMoves, NormalizerParts DEF c
<1>10. QueuesInv'
  BY <1>1, QueuesStay, NormalizerParts
<1> QED
  BY <1>9, <1>10 DEF NormalizerInv, HandlersInv, QueuesInv

(* The strategy runs.                                                      *)
LEMMA NormalizeStep ==
    ASSUME NormalizerInv, NEW h \in Handlers, Normalize(h)
    PROVE  NormalizerInv'
<1> DEFINE c == handler[h]
           b == Changes(c.strategy, c.hexad) # {}
           v == [c EXCEPT !.at = "count_down", !.ok = b]
<1>1. c \in HandlerCall /\ HandlerSound(c) /\ handler \in [Handlers -> HandlerCall]
  BY DEF NormalizerInv
<1>2. /\ c.at = "normalize" /\ handler' = [handler EXCEPT ![h] = v]
      /\ UNCHANGED <<strategies, status, resultQueue, started, settled>>
  BY <1>1 DEF Normalize, HandlerCall
<1>3. b \in BOOLEAN
  OBVIOUS
<1> HIDE DEF b
<1>4. /\ v \in HandlerCall /\ v.at = "count_down" /\ v.ok = b
      /\ v.strategy = c.strategy /\ v.type = c.type /\ v.hexad = c.hexad
  BY <1>1, <1>3 DEF HandlerCall
<1> HIDE DEF v, c
<1>5. HandlerSound(v)
  BY <1>1, <1>2, <1>4 DEF HandlerSound, b
<1>6. v.at \in InFlight /\ c.at \in InFlight /\ v.at # "send" /\ c.at # "send"
  BY <1>2, <1>4 DEF InFlight
<1>7. HandlersInv'
  BY <1>2, <1>4, <1>5, <1>6, HandlerShifts, NormalizerParts DEF c
<1>8. QueuesInv'
  BY <1>2, QueuesStay, NormalizerParts
<1> QED
  BY <1>7, <1>8 DEF NormalizerInv, HandlersInv, QueuesInv

(* A normalization is counted as done or as failed.                        *)
LEMMA CountDownStep ==
    ASSUME NormalizerInv, NEW h \in Handlers, CountDown(h)
    PROVE  NormalizerInv'
<1> DEFINE c == handler[h]
           u == [c EXCEPT !.at = "send"]
           v == IF c.ok THEN u ELSE NoEvent
           y == [status EXCEPT !.active = status.active - 1, !.completed = status.completed + 1]
           n == [status EXCEPT !.active = status.active - 1, !.failures = status.failures + 1]
           t == IF c.ok THEN y ELSE n
           z == IF c.ok THEN settled ELSE settled + 1
<1>1. /\ c.at = "count_down" /\ handler' = [handler EXCEPT ![h] = v]
      /\ status' = t /\ settled' = z
      /\ UNCHANGED <<strategies, resultQueue, started>>
  BY DEF CountDown
<1>2. c \in HandlerCall /\ HandlerSound(c)
  BY DEF NormalizerInv
<1>3. u \in HandlerCall /\ u.at = "send" /\ u.strategy = c.strategy /\ u.type = c.type /\ u.hexad = c.hexad
  BY <1>2 DEF HandlerCall
<1>4. /\ status \in Counters /\ started \in Int /\ settled \in Int
      /\ status.active \in Int /\ status.completed \in Int /\ status.failures \in Int
      /\ started = status.active + status.completed + status.failures
  BY DEF NormalizerInv, Counters, ActiveCountExact
<1>5. /\ y \in Counters /\ y.active = status.active - 1
      /\ y.completed = status.completed + 1 /\ y.failures = status.failures
      /\ n \in Counters /\ n.active = status.active - 1
      /\ n.completed = status.completed /\ n.failures = status.failures + 1
  <2>1. status.active - 1 \in Int /\ status.completed + 1 \in Int /\ status.failures + 1 \in Int
    BY <1>4
  <2> DEFINE i == status.active - 1
             j == status.completed + 1
             k == status.failures + 1
  <2> HIDE DEF i, j, k
  <2>2. /\ y \in Counters /\ y.active = i /\ y.completed = j /\ y.failures = status.failures
    BY <1>4, <2>1 DEF Counters, i, j
  <2>3. /\ n \in Counters /\ n.active = i /\ n.completed = status.completed /\ n.failures = k
    BY <1>4, <2>1 DEF Counters, i, k
  <2> QED
    BY <2>2, <2>3 DEF i, j, k
<1> HIDE DEF u, y, n, c
<1>6. /\ v \in HandlerCall /\ HandlerSound(v)
      /\ v.at = IF c.ok THEN "send" ELSE "idle"
  <2>1. c.ok => HandlerSound(u)
    BY <1>1, <1>2, <1>3 DEF HandlerSound
  <2> QED
    BY <1>3, <2>1, IdleHandler
<1> HIDE DEF v
<1>7. /\ One(v.at \in InFlight) = 0 /\ One(c.at \in InFlight) = 1 /\ One(c.at \in {"send"}) = 0
      /\ One(v.at \in {"send"}) = IF c.ok THEN 1 ELSE 0
  BY <1>1, <1>6 DEF One, InFlight
<1>8. /\ t \in Counters /\ t.active \in Int /\ t.completed \in Int /\ t.failures \in Int
      /\ t.active = status.active - 1 /\ t.completed + t.failures = status.completed + status.failures + 1
  BY <1>4, <1>5
<1>9. z \in Int /\ z = settled + 1 - One(v.at \in {"send"})
  BY <1>4, <1>7
<1> HIDE DEF t, z
<1>10. /\ t.active = status.active + One(v.at \in InFlight) - One(c.at \in InFlight)
       /\ started = t.active + t.completed + t.failures
  BY <1>4, <1>7, <1>8
<1>11. z - started + t.active =
         settled - started + status.active - One(v.at \in {"send"}) + One(c.at \in {"send"})
  <2>1. One(v.at \in {"send"}) \in Int
    BY DEF One
  <2> QED
    BY <1>4, <1>7, <1>8, <1>9, <2>1
<1>12. HandlersInv'
  BY <1>1, <1>4, <1>6, <1>8, <1>9, <1>10, <1>11, HandlerMoves, NormalizerParts DEF c
<1>13. QueuesInv'
  BY <1>1, QueuesStay, NormalizerParts
<1> QED
  BY <1>12, <1>13 DEF NormalizerInv, HandlersInv, QueuesInv

(* Results enter and leave the channel.                                    *)
LEMMA ResultSent ==
    ASSUME QueuesInv, NEW q \in Result, ResultSound(q),
           resultQueue' = Append(resultQueue, q), UNCHANGED strategies
    PROVE  QueuesInv'
<1> DEFINE r == resultQueue
           l == Len(r)
<1>1. r \in Seq(Result) /\ l \in Nat /\ DOMAIN r = 1 .. l
  BY LenProperties DEF QueuesInv
<1>2. /\ r' \in Seq(Result) /\ DOMAIN r' = 1 .. (l + 1)
      /\ \A i \in 1 .. l : r'[i] = r[i]
      /\ r'[l + 1] = q
  <2>1. /\ Append(r, q) \in Seq(Result) /\ Len(Append(r, q)) = l + 1
        /\ \A i \in 1 .. l : Append(r, q)[i] = r[i]
        /\ Append(r, q)[l + 1] = q
    BY <1>1, AppendProperties
  <2>2. DOMAIN Append(r, q) = 1 .. (l + 1)
    BY <2>1, LenProperties
  <2> QED
    BY <2>1, <2>2
<1>3. \A i \in 1 .. l : ResultSound(r[i])
  BY <1>1 DEF QueuesInv, DocumentIsAuthoritative, ResultSound
<1> HIDE DEF l
<1>4. \A i \in DOMAIN r' : ResultSound(r'[i])
  <2> SUFFICES ASSUME NEW i \in 1 .. (l + 1)
               PROVE  ResultSound(r'[i])
    BY <1>2
  <2>1. CASE i = l + 1
    BY <2>1, <1>2
  <2>2. CASE i \in 1 .. l
    BY <2>2, <1>2, <1>3
  <2> QED
    BY <2>1, <2>2, <1>1
<1>5. DocumentIsAuthoritative'
  BY <1>4 DEF DocumentIsAuthoritative, ResultSound
<1> QED
  BY <1>2, <1>5 DEF QueuesInv

(* A result is taken.                                                      *)
LEMMA ResultTaken ==
    ASSUME QueuesInv, resultQueue # <<>>, resultQueue' = Tail(resultQueue), UNCHANGED strategies
    PROVE  QueuesInv'
<1> DEFINE r == resultQueue
           l == Len(r)
<1>1. r \in Seq(Result) /\ l \in Nat /\ DOMAIN r = 1 .. l
  BY LenProperties DEF QueuesInv
<1>2. /\ r' \in Seq(Result) /\ Len(r') = l - 1
      /\ \A i \in 1 .. Len(r') : r'[i] = r[i + 1]
  BY <1>1, HeadTailProperties
<1>3. DOMAIN r' = 1 .. (l - 1)
  BY <1>2, LenProperties
<1>4. \A i \in DOMAIN r' : r'[i] = r[i + 1] /\ i + 1 \in DOMAIN r
  BY <1>1, <1>2, <1>3
<1>5. DocumentIsAuthoritative'
  BY <1>4 DEF QueuesInv, DocumentIsAuthoritative
<1> QED
  BY <1>2, <1>5 DEF QueuesInv

(* The result is sent and the guard goes.                                  *)
LEMMA SendResultStep ==
    ASSUME NormalizerInv, NEW h \in Handlers, SendResult(h)
    PROVE  NormalizerInv'
<1> DEFINE c == handler[h]
           q == [type |-> c.type, hexad |-> c.hexad, changes |-> Changes(c.strategy, c.hexad)]
<1>1. /\ c.at = "send" /\ handler' = [handler EXCEPT ![h] = NoEvent]
      /\ resultQueue' = Append(resultQueue, q) /\ settled' = settled + 1
      /\ UNCHANGED <<strategies, status, started>>
  BY DEF SendResult
<1>2. c \in HandlerCall /\ HandlerSound(c)
  BY DEF NormalizerInv
<1>3. q.type = c.type /\ q.hexad = c.hexad /\ q.changes = Changes(c.strategy, c.hexad)
  OBVIOUS
<1>4. q \in Result
  BY <1>2, ChangesType DEF HandlerCall, Result
<1> HIDE DEF q, c
<1>5. ResultSound(q)
  <2>1. AppliesTo(c.strategy, c.type) /\ Changes(c.strategy, c.hexad) # {}
    BY <1>1, <1>2 DEF HandlerSound
  <2> QED
    BY <2>1, <1>3, ChangesSound
<1>6. QueuesInv'
  BY <1>1, <1>4, <1>5, ResultSent, NormalizerParts
<1>7. /\ status \in Counters /\ started \in Int /\ settled \in Int /\ status.active \in Int
      /\ started = status.active + status.completed + status.failures
  BY DEF NormalizerInv, Counters, ActiveCountExact
<1>8. /\ One(NoEvent.at \in InFlight) = 0 /\ One(c.at \in InFlight) = 0 /\ One(c.at \in {"send"}) = 1
      /\ One(NoEvent.at \in {"send"}) = 0
  BY <1>1, IdleHandler DEF One, InFlight
<1>9. /\ status.active = status.active + One(NoEvent.at \in InFlight) - One(c.at \in InFlight)
      /\ settled + 1 \in Int
      /\ settled + 1 - started + status.active =
           settled - started + status.active - One(NoEvent.at \in {"send"}) + One(c.at \in {"send"})
  BY <1>7, <1>8
<1>10. /\ status' \in Counters /\ started' \in Int /\ settled' \in Int
       /\ started' = status'.active + status'.completed + status'.failures
       /\ status'.active = status.active + One(NoEvent.at \in InFlight) - One(handler[h].at \in InFlight)
       /\ settled' - started' + status'.active =
            settled - started + status.active - One(NoEvent.at \in {"send"}) + One(handler[h].at \in {"send"})
  BY <1>1, <1>7, <1>9 DEF c
<1>11. HandlersInv'
  BY <1>1, <1>10, IdleHandler, HandlerMoves, NormalizerParts
<1> QED
  BY <1>6, <1>11 DEF NormalizerInv, HandlersInv, QueuesInv

(* Every step of the pipeline keeps the normalizer's part.                 *)
LEMMA NormalizerStep ==
    ASSUME DetectorInv, NormalizerInv, PipelineNext
    PROVE  NormalizerInv'
<1>1. ASSUME UNCHANGED <<handler, status, started, settled>>
      PROVE  HandlersInv'
  BY <1>1 DEF NormalizerInv, HandlersInv, ActiveCountExact
<1>2. ASSUME UNCHANGED normalizerVars
      PROVE  NormalizerInv'
  BY <1>2 DEF normalizerVars, NormalizerInv, ActiveCountExact, DocumentIsAuthoritative
<1>3. CASE \/ \E r \in Meters, d \in DriftTypes, s \in Readings : \E x \in Hexads[d] : Measure(r, d, s, x)
           \/ \E r \in Meters : RecordStep(r)
           \/ CloseEvents
  BY <1>2, <1>3 DEF Measure, RecordStep, Compare, SendEvent, CloseEvents
<1>4. ASSUME NEW h \in Handlers, TakeEvent(h) \/ HandleStep(h)
      PROVE  NormalizerInv'
  BY <1>4, TakeEventStep, FindStrategyStep, CountUpStep, NormalizeStep, CountDownStep, SendResultStep
     DEF HandleStep
<1>5. CASE TakeResult
  <2>1. QueuesInv'
    BY <1>5, ResultTaken, NormalizerParts DEF TakeResult
  <2> QED
    BY <1>1, <1>5, <2>1 DEF TakeResult, NormalizerInv, HandlersInv, QueuesInv
<1>6. CASE RegisterStrategy
  BY <1>6 DEF RegisterStrategy, NormalizerInv, ActiveCountExact, DocumentIsAuthoritative
<1>7. CASE Registered
  <2>1. strategies' = Append(strategies, LateStrategy) /\ LateStrategy \in StrategyNames /\ UNCHANGED resultQueue
    BY <1>7 DEF Registered, StrategyNames
  <2>2. strategies' \in Seq(StrategyNames)
    BY <2>1, AppendProperties DEF NormalizerInv
  <2>3. QueuesInv'
    BY <2>1, <2>2 DEF NormalizerInv, QueuesInv, DocumentIsAuthoritative
  <2> QED
    BY <1>1, <1>7, <2>3 DEF Registered, NormalizerInv, HandlersInv, QueuesInv
<1> QED
  BY <1>3, <1>4, <1>5, <1>6, <1>7 DEF PipelineNext

(* The pipeline starts with nothing measured and nothing to do.            *)
LEMMA PipelineStart ==
    ASSUME PipelineInit
    PROVE  DetectorInv /\ NormalizerInv
<1> DEFINE z == [current |-> 0, average |-> 0, max |-> 0, count |-> 0, history |-> <<>>]
           t == [active |-> 0, completed |-> 0, failures |-> 0]
<1>1. /\ metrics = [d \in DriftTypes |-> z] /\ meter = [r \in Meters |-> NoReading]
      /\ eventQueue = <<>> /\ alarms = {} /\ handler = [h \in Handlers |-> NoEvent]
      /\ strategies = Installed /\ status = t /\ resultQueue = <<>> /\ started = 0 /\ settled = 0
  BY DEF PipelineInit
<1>2. z \in Metric /\ Coherent(z)
  <2>1. 0 \in Score /\ <<>> \in Seq(Score) /\ Len(<<>>) = 0 /\ DOMAIN <<>> = {}
    BY TopNat, EmptySeq DEF Score
  <2>2. z \in Metric
    BY <2>1 DEF Metric
  <2> QED
    BY <2>1, <2>2, PipelineAssumption DEF Coherent
<1> HIDE DEF z
<1>3. MetricsInv
  BY <1>1, <1>2 DEF MetricsInv
<1>4. DetectorInv
  BY <1>1, <1>3, IdleMeter, EmptySeq DEF DetectorInv, AlarmIsOwn
<1>5. t \in Counters /\ t.active = 0 /\ t.completed = 0 /\ t.failures = 0
  BY DEF Counters
<1>6. strategies \in Seq(StrategyNames)
  <2>1. Installed \in Seq(Range(Installed)) /\ Range(Installed) \subseteq StrategyNames
    BY PipelineAssumption DEF StrategyNames
  <2> QED
    BY <1>1, <2>1, SeqDef
<1>7. QueuesInv
  <2>1. DOMAIN resultQueue = {}
    BY <1>1
  <2> QED
    BY <1>1, <1>6, <2>1, EmptySeq DEF QueuesInv, DocumentIsAuthoritative
<1>8. \A h \in Handlers : handler[h].at = "idle"
  BY <1>1, IdleHandler
<1>9. /\ {h \in Handlers : handler[h].at \in {"normalize", "count_down"}} = {}
      /\ {h \in Handlers : handler[h].at = "send"} = {}
  BY <1>8
<1> HIDE DEF t
<1>10. ActiveCountExact
  <2>1. Cardinality({}) = 0
    BY FS_EmptySet
  <2>2. /\ status.active = Cardinality({h \in Handlers : handler[h].at \in {"normalize", "count_down"}})
        /\ Cardinality({h \in Handlers : handler[h].at = "send"}) = 0
    BY <1>1, <1>5, <1>9, <2>1
  <2>3. started = status.active + status.completed + status.failures /\ settled = started - status.active - 0
    BY <1>1, <1>5
  <2> QED
    BY <2>2, <2>3 DEF ActiveCountExact
<1>11. HandlersInv
  BY <1>1, <1>5, <1>10, IdleHandler DEF HandlersInv
<1> QED
  BY <1>4, <1>7, <1>11, NormalizerParts

-----------------------------------------------------------------------------
(* The monitor's slots.                                                    *)

SlotsInv ==
    /\ dmTasks \in [DmEntities -> {"none", "started", "complete"}]
    /\ PendingHasTask

(* A report starts a task only together with its slot.                     *)
LEMMA ReportStep ==
    ASSUME SlotsInv, NEW e \in DmEntities, ReportDrift(e)
    PROVE  SlotsInv'
<1>1. \/ dmPending' = dmPending /\ dmTasks' = dmTasks
      \/ dmPending' = dmPending \cup {e} /\ dmTasks' = [dmTasks EXCEPT ![e] = "started"]
  BY DEF ReportDrift, Triggers, Monitor
<1> QED
  BY <1>1 DEF SlotsInv, PendingHasTask

(* Every step of the orchestration keeps slots and tasks together.         *)
LEMMA SlotsStep ==
    ASSUME SlotsInv, DmNext
    PROVE  SlotsInv'
<1>1. ASSUME UNCHANGED <<dmPending, dmTasks>>
      PROVE  SlotsInv'
  BY <1>1 DEF SlotsInv, PendingHasTask
<1>2. ASSUME NEW e \in DmEntities,
             StoredOrDeleted(e) \/ CoreSucceeds(e) \/ CoreFails(e) \/ CheckDrift(e) \/ NormalizeCast(e) \/ Settled(e)
      PROVE  SlotsInv'
  BY <1>1, <1>2 DEF StoredOrDeleted, CoreSucceeds, CoreFails, CheckDrift, NormalizeCast, Settled
<1>3. ASSUME NEW e \in DmEntities, TaskCasts(e)
      PROVE  SlotsInv'
  BY <1>3 DEF TaskCasts, SlotsInv, PendingHasTask
<1>4. ASSUME NEW e \in DmEntities, Complete(e)
      PROVE  SlotsInv'
  BY <1>4 DEF Complete, SlotsInv, PendingHasTask
<1>6. ASSUME NEW s, WorstChanges(s)
      PROVE  SlotsInv'
  BY <1>1, <1>6 DEF WorstChanges
<1>5. CASE PerformSweep
  <2>1. PICK S \in SUBSET Unattended :
            /\ dmPending' = dmPending \cup S
            /\ dmTasks' = [e \in DmEntities |-> IF e \in S THEN "started" ELSE dmTasks[e]]
    BY <1>5 DEF PerformSweep
  <2> QED
    BY <2>1 DEF SlotsInv, PendingHasTask
<1> QED
  BY <1>2, <1>3, <1>4, <1>5, <1>6, ReportStep DEF DmNext, Delivers

(* No task, no slot.                                                       *)
LEMMA SlotsStart ==
    ASSUME DmInit
    PROVE  SlotsInv
  BY DEF DmInit, SlotsInv, PendingHasTask

-----------------------------------------------------------------------------

PipelineInv == DetectorInv /\ NormalizerInv /\ SlotsInv

(* A step of one component leaves the others.                              *)
LEMMA PipelineStep ==
    ASSUME PipelineInv, [Next]_vars
    PROVE  PipelineInv'
<1>1. ASSUME UNCHANGED pipelineVars
      PROVE  DetectorInv' /\ NormalizerInv'
  BY <1>1 DEF pipelineVars, detectorVars, normalizerVars, PipelineInv, DetectorInv, MetricsInv, AlarmIsOwn,
     NormalizerInv, ActiveCountExact, DocumentIsAuthoritative
<1>2. ASSUME UNCHANGED dmVars
      PROVE  SlotsInv'
  BY <1>2 DEF dmVars, PipelineInv, SlotsInv, PendingHasTask
<1>3. CASE UNCHANGED <<pipelineVars, dmVars>>
  BY <1>1, <1>2, <1>3 DEF PipelineInv
<1>4. CASE PipelineNext /\ UNCHANGED dmVars
  BY <1>2, <1>4, DetectorStep, NormalizerStep DEF PipelineInv
<1>5. CASE DmNext /\ UNCHANGED pipelineVars
  BY <1>1, <1>5, SlotsStep DEF PipelineInv
<1> QED
  BY <1>3, <1>4, <1>5 DEF Next, vars

(* The invariant gives the properties of the run.                          *)
LEMMA PipelineProperties ==
    ASSUME PipelineInv
    PROVE  PipelineSound
<1>1. MetricsCoherent
  BY DEF PipelineInv, DetectorInv, MetricsInv, MetricsCoherent, Coherent
<1>2. HealthReflectsDrift
  BY HealthIsWorst DEF PipelineInv, DetectorInv
<1> QED
  BY <1>1, <1>2 DEF PipelineInv, DetectorInv, NormalizerInv, SlotsInv, PipelineSound

(* For any number of tasks that measure, handlers, drift types, scores,    *)
(* thresholds, strategies and channel capacities: the metrics of each type *)
(* fit together, an alarm is about the task's own score, health is the     *)
(* worst severity, active_count is exact on success and on failure, no     *)
(* result rewrites a document that was there, and the monitor's slots are  *)
(* those of its running tasks.                                             *)
THEOREM PipelineIsSound == Spec => []PipelineSound
<1>1. Init => PipelineInv
  BY PipelineStart, SlotsStart DEF Init, PipelineInv
<1>2. PipelineInv /\ [Next]_vars => PipelineInv'
  BY PipelineStep
<1>3. PipelineInv => PipelineSound
  BY PipelineProperties
<1> QED
  BY <1>1, <1>2, <1>3, PTL DEF Spec
-----------------------------------------------------------------------------
(* The drift scores.                                                       *)

SumFn(f, s) == f = [i \in 0 .. Len(s) |-> IF i = 0 THEN 0 ELSE f[i - 1] + s[i]]

(* A sum is reached by adding one element after the other.                 *)
LEMMA SumIs ==
    ASSUME NEW n \in Nat, NEW s \in [1 .. n -> Int]
    PROVE  \E f : /\ f \in [0 .. n -> Int] /\ SumSeq(s) = f[n] /\ f[0] = 0
                  /\ \A i \in 1 .. n : f[i] = f[i - 1] + s[i]
<1>0. Len(s) = n
  OBVIOUS
<1> DEFINE Adds(m) == \E f \in [0 .. m -> Int] : f[0] = 0 /\ \A i \in 1 .. m : f[i] = f[i - 1] + s[i]
           Bad == {m \in 0 .. n : ~Adds(m)}
<1>1. ASSUME Bad # {} PROVE FALSE
  <2>1. PICK m \in Bad : \A y \in Bad : m <= y
    <3>1. Bad \in SUBSET Nat
      OBVIOUS
    <3> HIDE DEF Bad
    <3> QED BY <1>1, <3>1, MinProperties
  <2>2. m \in 0 .. n /\ ~Adds(m)
    BY <2>1, Zenon
  <2>3. CASE m = 0
    <3> DEFINE g == [i \in 0 .. 0 |-> 0]
    <3>1. g \in [0 .. 0 -> Int] /\ g[0] = 0 /\ \A i \in 1 .. 0 : g[i] = g[i - 1] + s[i]
      OBVIOUS
    <3> QED BY <2>2, <2>3, <3>1
  <2>4. CASE m # 0
    <3>1. m - 1 \in 0 .. n /\ ~(m <= m - 1)
      BY <2>2, <2>4
    <3>2. Adds(m - 1)
      BY <2>1, <3>1, Zenon
    <3>3. PICK f \in [0 .. (m - 1) -> Int] : f[0] = 0 /\ \A i \in 1 .. (m - 1) : f[i] = f[i - 1] + s[i]
      BY <3>2
    <3> DEFINE g == [i \in 0 .. m |-> IF i = m THEN f[m - 1] + s[m] ELSE f[i]]
    <3>4. f[m - 1] \in Int /\ s[m] \in Int
      BY <2>2, <3>1, <3>3
    <3>5. g \in [0 .. m -> Int]
      BY <2>2, <3>3, <3>4
    <3>6. \A i \in 0 .. m : g[i] = IF i = m THEN f[m - 1] + s[m] ELSE f[i]
      OBVIOUS
    <3> HIDE DEF g
    <3>7. g[0] = 0 /\ \A i \in 1 .. m : g[i] = g[i - 1] + s[i]
      <4>1. g[0] = 0
        BY <2>2, <2>4, <3>3, <3>6
      <4>2. ASSUME NEW i \in 1 .. m PROVE g[i] = g[i - 1] + s[i]
        <5>1. i - 1 \in 0 .. m /\ i - 1 # m /\ i \in 0 .. m
          BY <2>2
        <5>2. g[i - 1] = f[i - 1]
          BY <3>6, <5>1
        <5>3. CASE i = m
          BY <3>6, <5>1, <5>2, <5>3
        <5>4. CASE i # m
          <6>1. i \in 1 .. (m - 1)
            BY <2>2, <5>4
          <6>2. g[i] = f[i]
            BY <3>6, <5>1, <5>4
          <6> QED BY <3>3, <5>2, <6>1, <6>2
        <5> QED BY <5>3, <5>4
      <4> QED BY <4>1, <4>2
    <3> QED BY <2>2, <3>5, <3>7
  <2> QED BY <2>3, <2>4
<1>2. PICK f \in [0 .. n -> Int] : f[0] = 0 /\ \A i \in 1 .. n : f[i] = f[i - 1] + s[i]
  <2>1. n \in 0 .. n
    OBVIOUS
  <2>2. Adds(n)
    BY <1>1, <2>1, Zenon
  <2> QED BY <2>2
<1>3. SumFn(f, s)
  <2>1. \A i \in 0 .. n : f[i] = IF i = 0 THEN 0 ELSE f[i - 1] + s[i]
    BY <1>2
  <2>2. f = [i \in 0 .. n |-> f[i]]
    BY <1>2, Zenon
  <2> QED BY <1>0, <2>1, <2>2, Zenon DEF SumFn
<1> DEFINE g == CHOOSE h : SumFn(h, s)
<1>4. SumFn(g, s)
  BY <1>3, Zenon
<1>5. SumSeq(s) = g[n]
  BY <1>0, Zenon DEF SumSeq, SumFn
<1> HIDE DEF g
<1>6. \A i \in 0 .. n : g[i] = IF i = 0 THEN 0 ELSE g[i - 1] + s[i]
  <2> SUFFICES ASSUME NEW i \in 0 .. n PROVE g[i] = IF i = 0 THEN 0 ELSE g[i - 1] + s[i]
    OBVIOUS
  <2> QED BY <1>0, <1>4, Zenon DEF SumFn
<1> DEFINE Off == {i \in 0 .. n : g[i] # f[i]}
<1>7. ASSUME Off # {} PROVE FALSE
  <2>1. PICK m \in Off : \A y \in Off : m <= y
    <3>1. Off \in SUBSET Nat
      OBVIOUS
    <3> HIDE DEF Off
    <3> QED BY <1>7, <3>1, MinProperties
  <2>2. m \in 0 .. n /\ g[m] # f[m]
    BY <2>1, Zenon
  <2>3. m # 0
    BY <1>2, <1>6, <2>2
  <2>4. m \in 1 .. n /\ m - 1 \in 0 .. n /\ ~(m <= m - 1)
    BY <2>2, <2>3
  <2>5. g[m - 1] = f[m - 1]
    BY <2>1, <2>4, Zenon
  <2> QED BY <1>2, <1>6, <2>2, <2>3, <2>4, <2>5, Zenon
<1>8. SumSeq(s) = f[n]
  BY <1>5, <1>7
<1> QED BY <1>2, <1>8

LEMMA SumType ==
    ASSUME NEW n \in Nat, NEW s \in [1 .. n -> Int]
    PROVE  SumSeq(s) \in Int
<1>1. PICK f : f \in [0 .. n -> Int] /\ SumSeq(s) = f[n]
  BY SumIs
<1> QED BY <1>1

(* Division by a positive number.                                          *)
LEMMA DivFacts ==
    ASSUME NEW x \in Int, NEW d \in Nat \ {0}
    PROVE  /\ x \div d \in Int
           /\ x >= 0 => x \div d >= 0
           /\ x >= d => x \div d >= 1
           /\ x <= Unit * d => x \div d <= Unit
BY DEF Unit

LEMMA AtLeast ==
    ASSUME NEW x \in Int, NEW d \in Nat \ {0}, x >= Unit * d
    PROVE  x \div d >= Unit
BY DEF Unit

LEMMA AtLeastTimes ==
    ASSUME NEW x \in Int, NEW d \in Nat \ {0}, NEW c \in Nat, x >= c * d
    PROVE  x \div d >= c
<1> DEFINE q == x \div d
<1>1. q \in Int /\ x < d * q + d
  OBVIOUS
<1> HIDE DEF q
<1>2. ASSUME q + 1 <= c PROVE FALSE
  <2>1. d * (q + 1) <= d * c
    BY <1>1, <1>2
  <2>2. d * (q + 1) = d * q + d /\ d * c = c * d
    BY <1>1
  <2> QED BY <1>1, <2>1, <2>2
<1>3. q >= c
  BY <1>1, <1>2
<1> QED BY <1>3 DEF q

LEMMA UnitTimes ==
    ASSUME NEW x \in Int, NEW d \in Nat \ {0}, x \div d >= Unit
    PROVE  x >= Unit * d
BY DEF Unit

(* A sum of naturals is no less than each of them.                         *)
LEMMA SumAtLeast ==
    ASSUME NEW n \in Nat, NEW s \in [1 .. n -> Nat], NEW i \in 1 .. n
    PROVE  SumSeq(s) >= s[i]
<1>1. PICK f : /\ f \in [0 .. n -> Int] /\ SumSeq(s) = f[n] /\ f[0] = 0
               /\ \A j \in 1 .. n : f[j] = f[j - 1] + s[j]
  <2>1. s \in [1 .. n -> Int]
    OBVIOUS
  <2> QED BY <2>1, SumIs
<1> DEFINE Bad == {m \in 0 .. n : ~(f[m] >= 0 /\ (m >= i => f[m] >= s[i]))}
<1>2. ASSUME Bad # {} PROVE FALSE
  <2>1. PICK m \in Bad : \A y \in Bad : m <= y
    <3>1. Bad \in SUBSET Nat
      OBVIOUS
    <3> HIDE DEF Bad
    <3> QED BY <1>2, <3>1, MinProperties
  <2>2. m \in 0 .. n /\ ~(f[m] >= 0 /\ (m >= i => f[m] >= s[i]))
    BY <2>1
  <2>3. m # 0
    BY <1>1, <2>2
  <2>4. m - 1 \in 0 .. n /\ m \in 1 .. n /\ ~(m <= m - 1)
    BY <2>2, <2>3
  <2>5. f[m - 1] >= 0 /\ (m - 1 >= i => f[m - 1] >= s[i])
    BY <2>1, <2>4, Zenon
  <2>6. f[m] = f[m - 1] + s[m] /\ s[m] \in Nat /\ s[i] \in Nat /\ f[m - 1] \in Int
    BY <1>1, <2>4
  <2>7. m = i \/ m - 1 >= i \/ ~(m >= i)
    BY <2>2
  <2> QED BY <2>2, <2>5, <2>6, <2>7
<1>3. n \in 0 .. n /\ n >= i
  OBVIOUS
<1> QED BY <1>1, <1>2, <1>3

(* Up to three similarities that are full on the average are full.         *)
LEMMA FullSum ==
    ASSUME NEW k \in 1 .. 3, NEW s \in [1 .. k -> Int], \A i \in 1 .. k : s[i] <= Unit, SumSeq(s) >= Unit * k
    PROVE  \A i \in 1 .. k : s[i] = Unit
<1>1. PICK f : /\ f \in [0 .. k -> Int] /\ SumSeq(s) = f[k] /\ f[0] = 0
               /\ \A j \in 1 .. k : f[j] = f[j - 1] + s[j]
  <2>1. k \in Nat
    OBVIOUS
  <2> QED BY <2>1, SumIs, Zenon
<1>2. CASE k = 1
  <2>1. f[1] = f[0] + s[1] /\ s[1] \in Int /\ s[1] <= Unit
    BY <1>1, <1>2
  <2>2. s[1] = Unit
    BY <1>1, <1>2, <2>1 DEF Unit
  <2> QED BY <1>2, <2>2
<1>3. CASE k = 2
  <2>1. /\ f[1] = f[0] + s[1] /\ s[1] \in Int /\ s[1] <= Unit
        /\ f[2] = f[1] + s[2] /\ s[2] \in Int /\ s[2] <= Unit
    BY <1>1, <1>3
  <2>2. s[1] = Unit /\ s[2] = Unit
    BY <1>1, <1>3, <2>1 DEF Unit
  <2>3. \A i \in 1 .. k : i = 1 \/ i = 2
    BY <1>3
  <2> QED BY <2>2, <2>3
<1>4. CASE k = 3
  <2>1. /\ f[1] = f[0] + s[1] /\ s[1] \in Int /\ s[1] <= Unit
        /\ f[2] = f[1] + s[2] /\ s[2] \in Int /\ s[2] <= Unit
        /\ f[3] = f[2] + s[3] /\ s[3] \in Int /\ s[3] <= Unit
    BY <1>1, <1>4
  <2>2. s[1] = Unit /\ s[2] = Unit /\ s[3] = Unit
    BY <1>1, <1>4, <2>1 DEF Unit
  <2>3. \A i \in 1 .. k : i = 1 \/ i = 2 \/ i = 3
    BY <1>4
  <2> QED BY <2>2, <2>3
<1> QED BY <1>2, <1>3, <1>4

LEMMA ClampFacts ==
    ASSUME NEW x \in Int
    PROVE  /\ Clamp(x) \in 0 .. Unit
           /\ Clamp(x) = 0 <=> x <= 0
           /\ x \in 0 .. Unit => Clamp(x) = x
BY DEF Clamp, Unit

(* A count of positions.                                                   *)
LEMMA CountFacts ==
    ASSUME NEW n \in Nat, NEW P \in SUBSET (1 .. n)
    PROVE  /\ IsFiniteSet(P) /\ Cardinality(P) \in 0 .. n
           /\ Cardinality(P) = 0 => P = {}
           /\ Cardinality(P) = n => P = 1 .. n
<1>1. IsFiniteSet(1 .. n) /\ Cardinality(1 .. n) = n
  BY FS_Interval
<1>2. IsFiniteSet(P) /\ Cardinality(P) <= n /\ (Cardinality(P) = n => P = 1 .. n)
  BY <1>1, FS_Subset
<1>3. Cardinality(P) \in Nat
  BY <1>2, FS_CardinalityType
<1> QED BY <1>2, <1>3, FS_EmptySet

LEMMA UnitRange == \A x \in 0 .. Unit : x \in Int /\ x >= 0 /\ x <= Unit
BY DEF Unit

LEMMA ScoreType ==
    ASSUME NEW I, NEW s \in [I -> 0 .. Unit]
    PROVE  \A i \in I : s[i] \in Int /\ s[i] >= 0 /\ s[i] <= Unit
<1>1. \A i \in I : s[i] \in 0 .. Unit
  BY Zenon
<1> QED BY <1>1, UnitRange, Zenon

(* The greatest of some scores, and of several greatest the last, exists.  *)
LEMMA WorstExists ==
    ASSUME NEW n \in Nat \ {0}, NEW s \in [1 .. n -> 0 .. Unit]
    PROVE  \E k \in 1 .. n : \A j \in 1 .. n : s[j] < s[k] \/ (s[j] = s[k] /\ j <= k)
<1>0. \A i \in 1 .. n : s[i] \in Int /\ s[i] >= 0 /\ s[i] <= Unit
  BY ScoreType
<1> DEFINE Short == {Unit - s[i] : i \in 1 .. n}
<1>1. PICK i \in 1 .. n : \A j \in 1 .. n : s[j] <= s[i]
  <2>1. Short \in SUBSET Nat /\ Short # {}
    BY <1>0 DEF Unit
  <2>2. PICK x \in Short : \A y \in Short : x <= y
    <3> HIDE DEF Short
    <3> QED BY <2>1, MinProperties
  <2>3. PICK i \in 1 .. n : x = Unit - s[i]
    BY <2>2
  <2>4. \A j \in 1 .. n : Unit - s[i] <= Unit - s[j]
    BY <2>2, <2>3
  <2>5. ASSUME NEW j \in 1 .. n PROVE s[j] <= s[i]
    <3>1. Unit - s[i] <= Unit - s[j] /\ s[i] \in Int /\ s[j] \in Int
      BY <1>0, <2>4
    <3> QED BY <3>1 DEF Unit
  <2> QED BY <2>5
<1> DEFINE Late == {n - k : k \in {j \in 1 .. n : s[j] = s[i]}}
<1>2. Late \in SUBSET Nat /\ Late # {}
  OBVIOUS
<1>3. PICK y \in Late : \A z \in Late : y <= z
  <2> HIDE DEF Late
  <2> QED BY <1>2, MinProperties
<1>4. PICK k \in 1 .. n : s[k] = s[i] /\ y = n - k
  BY <1>3
<1>5. \A j \in 1 .. n : s[j] = s[i] => n - k <= n - j
  BY <1>3, <1>4
<1>6. ASSUME NEW j \in 1 .. n PROVE s[j] < s[k] \/ (s[j] = s[k] /\ j <= k)
  BY <1>0, <1>1, <1>4, <1>5
<1> QED BY <1>6

(* The primary type is the one of a greatest score.                        *)
LEMMA PrimaryFacts ==
    ASSUME NEW n \in Nat \ {0}, NEW s \in [1 .. n -> 0 .. Unit]
    PROVE  \E i \in 1 .. n : Parts[i] = PrimaryDriftType(s) /\ \A j \in 1 .. n : s[j] <= s[i]
<1>1. DOMAIN s = 1 .. n /\ \A i \in 1 .. n : s[i] \in Int
  BY ScoreType
<1> DEFINE k == CHOOSE m \in DOMAIN s : \A j \in DOMAIN s : s[j] < s[m] \/ (s[j] = s[m] /\ j <= m)
<1>2. k \in 1 .. n /\ \A j \in 1 .. n : s[j] < s[k] \/ (s[j] = s[k] /\ j <= k)
  BY <1>1, WorstExists, Zenon
<1>3. Parts[k] = PrimaryDriftType(s)
  BY Zenon DEF PrimaryDriftType
<1> HIDE DEF k
<1>4. \A j \in 1 .. n : s[j] <= s[k]
  BY <1>1, <1>2
<1> QED BY <1>2, <1>3, <1>4

(* The weighted sums, written out.                                         *)
LEMMA QualitySum ==
    ASSUME NEW s \in [1 .. 5 -> 0 .. Unit]
    PROVE  SumSeq([i \in DOMAIN Weights |-> s[i] * Weights[i]]) =
             s[1] * 25 + s[2] * 25 + s[3] * 20 + s[4] * 15 + s[5] * 15
<1> DEFINE q == [i \in DOMAIN Weights |-> s[i] * Weights[i]]
<1>1. DOMAIN Weights = 1 .. 5 /\ Weights[1] = 25 /\ Weights[2] = 25 /\ Weights[3] = 20 /\ Weights[4] = 15 /\ Weights[5] = 15
  BY DEF Weights
<1>2. \A i \in 1 .. 5 : s[i] \in Int /\ Weights[i] \in Int
  <2>1. \A i \in 1 .. 5 : Weights[i] \in Int
    BY DEF Weights
  <2> QED BY <2>1, ScoreType
<1>3. q \in [1 .. 5 -> Int]
  BY <1>1, <1>2
<1>4. q[1] = s[1] * 25 /\ q[2] = s[2] * 25 /\ q[3] = s[3] * 20 /\ q[4] = s[4] * 15 /\ q[5] = s[5] * 15
  BY <1>1
<1> HIDE DEF q
<1>5. PICK f : /\ f \in [0 .. 5 -> Int] /\ SumSeq(q) = f[5] /\ f[0] = 0
               /\ \A i \in 1 .. 5 : f[i] = f[i - 1] + q[i]
  <2>1. 5 \in Nat
    OBVIOUS
  <2> QED BY <1>3, <2>1, SumIs, Zenon
<1>6. f[1] = f[0] + q[1] /\ f[2] = f[1] + q[2] /\ f[3] = f[2] + q[3] /\ f[4] = f[3] + q[4] /\ f[5] = f[4] + q[5]
  BY <1>5
<1>7. SumSeq(q) = s[1] * 25 + s[2] * 25 + s[3] * 20 + s[4] * 15 + s[5] * 15
  BY <1>2, <1>4, <1>5, <1>6
<1> QED BY <1>7 DEF q

LEMMA OctadSum ==
    ASSUME NEW s \in [1 .. 7 -> 0 .. Unit]
    PROVE  SumSeq([i \in DOMAIN OctadWeights |-> s[i] * OctadWeights[i]]) =
             s[1] * 20 + s[2] * 20 + s[3] * 15 + s[4] * 10 + s[5] * 10 + s[6] * 15 + s[7] * 10
<1> DEFINE q == [i \in DOMAIN OctadWeights |-> s[i] * OctadWeights[i]]
<1>1. /\ DOMAIN OctadWeights = 1 .. 7 /\ OctadWeights[1] = 20 /\ OctadWeights[2] = 20 /\ OctadWeights[3] = 15
      /\ OctadWeights[4] = 10 /\ OctadWeights[5] = 10 /\ OctadWeights[6] = 15 /\ OctadWeights[7] = 10
  BY DEF OctadWeights
<1>2. \A i \in 1 .. 7 : s[i] \in Int /\ OctadWeights[i] \in Int
  <2>1. \A i \in 1 .. 7 : OctadWeights[i] \in Int
    BY DEF OctadWeights
  <2> QED BY <2>1, ScoreType
<1>3. q \in [1 .. 7 -> Int]
  BY <1>1, <1>2
<1>4. /\ q[1] = s[1] * 20 /\ q[2] = s[2] * 20 /\ q[3] = s[3] * 15 /\ q[4] = s[4] * 10 /\ q[5] = s[5] * 10
      /\ q[6] = s[6] * 15 /\ q[7] = s[7] * 10
  BY <1>1
<1> HIDE DEF q
<1>5. PICK f : /\ f \in [0 .. 7 -> Int] /\ SumSeq(q) = f[7] /\ f[0] = 0
               /\ \A i \in 1 .. 7 : f[i] = f[i - 1] + q[i]
  <2>1. 7 \in Nat
    OBVIOUS
  <2> QED BY <1>3, <2>1, SumIs, Zenon
<1>6. /\ f[1] = f[0] + q[1] /\ f[2] = f[1] + q[2] /\ f[3] = f[2] + q[3] /\ f[4] = f[3] + q[4]
      /\ f[5] = f[4] + q[5] /\ f[6] = f[5] + q[6] /\ f[7] = f[6] + q[7]
  BY <1>5
<1>7. SumSeq(q) = s[1] * 20 + s[2] * 20 + s[3] * 15 + s[4] * 10 + s[5] * 10 + s[6] * 15 + s[7] * 10
  BY <1>2, <1>4, <1>5, <1>6
<1> QED BY <1>7 DEF q

(* What a sample of each function is: its score in range, and zero only    *)
(* where nothing disagrees.                                                *)
LEMMA SemanticVectorScore ==
    ASSUME NEW s \in SeqsUpTo(Similarities, 3)
    PROVE  /\ SemanticVectorDrift(s) \in 0 .. Unit
           /\ SemanticVectorDrift(s) = 0 => \A i \in DOMAIN s : s[i] = Unit
<1>1. PICK k \in 0 .. 3 : s \in [1 .. k -> Similarities]
  BY DEF SeqsUpTo
<1>2. s \in [1 .. k -> Int] /\ k \in Nat /\ Len(s) = k /\ DOMAIN s = 1 .. k /\ \A i \in 1 .. k : s[i] <= Unit
  <2>1. Similarities \subseteq Int /\ \A x \in Similarities : x <= Unit
    BY ScoreAssumption DEF Unit
  <2>2. k \in Nat /\ Len(s) = k /\ DOMAIN s = 1 .. k
    BY <1>1
  <2>3. s \in [1 .. k -> Int] /\ \A i \in 1 .. k : s[i] <= Unit
    BY <1>1, <2>1, Zenon
  <2> QED BY <2>2, <2>3
<1>3. CASE s = <<>>
  BY <1>3 DEF SemanticVectorDrift, Unit
<1>4. CASE s # <<>>
  <2> DEFINE q == SumSeq(s) \div Len(s)
  <2>1. k \in Nat \ {0} /\ k \in 1 .. 3
    BY <1>1, <1>2, <1>4
  <2>2. SumSeq(s) \in Int
    BY <1>2, SumType
  <2>3. q \in Int
    BY <1>2, <2>1, <2>2, DivFacts
  <2>4. q >= Unit => SumSeq(s) >= Unit * k
    BY <1>2, <2>1, <2>2, UnitTimes
  <2>5. SemanticVectorDrift(s) = Clamp(Unit - q)
    BY <1>4 DEF SemanticVectorDrift
  <2> HIDE DEF q
  <2>6. Unit - q \in Int /\ (Unit - q <= 0 => q >= Unit)
    BY <2>3 DEF Unit
  <2>7. SemanticVectorDrift(s) \in 0 .. Unit /\ (SemanticVectorDrift(s) = 0 => q >= Unit)
    BY <2>5, <2>6, ClampFacts
  <2>8. q >= Unit => \A i \in 1 .. k : s[i] = Unit
    BY <1>2, <2>1, <2>4, FullSum
  <2> QED BY <1>2, <2>7, <2>8, Zenon
<1> QED BY <1>3, <1>4

Match(e, t) ==
    /\ \A i \in DOMAIN t : \E j \in DOMAIN e : Holds(t[i], e[j])
    /\ \A i \in DOMAIN e : \E j \in DOMAIN t : Holds(t[j], e[i]) \/ Holds(e[i], t[j])

LEMMA GraphDocumentScore ==
    ASSUME NEW e \in SeqsUpTo(Names, 3), NEW t \in SeqsUpTo(Names, 3)
    PROVE  /\ GraphDocumentDrift(e, t) \in 0 .. Unit
           /\ GraphDocumentDrift(e, t) = 0 => e = <<>> \/ Match(e, t)
<1>1. PICK k \in 0 .. 3 : e \in [1 .. k -> Names]
  BY DEF SeqsUpTo
<1>2. PICK m \in 0 .. 3 : t \in [1 .. m -> Names]
  BY DEF SeqsUpTo
<1>3. k \in Nat /\ Len(e) = k /\ DOMAIN e = 1 .. k /\ m \in Nat /\ Len(t) = m /\ DOMAIN t = 1 .. m /\ k <= 3 /\ m <= 3
  BY <1>1, <1>2
<1>4. CASE e = <<>>
  BY <1>4 DEF GraphDocumentDrift, Unit
<1>5. CASE e # <<>>
  <2> DEFINE M == {j \in DOMAIN e : \E i \in DOMAIN t : Holds(t[i], e[j]) \/ Holds(e[j], t[i])}
             X == {j \in DOMAIN t : ~\E i \in DOMAIN e : Holds(t[j], e[i])}
             matched == Cardinality(M)
             extra == Cardinality(X)
             coverage == (Unit * matched) \div Len(e)
             ratio == IF t = <<>> THEN 0 ELSE (Unit * extra) \div Len(t)
  <2>1. GraphDocumentDrift(e, t) = Clamp((Unit - coverage + ratio) \div 2)
    BY <1>5 DEF GraphDocumentDrift, CountIn
  <2>2. M \in SUBSET (1 .. k) /\ X \in SUBSET (1 .. m)
    BY <1>3
  <2>3. k # 0
    BY <1>1, <1>5
  <2>4. matched \in 0 .. k /\ extra \in 0 .. m /\ (extra = 0 => X = {}) /\ (matched = k => M = 1 .. k)
    BY <1>3, <2>2, CountFacts
  <2> HIDE DEF matched, extra
  <2>5. coverage \in Int /\ coverage <= Unit /\ (matched # k => coverage <= 2400)
    <3>1. k = 1 \/ k = 2 \/ k = 3
      BY <1>3, <2>3
    <3> QED BY <1>3, <2>4, <3>1 DEF Unit
  <2>6. ratio \in Int /\ ratio >= 0 /\ (extra # 0 => ratio >= 1200)
    <3>1. CASE t = <<>>
      BY <1>2, <1>3, <2>4, <3>1
    <3>2. CASE t # <<>>
      <4>1. m \in 1 .. 3
        BY <1>2, <1>3, <3>2
      <4>2. ratio = (Unit * extra) \div m
        BY <1>3, <3>2
      <4>3. m = 1 \/ m = 2 \/ m = 3
        BY <4>1
      <4> QED BY <2>4, <4>2, <4>3 DEF Unit
    <3> QED BY <3>1, <3>2
  <2> HIDE DEF coverage, ratio
  <2>7. Unit - coverage + ratio \in Int
    BY <2>5, <2>6 DEF Unit
  <2>8. /\ (Unit - coverage + ratio) \div 2 \in Int
        /\ extra # 0 \/ matched # k => (Unit - coverage + ratio) \div 2 >= 1
    BY <2>5, <2>6 DEF Unit
  <2>9. GraphDocumentDrift(e, t) \in 0 .. Unit
    BY <2>1, <2>8, ClampFacts
  <2>10. ASSUME GraphDocumentDrift(e, t) = 0 PROVE Match(e, t)
    <3>1. (Unit - coverage + ratio) \div 2 <= 0
      BY <2>1, <2>8, <2>10, ClampFacts
    <3>2. extra = 0 /\ matched = k
      BY <2>8, <3>1
    <3>3. X = {} /\ M = DOMAIN e
      BY <1>3, <2>4, <3>2
    <3> QED BY <3>3 DEF Match
  <2> QED BY <2>9, <2>10
<1> QED BY <1>4, <1>5

LEMMA SpatialScore ==
    ASSUME NEW c \in BOOLEAN, NEW m \in BOOLEAN, NEW x \in BOOLEAN, NEW v \in BOOLEAN
    PROVE  /\ SpatialDrift(c, m, x, v) \in 0 .. Unit
           /\ SpatialDrift(c, m, x, v) = 0 => c = m /\ (c => x)
<1>1. Unit \div 10 = 360 /\ (9 * Unit) \div 10 = 3240
  BY DEF Unit
<1>2. CASE c /\ m
  BY <1>1, <1>2 DEF SpatialDrift, Unit
<1>3. CASE c /\ ~m
  BY <1>1, <1>3 DEF SpatialDrift, Unit
<1>4. CASE ~c /\ m
  BY <1>1, <1>4 DEF SpatialDrift, Unit
<1>5. CASE ~c /\ ~m
  BY <1>1, <1>5 DEF SpatialDrift, Unit
<1> QED BY <1>2, <1>3, <1>4, <1>5

LEMMA SchemaScore ==
    ASSUME NEW r \in SUBSET Required, NEW p \in SUBSET Required, NEW n \in 0 .. Constraints, NEW v \in 0 .. n
    PROVE  /\ SchemaDrift(r, p, v, n) \in 0 .. Unit
           /\ SchemaDrift(r, p, v, n) = 0 => r \subseteq p /\ v = 0
<1> DEFINE lost == Cardinality(r \ p)
           size == Cardinality(r)
           a == IF r = {} THEN 0 ELSE (Unit * lost) \div (2 * size)
           b == IF n = 0 THEN 0 ELSE (Unit * v) \div (2 * n)
<1>0. n \in Nat /\ v \in Nat /\ v <= n /\ 2 * n <= Unit
  BY CalculatorAssumption, ResolutionAssumption DEF Unit
<1>1. IsFiniteSet(r) /\ IsFiniteSet(r \ p) /\ size <= Cardinality(Required)
  BY ResolutionAssumption, FS_Subset
<1>2. size \in Nat /\ lost \in Nat /\ (size = 0 => r = {}) /\ (lost = 0 => r \ p = {}) /\ Cardinality(Required) \in Nat
  BY <1>1, ResolutionAssumption, FS_CardinalityType, FS_EmptySet
<1>3. 2 * size <= Unit
  BY <1>1, <1>2, ResolutionAssumption DEF Unit
<1> HIDE DEF lost, size
<1>4. a \in Int /\ a >= 0 /\ (r # {} /\ lost # 0 => a >= 1)
  <2>1. CASE r = {}
    BY <2>1
  <2>2. CASE r # {}
    <3>1. 2 * size \in Nat \ {0} /\ Unit * lost \in Int /\ Unit * lost >= 0 /\ (lost # 0 => Unit * lost >= 2 * size)
      BY <1>2, <1>3, <2>2 DEF Unit
    <3> QED BY <2>2, <3>1, DivFacts
  <2> QED BY <2>1, <2>2
<1>5. b \in Int /\ b >= 0 /\ (v # 0 => b >= 1)
  <2>1. CASE n = 0
    BY <1>0, <2>1
  <2>2. CASE n # 0
    <3>1. 2 * n \in Nat \ {0} /\ Unit * v \in Int /\ Unit * v >= 0 /\ (v # 0 => Unit * v >= 2 * n)
      BY <1>0, <2>2 DEF Unit
    <3> QED BY <2>2, <3>1, DivFacts
  <2> QED BY <2>1, <2>2
<1>6. SchemaDrift(r, p, v, n) = Clamp(a + b)
  BY DEF SchemaDrift, lost, size
<1> HIDE DEF a, b
<1>7. a + b \in Int /\ (a + b <= 0 => v = 0 /\ (r = {} \/ lost = 0))
  BY <1>4, <1>5
<1> QED BY <1>2, <1>6, <1>7, ClampFacts

(* A hash that two versions have is a duplicate.                           *)
LEMMA DuplicatesFacts ==
    ASSUME NEW n \in Nat, NEW hs, DOMAIN hs = 1 .. n
    PROVE  /\ IsFiniteSet(Duplicates(hs)) /\ Cardinality(Duplicates(hs)) \in Nat
           /\ Duplicates(hs) = {} => \A i, j \in DOMAIN hs : hs[i] = hs[j] => i = j
<1> DEFINE T == {hs[i] : i \in DOMAIN hs}
           f == [i \in 1 .. n |-> hs[i]]
<1>1. IsFiniteSet(1 .. n)
  BY FS_Interval
<1>2. f \in Surjection(1 .. n, T)
  BY DEF Surjection
<1>3. IsFiniteSet(T)
  <2> HIDE DEF f, T
  <2> QED BY <1>1, <1>2, FS_Surjection
<1>4. Duplicates(hs) \in SUBSET T
  BY DEF Duplicates
<1>5. IsFiniteSet(Duplicates(hs)) /\ Cardinality(Duplicates(hs)) \in Nat
  <2> HIDE DEF T
  <2>1. IsFiniteSet(Duplicates(hs))
    BY <1>3, <1>4, FS_Subset
  <2> QED BY <2>1, FS_CardinalityType
<1>6. ASSUME NEW i \in 1 .. n, NEW j \in 1 .. n, hs[i] = hs[j], i # j PROVE hs[i] \in Duplicates(hs)
  <2> DEFINE P == {k \in DOMAIN hs : hs[k] = hs[i]}
  <2>1. P \in SUBSET (1 .. n) /\ i \in P /\ j \in P
    BY <1>6
  <2>2. IsFiniteSet(P) /\ Cardinality(P) \in Nat
    BY <2>1, CountFacts
  <2> HIDE DEF P
  <2>3. Cardinality(P) # 0 /\ Cardinality(P) # 1
    BY <1>6, <2>1, <2>2, FS_EmptySet, FS_Singleton
  <2>4. Cardinality(P) > 1
    BY <2>2, <2>3
  <2>5. hs[i] \in T
    OBVIOUS
  <2> QED BY <2>4, <2>5 DEF Duplicates, CountIn, P
<1> QED BY <1>5, <1>6

LEMMA TemporalScore ==
    ASSUME NEW n \in 1 .. MaxVersions, NEW ts \in [1 .. n -> Stamps], NEW hs \in [1 .. n -> Hashes]
    PROVE  /\ TemporalConsistencyDrift(ts, hs) \in 0 .. Unit
           /\ TemporalConsistencyDrift(ts, hs) = 0 =>
                \/ Len(ts) < 2
                \/ /\ \A i \in 1 .. Len(ts) - 1 : ts[i] <= ts[i + 1]
                   /\ \A i, j \in DOMAIN hs : hs[i] = hs[j] => i = j
                   /\ ~LargeGap(ts)
<1> DEFINE P == {i \in DOMAIN Deltas(ts) : Deltas(ts)[i] < 0}
           back == Cardinality(P)
           dup == Cardinality(Duplicates(hs))
           gap == IF LargeGap(ts) THEN 1 ELSE 0
           issues == 2 * back + dup + gap
<1>0. n \in Nat /\ Len(ts) = n /\ n >= 1 /\ 2 * n <= Unit /\ 2 * n \in Nat \ {0} /\ n - 1 \in Nat /\ DOMAIN hs = 1 .. n
  BY CalculatorAssumption, ResolutionAssumption DEF Unit
<1>1. \A i \in 1 .. n : ts[i] \in Int
  <2>1. Stamps \subseteq Int
    BY CalculatorAssumption
  <2> QED BY <2>1, Zenon
<1>2. DOMAIN Deltas(ts) = 1 .. (n - 1) /\ \A i \in 1 .. (n - 1) : Deltas(ts)[i] = ts[i + 1] - ts[i]
  BY <1>0 DEF Deltas
<1>3. back \in Nat /\ (back = 0 => P = {})
  <2>1. P \in SUBSET (1 .. (n - 1))
    BY <1>2
  <2> HIDE DEF P
  <2> QED BY <1>0, <2>1, CountFacts
<1>4. dup \in Nat /\ (dup = 0 => Duplicates(hs) = {})
  BY <1>0, DuplicatesFacts, FS_EmptySet
<1>5. gap \in {0, 1} /\ (gap = 0 => ~LargeGap(ts))
  OBVIOUS
<1>6. CASE n < 2
  BY <1>0, <1>6 DEF TemporalConsistencyDrift, Unit
<1>7. CASE ~(n < 2)
  <2>1. TemporalConsistencyDrift(ts, hs) = Clamp((Unit * issues) \div (2 * n))
    BY <1>0, <1>7 DEF TemporalConsistencyDrift, CountIn
  <2> HIDE DEF back, dup, gap
  <2>2. issues \in Nat /\ (issues = 0 => back = 0 /\ dup = 0 /\ gap = 0)
    BY <1>3, <1>4, <1>5
  <2> HIDE DEF issues
  <2>3. Unit * issues \in Int /\ (issues # 0 => Unit * issues >= 2 * n)
    BY <1>0, <2>2 DEF Unit
  <2>4. (Unit * issues) \div (2 * n) \in Int /\ (issues # 0 => (Unit * issues) \div (2 * n) >= 1)
    BY <1>0, <2>3, DivFacts
  <2>5. TemporalConsistencyDrift(ts, hs) \in 0 .. Unit
    BY <2>1, <2>4, ClampFacts
  <2>6. ASSUME TemporalConsistencyDrift(ts, hs) = 0
        PROVE  /\ \A i \in 1 .. n - 1 : ts[i] <= ts[i + 1]
               /\ \A i, j \in DOMAIN hs : hs[i] = hs[j] => i = j
               /\ ~LargeGap(ts)
    <3>1. (Unit * issues) \div (2 * n) <= 0
      BY <2>1, <2>4, <2>6, ClampFacts
    <3>2. issues = 0
      BY <2>4, <3>1
    <3>3. P = {} /\ Duplicates(hs) = {} /\ ~LargeGap(ts)
      BY <1>3, <1>4, <1>5, <2>2, <3>2
    <3>4. \A i \in 1 .. n - 1 : ts[i] <= ts[i + 1]
      <4> SUFFICES ASSUME NEW i \in 1 .. (n - 1) PROVE ts[i] <= ts[i + 1]
        OBVIOUS
      <4>1. ~(ts[i + 1] - ts[i] < 0)
        BY <1>2, <3>3
      <4>2. ts[i] \in Int /\ ts[i + 1] \in Int
        BY <1>0, <1>1
      <4> QED BY <4>1, <4>2
    <3> QED BY <1>0, <3>3, <3>4, DuplicatesFacts
  <2> QED BY <1>0, <2>5, <2>6
<1> QED BY <1>6, <1>7

LEMMA ProvenanceScore ==
    ASSUME NEW v \in BOOLEAN, NEW n \in {0, 1}, NEW g \in Gaps, NEW l \in Gaps \ {0}
    PROVE  /\ ProvenanceDrift(v, n, g, l) \in 0 .. Unit
           /\ ProvenanceDrift(v, n, g, l) = 0 => v /\ n > 0 /\ g <= l
<1>0. g \in Nat /\ l \in Nat \ {0} /\ n \in Nat /\ 4 * l <= Unit
  BY CalculatorAssumption, ResolutionAssumption
<1> DEFINE over == (Unit * g) \div l - Unit
           few == IF n = 0 THEN Unit \div 2 ELSE 0
           late == IF l > 0 /\ g > l THEN (3 * (IF over > Unit THEN Unit ELSE over)) \div 10 ELSE 0
<1>1. CASE ~v
  BY <1>1 DEF ProvenanceDrift, Unit
<1>2. CASE v
  <2>1. ProvenanceDrift(v, n, g, l) = Clamp(few + late)
    BY <1>2 DEF ProvenanceDrift
  <2>2. over \in Int /\ (g > l => over >= 4)
    <3>1. Unit * g \in Int /\ (Unit * g) \div l \in Int
      BY <1>0, DivFacts DEF Unit
    <3>2. ASSUME g > l PROVE (Unit * g) \div l >= 3604
      <4>1. Unit * g >= 3604 * l
        BY <1>0, <3>2 DEF Unit
      <4>2. 3604 \in Nat
        OBVIOUS
      <4> QED BY <1>0, <3>1, <4>1, <4>2, AtLeastTimes
    <3> QED BY <3>1, <3>2 DEF Unit
  <2>3. few \in Int /\ few >= 0 /\ (n = 0 => few = 1800)
    BY DEF Unit
  <2> HIDE DEF over, few
  <2>4. late \in Int /\ late >= 0 /\ (g > l => late >= 1)
    BY <1>0, <2>2 DEF Unit
  <2> HIDE DEF late
  <2>5. few + late \in Int /\ (n = 0 \/ g > l => ~(few + late <= 0))
    BY <2>3, <2>4
  <2>6. ProvenanceDrift(v, n, g, l) \in 0 .. Unit /\ (ProvenanceDrift(v, n, g, l) = 0 => few + late <= 0)
    BY <2>1, <2>5, ClampFacts
  <2>7. (n # 0 => n > 0) /\ (~(g > l) => g <= l)
    BY <1>0
  <2>8. ProvenanceDrift(v, n, g, l) = 0 => n > 0 /\ g <= l
    BY <2>5, <2>6, <2>7, Zenon
  <2> QED BY <1>2, <2>6, <2>8, Zenon
<1> QED BY <1>1, <1>2, Zenon

LEMMA TensorScore ==
    ASSUME NEW e \in SeqsUpTo(Dims, MaxRank), NEW a \in SeqsUpTo(Dims, MaxRank)
    PROVE  /\ \/ TensorDrift(e, a) \in 0 .. Unit
              \/ TensorDrift(e, a) = NaN /\ \E i \in (DOMAIN e) \cap (DOMAIN a) : e[i] = 0 /\ a[i] = 0
           /\ TensorDrift(e, a) = 0 => \A i \in (DOMAIN e) \cap (DOMAIN a) : e[i] = a[i]
<1>0. Dims \subseteq Nat /\ MaxRank \in Nat
  BY CalculatorAssumption
<1>1. PICK k \in 0 .. MaxRank : e \in [1 .. k -> Dims]
  BY DEF SeqsUpTo
<1>2. PICK m \in 0 .. MaxRank : a \in [1 .. m -> Dims]
  BY DEF SeqsUpTo
<1>3. k \in Nat /\ Len(e) = k /\ DOMAIN e = 1 .. k /\ m \in Nat /\ Len(a) = m /\ DOMAIN a = 1 .. m
  BY <1>0, <1>1, <1>2
<1> DEFINE least == Len(e) + Len(a) - Rank2(e, a)
           common == 1 .. least
<1>4. /\ Rank2(e, a) \in Nat /\ k <= Rank2(e, a) /\ m <= Rank2(e, a) /\ Rank2(e, a) <= MaxRank
      /\ least \in Nat /\ least <= k /\ least <= m /\ (least = k \/ least = m)
  BY <1>0, <1>3 DEF Rank2
<1> HIDE DEF least
<1>5. /\ \A i \in common : i \in DOMAIN e /\ i \in DOMAIN a
      /\ \A i \in (DOMAIN e) \cap (DOMAIN a) : i \in common
  BY <1>3, <1>4
<1>6. \A i \in common : e[i] \in Nat /\ a[i] \in Nat /\ 2 * MaxRank * e[i] <= Unit
  <2>1. \A i \in common : e[i] \in Dims /\ a[i] \in Dims
    BY <1>1, <1>2, <1>3, <1>5, Zenon
  <2> QED BY <1>0, <2>1, ResolutionAssumption, Zenon
<1> DEFINE Diff == [i \in common |-> (Unit * Abs(e[i] - a[i])) \div e[i]]
           inner == [i \in common |-> Diff[i]]
           score == Clamp(SumSeq(inner) \div (2 * Rank2(e, a)))
           zero == \E i \in common : e[i] = 0
           both == \E i \in common : e[i] = 0 /\ a[i] = 0
<1>7. TensorDrift(e, a) = CASE e = a -> 0 [] e # a /\ both -> NaN [] e # a /\ zero /\ ~both -> Unit
                            [] OTHER -> score
  BY Zenon DEF TensorDrift, least
<1>8. CASE e = a
  BY <1>7, <1>8 DEF Unit
<1>9. CASE e # a /\ both
  <2>1. TensorDrift(e, a) = NaN
    BY <1>7, <1>9, Zenon
  <2> QED BY <1>5, <1>9, <2>1 DEF NaN
<1>10. CASE e # a /\ zero /\ ~both
  <2>1. TensorDrift(e, a) = Unit
    <3> HIDE DEF zero, both, score
    <3> QED BY <1>7, <1>10
  <2> QED BY <2>1 DEF Unit
<1>11. CASE e # a /\ ~zero
  <2>1. TensorDrift(e, a) = score
    <3>1. ~both
      BY <1>11
    <3> HIDE DEF zero, both, score
    <3> QED BY <1>7, <1>11, <3>1
  <2>2. ASSUME NEW i \in common PROVE Diff[i] \in Nat /\ (e[i] # a[i] => Diff[i] >= 2 * MaxRank)
    <3>1. e[i] \in Nat \ {0} /\ a[i] \in Nat /\ 2 * MaxRank \in Nat /\ 2 * MaxRank * e[i] <= Unit
      BY <1>0, <1>6, <1>11
    <3> DEFINE x == Unit * Abs(e[i] - a[i])
    <3>2. x \in Int /\ x >= 0 /\ (e[i] # a[i] => x >= Unit)
      BY <3>1 DEF Unit, Abs
    <3> HIDE DEF x
    <3>3. x \div e[i] \in Int /\ x \div e[i] >= 0
      BY <3>1, <3>2, DivFacts
    <3>4. ASSUME e[i] # a[i] PROVE x \div e[i] >= 2 * MaxRank
      <4> DEFINE c == 2 * MaxRank
      <4>1. c \in Nat /\ c * e[i] <= Unit /\ x >= Unit /\ c * e[i] \in Int
        BY <3>1, <3>2, <3>4
      <4> HIDE DEF c
      <4>2. x >= c * e[i]
        BY <3>2, <4>1 DEF Unit
      <4>3. x \div e[i] >= c
        BY <3>1, <3>2, <4>1, <4>2, AtLeastTimes
      <4> QED BY <4>3 DEF c
    <3>5. Diff[i] = x \div e[i]
      BY Zenon DEF x
    <3> HIDE DEF Diff
    <3>6. x \div e[i] \in Nat
      BY <3>3
    <3> QED BY <3>4, <3>5, <3>6, Zenon
  <2> HIDE DEF Diff
  <2>3. inner \in [1 .. least -> Nat] /\ inner \in [1 .. least -> Int] /\ \A i \in common : inner[i] = Diff[i]
    <3>1. inner \in [1 .. least -> Nat] /\ \A i \in common : inner[i] = Diff[i]
      BY <2>2, Zenon
    <3> HIDE DEF inner
    <3> QED BY <3>1
  <2> HIDE DEF inner
  <2>4. SumSeq(inner) \in Int
    BY <1>4, <2>3, SumType
  <2>5. Rank2(e, a) # 0
    <3>1. ASSUME Rank2(e, a) = 0 PROVE e = a
      <4>1. k = 0 /\ m = 0
        BY <1>3, <1>4, <3>1
      <4> QED BY <1>1, <1>2, <4>1
    <3> QED BY <1>11, <3>1
  <2>6. 2 * Rank2(e, a) \in Nat \ {0}
    BY <1>4, <2>5
  <2>7. SumSeq(inner) \div (2 * Rank2(e, a)) \in Int
    BY <2>4, <2>6, DivFacts
  <2>8. score \in 0 .. Unit /\ (score = 0 => SumSeq(inner) \div (2 * Rank2(e, a)) <= 0)
    BY <2>7, ClampFacts
  <2>9. ASSUME NEW i \in (DOMAIN e) \cap (DOMAIN a), e[i] # a[i] PROVE score # 0
    <3>1. i \in common /\ i \in 1 .. least
      BY <1>5
    <3>2. SumSeq(inner) >= inner[i] /\ inner[i] >= 2 * MaxRank /\ inner[i] \in Nat
      BY <1>4, <2>2, <2>3, <2>9, <3>1, SumAtLeast
    <3>3. SumSeq(inner) >= 2 * Rank2(e, a)
      BY <1>0, <1>4, <2>4, <3>2
    <3>4. SumSeq(inner) \div (2 * Rank2(e, a)) >= 1
      BY <2>4, <2>6, <3>3, DivFacts
    <3> HIDE DEF score
    <3> QED BY <2>7, <2>8, <3>4
  <2> QED BY <2>1, <2>8, <2>9, Zenon
<1> QED BY <1>8, <1>9, <1>10, <1>11, Zenon

LEMMA DivHundred ==
    ASSUME NEW x \in Int, x >= 0, x <= 100 * Unit
    PROVE  /\ x \div 100 \in Int /\ x \div 100 \in 0 .. Unit
           /\ 100 * (x \div 100) <= x /\ x <= 100 * (x \div 100) + 99
BY DEF Unit

(* Weights that make a whole give a mean.                                  *)
LEMMA QualityScore ==
    ASSUME NEW s \in [1 .. 5 -> PartScores]
    PROVE  /\ s \in [1 .. 5 -> 0 .. Unit] /\ QualityDrift(s) \in 0 .. Unit
           /\ \E i \in 1 .. 5 : s[i] <= QualityDrift(s) + 1
           /\ \E i \in 1 .. 5 : s[i] >= QualityDrift(s)
           /\ QualityDrift(s) = 0 => \A i \in 1 .. 5 : s[i] = 0
<1> DEFINE S == SumSeq([i \in DOMAIN Weights |-> s[i] * Weights[i]])
<1>1. s \in [1 .. 5 -> 0 .. Unit]
  BY ScoreAssumption, Zenon
<1>2. S = s[1] * 25 + s[2] * 25 + s[3] * 20 + s[4] * 15 + s[5] * 15
  BY <1>1, QualitySum
<1>3. /\ s[1] \in Int /\ s[2] \in Int /\ s[3] \in Int /\ s[4] \in Int /\ s[5] \in Int
      /\ s[1] >= 0 /\ s[2] >= 0 /\ s[3] >= 0 /\ s[4] >= 0 /\ s[5] >= 0
      /\ s[1] <= Unit /\ s[2] <= Unit /\ s[3] <= Unit /\ s[4] <= Unit /\ s[5] <= Unit
  BY <1>1, ScoreType
<1> HIDE DEF S
<1>4. /\ S \div 100 \in Int /\ S \div 100 \in 0 .. Unit
      /\ 100 * (S \div 100) <= S /\ S <= 100 * (S \div 100) + 99
  <2>1. S \in Int /\ S >= 0 /\ S <= 100 * Unit
    BY <1>2, <1>3 DEF Unit
  <2> QED BY <2>1, DivHundred
<1>5. QualityDrift(s) = S \div 100
  <2>2. QualityDrift(s) = Clamp(S \div 100)
    BY Zenon DEF QualityDrift, Weighted, S
  <2> QED BY <1>4, <2>2, ClampFacts
<1> DEFINE d == S \div 100
<1>6. d \in Int
  BY <1>4
<1> HIDE DEF d
<1>7. s[1] <= d + 1 \/ s[2] <= d + 1 \/ s[3] <= d + 1 \/ s[4] <= d + 1 \/ s[5] <= d + 1
  BY <1>2, <1>3, <1>4, <1>6 DEF d
<1>8. s[1] >= d \/ s[2] >= d \/ s[3] >= d \/ s[4] >= d \/ s[5] >= d
  BY <1>2, <1>3, <1>4, <1>6 DEF d
<1>9. 1 \in 1 .. 5 /\ 2 \in 1 .. 5 /\ 3 \in 1 .. 5 /\ 4 \in 1 .. 5 /\ 5 \in 1 .. 5
  OBVIOUS
<1>10. (s[1] = 0 \/ s[1] >= 10) /\ (s[2] = 0 \/ s[2] >= 10) /\ (s[3] = 0 \/ s[3] >= 10) /\ (s[4] = 0 \/ s[4] >= 10) /\ (s[5] = 0 \/ s[5] >= 10)
  BY <1>9, ResolutionAssumption, Zenon
<1>11. d = 0 => s[1] = 0 /\ s[2] = 0 /\ s[3] = 0 /\ s[4] = 0 /\ s[5] = 0
  <2>1. d = 0 => S <= 99
    BY <1>4 DEF d
  <2>2. ASSUME S <= 99 PROVE s[1] = 0 /\ s[2] = 0 /\ s[3] = 0 /\ s[4] = 0 /\ s[5] = 0
    <3>1. s[1] \in Nat /\ s[2] \in Nat /\ s[3] \in Nat /\ s[4] \in Nat /\ s[5] \in Nat
      BY <1>3
    <3>2. s[1] * 25 + s[2] * 25 + s[3] * 20 + s[4] * 15 + s[5] * 15 <= 99
      BY <1>2, <2>2
    <3>3. s[1] = 0
      BY <1>10, <3>1, <3>2
    <3>4. s[2] = 0
      BY <1>10, <3>1, <3>2
    <3>5. s[3] = 0
      BY <1>10, <3>1, <3>2
    <3>6. s[4] = 0
      BY <1>10, <3>1, <3>2
    <3>7. s[5] = 0
      BY <1>10, <3>1, <3>2
    <3> QED BY <3>3, <3>4, <3>5, <3>6, <3>7
  <2> QED BY <2>1, <2>2, Zenon
<1>12. \A i \in 1 .. 5 : i = 1 \/ i = 2 \/ i = 3 \/ i = 4 \/ i = 5
  OBVIOUS
<1> QED BY <1>1, <1>4, <1>5, <1>7, <1>8, <1>9, <1>11, <1>12, Zenon DEF d

LEMMA OctadScore ==
    ASSUME NEW s \in [1 .. 7 -> PartScores]
    PROVE  /\ s \in [1 .. 7 -> 0 .. Unit] /\ QualityDriftOctad(s) \in 0 .. Unit
           /\ \E i \in 1 .. 7 : s[i] <= QualityDriftOctad(s) + 1
           /\ \E i \in 1 .. 7 : s[i] >= QualityDriftOctad(s)
           /\ QualityDriftOctad(s) = 0 => \A i \in 1 .. 7 : s[i] = 0
<1> DEFINE S == SumSeq([i \in DOMAIN OctadWeights |-> s[i] * OctadWeights[i]])
<1>1. s \in [1 .. 7 -> 0 .. Unit]
  BY ScoreAssumption, Zenon
<1>2. S = s[1] * 20 + s[2] * 20 + s[3] * 15 + s[4] * 10 + s[5] * 10 + s[6] * 15 + s[7] * 10
  BY <1>1, OctadSum
<1>3. /\ s[1] \in Int /\ s[2] \in Int /\ s[3] \in Int /\ s[4] \in Int /\ s[5] \in Int /\ s[6] \in Int /\ s[7] \in Int
      /\ s[1] >= 0 /\ s[2] >= 0 /\ s[3] >= 0 /\ s[4] >= 0 /\ s[5] >= 0 /\ s[6] >= 0 /\ s[7] >= 0
      /\ s[1] <= Unit /\ s[2] <= Unit /\ s[3] <= Unit /\ s[4] <= Unit /\ s[5] <= Unit /\ s[6] <= Unit /\ s[7] <= Unit
  BY <1>1, ScoreType
<1> HIDE DEF S
<1>4. /\ S \div 100 \in Int /\ S \div 100 \in 0 .. Unit
      /\ 100 * (S \div 100) <= S /\ S <= 100 * (S \div 100) + 99
  <2>1. S \in Int /\ S >= 0 /\ S <= 100 * Unit
    BY <1>2, <1>3 DEF Unit
  <2> QED BY <2>1, DivHundred
<1>5. QualityDriftOctad(s) = S \div 100
  <2>2. QualityDriftOctad(s) = Clamp(S \div 100)
    BY Zenon DEF QualityDriftOctad, Weighted, S
  <2> QED BY <1>4, <2>2, ClampFacts
<1> DEFINE d == S \div 100
<1>6. d \in Int
  BY <1>4
<1> HIDE DEF d
<1>7. s[1] <= d + 1 \/ s[2] <= d + 1 \/ s[3] <= d + 1 \/ s[4] <= d + 1 \/ s[5] <= d + 1 \/ s[6] <= d + 1 \/ s[7] <= d + 1
  BY <1>2, <1>3, <1>4, <1>6 DEF d
<1>8. s[1] >= d \/ s[2] >= d \/ s[3] >= d \/ s[4] >= d \/ s[5] >= d \/ s[6] >= d \/ s[7] >= d
  BY <1>2, <1>3, <1>4, <1>6 DEF d
<1>9. 1 \in 1 .. 7 /\ 2 \in 1 .. 7 /\ 3 \in 1 .. 7 /\ 4 \in 1 .. 7 /\ 5 \in 1 .. 7 /\ 6 \in 1 .. 7 /\ 7 \in 1 .. 7
  OBVIOUS
<1>10. (s[1] = 0 \/ s[1] >= 10) /\ (s[2] = 0 \/ s[2] >= 10) /\ (s[3] = 0 \/ s[3] >= 10) /\ (s[4] = 0 \/ s[4] >= 10) /\ (s[5] = 0 \/ s[5] >= 10) /\ (s[6] = 0 \/ s[6] >= 10) /\ (s[7] = 0 \/ s[7] >= 10)
  BY <1>9, ResolutionAssumption, Zenon
<1>11. d = 0 => s[1] = 0 /\ s[2] = 0 /\ s[3] = 0 /\ s[4] = 0 /\ s[5] = 0 /\ s[6] = 0 /\ s[7] = 0
  <2>1. d = 0 => S <= 99
    BY <1>4 DEF d
  <2>2. ASSUME S <= 99 PROVE s[1] = 0 /\ s[2] = 0 /\ s[3] = 0 /\ s[4] = 0 /\ s[5] = 0 /\ s[6] = 0 /\ s[7] = 0
    <3>1. s[1] \in Nat /\ s[2] \in Nat /\ s[3] \in Nat /\ s[4] \in Nat /\ s[5] \in Nat /\ s[6] \in Nat /\ s[7] \in Nat
      BY <1>3
    <3>2. s[1] * 20 + s[2] * 20 + s[3] * 15 + s[4] * 10 + s[5] * 10 + s[6] * 15 + s[7] * 10 <= 99
      BY <1>2, <2>2
    <3>3. s[1] = 0
      BY <1>10, <3>1, <3>2
    <3>4. s[2] = 0
      BY <1>10, <3>1, <3>2
    <3>5. s[3] = 0
      BY <1>10, <3>1, <3>2
    <3>6. s[4] = 0
      BY <1>10, <3>1, <3>2
    <3>7. s[5] = 0
      BY <1>10, <3>1, <3>2
    <3>8. s[6] = 0
      BY <1>10, <3>1, <3>2
    <3>9. s[7] = 0
      BY <1>10, <3>1, <3>2
    <3> QED BY <3>3, <3>4, <3>5, <3>6, <3>7, <3>8, <3>9
  <2> QED BY <2>1, <2>2, Zenon
<1>12. \A i \in 1 .. 7 : i = 1 \/ i = 2 \/ i = 3 \/ i = 4 \/ i = 5 \/ i = 6 \/ i = 7
  OBVIOUS
<1> QED BY <1>1, <1>4, <1>5, <1>7, <1>8, <1>9, <1>11, <1>12, Zenon DEF d

(* One evaluation leaves a meaningful sample.                              *)
LEMMA ScoresStep ==
    ASSUME CalcNext
    PROVE  ScoresMeaningful'
<1>1. ASSUME NEW s \in SeqsUpTo(Similarities, 3), Sampled("semantic_vector", s, SemanticVectorDrift(s))
      PROVE  ScoresMeaningful'
  <2>1. SemanticVectorDrift(s) \in 0 .. Unit /\ (SemanticVectorDrift(s) = 0 => \A i \in DOMAIN s : s[i] = Unit)
    BY SemanticVectorScore
  <2> HIDE DEF SemanticVectorDrift
  <2> QED BY <1>1, <2>1 DEF Sampled, ScoresMeaningful, ScoreInRange, ZeroMeansConsistent, QualityIsMean, PrimaryIsWorst
<1>2. ASSUME NEW e \in SeqsUpTo(Names, 3), NEW t \in SeqsUpTo(Names, 3),
             Sampled("graph_document", <<e, t>>, GraphDocumentDrift(e, t))
      PROVE  ScoresMeaningful'
  <2>1. /\ GraphDocumentDrift(e, t) \in 0 .. Unit
        /\ GraphDocumentDrift(e, t) = 0 => e = <<>> \/ Match(e, t)
    BY GraphDocumentScore
  <2> QED BY <1>2, <2>1 DEF Match, Sampled, ScoresMeaningful, ScoreInRange, ZeroMeansConsistent, QualityIsMean, PrimaryIsWorst
<1>3. ASSUME NEW n \in 1 .. MaxVersions, NEW ts \in [1 .. n -> Stamps], NEW hs \in [1 .. n -> Hashes],
             Sampled("temporal_consistency", <<ts, hs>>, TemporalConsistencyDrift(ts, hs))
      PROVE  ScoresMeaningful'
  <2>1. /\ TemporalConsistencyDrift(ts, hs) \in 0 .. Unit
        /\ TemporalConsistencyDrift(ts, hs) = 0 =>
             \/ Len(ts) < 2
             \/ /\ \A i \in 1 .. Len(ts) - 1 : ts[i] <= ts[i + 1]
                /\ \A i, j \in DOMAIN hs : hs[i] = hs[j] => i = j
                /\ ~LargeGap(ts)
    BY TemporalScore
  <2> QED BY <1>3, <2>1 DEF Sampled, ScoresMeaningful, ScoreInRange, ZeroMeansConsistent, QualityIsMean, PrimaryIsWorst
<1>4. ASSUME NEW e \in SeqsUpTo(Dims, MaxRank), NEW a \in SeqsUpTo(Dims, MaxRank),
             Sampled("tensor", <<e, a>>, TensorDrift(e, a))
      PROVE  ScoresMeaningful'
  <2>1. /\ \/ TensorDrift(e, a) \in 0 .. Unit
           \/ TensorDrift(e, a) = NaN /\ \E i \in (DOMAIN e) \cap (DOMAIN a) : e[i] = 0 /\ a[i] = 0
        /\ TensorDrift(e, a) = 0 => \A i \in (DOMAIN e) \cap (DOMAIN a) : e[i] = a[i]
    BY TensorScore
  <2> QED BY <1>4, <2>1 DEF Sampled, ScoresMeaningful, ScoreInRange, ZeroMeansConsistent, QualityIsMean, PrimaryIsWorst
<1>5. ASSUME NEW v \in BOOLEAN, NEW n \in {0, 1}, NEW g \in Gaps, NEW l \in Gaps \ {0},
             Sampled("provenance", <<v, n, g, l>>, ProvenanceDrift(v, n, g, l))
      PROVE  ScoresMeaningful'
  <2>1. ProvenanceDrift(v, n, g, l) \in 0 .. Unit /\ (ProvenanceDrift(v, n, g, l) = 0 => v /\ n > 0 /\ g <= l)
    BY ProvenanceScore
  <2> QED BY <1>5, <2>1 DEF Sampled, ScoresMeaningful, ScoreInRange, ZeroMeansConsistent, QualityIsMean, PrimaryIsWorst
<1>6. ASSUME NEW c \in BOOLEAN, NEW m \in BOOLEAN, NEW x \in BOOLEAN, NEW v \in BOOLEAN,
             Sampled("spatial", <<c, m, x, v>>, SpatialDrift(c, m, x, v))
      PROVE  ScoresMeaningful'
  <2>1. SpatialDrift(c, m, x, v) \in 0 .. Unit /\ (SpatialDrift(c, m, x, v) = 0 => c = m /\ (c => x))
    BY SpatialScore
  <2> QED BY <1>6, <2>1 DEF Sampled, ScoresMeaningful, ScoreInRange, ZeroMeansConsistent, QualityIsMean, PrimaryIsWorst
<1>7. ASSUME NEW r \in SUBSET Required, NEW p \in SUBSET Required, NEW n \in 0 .. Constraints, NEW v \in 0 .. n,
             Sampled("schema", <<r, p, v, n>>, SchemaDrift(r, p, v, n))
      PROVE  ScoresMeaningful'
  <2>1. SchemaDrift(r, p, v, n) \in 0 .. Unit /\ (SchemaDrift(r, p, v, n) = 0 => r \subseteq p /\ v = 0)
    BY SchemaScore
  <2> QED BY <1>7, <2>1 DEF Sampled, ScoresMeaningful, ScoreInRange, ZeroMeansConsistent, QualityIsMean, PrimaryIsWorst
<1>8. ASSUME NEW n \in Nat \ {0}, NEW s \in [1 .. n -> 0 .. Unit], NEW f \in {"quality", "octad"}, NEW d \in 0 .. Unit,
             \E i \in 1 .. n : s[i] <= d + 1, \E i \in 1 .. n : s[i] >= d,
             d = 0 => \A i \in 1 .. n : s[i] = 0, Sampled(f, s, d)
      PROVE  ScoresMeaningful'
  <2>1. sample'.of = f /\ sample'.in = s /\ sample'.score = d /\ DOMAIN s = 1 .. n
    BY <1>8 DEF Sampled
  <2>2. ScoreInRange'
    BY <2>1 DEF ScoreInRange
  <2>3. ZeroMeansConsistent'
    BY <1>8, <2>1 DEF ZeroMeansConsistent, Part
  <2>4. QualityIsMean'
    BY <1>8, <2>1, Zenon DEF QualityIsMean, Part
  <2>5. PrimaryIsWorst'
    BY <2>1, PrimaryFacts, Zenon DEF PrimaryIsWorst, Part
  <2> QED BY <2>2, <2>3, <2>4, <2>5 DEF ScoresMeaningful
<1>9. ASSUME NEW s \in [1 .. 5 -> PartScores], Sampled("quality", s, QualityDrift(s))
      PROVE  ScoresMeaningful'
  <2>1. 5 \in Nat \ {0} /\ "quality" \in {"quality", "octad"}
    OBVIOUS
  <2> QED BY <1>8, <1>9, <2>1, QualityScore, Zenon
<1>10. ASSUME NEW s \in [1 .. 7 -> PartScores], Sampled("octad", s, QualityDriftOctad(s))
      PROVE  ScoresMeaningful'
  <2>1. 7 \in Nat \ {0} /\ "octad" \in {"quality", "octad"}
    OBVIOUS
  <2> QED BY <1>8, <1>10, <2>1, OctadScore, Zenon
<1> QED BY <1>1, <1>2, <1>3, <1>4, <1>5, <1>6, <1>7, <1>9, <1>10, Zenon DEF CalcNext

(* Whatever similarities, names, histories, shapes, gaps, constraints and  *)
(* part scores it is asked about, the calculator answers with a score that *)
(* a threshold can be compared with (NaN for 0/0 in a shape apart), that   *)
(* is zero only where nothing it looks at disagrees (for shapes: the       *)
(* dimensions that both have) and, for the quality, is a mean of its parts *)
(* of which the primary type is a greatest.                                *)
THEOREM ScoresAreMeaningful == Spec => []ScoresMeaningful
<1>1. Init => ScoresMeaningful
  BY DEF Init, CalcInit, ScoresMeaningful, ScoreInRange, ZeroMeansConsistent, QualityIsMean, PrimaryIsWorst, Unit
<1>2. ScoresMeaningful /\ [Next]_vars => ScoresMeaningful'
  <2> SUFFICES ASSUME ScoresMeaningful, [Next]_vars PROVE ScoresMeaningful'
    OBVIOUS
  <2>1. CASE UNCHANGED sample
    BY <2>1 DEF ScoresMeaningful, ScoreInRange, ZeroMeansConsistent, QualityIsMean, PrimaryIsWorst, Part
  <2>2. UNCHANGED sample \/ CalcNext
    BY DEF Next, vars
  <2> QED BY <2>1, <2>2, ScoresStep
<1> QED BY <1>1, <1>2, PTL DEF Spec
=============================================================================
