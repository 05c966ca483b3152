--------------------------- MODULE ConflictResolver ---------------------------
(***************************************************************************)
(* Policy-based conflict resolution between modalities (conflict.rs).      *)
(* resolve, resolve_manual and dismiss decide under the lock of the active *)
(* list, drop it, and only then move the conflict to the history: another  *)
(* task may run between the decision, the removal and the archiving.       *)
(*                                                                         *)
(* Drift scores are tenths.  filed is a history variable: the conflicts in *)
(* the order in which they reached the history, with the task answered.    *)
(***************************************************************************)
EXTENDS Naturals, SequencesExt, FiniteSets

ConflictPolicies == {"last_writer_wins", "modality_priority", "manual_resolve",
                     "auto_merge", "custom"}
Automatic == {"last_writer_wins", "modality_priority", "auto_merge"}

CONSTANTS Resolvers,           \* tasks that resolve conflicts
          Disputes,            \* sequences of conflicting modalities
          DriftScores,         \* drift scores of conflicts
          Policies,            \* policies that callers ask for
          DefaultPolicy,
          PairPolicies,        \* per_modality_policies: <<pair, policy>>
          PriorityOrder,       \* the order of ModalityPriority
          RequireManualAbove,
          MaxHistory,          \* max_history_entries
          MaxConflicts         \* bound on the conflicts detected

ASSUME ResolverAssumption ==
    /\ DriftScores \subseteq 0 .. 10 /\ RequireManualAbove \in Nat
    /\ Policies \cup {DefaultPolicy} \subseteq ConflictPolicies
    /\ MaxHistory \in Nat /\ MaxConflicts \in Nat
    /\ \A d \in Disputes : d # <<>> /\ d \in Seq(Range(d))
    /\ PriorityOrder \in Seq(Range(PriorityOrder))

VARIABLES active,     \* active_conflicts
          archive,    \* history
          moving,     \* the conflict a task is moving to the history
          detected,   \* number of conflicts detected
          filed

conflictVars == <<active, archive, moving, detected, filed>>

NoMove == [at |-> "idle", conflict |-> 0, outcome |-> "none", policy |-> "none", winner |-> "none"]

ConflictInit ==
    /\ active = <<>> /\ archive = <<>>
    /\ moving = [t \in Resolvers |-> NoMove]
    /\ detected = 0
    /\ filed = <<>>

DetectConflict(mods, score) ==
    /\ detected < MaxConflicts
    /\ detected' = detected + 1
    /\ active' = Append(active, [id |-> detected + 1, modalities |-> mods,
                                 drift_score |-> score, status |-> "open"])
    /\ UNCHANGED <<archive, moving, filed>>
-----------------------------------------------------------------------------
(* select_policy: the first pair of the dispute, in its order, that has a  *)
(* policy of its own; the configuration knows a pair in either order.      *)
PairPolicy(a, b) == {p[2] : p \in {q \in PairPolicies : q[1] \in {<<a, b>>, <<b, a>>}}}

SelectPolicy(mods) ==
    LET pairs == {p \in (DOMAIN mods) \X (DOMAIN mods) :
                    p[1] < p[2] /\ PairPolicy(mods[p[1]], mods[p[2]]) # {}}
        First(p) == \A q \in pairs : p[1] < q[1] \/ (p[1] = q[1] /\ p[2] <= q[2])
    IN  IF pairs = {} THEN DefaultPolicy
        ELSE LET p == CHOOSE q \in pairs : First(q)
             IN  CHOOSE r \in PairPolicy(mods[p[1]], mods[p[2]]) : TRUE

(* apply_policy: the winner of a conflict, none for a merge.               *)
Rank(m) == {i \in DOMAIN PriorityOrder : PriorityOrder[i] = m}

Ranked(mods) == {m \in Range(mods) : Rank(m) # {}}

Winner(mods, policy) ==
    CASE policy = "last_writer_wins" -> mods[Len(mods)]
      [] policy = "modality_priority" ->
           IF Ranked(mods) = {} THEN mods[1]
           ELSE CHOOSE m \in Ranked(mods) :
                  \A n \in Ranked(mods) : \E i \in Rank(m) : \A j \in Rank(n) : i <= j
      [] OTHER -> "none"

Found(i, id) == i \in DOMAIN active /\ active[i].id = id

Undecided(i) == active[i].status \in {"open", "in_progress"}

(* The conflict is decided in the active list; t goes on to move it.       *)
Decide(t, i, outcome, policy, winner) ==
    /\ active' = [active EXCEPT ![i].status = outcome]
    /\ moving' = [moving EXCEPT ![t] =
                    [at |-> "remove", conflict |-> active[i], outcome |-> outcome,
                     policy |-> policy, winner |-> winner]]
    /\ UNCHANGED <<archive, detected, filed>>

(* resolve escalates: the score is too high, or the policy needs a human.  *)
Escalates(i, asked) ==
    LET policy == IF asked = "none" THEN SelectPolicy(active[i].modalities) ELSE asked
    IN  active[i].drift_score >= RequireManualAbove \/ policy \notin Automatic

Escalate(t, i, asked) ==
    /\ moving[t].at = "idle" /\ i \in DOMAIN active /\ Undecided(i)
    /\ Escalates(i, asked)
    /\ active' = [active EXCEPT ![i].status = "in_progress"]
    /\ UNCHANGED <<archive, moving, detected, filed>>

Resolve(t, i, asked) ==
    LET policy == IF asked = "none" THEN SelectPolicy(active[i].modalities) ELSE asked
    IN  /\ moving[t].at = "idle" /\ i \in DOMAIN active /\ Undecided(i)
        /\ ~Escalates(i, asked)
        /\ Decide(t, i, "resolved", policy, Winner(active[i].modalities, policy))

ResolveManual_AnyStatus(t, i, m) ==
    /\ moving[t].at = "idle" /\ i \in DOMAIN active
    /\ m \in Range(active[i].modalities)
    /\ Decide(t, i, "resolved", "manual_resolve", m)

ResolveManual(t, i, m) ==
    /\ moving[t].at = "idle" /\ i \in DOMAIN active /\ Undecided(i)
    /\ m \in Range(active[i].modalities)
    /\ Decide(t, i, "resolved", "manual_resolve", m)

Dismiss(t, i) ==
    /\ moving[t].at = "idle" /\ i \in DOMAIN active /\ Undecided(i)
    /\ Decide(t, i, "dismissed", "none", "none")

(* move_to_history, first block: removed by id, which is one conflict's.   *)
RemoveFromActive(t) ==
    /\ moving[t].at = "remove"
    /\ active' = RemoveFirstMatch(active, LAMBDA c : c.id = moving[t].conflict.id)
    /\ moving' = [moving EXCEPT ![t].at = "archive"]
    /\ UNCHANGED <<archive, detected, filed>>

(* Oldest entries are evicted.                                             *)
Kept(h) == IF Len(h) > MaxHistory THEN SubSeq(h, Len(h) - MaxHistory + 1, Len(h)) ELSE h

(* Second block: appended, the history trimmed; the call returns.          *)
AddToHistory(t) ==
    LET c == [id |-> moving[t].conflict.id, modalities |-> moving[t].conflict.modalities,
              drift_score |-> moving[t].conflict.drift_score, status |-> moving[t].outcome,
              policy |-> moving[t].policy, winner |-> moving[t].winner]
    IN  /\ moving[t].at = "archive"
        /\ archive' = Kept(Append(archive, c))
        /\ filed' = Append(filed, [id |-> c.id, by |-> t])
        /\ moving' = [moving EXCEPT ![t] = NoMove]
        /\ UNCHANGED <<active, detected>>

Move(t) == RemoveFromActive(t) \/ AddToHistory(t)

ConflictNext ==
    \/ \E d \in Disputes, s \in DriftScores : DetectConflict(d, s)
    \/ \E t \in Resolvers, i \in 1 .. MaxConflicts :
         \/ \E p \in Policies \cup {"none"} : Escalate(t, i, p) \/ Resolve(t, i, p)
         \/ \E d \in Disputes : \E m \in Range(d) : ResolveManual(t, i, m)
         \/ Dismiss(t, i)
    \/ \E t \in Resolvers : Move(t)
-----------------------------------------------------------------------------
(* Properties.                                                             *)

(* Of several tasks that resolve or dismiss one conflict exactly one is    *)
(* answered Ok: the others find it decided, although it stays in the       *)
(* active list until the first task comes back for it.                     *)
ResolvedOnce ==
    /\ \A i, j \in DOMAIN filed : filed[i].id = filed[j].id => i = j
    /\ \A t \in Resolvers : moving[t].at # "idle" =>
         \A i \in DOMAIN filed : filed[i].id # moving[t].conflict.id

Places(id) ==
    <<\E i \in DOMAIN active : active[i].id = id,
      \E t \in Resolvers : moving[t].at = "archive" /\ moving[t].conflict.id = id,
      \E i \in DOMAIN filed : filed[i].id = id>>

(* No conflict is lost or doubled on its way to the history: each one that *)
(* was detected is active, in a task's hands or filed, and in one of these *)
(* places only.                                                            *)
NoConflictLost ==
    \A id \in 1 .. detected : Cardinality({p \in 1 .. 3 : Places(id)[p]}) = 1

(* Only a human decides above require_manual_above, whatever policy the    *)
(* caller of resolve asks for and however often it asks.                   *)
ManualAboveThreshold ==
    \A c \in Range(archive) :
        (c.drift_score >= RequireManualAbove /\ c.status = "resolved") =>
            c.policy = "manual_resolve"

(* The winner is a party to the conflict, and under modality priority no   *)
(* other party stands before it in the configured order.                   *)
WinnerIsParty ==
    \A c \in Range(archive) : c.winner # "none" =>
        /\ c.winner \in Range(c.modalities)
        /\ c.policy = "modality_priority" =>
             \A m \in Range(c.modalities) : \A j \in Rank(m) : \E i \in Rank(c.winner) : i <= j

(* The history holds the conflicts that were filed last, in that order,    *)
(* and no fewer than max_history_entries while that many were filed.       *)
EvictsOldest ==
    /\ Len(archive) = IF Len(filed) > MaxHistory THEN MaxHistory ELSE Len(filed)
    /\ \A i \in DOMAIN archive :
         archive[i].id = filed[Len(filed) - Len(archive) + i].id

(* A decided conflict leaves the active list.                              *)
DecidedLeaves ==
    \A id \in 1 .. MaxConflicts :
        (\E i \in DOMAIN active : Found(i, id) /\ ~Undecided(i))
            ~> ~(\E i \in DOMAIN active : Found(i, id))
=============================================================================
