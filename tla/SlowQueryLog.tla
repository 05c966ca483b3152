----------------------------- MODULE SlowQueryLog -----------------------------
(***************************************************************************)
(* The slow query log (slow_query.rs): a ring buffer and a configuration,  *)
(* each behind its own lock.  record decides, and copies max_entries,      *)
(* under the configuration's lock, lets it go, and appends and trims under *)
(* the buffer's.  logged, since the last clear, and limits are histories.  *)
(***************************************************************************)
EXTENDS Integers, Sequences, FiniteSets

CONSTANTS Loggers,
          Executions,      \* what is recorded: [ms, estimated, times], times by modality
          LogConfigs,      \* [threshold, max, enabled, multi]
          FirstConfig,     \* the one the log is made with
          MaxLogged        \* bound on the records started

ASSUME LogAssumption ==
    /\ MaxLogged \in Nat /\ FirstConfig \in LogConfigs /\ \A c \in LogConfigs : c.max \in Nat
    /\ \A x \in Executions : x.ms \in Nat /\ x.times \in Seq(Nat)

VARIABLES logConfig, entries,
          logging,         \* each caller's entry on its way: none or [entry, max]
          started, logged, limits

logVars == <<logConfig, entries, logging, started, logged, limits>>

Quiet == [max |-> 0, entry |-> [id |-> 0]]

LogInit ==
    /\ logConfig = FirstConfig
    /\ entries = <<>> /\ logging = [t \in Loggers |-> Quiet]
    /\ started = 0 /\ logged = <<>> /\ limits = {logConfig.max}

IsSlow(x) ==
    /\ logConfig.enabled
    /\ \/ x.ms >= logConfig.threshold
       \/ logConfig.multi > 0 /\ Len(x.times) >= logConfig.multi

(* The last of the steps with the largest time, or none (0).               *)
Bottleneck(times) ==
    IF times = <<>> THEN 0
    ELSE CHOOSE i \in DOMAIN times : \A j \in DOMAIN times : times[j] < times[i] \/ (times[j] = times[i] /\ j <= i)

(* record: the decision, and the entry with its bottleneck.                *)
LogDecides(t, x) ==
    /\ logging[t] = Quiet /\ started < MaxLogged /\ started' = started + 1
    /\ logging' = IF IsSlow(x)
                  THEN [logging EXCEPT ![t] =
                          [max |-> logConfig.max,
                           entry |-> [id |-> started + 1, ms |-> x.ms, times |-> x.times,
                                      worst |-> Bottleneck(x.times)]]]
                  ELSE logging
    /\ UNCHANGED <<logConfig, entries, logged, limits>>

Trimmed(s, n) == SubSeq(s, (IF Len(s) > n THEN Len(s) - n ELSE 0) + 1, Len(s))

(* record: push_back, and pop_front down to the copied max_entries.        *)
LogAppends(t) ==
    /\ logging[t] # Quiet
    /\ entries' = Trimmed(Append(entries, logging[t].entry), logging[t].max)
    /\ logged' = Append(logged, logging[t].entry)
    /\ logging' = [logging EXCEPT ![t] = Quiet]
    /\ UNCHANGED <<logConfig, started, limits>>

LogClears ==
    /\ entries' = <<>> /\ logged' = <<>>
    /\ UNCHANGED <<logConfig, logging, started, limits>>

SetLogConfig(c) ==
    /\ logConfig' = c /\ limits' = limits \cup {c.max}
    /\ UNCHANGED <<entries, logging, started, logged>>

LogNext ==
    \/ \E t \in Loggers : (\E x \in Executions : LogDecides(t, x)) \/ LogAppends(t)
    \/ LogClears
    \/ \E c \in LogConfigs : SetLogConfig(c)

Total(s) == LET Add[i \in 0 .. Len(s)] == IF i = 0 THEN 0 ELSE Add[i - 1] + s[i].ms IN Add[Len(s)]

(* summary of a non-empty log.                                             *)
Summary(s) ==
    [total |-> Len(s), avg |-> Total(s) \div Len(s),
     max |-> CHOOSE x \in {s[i].ms : i \in DOMAIN s} : \A i \in DOMAIN s : s[i].ms <= x,
     min |-> CHOOSE x \in {s[i].ms : i \in DOMAIN s} : \A i \in DOMAIN s : x <= s[i].ms]
-----------------------------------------------------------------------------
(* Properties.                                                             *)

(* The log is an unbroken run of the newest records since it was last      *)
(* cleared, in the order in which they were appended, and never longer     *)
(* than the largest max_entries ever configured, although a record trims   *)
(* with a limit that may have changed since it was read.                   *)
LogIsNewestRun ==
    /\ \E n \in 0 .. Len(logged) : entries = SubSeq(logged, n + 1, Len(logged))
    /\ \E m \in limits : Len(entries) <= m

(* The summary's extremes are taken on by entries, its average lies        *)
(* between them, and an entry's bottleneck is a step that took longest.    *)
SummaryCoherent ==
    entries # <<>> =>
        /\ LET s == Summary(entries)
           IN  /\ {s.min, s.max} \subseteq {entries[i].ms : i \in DOMAIN entries}
               /\ s.min <= s.avg /\ s.avg <= s.max
        /\ \A i \in DOMAIN entries : entries[i].times # <<>> =>
             \A k \in DOMAIN entries[i].times : entries[i].times[k] <= entries[i].times[entries[i].worst]
=============================================================================
