------------------------------ MODULE KRaftNode ------------------------------
(***************************************************************************)
(* The KRaft consensus cluster: every node is the GenServer of             *)
(* kraft_node.ex, its state the record node[n], its callbacks the actions. *)
(* A callback runs to the end before the next one starts, so one action is *)
(* one callback, its KRaftWAL calls included.                              *)
(*                                                                         *)
(* Every RPC runs in a Task of its own (Task.start), so requests overtake  *)
(* one another and so do the responses; a call that exits on its timeout   *)
(* or on a dead peer is a request or a response that never arrives.  The   *)
(* bag network holds the messages in flight; a send puts any sub-bag of    *)
(* its messages there, the rest being lost.                                *)
(*                                                                         *)
(* Timers are left out: an election timeout may fire at any follower or    *)
(* candidate, a heartbeat at any leader, at any time.                      *)
(*                                                                         *)
(* grants, elections and acked are history variables: the votes given, the *)
(* elections won and the replies {:ok, index} sent to clients.             *)
(***************************************************************************)
EXTENDS KRaftWAL, Bags, FiniteSets

CONSTANTS InitPeers,        \* the peers option of each node
          Commands,         \* the commands clients propose
          SnapshotInterval, \* @snapshot_interval
          MaxTerm,          \* bound on elections: the highest term
          MaxLog,           \* bound on the log's length
          MaxInFlight,      \* bound on the messages in flight
          MaxCrashes        \* bound on crashes

ASSUME NodeAssumption ==
    /\ InitPeers \in [Nodes -> SUBSET Nodes]
    /\ \A n \in Nodes : n \notin InitPeers[n]
    /\ SnapshotInterval \in Nat \ {0}
    /\ {MaxTerm, MaxLog, MaxInFlight, MaxCrashes} \subseteq Nat

VARIABLES node, network, grants, elections, acked, crashes

vars == <<node, network, grants, elections, acked, crashes>>
-----------------------------------------------------------------------------
(* init/1 with what recover_from_wal reads back from disk.                 *)
StartNode(n, disk) ==
    [role           |-> "follower",
     current_term   |-> disk.state.current_term,
     voted_for      |-> disk.state.voted_for,
     log            |-> RecoverLog(disk),
     commit_index   |-> disk.snapshot.index,
     last_applied   |-> disk.snapshot.index,
     next_index     |-> [p \in {} |-> 0],
     match_index    |-> [p \in {} |-> 0],
     leader_id      |-> Nil,
     votes_received |-> {},
     registry       |-> RecoverRegistry(disk),
     peers          |-> InitPeers[n],
     pending        |-> {},
     disk           |-> disk]

Init ==
    /\ node = [n \in Nodes |-> StartNode(n, EmptyDisk)]
    /\ network = EmptyBag
    /\ grants = {}
    /\ elections = {}
    /\ acked = {}
    /\ crashes = 0
-----------------------------------------------------------------------------
(* Helpers on one node's state.                                            *)
Quorum_Half(s) == (Cardinality(s.peers) + 1) \div 2

Quorum(s) == (Cardinality(s.peers) + 1) \div 2 + 1

TermAt(log, i) == IF i \in DOMAIN log THEN log[i].term ELSE 0

LastLogTerm(s) == TermAt(s.log, Len(s.log))

LogUpToDate(s, m) ==
    \/ m.last_log_term > LastLogTerm(s)
    \/ m.last_log_term = LastLogTerm(s) /\ m.last_log_index >= Len(s.log)

MapGet(f, k, default) == IF k \in DOMAIN f THEN f[k] ELSE default

MapPut(f, k, v) == [x \in DOMAIN f \cup {k} |-> IF x = k THEN v ELSE f[x]]

StepDown(s, term) ==
    [s EXCEPT !.role = "follower",
              !.current_term = term,
              !.voted_for = Nil,
              !.votes_received = {},
              !.disk = PersistState(@, term, Nil)]

AppendOwn(s, command) ==
    LET e == Entry(s.current_term, Len(s.log) + 1, command)
    IN  [s EXCEPT !.log = Append(@, e), !.disk = AppendWal(@, <<e>>)]

BecomeLeader(n, s) ==
    AppendOwn([s EXCEPT
                 !.role = "leader",
                 !.leader_id = n,
                 !.next_index = [p \in s.peers |-> Len(s.log) + 1],
                 !.match_index = [p \in s.peers |-> 0]],
              NoOp)

(* Sorting match_index and the own length in descending order and taking   *)
(* the element at quorum_idx finds the largest value that more than        *)
(* quorum_idx nodes have reached; a list that is too short gives           *)
(* commit_index.                                                           *)
QuorumMatch(n, s) ==
    LET match == MapPut(s.match_index, n, Len(s.log))
        quorum_idx == (Cardinality(s.peers) + 1) \div 2
        reached == {v \in Range(match) :
                      Cardinality({p \in DOMAIN match : match[p] >= v}) > quorum_idx}
    IN  IF reached = {} THEN s.commit_index ELSE Max(reached)

MaybeAdvanceCommit(n, s) ==
    LET new_commit == QuorumMatch(n, s)
    IN  IF /\ new_commit > s.commit_index
           /\ TermAt(s.log, new_commit) = s.current_term
        THEN [s EXCEPT !.commit_index = new_commit]
        ELSE s

MaybeTriggerSnapshot(s) ==
    IF /\ s.last_applied % SnapshotInterval = 0
       /\ s.last_applied \in DOMAIN s.log
    THEN [s EXCEPT !.disk = SaveSnapshot(@, s.registry, s.last_applied)]
    ELSE s

ApplyCommitted_SkipsFirst(n, s) ==
    IF s.last_applied >= s.commit_index
    THEN s
    ELSE LET entries == SubSeq(s.log, s.last_applied + 2,
                               Min({s.commit_index, Len(s.log)}))
         IN  [s EXCEPT !.last_applied = s.commit_index,
                       !.registry = ApplyEntries(@, entries)]

(* The branch that would update next_index and match_index compares the    *)
(* new peer list with itself and is never taken.                           *)
ApplyCommitted(n, s) ==
    IF s.last_applied >= s.commit_index
    THEN s
    ELSE LET entries == SubSeq(s.log, s.last_applied + 1,
                               Min({s.commit_index, Len(s.log)}))
         IN  MaybeTriggerSnapshot(
               [s EXCEPT !.last_applied = s.commit_index,
                         !.registry = ApplyEntries(@, entries),
                         !.peers = ApplyMembership(@, n, entries)])

(* reply_to_pending answers the requests whose index is committed.         *)
Fulfilled(s) == {r \in s.pending : r.index <= s.commit_index}

ReplyToPending(s) == [s EXCEPT !.pending = @ \ Fulfilled(s)]

(* The reply names an index; the history records what the node's log holds *)
(* there when the reply is sent, and the terms of the request and of the   *)
(* reply (the code keeps no term with a pending request).                  *)
Replies(n, s) ==
    {[node |-> n, index |-> r.index, command |-> r.command,
      term |-> r.term, now |-> s.current_term,
      logged |-> IF r.index \in DOMAIN s.log
                 THEN s.log[r.index].command ELSE NoOp] : r \in Fulfilled(s)}
-----------------------------------------------------------------------------
(* Messages.  A call to a peer that is no running node exits at once.      *)
Reachable(s) == s.peers \cap Nodes

VoteRequests(n, s) ==
    {[type |-> "request_vote", from |-> n, to |-> p, term |-> s.current_term,
      last_log_index |-> Len(s.log), last_log_term |-> LastLogTerm(s)] : p \in Reachable(s)}

AppendRequests(n, s) ==
    {LET next == MapGet(s.next_index, p, 1) IN
     [type |-> "append_entries", from |-> n, to |-> p, term |-> s.current_term,
      prev_log_index |-> next - 1, prev_log_term |-> TermAt(s.log, next - 1),
      entries |-> SubSeq(s.log, next, Len(s.log)),
      leader_commit |-> s.commit_index] : p \in Reachable(s)}

VoteResponse(m, term, granted) ==
    [type |-> "vote_response", from |-> m.to, to |-> m.from,
     term |-> term, vote_granted |-> granted]

AppendResponse(m, term, success, match) ==
    [type |-> "append_entries_response", from |-> m.to, to |-> m.from,
     term |-> term, success |-> success, match_index |-> match]

(* Any of the messages may be lost; at most MaxInFlight are in flight.     *)
Send(base, msgs) ==
    \E sent \in SUBSET msgs :
        /\ network' = base (+) SetToBag(sent)
        /\ BagCardinality(base) + Cardinality(sent) <= MaxInFlight

Received(m) == network (-) SetToBag({m})
-----------------------------------------------------------------------------
(* A node whose votes reach the quorum turns leader on the spot.           *)
AfterVote(n, s) ==
    IF Cardinality(s.votes_received) >= Quorum(s) THEN BecomeLeader(n, s) ELSE s

(* The election that the step from s to t won, if it won one.              *)
WonElection(n, s, t) ==
    IF s.role = "candidate" /\ t.role = "leader"
    THEN {[term |-> t.current_term, leader |-> n, votes |-> t.votes_received]}
    ELSE {}

Elect(n, s) ==
    LET t == AfterVote(n, s)
    IN  /\ Len(t.log) <= MaxLog
        /\ node' = [node EXCEPT ![n] = t]
        /\ elections' = elections \cup WonElection(n, s, t)

FirstAppends(n, s) ==
    LET t == AfterVote(n, s) IN IF t.role = "leader" THEN AppendRequests(n, t) ELSE {}

Candidacy_NotPersisted(n) ==
    [node[n] EXCEPT !.role = "candidate",
                    !.current_term = @ + 1,
                    !.voted_for = n,
                    !.votes_received = {n}]

(* handle_info(:election_timeout): start_election.                         *)
Candidacy(n) ==
    LET term == node[n].current_term + 1
    IN  [node[n] EXCEPT !.role = "candidate",
                        !.current_term = term,
                        !.voted_for = n,
                        !.votes_received = {n},
                        !.disk = PersistState(@, term, n)]

ElectionTimeout(n) ==
    LET s == Candidacy(n)
    IN  /\ node[n].role \in {"follower", "candidate"}
        /\ s.current_term <= MaxTerm
        /\ Elect(n, s)
        /\ grants' = grants \cup {[term |-> s.current_term, voter |-> n, candidate |-> n]}
        /\ Send(network, VoteRequests(n, s) \cup FirstAppends(n, s))
        /\ UNCHANGED <<acked, crashes>>

(* handle_vote_request: the three branches that can grant collapse into    *)
(* one, because step_down clears the vote.                                 *)
ObserveTerm(s, term) == IF term > s.current_term THEN StepDown(s, term) ELSE s

GrantsVote(s, m) ==
    /\ m.term >= s.current_term
    /\ ObserveTerm(s, m.term).voted_for \in {Nil, m.from}
    /\ LogUpToDate(s, m)

Voted(s, m) ==
    LET t == ObserveTerm(s, m.term)
    IN  IF GrantsVote(s, m)
        THEN [t EXCEPT !.voted_for = m.from,
                       !.disk = PersistState(@, t.current_term, m.from)]
        ELSE t

HandleRequestVote(m) ==
    LET s == node[m.to]
        t == Voted(s, m)
    IN  /\ m.type = "request_vote"
        /\ node' = [node EXCEPT ![m.to] = t]
        /\ grants' = grants \cup
              (IF GrantsVote(s, m)
               THEN {[term |-> m.term, voter |-> m.to, candidate |-> m.from]} ELSE {})
        /\ Send(Received(m), {VoteResponse(m, t.current_term, GrantsVote(s, m))})
        /\ UNCHANGED <<elections, acked, crashes>>

(* handle_vote_response: the term of a granted vote is not compared with   *)
(* the candidate's term unless it is higher.                               *)
HandleVoteResponse(m) ==
    LET s == node[m.to]
        counts == s.role = "candidate" /\ m.vote_granted
        c == IF counts THEN [s EXCEPT !.votes_received = @ \cup {m.from}] ELSE s
    IN  /\ m.type = "vote_response"
        /\ \/ /\ m.term > s.current_term
              /\ node' = [node EXCEPT ![m.to] = StepDown(s, m.term)]
              /\ network' = Received(m)
              /\ UNCHANGED elections
           \/ /\ m.term <= s.current_term /\ counts
              /\ Elect(m.to, c)
              /\ Send(Received(m), FirstAppends(m.to, c))
           \/ /\ m.term <= s.current_term /\ ~counts
              /\ network' = Received(m)
              /\ UNCHANGED <<node, elections>>
        /\ UNCHANGED <<grants, acked, crashes>>
-----------------------------------------------------------------------------
Propose_IndexOffByOne(n, c) ==
    LET s == node[n]
        t == [AppendOwn(s, c) EXCEPT
                !.pending = @ \cup {[index |-> Len(s.log), command |-> c,
                                     term |-> s.current_term]}]
        u == ApplyCommitted(n, MaybeAdvanceCommit(n, t))
    IN  /\ s.role = "leader"
        /\ Len(s.log) < MaxLog
        /\ node' = [node EXCEPT ![n] = ReplyToPending(u)]
        /\ acked' = acked \cup Replies(n, u)
        /\ Send(network, AppendRequests(n, t))
        /\ UNCHANGED <<grants, elections, crashes>>

(* handle_call({:propose, _}) at the leader; elsewhere it is refused and   *)
(* changes nothing.                                                        *)
Propose(n, c) ==
    LET s == node[n]
        t == [AppendOwn(s, c) EXCEPT
                !.pending = @ \cup {[index |-> Len(s.log) + 1, command |-> c,
                                     term |-> s.current_term]}]
        u == ApplyCommitted(n, MaybeAdvanceCommit(n, t))
    IN  /\ s.role = "leader"
        /\ Len(s.log) < MaxLog
        /\ node' = [node EXCEPT ![n] = ReplyToPending(u)]
        /\ acked' = acked \cup Replies(n, u)
        /\ Send(network, AppendRequests(n, t))
        /\ UNCHANGED <<grants, elections, crashes>>

(* handle_info(:heartbeat).                                                *)
Heartbeat(n) ==
    /\ node[n].role = "leader"
    /\ Send(network, AppendRequests(n, node[n]))
    /\ UNCHANGED <<node, grants, elections, acked, crashes>>

(* handle_append_entries_rpc.  The follower's log becomes what the request *)
(* says, the suffix after prev_log_index being dropped even when it agrees *)
(* with the request; commit_index is set, not raised.  The WAL is rewritten*)
(* only when the request carries entries.                                  *)
PrevOk(s, m) ==
    \/ m.prev_log_index = 0
    \/ /\ m.prev_log_index \in DOMAIN s.log
       /\ s.log[m.prev_log_index].term = m.prev_log_term

Rewrites(s, m) == m.entries # <<>> /\ m.prev_log_index < Len(s.log)

WalAfterAppend(s, m) ==
    AppendWal(IF Rewrites(s, m) THEN TruncateAfter(s.disk, m.prev_log_index) ELSE s.disk,
              m.entries)

Appended_NoTruncation(n, s, m) ==
    LET new_log == s.log \o m.entries
    IN  ApplyCommitted(n,
          [s EXCEPT !.log = new_log,
                    !.commit_index = Min({m.leader_commit, Len(new_log)}),
                    !.disk = WalAfterAppend(s, m)])

Appended(n, s, m) ==
    LET new_log == SubSeq(s.log, 1, m.prev_log_index) \o m.entries
    IN  ApplyCommitted(n,
          [s EXCEPT !.log = new_log,
                    !.commit_index = Min({m.leader_commit, Len(new_log)}),
                    !.disk = WalAfterAppend(s, m)])

HandleAppendEntries(m) ==
    LET s == node[m.to]
        f == [ObserveTerm(s, m.term) EXCEPT !.leader_id = m.from]
        t == Appended(m.to, f, m)
    IN  /\ m.type = "append_entries"
        /\ \/ /\ m.term < s.current_term
              /\ Send(Received(m), {AppendResponse(m, s.current_term, FALSE, 0)})
              /\ UNCHANGED node
           \/ /\ m.term >= s.current_term /\ PrevOk(f, m)
              /\ node' = [node EXCEPT ![m.to] = t]
              /\ Send(Received(m), {AppendResponse(m, t.current_term, TRUE, Len(t.log))})
           \/ /\ m.term >= s.current_term /\ ~PrevOk(f, m)
              /\ node' = [node EXCEPT ![m.to] = f]
              /\ Send(Received(m), {AppendResponse(m, f.current_term, FALSE, 0)})
        /\ UNCHANGED <<grants, elections, acked, crashes>>

(* handle_ae_response.                                                     *)
Matched(s, m) ==
    [s EXCEPT !.next_index = MapPut(@, m.from, m.match_index + 1),
              !.match_index = MapPut(@, m.from, m.match_index)]

BackedOff(s, m) ==
    [s EXCEPT !.next_index =
        MapPut(@, m.from, Max({MapGet(@, m.from, 1) - 1, 1}))]

HandleAppendResponse(m) ==
    LET s == node[m.to]
        u == ApplyCommitted(m.to, MaybeAdvanceCommit(m.to, Matched(s, m)))
    IN  /\ m.type = "append_entries_response"
        /\ \/ /\ m.term > s.current_term
              /\ node' = [node EXCEPT ![m.to] = StepDown(s, m.term)]
              /\ UNCHANGED acked
           \/ /\ m.term <= s.current_term /\ s.role = "leader" /\ m.success
              /\ node' = [node EXCEPT ![m.to] = ReplyToPending(u)]
              /\ acked' = acked \cup Replies(m.to, u)
           \/ /\ m.term <= s.current_term /\ s.role = "leader" /\ ~m.success
              /\ node' = [node EXCEPT ![m.to] = BackedOff(s, m)]
              /\ UNCHANGED acked
           \/ /\ m.term <= s.current_term /\ s.role # "leader"
              /\ UNCHANGED <<node, acked>>
        /\ network' = Received(m)
        /\ UNCHANGED <<grants, elections, crashes>>
-----------------------------------------------------------------------------
(* The process dies and its supervisor restarts it from the WAL.           *)
CrashRestart(n) ==
    /\ crashes < MaxCrashes
    /\ crashes' = crashes + 1
    /\ node' = [node EXCEPT ![n] = StartNode(n, node[n].disk)]
    /\ UNCHANGED <<network, grants, elections, acked>>

(* The process dies inside handle_vote_request: step_down has stored the   *)
(* new term, the vote is not stored yet and nobody hears of it.            *)
CrashInVote(m) ==
    LET s == node[m.to]
    IN  /\ crashes < MaxCrashes
        /\ m.type = "request_vote" /\ m.term > s.current_term
        /\ node' = [node EXCEPT ![m.to] = StartNode(m.to, StepDown(s, m.term).disk)]
        /\ network' = Received(m)
        /\ crashes' = crashes + 1
        /\ UNCHANGED <<grants, elections, acked>>

(* The process dies inside handle_append_entries_rpc, while truncate_after *)
(* rewrites wal.jsonl in place: the file is empty, or it is rewritten and  *)
(* the new entries are not appended yet.  No response is sent.             *)
CrashInAppend(m) ==
    LET f == ObserveTerm(node[m.to], m.term)
        kept == TruncateAfter(f.disk, m.prev_log_index)
    IN  /\ WalEnabled
        /\ crashes < MaxCrashes
        /\ m.type = "append_entries"
        /\ m.term >= node[m.to].current_term /\ PrevOk(f, m) /\ Rewrites(f, m)
        /\ \E disk \in {kept, [kept EXCEPT !.wal = <<>>]} :
              node' = [node EXCEPT ![m.to] = StartNode(m.to, disk)]
        /\ network' = Received(m)
        /\ crashes' = crashes + 1
        /\ UNCHANGED <<grants, elections, acked>>

Next ==
    \/ \E n \in Nodes : \/ ElectionTimeout(n)
                        \/ Heartbeat(n)
                        \/ CrashRestart(n)
                        \/ \E c \in Commands : Propose(n, c)
    \/ \E m \in BagToSet(network) : \/ HandleRequestVote(m)
                                    \/ HandleVoteResponse(m)
                                    \/ HandleAppendEntries(m)
                                    \/ HandleAppendResponse(m)
                                    \/ CrashInVote(m)
                                    \/ CrashInAppend(m)

Spec == Init /\ [][Next]_vars
-----------------------------------------------------------------------------
(* Properties.                                                             *)

Terms == 0 .. MaxTerm
Voters == Nodes \cup {Nil}

VoteState == [current_term : Terms, voted_for : Voters]

(* Type correctness of what a node keeps: terms and votes within their     *)
(* ranges, in memory and in state.json, peer lists and the leader's maps    *)
(* over nodes, next_index never below 1.                                     *)
TypeOK ==
    /\ \A n \in Nodes :
         LET s == node[n] IN
         /\ s.role \in {"follower", "candidate", "leader"}
         /\ [current_term |-> s.current_term, voted_for |-> s.voted_for] \in VoteState
         /\ s.disk.state \in VoteState
         /\ s.commit_index \in Nat /\ s.last_applied \in Nat
         /\ s.votes_received \subseteq Nodes /\ s.peers \subseteq Nodes \ {n}
         /\ DOMAIN s.match_index \subseteq Nodes
         /\ DOMAIN s.next_index \subseteq Nodes
         /\ \A p \in DOMAIN s.next_index : s.next_index[p] \in Nat \ {0}
         /\ s.leader_id \in Voters
    /\ BagCardinality(network) <= MaxInFlight
    /\ grants \subseteq [term : Terms, voter : Nodes, candidate : Nodes]
    /\ crashes \in 0 .. MaxCrashes

(* No node votes for two candidates in one term, whatever crashes and      *)
(* restarts lie between the two requests: the vote is in state.json before *)
(* the response leaves (persist_state in handle_vote_request and           *)
(* start_election).                                                        *)
VoteOnce ==
    \A g, h \in grants :
        g.term = h.term /\ g.voter = h.voter => g.candidate = h.candidate

(* An election is backed when every vote it counted was given to the       *)
(* winner in the winner's term.                                            *)
Backed(e) ==
    \A v \in e.votes :
        [term |-> e.term, voter |-> v, candidate |-> e.leader] \in grants

(* Two backed elections of one term have the same winner: what             *)
(* handle_vote_response and the quorum arithmetic guarantee.               *)
BackedElectionSafety ==
    \A e, f \in elections :
        e.term = f.term /\ Backed(e) /\ Backed(f) => e.leader = f.leader

(* No two nodes win the election of one term.                              *)
ElectionSafety ==
    \A e, f \in elections : e.term = f.term => e.leader = f.leader

(* As long as no election counted a vote of an older term, two logs that   *)
(* hold an entry of the same term at the same place agree on everything up *)
(* to it, in whatever order the AppendEntries requests arrive              *)
(* (handle_append_entries_rpc).                                            *)
LogMatching ==
    (\A e \in elections : Backed(e)) =>
    \A m, n \in Nodes :
        \A i \in DOMAIN node[m].log \cap DOMAIN node[n].log :
            node[m].log[i].term = node[n].log[i].term =>
                SubSeq(node[m].log, 1, i) = SubSeq(node[n].log, 1, i)

(* Two nodes that applied equally many entries hold the same registry,      *)
(* although commit_index falls with a late request while last_applied does *)
(* not (handle_append_entries_rpc): nothing is applied twice or skipped.   *)
(* Stated of a cluster of at most two nodes, where a majority is           *)
(* everybody, without crashes (a restart loses membership commands) and    *)
(* as long as no election counted a vote of an older term.                 *)
RegistryAgreement ==
    (/\ Cardinality(Nodes) <= 2
     /\ crashes = 0
     /\ \A e \in elections : Backed(e)) =>
    \A m, n \in Nodes :
        node[m].last_applied = node[n].last_applied =>
            node[m].registry = node[n].registry

(* The same of a cluster of any size.                                      *)
ClusterAgreement ==
    (\A e \in elections : Backed(e)) =>
    \A m, n \in Nodes :
        node[m].last_applied = node[n].last_applied =>
            node[m].registry = node[n].registry

(* As long as no election counted a vote of an older term, the leader that *)
(* took a command tells its client {:ok, index} only for an index where    *)
(* its log holds that very command: nobody rewrites the log of a leader    *)
(* while it leads, so the index that propose computed still names the      *)
(* command when reply_to_pending sends it.                                 *)
AckNamesOwnCommand ==
    (\A e \in elections : Backed(e)) =>
        \A a \in acked : a.term = a.now => a.command = a.logged

(* The same of every reply, also of one sent by a node that lost its       *)
(* leadership after it took the command and leads again.                   *)
AckAlwaysOwnCommand ==
    (\A e \in elections : Backed(e)) => \A a \in acked : a.command = a.logged

(* An entry that a leader of the current term counts as committed is held  *)
(* by a majority of the cluster.                                           *)
CommittedOnMajority ==
    \A n \in Nodes :
        LET s == node[n] IN
        (s.role = "leader" /\ s.commit_index \in DOMAIN s.log) =>
            2 * Cardinality({p \in s.peers \cup {n} :
                               /\ s.commit_index \in DOMAIN node[p].log
                               /\ node[p].log[s.commit_index] = s.log[s.commit_index]})
              > Cardinality(s.peers) + 1

(* No node has restarted from a snapshot.  Places in the log that such a   *)
(* restart recovers are no longer log indices (see AckedRegistrationKept). *)
Intact == crashes = 0 \/ \A n \in Nodes : node[n].disk.snapshot.index = 0

(* What is left of a command after a restart: the WAL has no encoding for  *)
(* the two membership commands and gives back a no-op.                     *)
Survivor(c) == IF c.op \in {"add_server", "remove_server"} THEN NoOp ELSE c

(* What was acknowledged stays in the log, at the index that was given,    *)
(* across crashes and restarts of the node; a membership command is a      *)
(* no-op there after a crash.                                              *)
AckedSurvives ==
    Intact =>
    \A a \in acked :
        /\ a.index \in DOMAIN node[a.node].log
        /\ \/ node[a.node].log[a.index].command = a.command
           \/ crashes > 0 /\ node[a.node].log[a.index].command = Survivor(a.command)

(* The same of every command: none turns into another one.                 *)
CommandsSurvive ==
    Intact =>
    \A a \in acked :
        /\ a.index \in DOMAIN node[a.node].log
        /\ node[a.node].log[a.index].command = a.command

(* The registry is what the applied part of the log makes of the initial   *)
(* one, however apply_committed grouped the entries and through restarts.  *)
RegistryIsReplay ==
    Intact =>
    \A n \in Nodes :
        node[n].registry =
            ApplyEntries(InitialRegistry,
                         SubSeq(node[n].log, 1, node[n].last_applied))

(* An acknowledged registration is in the registry of a node that has      *)
(* applied the log that far (no command undoes a registration when only    *)
(* register_store is proposed): apply_committed skips nothing.             *)
AckedRegistrationKept ==
    \A a \in acked :
        a.index <= node[a.node].last_applied =>
            node[a.node].registry.stores[a.command.id] # Absent

(* Restarting a node now would give it back what the log in memory holds    *)
(* after the snapshot, membership commands excepted; and once it has again *)
(* applied as much as it has now, the stores and mappings it has now, with *)
(* a snapshot on disk or without.                                          *)
RecoversOwnLog ==
    Intact =>
    \A n \in Nodes :
        LET s == node[n]
            index == s.disk.snapshot.index
            rest == SubSeq(s.log, index + 1, Len(s.log))
            recovered == RecoverLog(s.disk)
            again == ApplyEntries(RecoverRegistry(s.disk),
                                  SubSeq(recovered, 1, s.last_applied - index))
        IN  /\ recovered = [i \in DOMAIN rest |-> [rest[i] EXCEPT !.command = Survivor(@)]]
            /\ again.stores = s.registry.stores
            /\ again.mappings = s.registry.mappings
=============================================================================
