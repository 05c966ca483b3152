--------------------------- MODULE KRaftNode_proofs ---------------------------
(***************************************************************************)
(* Proofs about the KRaft cluster, for any number of nodes.  Each part     *)
(* states an inductive invariant and ends in a theorem.                    *)
(*                                                                         *)
(*   Votes.     A node that keeps a WAL votes once in a term (VoteInv):    *)
(*              term and vote in memory are the ones in state.json, and    *)
(*              every vote ever given is of an older term or is the vote   *)
(*              that the node still remembers.                             *)
(*   Elections. The winners counted majorities (ElectInv), which meet.     *)
(*   Logs.      Place and term of an entry determine it and the term of    *)
(*              the entry before it (LogInv), so two logs that meet in one *)
(*              place agree below it.                                      *)
(*   Peers.     A cluster that starts with full peer lists keeps them      *)
(*              (PeerInv), through every recovery of a log.                *)
(*   Acks.      What a leader answers names the entry that it appended for *)
(*              the request (AckInv).                                      *)
(*   Recovery.  A node on its own has on disk what it has in memory, but   *)
(*              for membership commands, and its registry is the replay of *)
(*              its log, until it restarts from a snapshot (SoloInv).      *)
(***************************************************************************)
EXTENDS KRaftNode, FiniteSetTheorems, SequenceTheorems, TLAPS

Fields == {"role", "current_term", "voted_for", "log", "commit_index",
           "last_applied", "next_index", "match_index", "leader_id",
           "votes_received", "registry", "peers", "pending", "disk"}

Files == {"state", "wal", "snapshot"}

Shape(s) == DOMAIN s = Fields /\ DOMAIN s.disk = Files

(* The step from s to t leaves term and vote alone, in memory and on disk, *)
(* and the votes the node has collected.                                   *)
Keeps(s, t) ==
    /\ Shape(t)
    /\ t.current_term = s.current_term
    /\ t.voted_for = s.voted_for
    /\ t.votes_received = s.votes_received
    /\ t.disk.state = s.disk.state

(* Memory and state.json agree, and only nodes vote.                       *)
Stored(s) ==
    /\ Shape(s)
    /\ s.current_term \in Nat
    /\ s.votes_received \subseteq Nodes
    /\ s.disk.state = [current_term |-> s.current_term, voted_for |-> s.voted_for]
-----------------------------------------------------------------------------
(* Operations on the files other than persist_state leave state.json alone.*)
LEMMA WalKeepsState ==
    ASSUME NEW d, DOMAIN d = Files, NEW w
    PROVE  LET e == [d EXCEPT !.wal = w] IN DOMAIN e = Files /\ e.state = d.state
  BY DEF Files

(* append_entry and append_entries.                                        *)
LEMMA AppendWalKeeps ==
    ASSUME NEW d, DOMAIN d = Files, NEW es
    PROVE  DOMAIN AppendWal(d, es) = Files /\ AppendWal(d, es).state = d.state
  BY WalKeepsState DEF AppendWal

(* truncate_after.                                                         *)
LEMMA TruncateAfterKeeps ==
    ASSUME NEW d, DOMAIN d = Files, NEW keep
    PROVE  DOMAIN TruncateAfter(d, keep) = Files /\ TruncateAfter(d, keep).state = d.state
  BY WalKeepsState DEF TruncateAfter

(* save_snapshot, with its truncate_wal.                                   *)
LEMMA SaveSnapshotKeeps ==
    ASSUME NEW d, DOMAIN d = Files, NEW reg, NEW i
    PROVE  DOMAIN SaveSnapshot(d, reg, i) = Files /\ SaveSnapshot(d, reg, i).state = d.state
<1>1. \A x, y : LET e == [d EXCEPT !.snapshot = x, !.wal = y]
                IN  DOMAIN e = Files /\ e.state = d.state
  BY DEF Files
<1> QED BY <1>1 DEF SaveSnapshot

(* Keeping term and vote composes ...                                      *)
LEMMA KeepsTrans ==
    ASSUME NEW s, NEW t, NEW u, Keeps(s, t), Keeps(t, u)
    PROVE  Keeps(s, u)
  BY DEF Keeps

(* ... and keeps memory and state.json in agreement.                       *)
LEMMA KeepsStored ==
    ASSUME NEW s, NEW t, Stored(s), Keeps(s, t)
    PROVE  Stored(t)
  BY DEF Keeps, Stored
-----------------------------------------------------------------------------
(* The helpers that keep term and vote.                                    *)
LEMMA AppendOwnKeeps ==
    ASSUME NEW s, Shape(s), NEW c
    PROVE  Keeps(s, AppendOwn(s, c))
<1> DEFINE e == Entry(s.current_term, Len(s.log) + 1, c)
           l == Append(s.log, e)
           d == AppendWal(s.disk, <<e>>)
<1>1. AppendOwn(s, c) = [s EXCEPT !.log = l, !.disk = d]
  BY DEF AppendOwn
<1>2. DOMAIN d = Files /\ d.state = s.disk.state
  BY AppendWalKeeps DEF Shape
<1> HIDE DEF l, d
<1> QED BY <1>1, <1>2 DEF Keeps, Shape, Fields

(* Turning leader.                                                         *)
LEMMA AfterVoteKeeps ==
    ASSUME NEW n, NEW s, Shape(s)
    PROVE  Keeps(s, AfterVote(n, s))
<1>1. Keeps(s, s)
  BY DEF Keeps
<1>2. Keeps(s, BecomeLeader(n, s))
  <2> DEFINE x == [p \in s.peers |-> Len(s.log) + 1]
             y == [p \in s.peers |-> 0]
             t == [s EXCEPT !.role = "leader", !.leader_id = n,
                            !.next_index = x, !.match_index = y]
  <2>1. BecomeLeader(n, s) = AppendOwn(t, NoOp)
    BY DEF BecomeLeader
  <2> HIDE DEF x, y
  <2>2. Keeps(s, t)
    BY DEF Keeps, Shape, Fields
  <2> HIDE DEF t
  <2>3. Keeps(t, AppendOwn(t, NoOp))
    BY <2>2, AppendOwnKeeps DEF Keeps
  <2> QED BY <2>1, <2>2, <2>3, KeepsTrans
<1> QED BY <1>1, <1>2 DEF AfterVote

(* apply_committed, with or without a snapshot.                            *)
LEMMA ApplyCommittedKeeps ==
    ASSUME NEW n, NEW s, Shape(s)
    PROVE  Keeps(s, ApplyCommitted(n, s))
<1>1. Keeps(s, s)
  BY DEF Keeps
<1>2. ASSUME NEW a, NEW r, NEW ps
      PROVE  LET t == [s EXCEPT !.last_applied = a, !.registry = r, !.peers = ps]
             IN  Keeps(s, MaybeTriggerSnapshot(t))
  <2> DEFINE t == [s EXCEPT !.last_applied = a, !.registry = r, !.peers = ps]
             d == SaveSnapshot(t.disk, t.registry, t.last_applied)
  <2>1. Keeps(s, t)
    BY DEF Keeps, Shape, Fields
  <2> HIDE DEF t
  <2>2. DOMAIN d = Files /\ d.state = t.disk.state
    BY <2>1, SaveSnapshotKeeps DEF Keeps, Shape
  <2>3. \/ MaybeTriggerSnapshot(t) = t
        \/ MaybeTriggerSnapshot(t) = [t EXCEPT !.disk = d]
    BY DEF MaybeTriggerSnapshot
  <2> HIDE DEF d
  <2>4. Keeps(s, [t EXCEPT !.disk = d])
    BY <2>1, <2>2 DEF Keeps, Shape, Fields
  <2> QED BY <2>1, <2>3, <2>4 DEF t
<1> QED BY <1>1, <1>2 DEF ApplyCommitted

(* maybe_advance_commit, apply_committed and reply_to_pending in a row.    *)
LEMMA AdvanceKeeps ==
    ASSUME NEW n, NEW s, Shape(s)
    PROVE  LET u == ApplyCommitted(n, MaybeAdvanceCommit(n, s))
           IN  Keeps(s, u) /\ Keeps(s, ReplyToPending(u))
<1> DEFINE t == MaybeAdvanceCommit(n, s)
           u == ApplyCommitted(n, t)
<1>1. Keeps(s, t)
  BY DEF MaybeAdvanceCommit, Keeps, Shape, Fields
<1> HIDE DEF t
<1>2. Keeps(s, u)
  BY <1>1, ApplyCommittedKeeps, KeepsTrans DEF Keeps
<1> HIDE DEF u
<1>3. Keeps(u, ReplyToPending(u))
  <2> DEFINE r == u.pending \ Fulfilled(u)
  <2>1. ReplyToPending(u) = [u EXCEPT !.pending = r]
    BY DEF ReplyToPending
  <2> HIDE DEF r
  <2> QED BY <1>2, <2>1 DEF Keeps, Shape, Fields
<1> QED BY <1>2, <1>3, KeepsTrans DEF t, u

(* The successful branch of handle_append_entries_rpc.                     *)
LEMMA AppendedKeeps ==
    ASSUME NEW n, NEW s, Shape(s), NEW m
    PROVE  Keeps(s, Appended(n, s, m))
<1> DEFINE l == SubSeq(s.log, 1, m.prev_log_index) \o m.entries
           c == Min({m.leader_commit, Len(l)})
           d == WalAfterAppend(s, m)
           t == [s EXCEPT !.log = l, !.commit_index = c, !.disk = d]
<1>1. Appended(n, s, m) = ApplyCommitted(n, t)
  BY DEF Appended
<1>2. DOMAIN d = Files /\ d.state = s.disk.state
  BY AppendWalKeeps, TruncateAfterKeeps DEF WalAfterAppend, Shape
<1> HIDE DEF l, c, d
<1>3. Keeps(s, t)
  BY <1>2 DEF Keeps, Shape, Fields
<1> HIDE DEF t
<1> QED BY <1>1, <1>3, ApplyCommittedKeeps, KeepsTrans DEF Keeps
-----------------------------------------------------------------------------
(* The helpers that change term or vote store what they set.               *)
LEMMA StepDownStored ==
    ASSUME WalEnabled, NEW s, Stored(s), NEW term \in Nat
    PROVE  LET t == StepDown(s, term)
           IN  Stored(t) /\ t.current_term = term /\ t.voted_for = Nil
<1> DEFINE v == [current_term |-> term, voted_for |-> Nil]
           d == [s.disk EXCEPT !.state = v]
<1>1. StepDown(s, term) = [s EXCEPT !.role = "follower", !.current_term = term,
                                    !.voted_for = Nil, !.votes_received = {},
                                    !.disk = d]
  BY DEF StepDown, PersistState
<1> HIDE DEF v
<1>2. DOMAIN d = Files /\ d.state = v
  BY DEF Stored, Shape, Files
<1> HIDE DEF d
<1> QED BY <1>1, <1>2 DEF Stored, Shape, Fields, v

(* A restart takes term and vote from state.json.                          *)
LEMMA StartNodeStored ==
    ASSUME NEW n, NEW d, DOMAIN d = Files, NEW term \in Nat, NEW voted,
           d.state = [current_term |-> term, voted_for |-> voted]
    PROVE  LET t == StartNode(n, d)
           IN  Stored(t) /\ t.current_term = term /\ t.voted_for = voted
<1>1. d.state.current_term = term /\ d.state.voted_for = voted
  OBVIOUS
<1> DEFINE l == RecoverLog(d)
           i == d.snapshot.index
           r == RecoverRegistry(d)
           x == [p \in {} |-> 0]
           ps == InitPeers[n]
<1>2. StartNode(n, d) =
        [role |-> "follower", current_term |-> term, voted_for |-> voted, log |-> l,
         commit_index |-> i, last_applied |-> i, next_index |-> x, match_index |-> x,
         leader_id |-> Nil, votes_received |-> {}, registry |-> r, peers |-> ps,
         pending |-> {}, disk |-> d]
  BY <1>1 DEF StartNode
<1> HIDE DEF l, i, r, x, ps
<1> QED BY <1>2 DEF Stored, Shape, Fields
-----------------------------------------------------------------------------
(* Messages carry terms and names of nodes.                                *)
Addressed(msgs) == \A m \in msgs : m.from \in Nodes /\ m.to \in Nodes /\ m.term \in Nat

(* Sending adds nothing but the messages to send.                          *)
LEMMA SendAddressed ==
    ASSUME NEW base, NEW msgs, Addressed(DOMAIN base), Addressed(msgs), Send(base, msgs)
    PROVE  Addressed(DOMAIN network')
<1>1. PICK sent \in SUBSET msgs : network' = base (+) SetToBag(sent)
  BY DEF Send
<1>2. DOMAIN (base (+) SetToBag(sent)) = DOMAIN base \cup sent
  BY DEF (+), SetToBag
<1> QED BY <1>1, <1>2 DEF Addressed

(* Receiving adds nothing.                                                 *)
LEMMA ReceivedAddressed ==
    ASSUME NEW m, Addressed(DOMAIN network)
    PROVE  Addressed(DOMAIN Received(m))
<1>1. DOMAIN Received(m) \subseteq DOMAIN network
  BY DEF Received, (-)
<1> QED BY <1>1 DEF Addressed

(* RequestVote and AppendEntries requests.                                 *)
LEMMA RequestsAddressed ==
    ASSUME NEW n \in Nodes, NEW s, s.current_term \in Nat
    PROVE  Addressed(VoteRequests(n, s)) /\ Addressed(AppendRequests(n, s))
  BY DEF Addressed, VoteRequests, AppendRequests, Reachable

(* Responses go back to the node that asked.                               *)
LEMMA ResponsesAddressed ==
    ASSUME NEW m, m.from \in Nodes, m.to \in Nodes, NEW term \in Nat, NEW a, NEW b
    PROVE  Addressed({VoteResponse(m, term, a)}) /\ Addressed({AppendResponse(m, term, a, b)})
  BY DEF Addressed, VoteResponse, AppendResponse
-----------------------------------------------------------------------------
(* The invariant.                                                          *)
Remembered(g, s) ==
    /\ g.term <= s.current_term
    /\ g.term = s.current_term => s.voted_for = g.candidate

VoteInv ==
    /\ DOMAIN node = Nodes
    /\ \A n \in Nodes : Stored(node[n])
    /\ Addressed(DOMAIN network)
    /\ \A g \in grants : /\ g.voter \in Nodes /\ g.candidate \in Nodes /\ g.term \in Nat
                         /\ Remembered(g, node[g.voter])
    /\ VoteOnce

(* What one callback may do to the vote of its node.                       *)
Later(s, t) ==
    \/ t.current_term > s.current_term
    \/ /\ t.current_term = s.current_term
       /\ t.voted_for = s.voted_for \/ s.voted_for = Nil

(* A step of one node that moves its vote forward and gives no vote but    *)
(* the one it remembers keeps the invariant.                               *)
LEMMA NodeStep ==
    ASSUME VoteInv, NEW n \in Nodes, NEW t, NEW new,
           node' = [node EXCEPT ![n] = t],
           Stored(t), Later(node[n], t),
           grants' = grants \cup new,
           \A g \in new : /\ g.voter = n /\ g.term = t.current_term
                          /\ g.candidate = t.voted_for /\ t.voted_for \in Nodes,
           Addressed(DOMAIN network')
    PROVE  VoteInv'
<1>1. /\ DOMAIN node = Nodes /\ Stored(node[n])
      /\ \A g \in grants : /\ g.voter \in Nodes /\ g.candidate \in Nodes /\ g.term \in Nat
                           /\ Remembered(g, node[g.voter])
      /\ VoteOnce
  BY DEF VoteInv
<1>2. DOMAIN node' = Nodes /\ node'[n] = t /\ \A p \in Nodes \ {n} : node'[p] = node[p]
  BY <1>1
<1>3. \A p \in Nodes : Stored(node'[p])
  BY <1>2 DEF VoteInv
<1>4. t.current_term \in Nat /\ node[n].current_term \in Nat
  BY <1>1 DEF Stored
<1>5. ASSUME NEW g \in grants, g.voter = n
      PROVE  Remembered(g, t)
  <2>1. Remembered(g, node[n]) /\ g.term \in Nat /\ g.candidate \in Nodes
    BY <1>1, <1>5
  <2>2. g.candidate # Nil
    BY <2>1, WALAssumption
  <2> QED BY <1>4, <2>1, <2>2 DEF Remembered, Later
<1>6. \A g \in new : Remembered(g, t) /\ g.term \in Nat
  BY <1>4 DEF Remembered
<1>7. \A g \in grants' : /\ g.voter \in Nodes /\ g.candidate \in Nodes /\ g.term \in Nat
                         /\ Remembered(g, node'[g.voter])
  BY <1>1, <1>2, <1>5, <1>6
<1>8. ASSUME NEW g \in grants', NEW h \in grants', g.term = h.term, g.voter = h.voter
      PROVE  g.candidate = h.candidate
  <2>1. CASE g \in grants /\ h \in grants
    BY <1>1, <1>8, <2>1 DEF VoteOnce
  <2>2. CASE g \in new \/ h \in new
    <3>1. g.voter = n /\ g.term = t.current_term /\ h.term = t.current_term
      BY <1>8, <2>2
    <3>2. Remembered(g, t) /\ Remembered(h, t)
      BY <1>2, <1>7, <1>8, <3>1
    <3> QED BY <3>1, <3>2 DEF Remembered
  <2> QED BY <2>1, <2>2
<1>9. VoteOnce'
  BY <1>8 DEF VoteOnce
<1> QED BY <1>2, <1>3, <1>7, <1>9 DEF VoteInv

(* ... in particular one that gives no vote.                               *)
LEMMA NoVoteStep ==
    ASSUME VoteInv, NEW n \in Nodes, NEW t,
           node' = [node EXCEPT ![n] = t], Stored(t), Later(node[n], t),
           grants' = grants, Addressed(DOMAIN network')
    PROVE  VoteInv'
<1> DEFINE new == {}
<1>1. grants' = grants \cup new /\ \A g \in new : FALSE
  OBVIOUS
<1> HIDE DEF new
<1> QED BY <1>1, NodeStep

(* A step that leaves nodes and votes alone.                               *)
LEMMA NetworkStep ==
    ASSUME VoteInv, node' = node, grants' = grants, Addressed(DOMAIN network')
    PROVE  VoteInv'
  BY DEF VoteInv, VoteOnce

(* Keeping the vote is a case of moving it forward.                        *)
LEMMA KeepsLater ==
    ASSUME NEW s, NEW t, Stored(s), Keeps(s, t)
    PROVE  Stored(t) /\ Later(s, t)
  BY KeepsStored DEF Keeps, Later

(* A higher term in a message moves the vote forward.                      *)
LEMMA ObserveTermLater ==
    ASSUME WalEnabled, NEW s, Stored(s), NEW term \in Nat
    PROVE  LET t == ObserveTerm(s, term)
           IN  /\ Stored(t) /\ Later(s, t)
               /\ term >= s.current_term => t.current_term = term
               /\ ~(term > s.current_term) => t = s
               /\ term > s.current_term => t = StepDown(s, term) /\ t.voted_for = Nil
<1>1. CASE term > s.current_term
  BY <1>1, StepDownStored DEF ObserveTerm, Later
<1>2. CASE ~(term > s.current_term)
  <2>1. ObserveTerm(s, term) = s
    BY <1>2 DEF ObserveTerm
  <2>2. s.current_term \in Nat
    BY DEF Stored
  <2> QED BY <1>2, <2>1, <2>2 DEF Later
<1> QED BY <1>1, <1>2
-----------------------------------------------------------------------------
(* One lemma per callback.                                                 *)
LEMMA ElectionTimeoutStep ==
    ASSUME WalEnabled, VoteInv, NEW n \in Nodes, ElectionTimeout(n)
    PROVE  VoteInv'
<1> DEFINE r == node[n]
           s == Candidacy(n)
           t == AfterVote(n, s)
           new == {[term |-> s.current_term, voter |-> n, candidate |-> n]}
<1>1. Stored(r) /\ Addressed(DOMAIN network)
  BY DEF VoteInv
<1>2. /\ Stored(s) /\ s.current_term = r.current_term + 1 /\ s.voted_for = n
      /\ s.current_term \in Nat /\ s.current_term > r.current_term
  <2> DEFINE term == r.current_term + 1
             v == [current_term |-> term, voted_for |-> n]
             d == [r.disk EXCEPT !.state = v]
  <2>1. s = [r EXCEPT !.role = "candidate", !.current_term = term,
                      !.voted_for = n, !.votes_received = {n}, !.disk = d]
    BY DEF Candidacy, PersistState
  <2>2. term \in Nat /\ term > r.current_term
    BY <1>1 DEF Stored
  <2> HIDE DEF r, s, term, v
  <2>3. DOMAIN d = Files /\ d.state = v
    BY <1>1 DEF Stored, Shape, Files
  <2> HIDE DEF d
  <2>4. /\ Shape(s) /\ s.current_term = term /\ s.voted_for = n
        /\ s.votes_received = {n} /\ s.disk.state = v
    BY <1>1, <2>1, <2>3 DEF Stored, Shape, Fields
  <2> QED BY <2>2, <2>4 DEF Stored, v, term
<1>3. /\ node' = [node EXCEPT ![n] = t] /\ grants' = grants \cup new
      /\ Send(network, VoteRequests(n, s) \cup FirstAppends(n, s))
  BY DEF ElectionTimeout, Elect
<1> HIDE DEF s
<1>4. Keeps(s, t) /\ Stored(t)
  BY <1>2, AfterVoteKeeps, KeepsStored DEF Stored
<1>5. Addressed(VoteRequests(n, s) \cup FirstAppends(n, s))
  BY <1>2, <1>4, RequestsAddressed DEF FirstAppends, Addressed, Stored
<1>6. Addressed(DOMAIN network')
  BY <1>1, <1>3, <1>5, SendAddressed
<1> HIDE DEF t
<1>7. t.current_term = s.current_term /\ t.voted_for = n
  BY <1>2, <1>4 DEF Keeps
<1>8. Later(node[n], t)
  BY <1>2, <1>7 DEF Later
<1>9. \A g \in new : /\ g.voter = n /\ g.term = t.current_term
                     /\ g.candidate = t.voted_for /\ t.voted_for \in Nodes
  BY <1>7
<1> HIDE DEF new
<1> QED BY <1>3, <1>4, <1>6, <1>8, <1>9, NodeStep

(* A client's command.                                                     *)
LEMMA ProposeStep ==
    ASSUME VoteInv, NEW n \in Nodes, NEW c, Propose(n, c)
    PROVE  VoteInv'
<1> DEFINE s == node[n]
           a == AppendOwn(s, c)
           x == a.pending \cup {[index |-> Len(s.log) + 1, command |-> c,
                                 term |-> s.current_term]}
           t == [a EXCEPT !.pending = x]
           u == ApplyCommitted(n, MaybeAdvanceCommit(n, t))
           w == ReplyToPending(u)
<1>1. Stored(s) /\ Addressed(DOMAIN network)
  BY DEF VoteInv
<1>2. /\ node' = [node EXCEPT ![n] = w] /\ grants' = grants
      /\ Send(network, AppendRequests(n, t))
  BY DEF Propose
<1> HIDE DEF s
<1>3. Keeps(s, a)
  BY <1>1, AppendOwnKeeps DEF Stored
<1> HIDE DEF a, x
<1>4. Keeps(s, t)
  BY <1>3 DEF Keeps, Shape, Fields
<1> HIDE DEF t
<1>5. Keeps(s, w)
  BY <1>4, AdvanceKeeps, KeepsTrans DEF Keeps
<1> HIDE DEF u, w
<1>6. Stored(w) /\ Later(s, w)
  BY <1>1, <1>5, KeepsLater
<1>7. Addressed(DOMAIN network')
  BY <1>1, <1>2, <1>4, RequestsAddressed, SendAddressed DEF Keeps, Stored
<1> QED BY <1>2, <1>6, <1>7, NoVoteStep DEF s

(* A heartbeat sends and changes nothing.                                  *)
LEMMA HeartbeatStep ==
    ASSUME VoteInv, NEW n \in Nodes, Heartbeat(n)
    PROVE  VoteInv'
<1>1. node[n].current_term \in Nat /\ Addressed(DOMAIN network)
  BY DEF VoteInv, Stored
<1>2. Addressed(DOMAIN network')
  BY <1>1, RequestsAddressed, SendAddressed DEF Heartbeat
<1> QED BY <1>2, NetworkStep DEF Heartbeat

(* A crash between two callbacks.                                          *)
LEMMA CrashRestartStep ==
    ASSUME VoteInv, NEW n \in Nodes, CrashRestart(n)
    PROVE  VoteInv'
<1> DEFINE s == node[n]
           t == StartNode(n, s.disk)
<1>1. Stored(s) /\ Addressed(DOMAIN network)
  BY DEF VoteInv
<1>2. Stored(t) /\ t.current_term = s.current_term /\ t.voted_for = s.voted_for
  BY <1>1, StartNodeStored DEF Stored, Shape
<1>3. node' = [node EXCEPT ![n] = t] /\ grants' = grants /\ network' = network
  BY DEF CrashRestart
<1> HIDE DEF t
<1>4. Later(s, t)
  BY <1>2 DEF Later
<1> QED BY <1>1, <1>2, <1>3, <1>4, NoVoteStep

(* handle_vote_request: a vote is given in the term of the request, by a   *)
(* node that has not voted in it or that repeats its vote.                 *)
LEMMA HandleRequestVoteStep ==
    ASSUME WalEnabled, VoteInv, NEW m \in DOMAIN network, HandleRequestVote(m)
    PROVE  VoteInv'
<1> DEFINE n == m.to
           s == node[n]
           o == ObserveTerm(s, m.term)
           t == Voted(s, m)
           new == IF GrantsVote(s, m)
                  THEN {[term |-> m.term, voter |-> m.to, candidate |-> m.from]} ELSE {}
<1>1. /\ n \in Nodes /\ m.from \in Nodes /\ m.term \in Nat
      /\ Stored(s) /\ Addressed(DOMAIN network)
  BY DEF VoteInv, Addressed
<1>2. /\ node' = [node EXCEPT ![n] = t] /\ grants' = grants \cup new
      /\ Send(Received(m), {VoteResponse(m, t.current_term, GrantsVote(s, m))})
  BY DEF HandleRequestVote
<1>3. /\ Stored(o) /\ Later(s, o)
      /\ m.term >= s.current_term => o.current_term = m.term
      /\ ~(m.term > s.current_term) => o = s
  BY <1>1, ObserveTermLater
<1>4. CASE GrantsVote(s, m)
  <2> DEFINE v == [current_term |-> o.current_term, voted_for |-> m.from]
             d == [o.disk EXCEPT !.state = v]
  <2>1. t = [o EXCEPT !.voted_for = m.from, !.disk = d]
    BY <1>4 DEF Voted, PersistState
  <2>2. m.term >= s.current_term /\ o.voted_for \in {Nil, m.from}
    BY <1>4 DEF GrantsVote
  <2>3. \A g \in new : g.voter = n /\ g.term = m.term /\ g.candidate = m.from
    BY <1>4
  <2> HIDE DEF o, v, new, t
  <2>4. DOMAIN d = Files /\ d.state = v
    BY <1>3 DEF Stored, Shape, Files
  <2> HIDE DEF d
  <2>5. /\ Shape(t) /\ t.current_term = o.current_term /\ t.voted_for = m.from
        /\ t.votes_received = o.votes_received /\ t.disk.state = v
    BY <1>3, <2>1, <2>4 DEF Stored, Shape, Fields
  <2>6. Stored(t)
    BY <1>3, <2>5 DEF Stored, v
  <2>7. t.current_term = m.term /\ m.term >= s.current_term
    BY <1>3, <2>2, <2>5
  <2>8. Later(s, t)
    <3>1. CASE m.term > s.current_term
      BY <2>7, <3>1 DEF Later
    <3>2. CASE ~(m.term > s.current_term)
      BY <1>3, <2>2, <2>5, <3>2 DEF Later
    <3> QED BY <3>1, <3>2
  <2>9. Addressed(DOMAIN network')
    BY <1>1, <1>2, <2>7, ReceivedAddressed, ResponsesAddressed, SendAddressed
  <2> QED BY <1>1, <1>2, <2>3, <2>5, <2>6, <2>7, <2>8, <2>9, NodeStep
<1>5. CASE ~GrantsVote(s, m)
  <2>1. t = o /\ new = {}
    BY <1>5 DEF Voted
  <2>2. t.current_term \in Nat
    BY <1>3, <2>1 DEF Stored
  <2> HIDE DEF t, o, new
  <2>3. Addressed(DOMAIN network')
    BY <1>1, <1>2, <2>2, ReceivedAddressed, ResponsesAddressed, SendAddressed
  <2>4. grants' = grants
    BY <1>2, <2>1
  <2> QED BY <1>1, <1>2, <1>3, <2>1, <2>3, <2>4, NoVoteStep
<1> QED BY <1>4, <1>5

(* handle_vote_response gives no vote, whatever it counts.                 *)
LEMMA HandleVoteResponseStep ==
    ASSUME WalEnabled, VoteInv, NEW m \in DOMAIN network, HandleVoteResponse(m)
    PROVE  VoteInv'
<1> DEFINE n == m.to
           s == node[n]
           counts == s.role = "candidate" /\ m.vote_granted
           vs == s.votes_received \cup {m.from}
           c == [s EXCEPT !.votes_received = vs]
           t == AfterVote(n, c)
<1>1. /\ n \in Nodes /\ m.from \in Nodes /\ m.term \in Nat
      /\ Stored(s) /\ Addressed(DOMAIN network)
  BY DEF VoteInv, Addressed
<1>2. Addressed(DOMAIN Received(m)) /\ grants' = grants
  BY <1>1, ReceivedAddressed DEF HandleVoteResponse
<1>3. \/ /\ m.term > s.current_term /\ network' = Received(m)
         /\ node' = [node EXCEPT ![n] = StepDown(s, m.term)]
      \/ /\ node' = [node EXCEPT ![n] = t]
         /\ Send(Received(m), FirstAppends(n, c))
      \/ node' = node /\ network' = Received(m)
  BY DEF HandleVoteResponse, Elect
<1>4. CASE /\ m.term > s.current_term /\ network' = Received(m)
           /\ node' = [node EXCEPT ![n] = StepDown(s, m.term)]
  <2>1. Stored(StepDown(s, m.term)) /\ Later(s, StepDown(s, m.term))
    BY <1>1, <1>4, StepDownStored DEF Later
  <2> QED BY <1>1, <1>2, <1>4, <2>1, NoVoteStep
<1>5. CASE /\ node' = [node EXCEPT ![n] = t]
           /\ Send(Received(m), FirstAppends(n, c))
  <2>0. vs \subseteq Nodes
    BY <1>1 DEF Stored
  <2> HIDE DEF vs
  <2>1. Stored(c) /\ c.current_term = s.current_term /\ c.voted_for = s.voted_for
    BY <1>1, <2>0 DEF Stored, Shape, Fields
  <2> HIDE DEF c
  <2>2. Keeps(c, t)
    BY <2>1, AfterVoteKeeps DEF Stored
  <2>3. Stored(t) /\ Later(s, t)
    BY <2>1, <2>2, KeepsLater DEF Later
  <2>4. Addressed(FirstAppends(n, c))
    BY <1>1, <2>3, RequestsAddressed DEF FirstAppends, Addressed, Stored
  <2>5. Addressed(DOMAIN network')
    BY <1>2, <1>5, <2>4, SendAddressed
  <2> QED BY <1>1, <1>2, <1>5, <2>3, <2>5, NoVoteStep
<1>6. CASE node' = node /\ network' = Received(m)
  BY <1>2, <1>6, NetworkStep
<1> QED BY <1>3, <1>4, <1>5, <1>6

(* handle_append_entries_rpc, refused, accepted or inconsistent.           *)
LEMMA HandleAppendEntriesStep ==
    ASSUME WalEnabled, VoteInv, NEW m \in DOMAIN network, HandleAppendEntries(m)
    PROVE  VoteInv'
<1> DEFINE n == m.to
           s == node[n]
           o == ObserveTerm(s, m.term)
           f == [o EXCEPT !.leader_id = m.from]
           t == Appended(n, f, m)
<1>1. /\ n \in Nodes /\ m.from \in Nodes /\ m.term \in Nat
      /\ Stored(s) /\ Addressed(DOMAIN network)
  BY DEF VoteInv, Addressed
<1>2. Addressed(DOMAIN Received(m)) /\ grants' = grants
  BY <1>1, ReceivedAddressed DEF HandleAppendEntries
<1>3. \/ /\ node' = node
         /\ Send(Received(m), {AppendResponse(m, s.current_term, FALSE, 0)})
      \/ /\ node' = [node EXCEPT ![n] = t]
         /\ Send(Received(m), {AppendResponse(m, t.current_term, TRUE, Len(t.log))})
      \/ /\ node' = [node EXCEPT ![n] = f]
         /\ Send(Received(m), {AppendResponse(m, f.current_term, FALSE, 0)})
  BY DEF HandleAppendEntries
<1>4. Stored(o) /\ Later(s, o)
  BY <1>1, ObserveTermLater
<1> HIDE DEF o
<1>5. Keeps(o, f)
  BY <1>4 DEF Keeps, Stored, Shape, Fields
<1> HIDE DEF f
<1>6. Keeps(o, t)
  BY <1>5, AppendedKeeps, KeepsTrans DEF Keeps
<1> HIDE DEF t
<1>7. /\ Stored(f) /\ Later(s, f) /\ f.current_term \in Nat
      /\ Stored(t) /\ Later(s, t) /\ t.current_term \in Nat
  <2>1. Stored(f) /\ Stored(t)
    BY <1>4, <1>5, <1>6, KeepsStored
  <2>2. Later(s, f) /\ Later(s, t)
    BY <1>4, <1>5, <1>6 DEF Later, Keeps
  <2> QED BY <2>1, <2>2 DEF Stored
<1>8. s.current_term \in Nat
  BY <1>1 DEF Stored
<1>9. Addressed(DOMAIN network')
  BY <1>1, <1>2, <1>3, <1>7, <1>8, ResponsesAddressed, SendAddressed
<1>10. CASE node' = node
  BY <1>2, <1>9, <1>10, NetworkStep
<1>11. CASE node' = [node EXCEPT ![n] = t]
  BY <1>1, <1>2, <1>7, <1>9, <1>11, NoVoteStep
<1>12. CASE node' = [node EXCEPT ![n] = f]
  BY <1>1, <1>2, <1>7, <1>9, <1>12, NoVoteStep
<1> QED BY <1>3, <1>10, <1>11, <1>12

(* handle_ae_response.                                                     *)
LEMMA HandleAppendResponseStep ==
    ASSUME WalEnabled, VoteInv, NEW m \in DOMAIN network, HandleAppendResponse(m)
    PROVE  VoteInv'
<1> DEFINE n == m.to
           s == node[n]
           a == Matched(s, m)
           b == BackedOff(s, m)
           u == ApplyCommitted(n, MaybeAdvanceCommit(n, a))
           t == ReplyToPending(u)
<1>1. n \in Nodes /\ m.term \in Nat /\ Stored(s) /\ Addressed(DOMAIN network)
  BY DEF VoteInv, Addressed
<1>2. Addressed(DOMAIN network') /\ grants' = grants
  BY <1>1, ReceivedAddressed DEF HandleAppendResponse
<1>3. \/ m.term > s.current_term /\ node' = [node EXCEPT ![n] = StepDown(s, m.term)]
      \/ node' = [node EXCEPT ![n] = t]
      \/ node' = [node EXCEPT ![n] = b]
      \/ node' = node
  BY DEF HandleAppendResponse
<1>4. CASE m.term > s.current_term /\ node' = [node EXCEPT ![n] = StepDown(s, m.term)]
  <2>1. Stored(StepDown(s, m.term)) /\ Later(s, StepDown(s, m.term))
    BY <1>1, <1>4, StepDownStored DEF Later
  <2> QED BY <1>1, <1>2, <1>4, <2>1, NoVoteStep
<1>5. CASE node' = [node EXCEPT ![n] = t]
  <2>1. Keeps(s, a)
    BY <1>1 DEF Matched, Keeps, Stored, Shape, Fields
  <2> HIDE DEF a
  <2>2. Keeps(a, t)
    BY <2>1, AdvanceKeeps DEF Keeps
  <2> HIDE DEF t
  <2>3. Stored(t) /\ Later(s, t)
    BY <1>1, <2>1, <2>2, KeepsTrans, KeepsLater
  <2> QED BY <1>1, <1>2, <1>5, <2>3, NoVoteStep
<1>6. CASE node' = [node EXCEPT ![n] = b]
  <2>1. Keeps(s, b)
    BY <1>1 DEF BackedOff, Keeps, Stored, Shape, Fields
  <2> HIDE DEF b
  <2>2. Stored(b) /\ Later(s, b)
    BY <1>1, <2>1, KeepsLater
  <2> QED BY <1>1, <1>2, <1>6, <2>2, NoVoteStep
<1>7. CASE node' = node
  BY <1>2, <1>7, NetworkStep
<1> QED BY <1>3, <1>4, <1>5, <1>6, <1>7

(* A crash between step_down's persist_state and the vote's.               *)
LEMMA CrashInVoteStep ==
    ASSUME WalEnabled, VoteInv, NEW m \in DOMAIN network, CrashInVote(m)
    PROVE  VoteInv'
<1> DEFINE n == m.to
           s == node[n]
           d == StepDown(s, m.term)
           t == StartNode(n, d.disk)
<1>1. n \in Nodes /\ m.term \in Nat /\ Stored(s) /\ Addressed(DOMAIN network)
  BY DEF VoteInv, Addressed
<1>2. /\ m.term > s.current_term /\ node' = [node EXCEPT ![n] = t] /\ grants' = grants
      /\ Addressed(DOMAIN network')
  BY <1>1, ReceivedAddressed DEF CrashInVote
<1>3. Stored(d) /\ d.current_term = m.term
  BY <1>1, StepDownStored
<1> HIDE DEF d
<1>4. Stored(t) /\ t.current_term = m.term
  BY <1>1, <1>3, StartNodeStored DEF Stored, Shape
<1> HIDE DEF t
<1>5. Later(s, t)
  BY <1>2, <1>4 DEF Later
<1> QED BY <1>1, <1>2, <1>4, <1>5, NoVoteStep

(* A crash while truncate_after rewrites wal.jsonl.                        *)
LEMMA CrashInAppendStep ==
    ASSUME WalEnabled, VoteInv, NEW m \in DOMAIN network, CrashInAppend(m)
    PROVE  VoteInv'
<1> DEFINE n == m.to
           s == node[n]
           f == ObserveTerm(s, m.term)
           kept == TruncateAfter(f.disk, m.prev_log_index)
<1>1. n \in Nodes /\ m.term \in Nat /\ Stored(s) /\ Addressed(DOMAIN network)
  BY DEF VoteInv, Addressed
<1>2. PICK disk \in {kept, [kept EXCEPT !.wal = <<>>]} :
        node' = [node EXCEPT ![n] = StartNode(n, disk)]
  BY DEF CrashInAppend
<1>3. Addressed(DOMAIN network') /\ grants' = grants
  BY <1>1, ReceivedAddressed DEF CrashInAppend
<1>4. Stored(f) /\ Later(s, f)
  BY <1>1, ObserveTermLater
<1> HIDE DEF f
<1>5. DOMAIN kept = Files /\ kept.state = f.disk.state
  BY <1>4, TruncateAfterKeeps DEF Stored, Shape
<1> HIDE DEF kept
<1>6. DOMAIN disk = Files /\ disk.state = f.disk.state
  <2>1. /\ DOMAIN [kept EXCEPT !.wal = <<>>] = Files
        /\ [kept EXCEPT !.wal = <<>>].state = kept.state
    BY <1>5 DEF Files
  <2> QED BY <1>2, <1>5, <2>1
<1> DEFINE t == StartNode(n, disk)
<1>7. Stored(t) /\ t.current_term = f.current_term /\ t.voted_for = f.voted_for
  BY <1>4, <1>6, StartNodeStored DEF Stored
<1>8. node' = [node EXCEPT ![n] = t]
  BY <1>2
<1> HIDE DEF t
<1>9. Later(s, t)
  BY <1>4, <1>7 DEF Later
<1> QED BY <1>1, <1>3, <1>7, <1>8, <1>9, NoVoteStep
-----------------------------------------------------------------------------
(* A cluster that starts with empty disks.                                 *)
LEMMA VoteInvInit ==
    ASSUME Init
    PROVE  VoteInv
<1>1. \A n \in Nodes : Stored(StartNode(n, EmptyDisk))
  <2>1. /\ DOMAIN EmptyDisk = Files
        /\ EmptyDisk.state = [current_term |-> 0, voted_for |-> Nil]
    BY DEF EmptyDisk, Files
  <2> QED BY <2>1, StartNodeStored
<1>2. DOMAIN node = Nodes /\ \A n \in Nodes : Stored(node[n])
  BY <1>1 DEF Init
<1>3. DOMAIN network = {}
  BY DEF Init, EmptyBag, SetToBag
<1> QED BY <1>2, <1>3 DEF Init, VoteInv, Addressed, VoteOnce

(* One case per callback and per crash.                                    *)
LEMMA VoteInvStep ==
    ASSUME WalEnabled, VoteInv, [Next]_vars
    PROVE  VoteInv'
<1>1. ASSUME NEW n \in Nodes, ElectionTimeout(n) PROVE VoteInv'
  BY <1>1, ElectionTimeoutStep
<1>2. ASSUME NEW n \in Nodes, Heartbeat(n) PROVE VoteInv'
  BY <1>2, HeartbeatStep
<1>3. ASSUME NEW n \in Nodes, CrashRestart(n) PROVE VoteInv'
  BY <1>3, CrashRestartStep
<1>4. ASSUME NEW n \in Nodes, NEW c \in Commands, Propose(n, c) PROVE VoteInv'
  BY <1>4, ProposeStep
<1>5. ASSUME NEW m \in BagToSet(network), HandleRequestVote(m) PROVE VoteInv'
  BY <1>5, HandleRequestVoteStep DEF BagToSet
<1>6. ASSUME NEW m \in BagToSet(network), HandleVoteResponse(m) PROVE VoteInv'
  BY <1>6, HandleVoteResponseStep DEF BagToSet
<1>7. ASSUME NEW m \in BagToSet(network), HandleAppendEntries(m) PROVE VoteInv'
  BY <1>7, HandleAppendEntriesStep DEF BagToSet
<1>8. ASSUME NEW m \in BagToSet(network), HandleAppendResponse(m) PROVE VoteInv'
  BY <1>8, HandleAppendResponseStep DEF BagToSet
<1>9. ASSUME NEW m \in BagToSet(network), CrashInVote(m) PROVE VoteInv'
  BY <1>9, CrashInVoteStep DEF BagToSet
<1>10. ASSUME NEW m \in BagToSet(network), CrashInAppend(m) PROVE VoteInv'
  BY <1>10, CrashInAppendStep DEF BagToSet
<1>11. CASE UNCHANGED vars
  BY <1>11 DEF vars, VoteInv, VoteOnce
<1> QED BY <1>1, <1>2, <1>3, <1>4, <1>5, <1>6, <1>7, <1>8, <1>9, <1>10, <1>11 DEF Next

(* A node that keeps a WAL never votes for two candidates in one term: not *)
(* for any cluster, any peer lists, any losses, and any crashes, between   *)
(* callbacks or inside handle_vote_request and handle_append_entries_rpc.  *)
THEOREM OneVotePerTerm == WalEnabled => (Spec => []VoteOnce)
<1> SUFFICES ASSUME WalEnabled PROVE Spec => []VoteOnce
  OBVIOUS
<1>1. Init => VoteInv
  BY VoteInvInit
<1>2. VoteInv /\ [Next]_vars => VoteInv'
  BY VoteInvStep
<1>3. VoteInv => VoteOnce
  BY DEF VoteInv
<1> QED BY <1>1, <1>2, <1>3, PTL DEF Spec

-----------------------------------------------------------------------------
(* One winner in a term.  A won election counted the votes of a majority   *)
(* of the cluster, and two majorities share a voter, who voted once.  The  *)
(* votes of an election are counted against the winner's own peer list, so *)
(* the argument needs every peer list to name the rest of the cluster.     *)
FullCluster == \A n \in Nodes : node[n].peers = Nodes \ {n}

Majority(votes) == votes \subseteq Nodes /\ 2 * Cardinality(votes) > Cardinality(Nodes)

ElectInv == \A e \in elections : Majority(e.votes)

(* quorum_size over a full peer list is more than half of the cluster.     *)
LEMMA QuorumIsMajority ==
    ASSUME IsFiniteSet(Nodes), NEW n \in Nodes, NEW s, s.peers = Nodes \ {n},
           s.votes_received \subseteq Nodes, Cardinality(s.votes_received) >= Quorum(s)
    PROVE  Majority(s.votes_received)
<1> DEFINE N == Cardinality(Nodes)
           C == Cardinality(s.votes_received)
<1>1. N \in Nat /\ Cardinality(Nodes \ {n}) = N - 1
  BY FS_CardinalityType, FS_RemoveElement
<1>2. C \in Nat
  BY FS_Subset, FS_CardinalityType
<1>3. C >= N \div 2 + 1
  <2>1. Quorum(s) = ((N - 1) + 1) \div 2 + 1
    BY <1>1 DEF Quorum
  <2>2. (N - 1) + 1 = N
    BY <1>1
  <2> QED BY <2>1, <2>2
<1> HIDE DEF N, C
<1>4. 2 * C > N
  BY <1>1, <1>2, <1>3
<1> QED BY <1>4 DEF Majority, N, C

(* become_leader is reached through the quorum only.                       *)
LEMMA WonWithMajority ==
    ASSUME IsFiniteSet(Nodes), NEW n \in Nodes, NEW s, Shape(s), s.peers = Nodes \ {n},
           s.votes_received \subseteq Nodes,
           NEW e \in WonElection(n, s, AfterVote(n, s))
    PROVE  Majority(e.votes)
<1> DEFINE t == AfterVote(n, s)
<1>1. s.role = "candidate" /\ t.role = "leader" /\ e.votes = t.votes_received
  BY DEF WonElection
<1>2. t.votes_received = s.votes_received
  BY AfterVoteKeeps DEF Keeps
<1>3. Cardinality(s.votes_received) >= Quorum(s)
  BY <1>1 DEF AfterVote
<1> QED BY <1>1, <1>2, <1>3, QuorumIsMajority

(* Only the election timeout and a counted vote can win an election.       *)
LEMMA ElectStep ==
    ASSUME IsFiniteSet(Nodes), FullCluster, ElectInv,
           NEW n \in Nodes, NEW s, Shape(s), s.peers = node[n].peers,
           s.votes_received \subseteq Nodes, Elect(n, s)
    PROVE  ElectInv'
<1>1. elections' = elections \cup WonElection(n, s, AfterVote(n, s))
  BY DEF Elect
<1>2. s.peers = Nodes \ {n}
  BY DEF FullCluster
<1>3. \A e \in WonElection(n, s, AfterVote(n, s)) : Majority(e.votes)
  BY <1>2, WonWithMajority
<1>4. \A e \in elections' : Majority(e.votes)
  BY <1>1, <1>3 DEF ElectInv
<1> QED BY <1>4 DEF ElectInv, Majority

(* Every step keeps the elections won by majorities.                       *)
LEMMA ElectInvStep ==
    ASSUME IsFiniteSet(Nodes), FullCluster, VoteInv, ElectInv, [Next]_vars
    PROVE  ElectInv'
<1>1. ASSUME elections' = elections PROVE ElectInv'
  BY <1>1 DEF ElectInv, Majority
<1>2. ASSUME NEW n \in Nodes, ElectionTimeout(n) PROVE ElectInv'
  <2> DEFINE s == Candidacy(n)
             r == node[n]
             term == r.current_term + 1
             d == PersistState(r.disk, term, n)
  <2>1. Stored(r)
    BY DEF VoteInv
  <2>2. s = [r EXCEPT !.role = "candidate", !.current_term = term,
                      !.voted_for = n, !.votes_received = {n}, !.disk = d]
    BY DEF Candidacy
  <2>3. Elect(n, s)
    BY <1>2 DEF ElectionTimeout
  <2>4. DOMAIN d = Files
    BY <2>1 DEF PersistState, Stored, Shape, Files
  <2> HIDE DEF s, d, r, term
  <2>5. Shape(s) /\ s.peers = r.peers /\ s.votes_received = {n}
    BY <2>1, <2>2, <2>4 DEF Stored, Shape, Fields
  <2> QED BY <2>3, <2>5, ElectStep DEF r
<1>3. ASSUME NEW m \in DOMAIN network, HandleVoteResponse(m) PROVE ElectInv'
  <2> DEFINE n == m.to
             r == node[n]
             vs == r.votes_received \cup {m.from}
             s == [r EXCEPT !.votes_received = vs]
  <2>1. /\ n \in Nodes /\ m.from \in Nodes /\ Stored(r)
    BY DEF VoteInv, Addressed
  <2>2. elections' = elections \/ Elect(n, s)
    BY <1>3 DEF HandleVoteResponse
  <2>3. vs \subseteq Nodes
    BY <2>1 DEF Stored
  <2> HIDE DEF vs, r
  <2>4. Shape(s) /\ s.peers = r.peers /\ s.votes_received = vs
    BY <2>1 DEF Stored, Shape, Fields
  <2> HIDE DEF s
  <2> QED BY <1>1, <2>1, <2>2, <2>3, <2>4, ElectStep DEF r
<1>4. CASE Next
  <2>1. ASSUME NEW n \in Nodes, Heartbeat(n) \/ CrashRestart(n) PROVE ElectInv'
    BY <1>1, <2>1 DEF Heartbeat, CrashRestart
  <2>2. ASSUME NEW n \in Nodes, NEW c \in Commands, Propose(n, c) PROVE ElectInv'
    BY <1>1, <2>2 DEF Propose
  <2>3. ASSUME NEW m \in DOMAIN network,
               \/ HandleRequestVote(m) \/ HandleAppendEntries(m) \/ HandleAppendResponse(m)
               \/ CrashInVote(m) \/ CrashInAppend(m)
        PROVE  ElectInv'
    BY <1>1, <2>3 DEF HandleRequestVote, HandleAppendEntries, HandleAppendResponse,
                      CrashInVote, CrashInAppend
  <2> QED BY <1>2, <1>3, <1>4, <2>1, <2>2, <2>3 DEF Next, BagToSet
<1>5. CASE UNCHANGED vars
  BY <1>1, <1>5 DEF vars
<1> QED BY <1>4, <1>5

(* Two backed elections of one term share a voter.                         *)
LEMMA MajoritiesAgree ==
    ASSUME IsFiniteSet(Nodes), VoteInv, ElectInv
    PROVE  BackedElectionSafety
<1> SUFFICES ASSUME NEW e \in elections, NEW f \in elections,
                    e.term = f.term, Backed(e), Backed(f)
             PROVE  e.leader = f.leader
  BY DEF BackedElectionSafety
<1>1. Majority(e.votes) /\ Majority(f.votes)
  BY DEF ElectInv
<1>2. /\ Cardinality(Nodes) \in Nat /\ Cardinality(e.votes) \in Nat
      /\ Cardinality(f.votes) \in Nat
  BY <1>1, FS_Subset, FS_CardinalityType DEF Majority
<1>3. Cardinality(e.votes) + Cardinality(f.votes) > Cardinality(Nodes)
  BY <1>1, <1>2 DEF Majority
<1>4. PICK v : v \in e.votes /\ v \in f.votes
  BY <1>1, <1>3, FS_MajoritiesIntersect DEF Majority
<1>5. /\ [term |-> e.term, voter |-> v, candidate |-> e.leader] \in grants
      /\ [term |-> f.term, voter |-> v, candidate |-> f.leader] \in grants
  BY <1>4 DEF Backed
<1> QED BY <1>5 DEF VoteInv, VoteOnce

(* As long as every peer list names the rest of the cluster, two elections *)
(* of one term that counted only votes of that term have the same winner:  *)
(* quorum_size asks for a majority, and handle_vote_request and            *)
(* start_election give one vote in a term, across crashes and restarts.    *)
THEOREM OneBackedWinner ==
    WalEnabled /\ IsFiniteSet(Nodes) =>
        (Spec /\ []FullCluster => []BackedElectionSafety)
<1> SUFFICES ASSUME WalEnabled, IsFiniteSet(Nodes)
             PROVE  Spec /\ []FullCluster => []BackedElectionSafety
  OBVIOUS
<1>1. Init => VoteInv /\ ElectInv
  BY VoteInvInit DEF Init, ElectInv
<1>2. FullCluster /\ VoteInv /\ ElectInv /\ [Next]_vars => VoteInv' /\ ElectInv'
  BY VoteInvStep, ElectInvStep
<1>3. VoteInv /\ ElectInv => BackedElectionSafety
  BY MajoritiesAgree
<1> QED BY <1>1, <1>2, <1>3, PTL DEF Spec

-----------------------------------------------------------------------------
(* Logs.  They change in three ways: a leader appends to its own, a        *)
(* follower cuts its own at prev_log_index and appends what the request    *)
(* carries, and a restart reads it back from disk.  The last way is left   *)
(* out here (MaxCrashes = 0): a follower that cuts its log on a request    *)
(* without entries does not cut wal.jsonl, so a restart may bring back     *)
(* what was cut.                                                           *)
(*                                                                         *)
(* The invariant speaks of links.  A link is an entry, its place, and the  *)
(* term of the entry before it.  Logs are chains of links, and so is what  *)
(* an AppendEntries request carries.                                       *)
EntryType == [term : Nat, index : Nat, command : Commands \cup {NoOp}]

LogLinks(log) ==
    {[at |-> i, prev |-> TermAt(log, i - 1), entry |-> log[i]] : i \in DOMAIN log}

AppendLinks(m) ==
    {[at    |-> m.prev_log_index + k,
      prev  |-> IF k = 1 THEN m.prev_log_term ELSE m.entries[k - 1].term,
      entry |-> m.entries[k]] : k \in DOMAIN m.entries}

Appends(msgs) == {m \in msgs : m.type = "append_entries"}

InLogs == UNION {LogLinks(node[n].log) : n \in Nodes}
InFlight == UNION {AppendLinks(m) : m \in Appends(DOMAIN network)}
Links == InLogs \cup InFlight
-----------------------------------------------------------------------------
(* Logs and messages are what they should be; an AppendEntries request     *)
(* comes from a node that won the election of the request's term.          *)
NodeOK(s) ==
    /\ s.log \in Seq(EntryType)
    /\ \A p \in DOMAIN s.next_index : s.next_index[p] \in Nat \ {0}

RequestOK(m) ==
    /\ m.entries \in Seq(EntryType)
    /\ m.prev_log_index \in Nat
    /\ m.prev_log_index = 0 => m.prev_log_term = 0
    /\ m.from # m.to

Elected(n, term) == \E e \in elections : e.leader = n /\ e.term = term

LogTypes ==
    /\ \A n \in Nodes : NodeOK(node[n])
    /\ \A m \in DOMAIN network :
         /\ m.type = "append_entries" => RequestOK(m) /\ Elected(m.from, m.term)
         /\ m.type = "append_entries_response" => m.match_index \in Nat
    /\ crashes = 0

(* A leader has won the election of its term, and the winner of a term     *)
(* leads until it moves to a higher term.                                  *)
LeaderInv ==
    /\ \A n \in Nodes : node[n].role = "leader" => Elected(n, node[n].current_term)
    /\ \A e \in elections :
         /\ e.leader \in Nodes /\ e.term \in Nat
         /\ e.term <= node[e.leader].current_term
         /\ e.term = node[e.leader].current_term => node[e.leader].role = "leader"

(* Place and term determine the link, a link's term had an election, and   *)
(* a leader's log reaches as far as any link of its term.                  *)
SameLink(a, b) == a.at = b.at /\ a.entry.term = b.entry.term => a = b

LinksUnique == \A a, b \in Links : SameLink(a, b)

LinksElected == \A a \in Links : \E e \in elections : e.term = a.entry.term

LinksLed ==
    \A a \in Links, n \in Nodes :
        node[n].role = "leader" /\ node[n].current_term = a.entry.term =>
            a.at <= Len(node[n].log)

LinkInv == ElectionSafety => LinksUnique /\ LinksElected /\ LinksLed

-----------------------------------------------------------------------------
(* What the helpers leave alone.                                           *)
Frame(s, t) ==
    /\ Shape(t)
    /\ t.log = s.log /\ t.role = s.role /\ t.current_term = s.current_term
    /\ t.next_index = s.next_index

SameRequests(s, t) == t.pending = s.pending

(* Leaving these fields alone composes.                                    *)
LEMMA FrameTrans ==
    ASSUME NEW s, NEW t, NEW u, Frame(s, t), Frame(t, u)
    PROVE  Frame(s, u)
  BY DEF Frame

(* apply_committed changes neither the log nor the role.                   *)
LEMMA ApplyCommittedFrame ==
    ASSUME NEW n, NEW s, Shape(s)
    PROVE  Frame(s, ApplyCommitted(n, s)) /\ SameRequests(s, ApplyCommitted(n, s))
<1>1. Frame(s, s) /\ SameRequests(s, s)
  BY DEF Frame, SameRequests
<1>2. ASSUME NEW a, NEW r, NEW ps
      PROVE  LET t == [s EXCEPT !.last_applied = a, !.registry = r, !.peers = ps]
             IN  /\ Frame(s, MaybeTriggerSnapshot(t))
                 /\ SameRequests(s, MaybeTriggerSnapshot(t))
  <2> DEFINE t == [s EXCEPT !.last_applied = a, !.registry = r, !.peers = ps]
             d == SaveSnapshot(t.disk, t.registry, t.last_applied)
  <2>1. Frame(s, t) /\ SameRequests(s, t)
    BY DEF Frame, Shape, Fields, SameRequests
  <2> HIDE DEF t
  <2>2. DOMAIN d = Files
    BY <2>1, SaveSnapshotKeeps DEF Frame, Shape
  <2>3. \/ MaybeTriggerSnapshot(t) = t
        \/ MaybeTriggerSnapshot(t) = [t EXCEPT !.disk = d]
    BY DEF MaybeTriggerSnapshot
  <2> HIDE DEF d
  <2>4. Frame(s, [t EXCEPT !.disk = d]) /\ SameRequests(s, [t EXCEPT !.disk = d])
    BY <2>1, <2>2 DEF Frame, Shape, Fields, SameRequests
  <2> QED BY <2>1, <2>3, <2>4 DEF t
<1> QED BY <1>1, <1>2 DEF ApplyCommitted

(* Nor do maybe_advance_commit and reply_to_pending.                       *)
LEMMA AdvanceFrame ==
    ASSUME NEW n, NEW s, Shape(s)
    PROVE  LET u == ApplyCommitted(n, MaybeAdvanceCommit(n, s))
           IN  /\ Frame(s, ReplyToPending(u)) /\ Frame(s, u) /\ SameRequests(s, u)
               /\ ReplyToPending(u).pending \subseteq s.pending
<1> DEFINE t == MaybeAdvanceCommit(n, s)
           u == ApplyCommitted(n, t)
           r == u.pending \ Fulfilled(u)
<1>1. Frame(s, t) /\ SameRequests(s, t)
  BY DEF MaybeAdvanceCommit, Frame, Shape, Fields, SameRequests
<1> HIDE DEF t
<1>2. Frame(s, u) /\ SameRequests(s, u)
  BY <1>1, ApplyCommittedFrame, FrameTrans DEF Frame, SameRequests
<1> HIDE DEF u
<1>3. ReplyToPending(u) = [u EXCEPT !.pending = r] /\ r \subseteq s.pending
  BY <1>2 DEF ReplyToPending, SameRequests
<1> HIDE DEF r
<1>4. Frame(s, [u EXCEPT !.pending = r]) /\ [u EXCEPT !.pending = r].pending = r
  BY <1>2 DEF Frame, Shape, Fields
<1> QED BY <1>2, <1>3, <1>4 DEF t, u

(* append_own adds one entry of the node's term at the end of its log.     *)
LEMMA AppendOwnEffect ==
    ASSUME NEW s, Shape(s), NEW c
    PROVE  LET t == AppendOwn(s, c)
           IN  /\ Shape(t) /\ t.role = s.role /\ t.current_term = s.current_term
               /\ t.next_index = s.next_index /\ t.peers = s.peers
               /\ t.log = Append(s.log, Entry(s.current_term, Len(s.log) + 1, c))
               /\ SameRequests(s, t)
<1> DEFINE e == Entry(s.current_term, Len(s.log) + 1, c)
           l == Append(s.log, e)
           d == AppendWal(s.disk, <<e>>)
<1>1. AppendOwn(s, c) = [s EXCEPT !.log = l, !.disk = d]
  BY DEF AppendOwn
<1>2. DOMAIN d = Files
  BY AppendWalKeeps DEF Shape
<1> HIDE DEF l, d
<1>3. LET t == [s EXCEPT !.log = l, !.disk = d]
      IN  /\ Shape(t) /\ t.role = s.role /\ t.current_term = s.current_term
          /\ t.next_index = s.next_index /\ t.peers = s.peers /\ t.log = l
          /\ SameRequests(s, t)
  BY <1>2 DEF Shape, Fields, SameRequests
<1> QED BY <1>1, <1>3 DEF l

(* become_leader appends a no-op and starts next_index after the old log.  *)
LEMMA BecomeLeaderEffect ==
    ASSUME NEW n, NEW s, Shape(s)
    PROVE  LET t == BecomeLeader(n, s)
           IN  /\ Shape(t) /\ t.role = "leader" /\ t.current_term = s.current_term
               /\ t.log = Append(s.log, Entry(s.current_term, Len(s.log) + 1, NoOp))
               /\ t.next_index = [p \in s.peers |-> Len(s.log) + 1]
               /\ t.peers = s.peers /\ SameRequests(s, t)
<1> DEFINE x == [p \in s.peers |-> Len(s.log) + 1]
           y == [p \in s.peers |-> 0]
           t == [s EXCEPT !.role = "leader", !.leader_id = n,
                          !.next_index = x, !.match_index = y]
<1>1. BecomeLeader(n, s) = AppendOwn(t, NoOp)
  BY DEF BecomeLeader
<1> HIDE DEF x, y
<1>2. /\ Shape(t) /\ t.role = "leader" /\ t.current_term = s.current_term
      /\ t.log = s.log /\ t.next_index = x /\ t.peers = s.peers /\ SameRequests(s, t)
  BY DEF Shape, Fields, SameRequests
<1> HIDE DEF t
<1> QED BY <1>1, <1>2, AppendOwnEffect DEF x, SameRequests

(* step_down makes a follower of a higher term, with the same log.         *)
LEMMA StepDownEffect ==
    ASSUME NEW s, Shape(s), NEW term
    PROVE  LET t == StepDown(s, term)
           IN  /\ Shape(t) /\ t.role = "follower" /\ t.current_term = term
               /\ t.log = s.log /\ t.next_index = s.next_index /\ SameRequests(s, t)
<1> DEFINE d == PersistState(s.disk, term, Nil)
<1>1. StepDown(s, term) = [s EXCEPT !.role = "follower", !.current_term = term,
                                    !.voted_for = Nil, !.votes_received = {},
                                    !.disk = d]
  BY DEF StepDown
<1>2. DOMAIN d = Files
  BY DEF PersistState, Shape, Files
<1> HIDE DEF d
<1>3. LET t == [s EXCEPT !.role = "follower", !.current_term = term,
                         !.voted_for = Nil, !.votes_received = {}, !.disk = d]
      IN  /\ Shape(t) /\ t.role = "follower" /\ t.current_term = term
          /\ t.log = s.log /\ t.next_index = s.next_index /\ SameRequests(s, t)
  BY <1>2 DEF Shape, Fields, SameRequests
<1> QED BY <1>1, <1>3

(* The accepting branch of handle_append_entries_rpc.                      *)
Spliced(s, t, m) ==
    /\ Shape(t) /\ t.role = s.role /\ t.current_term = s.current_term
    /\ t.next_index = s.next_index
    /\ t.log = SubSeq(s.log, 1, m.prev_log_index) \o m.entries
    /\ SameRequests(s, t)

(* Its effect on the node.                                                 *)
LEMMA AppendedEffect ==
    ASSUME NEW n, NEW s, Shape(s), NEW m
    PROVE  Spliced(s, Appended(n, s, m), m)
<1> DEFINE l == SubSeq(s.log, 1, m.prev_log_index) \o m.entries
           c == Min({m.leader_commit, Len(l)})
           d == WalAfterAppend(s, m)
           t == [s EXCEPT !.log = l, !.commit_index = c, !.disk = d]
<1>1. Appended(n, s, m) = ApplyCommitted(n, t)
  BY DEF Appended
<1>2. DOMAIN d = Files
  BY AppendWalKeeps, TruncateAfterKeeps DEF WalAfterAppend, Shape
<1> HIDE DEF l, c, d
<1>3. /\ Shape(t) /\ t.role = s.role /\ t.current_term = s.current_term
      /\ t.next_index = s.next_index /\ t.log = l /\ SameRequests(s, t)
  BY <1>2 DEF Shape, Fields, SameRequests
<1> HIDE DEF t
<1>4. Frame(t, ApplyCommitted(n, t)) /\ SameRequests(t, ApplyCommitted(n, t))
  BY <1>3, ApplyCommittedFrame
<1> QED BY <1>1, <1>3, <1>4 DEF Frame, Spliced, SameRequests, l

-----------------------------------------------------------------------------
(* The links of a longer log.                                              *)
LEMMA AppendedLinks ==
    ASSUME NEW log \in Seq(EntryType), NEW e \in EntryType
    PROVE  /\ Append(log, e) \in Seq(EntryType)
           /\ Len(Append(log, e)) = Len(log) + 1
           /\ \A a \in LogLinks(Append(log, e)) :
                \/ a \in LogLinks(log)
                \/ a = [at |-> Len(log) + 1, prev |-> TermAt(log, Len(log)), entry |-> e]
           /\ \A a \in LogLinks(log) : a.at <= Len(log)
<1> DEFINE new == Append(log, e)
           N == Len(log)
<1>1. /\ new \in Seq(EntryType) /\ Len(new) = N + 1 /\ N \in Nat
      /\ DOMAIN log = 1 .. N /\ DOMAIN new = 1 .. N + 1
      /\ \A i \in 1 .. N : new[i] = log[i]
      /\ new[N + 1] = e
  OBVIOUS
<1> HIDE DEF new, N
<1>2. ASSUME NEW i \in 1 .. N + 1
      PROVE  TermAt(new, i - 1) = TermAt(log, i - 1)
  <2>1. i - 1 \in DOMAIN new <=> i - 1 \in DOMAIN log
    BY <1>1
  <2>2. i - 1 \in DOMAIN log => new[i - 1] = log[i - 1]
    BY <1>1
  <2> QED BY <2>1, <2>2 DEF TermAt
<1>3. ASSUME NEW a \in LogLinks(new)
      PROVE  \/ a \in LogLinks(log)
             \/ a = [at |-> N + 1, prev |-> TermAt(log, N), entry |-> e]
  <2>1. PICK i \in DOMAIN new : a = [at |-> i, prev |-> TermAt(new, i - 1), entry |-> new[i]]
    BY DEF LogLinks
  <2>2. i \in 1 .. N + 1 /\ TermAt(new, i - 1) = TermAt(log, i - 1)
    BY <1>1, <1>2
  <2>3. CASE i = N + 1
    <3>1. i - 1 = N
      BY <1>1, <2>3
    <3> QED BY <1>1, <2>1, <2>2, <2>3, <3>1
  <2>4. CASE i # N + 1
    <3>1. i \in DOMAIN log /\ new[i] = log[i]
      BY <1>1, <2>2, <2>4
    <3>2. a = [at |-> i, prev |-> TermAt(log, i - 1), entry |-> log[i]]
      BY <2>1, <2>2, <3>1
    <3> QED BY <3>1, <3>2 DEF LogLinks
  <2> QED BY <2>3, <2>4
<1>4. \A a \in LogLinks(log) : a.at <= N
  BY <1>1 DEF LogLinks
<1> QED BY <1>1, <1>3, <1>4 DEF new, N

(* A follower's log, cut at prev_log_index and continued with the entries  *)
(* of the request, is made of old links and of links of the request: the   *)
(* consistency check is what joins the two.                                *)
LEMMA SplicedLinks ==
    ASSUME NEW s, s.log \in Seq(EntryType), NEW m, RequestOK(m), PrevOk(s, m)
    PROVE  LET new == SubSeq(s.log, 1, m.prev_log_index) \o m.entries
           IN  /\ new \in Seq(EntryType)
               /\ LogLinks(new) \subseteq LogLinks(s.log) \cup AppendLinks(m)
<1> DEFINE log == s.log
           P == m.prev_log_index
           es == m.entries
           K == Len(es)
           cut == SubSeq(log, 1, P)
           new == cut \o es
<1>1. /\ P \in Nat /\ P <= Len(log) /\ Len(log) \in Nat /\ DOMAIN log = 1 .. Len(log)
      /\ es \in Seq(EntryType) /\ K \in Nat /\ DOMAIN es = 1 .. K
  BY DEF RequestOK, PrevOk
<1> HIDE DEF K
<1>2. /\ cut \in Seq(EntryType) /\ Len(cut) = P
      /\ \A i \in 1 .. P : cut[i] = log[i]
  BY <1>1, SubSeqProperties
<1> HIDE DEF cut
<1>3. /\ new \in Seq(EntryType) /\ DOMAIN new = 1 .. P + K
      /\ \A i \in 1 .. P : new[i] = log[i]
      /\ \A k \in 1 .. K : new[P + k] = es[k]
  BY <1>1, <1>2, ConcatProperties DEF K
<1> HIDE DEF new
<1>4. ASSUME NEW i \in DOMAIN new
      PROVE  [at |-> i, prev |-> TermAt(new, i - 1), entry |-> new[i]]
                 \in LogLinks(log) \cup AppendLinks(m)
  <2>1. CASE i <= P
    <3>1. i \in DOMAIN log /\ new[i] = log[i]
      BY <1>1, <1>3, <2>1
    <3>2. TermAt(new, i - 1) = TermAt(log, i - 1)
      <4>1. i = 1 \/ i - 1 \in 1 .. P
        BY <1>1, <1>3, <2>1
      <4>2. CASE i = 1
        BY <1>1, <1>3, <4>2 DEF TermAt
      <4>3. CASE i - 1 \in 1 .. P
        BY <1>1, <1>3, <4>3 DEF TermAt
      <4> QED BY <4>1, <4>2, <4>3
    <3> QED BY <3>1, <3>2 DEF LogLinks
  <2>2. CASE i > P
    <3> DEFINE k == i - P
    <3>0. i \in 1 .. P + K /\ P \in Nat /\ K \in Nat
      BY <1>1, <1>3
    <3>1. k \in 1 .. K /\ i = P + k
      BY <2>2, <3>0
    <3>2. k \in DOMAIN es /\ new[i] = es[k]
      BY <1>1, <1>3, <3>1
    <3> HIDE DEF k
    <3>3. TermAt(new, i - 1) = IF k = 1 THEN m.prev_log_term ELSE es[k - 1].term
      <4>1. CASE k # 1
        <5>1. k - 1 \in 1 .. K /\ i - 1 = P + (k - 1) /\ i - 1 \in 1 .. P + K
          BY <3>0, <3>1, <4>1
        <5>2. i - 1 \in DOMAIN new /\ new[i - 1] = es[k - 1]
          BY <1>3, <5>1
        <5> QED BY <4>1, <5>2 DEF TermAt
      <4>2. CASE k = 1 /\ P = 0
        <5>1. i - 1 = 0 /\ 0 \notin DOMAIN new /\ m.prev_log_term = 0
          BY <1>1, <1>3, <3>1, <4>2 DEF RequestOK
        <5> QED BY <4>2, <5>1 DEF TermAt
      <4>3. CASE k = 1 /\ P # 0
        <5>1. i - 1 = P /\ P \in 1 .. P /\ P \in 1 .. P + K
          BY <3>0, <3>1, <4>3
        <5>2. i - 1 \in DOMAIN new /\ new[i - 1] = log[P]
          BY <1>3, <5>1
        <5>3. log[P].term = m.prev_log_term
          BY <4>3 DEF PrevOk
        <5> QED BY <4>3, <5>2, <5>3 DEF TermAt
      <4> QED BY <4>1, <4>2, <4>3
    <3> QED BY <3>1, <3>2, <3>3 DEF AppendLinks
  <2> QED BY <1>1, <1>3, <2>1, <2>2
<1> QED BY <1>3, <1>4 DEF LogLinks, new, cut

(* A leader sends links of its own log.                                    *)
LEMMA RequestLinks ==
    ASSUME NEW n \in Nodes, NEW s, NodeOK(s), s.peers = Nodes \ {n},
           NEW m \in AppendRequests(n, s)
    PROVE  /\ m.type = "append_entries" /\ m.from = n /\ m.term = s.current_term
           /\ RequestOK(m)
           /\ AppendLinks(m) \subseteq LogLinks(s.log)
<1> DEFINE log == s.log
           N == Len(log)
<1>1. PICK p \in Reachable(s) :
        m = LET next == MapGet(s.next_index, p, 1) IN
            [type |-> "append_entries", from |-> n, to |-> p, term |-> s.current_term,
             prev_log_index |-> next - 1, prev_log_term |-> TermAt(s.log, next - 1),
             entries |-> SubSeq(s.log, next, Len(s.log)),
             leader_commit |-> s.commit_index]
  BY DEF AppendRequests
<1> DEFINE next == MapGet(s.next_index, p, 1)
           es == SubSeq(log, next, N)
<1>2. /\ m.type = "append_entries" /\ m.from = n /\ m.to = p /\ m.term = s.current_term
      /\ m.prev_log_index = next - 1 /\ m.prev_log_term = TermAt(log, next - 1)
      /\ m.entries = es
  BY <1>1
<1>3. next \in Nat \ {0} /\ p # n
  BY DEF MapGet, NodeOK, Reachable
<1>4. N \in Nat /\ DOMAIN log = 1 .. N /\ log \in Seq(EntryType)
  BY DEF NodeOK
<1> HIDE DEF next
<1>5. /\ es \in Seq(EntryType)
      /\ \A k \in DOMAIN es : /\ k \in Nat /\ k >= 1 /\ next + k - 1 <= N
                              /\ es[k] = log[next + k - 1]
  <2>1. CASE next <= N + 1
    BY <1>3, <1>4, <2>1, SubSeqProperties
  <2>2. CASE next > N + 1
    BY <1>3, <1>4, <2>2, SubSeqProperties
  <2> QED BY <1>3, <1>4, <2>1, <2>2, SMTT(30)
<1> HIDE DEF es, N, log
<1>6. RequestOK(m)
  <2>1. next - 1 = 0 => TermAt(log, next - 1) = 0
    BY <1>4 DEF TermAt
  <2> QED BY <1>2, <1>3, <1>5, <2>1 DEF RequestOK
<1>7. ASSUME NEW k \in DOMAIN es
      PROVE  [at    |-> m.prev_log_index + k,
              prev  |-> IF k = 1 THEN m.prev_log_term ELSE es[k - 1].term,
              entry |-> es[k]] \in LogLinks(log)
  <2> DEFINE i == next + k - 1
  <2>1. i \in DOMAIN log /\ es[k] = log[i] /\ m.prev_log_index + k = i
    BY <1>2, <1>3, <1>4, <1>5
  <2>2. TermAt(log, i - 1) = IF k = 1 THEN m.prev_log_term ELSE es[k - 1].term
    <3>1. CASE k = 1
      <4>1. i - 1 = next - 1
        BY <1>3, <3>1
      <4> QED BY <1>2, <3>1, <4>1
    <3>2. CASE k # 1
      <4>1. k \in 1 .. Len(es) /\ DOMAIN es = 1 .. Len(es) /\ Len(es) \in Nat
        BY <1>5
      <4>2. k - 1 \in DOMAIN es
        BY <3>2, <4>1
      <4>3. i - 1 \in DOMAIN log /\ es[k - 1] = log[i - 1]
        BY <1>3, <1>4, <1>5, <4>1, <4>2
      <4> QED BY <3>2, <4>3 DEF TermAt
    <3> QED BY <3>1, <3>2
  <2> HIDE DEF i
  <2> QED BY <2>1, <2>2 DEF LogLinks
<1> QED BY <1>2, <1>6, <1>7 DEF AppendLinks, log

-----------------------------------------------------------------------------
LogInv == LogTypes /\ LeaderInv /\ LinkInv

(* Node n's state becomes t, the others keep theirs.                       *)
After(n, t) == node'[n] = t /\ \A p \in Nodes \ {n} : node'[p] = node[p]

(* The three things a callback does to the role of its node n, whose state *)
(* becomes t: it stays what it was, it leaves for a higher term, or it     *)
(* wins the election of its term.                                          *)
Stay(n, t) ==
    /\ elections' = elections
    /\ t.current_term = node[n].current_term
    /\ t.role = node[n].role
    /\ ElectionSafety /\ t.role = "leader" => Len(node[n].log) <= Len(t.log)

Leave(n, t) ==
    /\ elections' = elections
    /\ t.current_term > node[n].current_term
    /\ t.role # "leader"

Win(n, t) ==
    /\ \E e : elections' = elections \cup {e} /\ e.leader = n /\ e.term = t.current_term
    /\ t.role = "leader"
    /\ \/ t.current_term > node[n].current_term
       \/ t.current_term = node[n].current_term /\ node[n].role # "leader"

RoleStep(n, t) == Stay(n, t) \/ Leave(n, t) \/ Win(n, t)

(* A message in flight was there before, or it continues the log of t, or  *)
(* it carries no entries.                                                  *)
MessageStep(t) ==
    \A m \in DOMAIN network' :
        \/ m \in DOMAIN network
        \/ /\ m.type = "append_entries" /\ RequestOK(m)
           /\ \E e \in elections' : e.leader = m.from /\ e.term = m.term
           /\ AppendLinks(m) \subseteq LogLinks(t.log)
        \/ /\ m.type # "append_entries"
           /\ m.type = "append_entries_response" => m.match_index \in Nat

(* The step's new links: at most one, at the end of a leader's log.        *)
NewLinks(n, t, X) ==
    /\ \A a \in LogLinks(t.log) : a \in Links \/ a \in X
    /\ \A a, b \in X : a = b
    /\ \A a \in X : /\ t.role = "leader" /\ a.entry.term = t.current_term
                    /\ a.at \in Nat /\ a.at > Len(node[n].log) /\ a.at <= Len(t.log)

(* An update of one node.                                                  *)
LEMMA AfterUpdate ==
    ASSUME VoteInv, NEW n \in Nodes, NEW t, node' = [node EXCEPT ![n] = t]
    PROVE  After(n, t)
  BY DEF VoteInv, After

(* Elections are never forgotten.                                          *)
LEMMA RoleStepElections ==
    ASSUME NEW n, NEW t, RoleStep(n, t)
    PROVE  elections \subseteq elections'
  BY DEF RoleStep, Stay, Leave, Win

(* Who leads has won, and who has won leads, through any such step.        *)
LEMMA LeaderStep ==
    ASSUME VoteInv, LeaderInv, NEW n \in Nodes, NEW t, After(n, t),
           t.current_term \in Nat, RoleStep(n, t)
    PROVE  LeaderInv'
<1> DEFINE s == node[n]
<1>1. /\ DOMAIN node = Nodes /\ s.current_term \in Nat
      /\ \A p \in Nodes : node[p].current_term \in Nat
  BY DEF VoteInv, Stored
<1>2. node'[n] = t /\ \A p \in Nodes \ {n} : node'[p] = node[p]
  BY DEF After
<1>3. elections \subseteq elections'
  BY RoleStepElections
<1>4. \A p, x : Elected(p, x) => Elected(p, x)'
  BY <1>3 DEF Elected
<1>5. ASSUME NEW p \in Nodes, node'[p].role = "leader"
      PROVE  Elected(p, node[p].current_term)'
  <2>1. CASE p # n
    BY <1>2, <1>4, <1>5, <2>1 DEF LeaderInv
  <2>2. CASE p = n /\ Win(n, t)
    <3>1. Elected(n, t.current_term)'
      BY <2>2 DEF Win, Elected
    <3> QED BY <1>2, <2>2, <3>1
  <2>3. CASE p = n /\ Stay(n, t)
    <3>1. s.role = "leader" /\ t.current_term = s.current_term
      BY <1>2, <1>5, <2>3 DEF Stay
    <3>2. Elected(n, s.current_term)
      BY <3>1 DEF LeaderInv
    <3> QED BY <1>2, <1>4, <2>3, <3>1, <3>2
  <2> QED BY <1>2, <1>5, <2>1, <2>2, <2>3 DEF RoleStep, Leave
<1>6. ASSUME NEW e \in elections'
      PROVE  /\ e.leader \in Nodes /\ e.term \in Nat
             /\ e.term <= node'[e.leader].current_term
             /\ e.term = node'[e.leader].current_term => node'[e.leader].role = "leader"
  <2>1. CASE e \in elections
    <3>1. /\ e.leader \in Nodes /\ e.term \in Nat
          /\ e.term <= node[e.leader].current_term
          /\ e.term = node[e.leader].current_term => node[e.leader].role = "leader"
      BY <2>1 DEF LeaderInv
    <3>2. CASE e.leader # n
      BY <1>2, <3>1, <3>2
    <3>3. CASE e.leader = n
      <4>1. CASE Stay(n, t)
        BY <1>1, <1>2, <3>1, <3>3, <4>1 DEF Stay
      <4>2. CASE Leave(n, t)
        BY <1>1, <1>2, <3>1, <3>3, <4>2 DEF Leave
      <4>3. CASE Win(n, t)
        BY <1>1, <1>2, <3>1, <3>3, <4>3 DEF Win
      <4> QED BY <4>1, <4>2, <4>3 DEF RoleStep
    <3> QED BY <3>2, <3>3
  <2>2. CASE e \notin elections
    <3>1. Win(n, t)
      BY <1>6, <2>2 DEF RoleStep, Stay, Leave
    <3>2. e.leader = n /\ e.term = t.current_term /\ t.role = "leader"
      BY <1>6, <2>2, <3>1 DEF Win
    <3> QED BY <1>2, <3>2
  <2> QED BY <2>1, <2>2
<1>7. \A p \in Nodes : (node[p].role = "leader" => Elected(p, node[p].current_term))'
  BY <1>5
<1> QED BY <1>6, <1>7 DEF LeaderInv

(* Types of logs and messages.                                             *)
LEMMA TypesStep ==
    ASSUME VoteInv, LogTypes, NEW n \in Nodes, NEW t, After(n, t),
           NodeOK(t), MessageStep(t), elections \subseteq elections', crashes' = crashes
    PROVE  LogTypes'
<1>1. node'[n] = t /\ \A p \in Nodes \ {n} : node'[p] = node[p]
  BY DEF After
<1>2. \A p \in Nodes : NodeOK(node'[p])
  BY <1>1 DEF LogTypes
<1>3. ASSUME NEW m \in DOMAIN network'
      PROVE  /\ m.type = "append_entries" => RequestOK(m) /\ Elected(m.from, m.term)'
             /\ m.type = "append_entries_response" => m.match_index \in Nat
  <2>1. CASE m \in DOMAIN network
    BY <2>1 DEF LogTypes, Elected
  <2>2. CASE m \notin DOMAIN network
    BY <1>3, <2>2 DEF MessageStep, Elected
  <2> QED BY <2>1, <2>2
<1> QED BY <1>2, <1>3 DEF LogTypes, NodeOK, RequestOK

(* The links after the step.                                               *)
LEMMA LinksAfter ==
    ASSUME VoteInv, NEW n \in Nodes, NEW t, NEW X, After(n, t),
           MessageStep(t), NewLinks(n, t, X), NEW a \in Links'
    PROVE  a \in Links \/ a \in X
<1>1. node'[n] = t /\ \A p \in Nodes \ {n} : node'[p] = node[p]
  BY DEF After
<1>2. ASSUME a \in LogLinks(t.log) PROVE a \in Links \/ a \in X
  BY <1>2 DEF NewLinks
<1>3. CASE a \in InLogs'
  <2>1. PICK p \in Nodes : a \in LogLinks(node'[p].log)
    BY <1>3 DEF InLogs
  <2>2. CASE p = n
    BY <1>1, <1>2, <2>1, <2>2
  <2>3. CASE p # n
    BY <1>1, <2>1, <2>3 DEF Links, InLogs
  <2> QED BY <2>2, <2>3
<1>4. CASE a \in InFlight'
  <2>1. PICK m \in DOMAIN network' : m.type = "append_entries" /\ a \in AppendLinks(m)
    BY <1>4 DEF InFlight, Appends
  <2>2. CASE m \in DOMAIN network
    <3>1. m \in Appends(DOMAIN network)
      BY <2>1, <2>2 DEF Appends
    <3> QED BY <2>1, <3>1 DEF Links, InFlight
  <2>3. CASE m \notin DOMAIN network
    <3>1. AppendLinks(m) \subseteq LogLinks(t.log)
      BY <2>1, <2>3 DEF MessageStep
    <3> QED BY <1>2, <2>1, <3>1
  <2> QED BY <2>2, <2>3
<1> QED BY <1>3, <1>4 DEF Links


(* Places are numbers.                                                     *)
LEMMA LinkPlaces ==
    ASSUME LogTypes
    PROVE  \A a \in Links : a.at \in Nat
<1>1. ASSUME NEW n \in Nodes, NEW a \in LogLinks(node[n].log) PROVE a.at \in Nat
  <2>1. DOMAIN node[n].log \subseteq Nat
    BY DEF LogTypes, NodeOK
  <2> QED BY <2>1 DEF LogLinks
<1>2. ASSUME NEW m \in DOMAIN network, m.type = "append_entries", NEW a \in AppendLinks(m)
      PROVE  a.at \in Nat
  <2>1. RequestOK(m)
    BY <1>2 DEF LogTypes
  <2>2. m.prev_log_index \in Nat /\ DOMAIN m.entries \subseteq Nat
    BY <2>1 DEF RequestOK
  <2> QED BY <2>2 DEF AppendLinks
<1> QED BY <1>1, <1>2 DEF Links, InLogs, InFlight, Appends

(* A node that wins a term in a cluster with one winner in every term      *)
(* finds no link of that term.                                             *)
LEMMA WinFindsNone ==
    ASSUME VoteInv, LeaderInv, LinkInv, NEW n \in Nodes, NEW t, Win(n, t),
           ElectionSafety, ElectionSafety', NEW a \in Links
    PROVE  a.entry.term # t.current_term
<1> SUFFICES ASSUME a.entry.term = t.current_term PROVE FALSE
  OBVIOUS
<1>1. PICK e \in elections : e.term = t.current_term
  BY DEF LinkInv, LinksElected
<1>2. PICK f \in elections' : f.leader = n /\ f.term = t.current_term
  BY DEF Win
<1>3. e \in elections'
  BY DEF Win
<1>4. e.leader = n
  BY <1>1, <1>2, <1>3 DEF ElectionSafety
<1>5. /\ e.term \in Nat /\ e.term <= node[n].current_term
      /\ e.term = node[n].current_term => node[n].role = "leader"
  BY <1>4 DEF LeaderInv
<1>6. node[n].current_term \in Nat
  BY DEF VoteInv, Stored
<1> QED BY <1>1, <1>5, <1>6 DEF Win

(* The link invariant.  In the interesting case n leads and adds a link:   *)
(* no link of its term lies beyond the end of its old log.                 *)
LEMMA LinkStep ==
    ASSUME VoteInv, LogTypes, LeaderInv, LinkInv, NEW n \in Nodes, NEW t, NEW X,
           After(n, t), t.current_term \in Nat, NodeOK(t),
           RoleStep(n, t), MessageStep(t), NewLinks(n, t, X), LeaderInv'
    PROVE  LinkInv'
<1> SUFFICES ASSUME ElectionSafety'
             PROVE  LinksUnique' /\ LinksElected' /\ LinksLed'
  BY DEF LinkInv
<1> DEFINE s == node[n]
<1>1. node'[n] = t /\ \A p \in Nodes \ {n} : node'[p] = node[p]
  BY DEF After
<1>2. elections \subseteq elections'
  BY RoleStepElections
<1>3. ElectionSafety
  BY <1>2 DEF ElectionSafety
<1>4. LinksUnique /\ LinksElected /\ LinksLed
  BY <1>3 DEF LinkInv
<1>5. \A a \in Links' : a \in Links \/ a \in X
  BY LinksAfter
<1>6. Len(s.log) \in Nat /\ Len(t.log) \in Nat
  BY DEF LogTypes, NodeOK
<1>7. ASSUME NEW a \in Links, t.role = "leader", a.entry.term = t.current_term
      PROVE  a.at <= Len(s.log) /\ Len(s.log) <= Len(t.log)
  <2>1. Stay(n, t)
    BY <1>3, <1>7, WinFindsNone DEF RoleStep, Leave
  <2>2. /\ s.role = "leader" /\ s.current_term = a.entry.term
        /\ Len(s.log) <= Len(t.log)
    BY <1>3, <1>7, <2>1 DEF Stay
  <2> QED BY <1>4, <2>2 DEF LinksLed
<1>8. ASSUME NEW a \in X
      PROVE  /\ t.role = "leader" /\ a.entry.term = t.current_term
             /\ a.at \in Nat /\ a.at > Len(s.log) /\ a.at <= Len(t.log)
  BY DEF NewLinks
<1>9. \A a \in X, b \in X : a = b
  BY DEF NewLinks
<1>10. Elected(n, t.current_term)' \/ t.role # "leader"
  BY <1>1 DEF LeaderInv
<1>11. \A a \in Links : a.at \in Nat
  BY LinkPlaces
<1>12. ASSUME NEW a \in Links', NEW b \in Links' PROVE SameLink(a, b)
  <2>1. CASE a \in Links /\ b \in Links
    BY <1>4, <2>1 DEF LinksUnique
  <2>2. CASE a \in X /\ b \in X
    BY <1>9, <2>2 DEF SameLink
  <2>3. CASE a \in Links /\ b \in X
    BY <1>6, <1>11, <1>7, <1>8, <2>3 DEF SameLink
  <2>4. CASE a \in X /\ b \in Links
    BY <1>6, <1>11, <1>7, <1>8, <2>4 DEF SameLink
  <2> QED BY <1>5, <2>1, <2>2, <2>3, <2>4
<1>13. ASSUME NEW a \in Links' PROVE \E e \in elections' : e.term = a.entry.term
  <2>1. CASE a \in Links
    BY <1>2, <1>4, <2>1 DEF LinksElected
  <2>2. CASE a \in X
    BY <1>8, <1>10, <2>2 DEF Elected
  <2> QED BY <1>5, <2>1, <2>2
<1>14. ASSUME NEW a \in Links', NEW p \in Nodes,
              node'[p].role = "leader", node'[p].current_term = a.entry.term
       PROVE  a.at <= Len(node'[p].log)
  <2>1. CASE p # n /\ a \in Links
    BY <1>1, <1>4, <1>14, <2>1 DEF LinksLed
  <2>2. CASE p # n /\ a \in X
    <3>1. Elected(n, t.current_term)' /\ Elected(p, t.current_term)'
      BY <1>1, <1>8, <1>10, <1>14, <2>2 DEF LeaderInv
    <3>2. p = n
      BY <3>1 DEF Elected, ElectionSafety
    <3> QED BY <2>2, <3>2
  <2>3. CASE p = n /\ a \in Links
    <3>1. t.role = "leader" /\ a.entry.term = t.current_term
      BY <1>1, <1>14, <2>3
    <3>2. a.at <= Len(s.log) /\ Len(s.log) <= Len(t.log)
      BY <1>7, <2>3, <3>1
    <3>3. a.at <= Len(t.log)
      BY <1>6, <1>11, <2>3, <3>2
    <3> QED BY <1>1, <2>3, <3>3
  <2>4. CASE p = n /\ a \in X
    BY <1>1, <1>8, <2>4
  <2> QED BY <1>5, <2>1, <2>2, <2>3, <2>4
<1>15. LinksUnique'
  BY <1>12 DEF LinksUnique, SameLink
<1>16. LinksElected'
  BY <1>13 DEF LinksElected
<1>17. LinksLed'
  BY <1>14 DEF LinksLed
<1> QED BY <1>15, <1>16, <1>17

-----------------------------------------------------------------------------
(* The three parts together, for a step of one node ...                    *)
LEMMA LogStep ==
    ASSUME VoteInv, LogInv, NEW n \in Nodes, NEW t, NEW X,
           After(n, t), t.current_term \in Nat, NodeOK(t),
           RoleStep(n, t), MessageStep(t), NewLinks(n, t, X), crashes' = crashes
    PROVE  LogInv'
<1>1. LogTypes /\ LeaderInv /\ LinkInv
  BY DEF LogInv
<1>2. LeaderInv'
  BY <1>1, LeaderStep
<1>3. LogTypes'
  BY <1>1, TypesStep, RoleStepElections
<1>4. LinkInv'
  BY <1>1, <1>2, LinkStep
<1> QED BY <1>2, <1>3, <1>4 DEF LogInv

(* ... that makes no new link ...                                          *)
LEMMA OldLinksStep ==
    ASSUME VoteInv, LogInv, NEW n \in Nodes, NEW t,
           After(n, t), t.current_term \in Nat, NodeOK(t),
           RoleStep(n, t), MessageStep(t), LogLinks(t.log) \subseteq Links, crashes' = crashes
    PROVE  LogInv'
<1> DEFINE X == {}
<1>1. NewLinks(n, t, X)
  BY DEF NewLinks
<1> HIDE DEF X
<1> QED BY <1>1, LogStep

(* ... or that leaves the log alone ...                                    *)
LEMMA SameLogStep ==
    ASSUME VoteInv, LogInv, NEW n \in Nodes, NEW t,
           After(n, t), t.current_term \in Nat, NodeOK(t),
           t.log = node[n].log,
           RoleStep(n, t), MessageStep(t), crashes' = crashes
    PROVE  LogInv'
<1>1. LogLinks(t.log) \subseteq Links
  BY DEF Links, InLogs
<1> QED BY <1>1, OldLinksStep

(* ... or that leaves the node alone ...                                   *)
LEMMA SameNodeStep ==
    ASSUME VoteInv, LogInv, NEW n \in Nodes, node' = node, elections' = elections,
           MessageStep(node[n]), crashes' = crashes
    PROVE  LogInv'
<1> DEFINE t == node[n]
<1>1. After(n, t) /\ t.current_term \in Nat
  BY DEF After, VoteInv, Stored
<1>2. NodeOK(t) /\ Len(t.log) \in Nat
  BY DEF LogInv, LogTypes, NodeOK
<1>3. RoleStep(n, t)
  BY <1>2 DEF RoleStep, Stay
<1> HIDE DEF t
<1> QED BY <1>1, <1>2, <1>3, SameLogStep DEF t

(* ... or that lets a leader append a command to its log.                  *)
LEMMA LeaderAppendStep ==
    ASSUME VoteInv, LogInv, NEW n \in Nodes, NEW t, NEW c \in Commands \cup {NoOp},
           After(n, t), t.current_term \in Nat, t.role = "leader",
           t.log = Append(node[n].log, Entry(t.current_term, Len(node[n].log) + 1, c)),
           NodeOK(t), RoleStep(n, t), MessageStep(t), crashes' = crashes
    PROVE  LogInv'
<1> DEFINE log == node[n].log
           e == Entry(t.current_term, Len(log) + 1, c)
           a == [at |-> Len(log) + 1, prev |-> TermAt(log, Len(log)), entry |-> e]
           X == {a}
<1>1. log \in Seq(EntryType) /\ Len(log) \in Nat
  BY DEF LogInv, LogTypes, NodeOK
<1>2. e \in EntryType /\ e.term = t.current_term
  BY <1>1 DEF Entry, EntryType
<1>3. Len(t.log) = Len(log) + 1 /\ \A b \in LogLinks(t.log) : b \in LogLinks(log) \/ b = a
  BY <1>1, <1>2, AppendedLinks
<1>4. LogLinks(log) \subseteq Links
  BY DEF Links, InLogs
<1>5. a.at = Len(log) + 1 /\ a.entry = e
  OBVIOUS
<1>6. /\ a.entry.term = t.current_term /\ a.at \in Nat
      /\ a.at > Len(log) /\ a.at <= Len(t.log)
  BY <1>1, <1>2, <1>3, <1>5
<1> HIDE DEF a
<1>7. NewLinks(n, t, X)
  BY <1>3, <1>4, <1>6 DEF NewLinks
<1> HIDE DEF X
<1> QED BY <1>7, LogStep
-----------------------------------------------------------------------------
(* Messages.                                                               *)
LEMMA SendMessages ==
    ASSUME NEW base, NEW msgs, NEW t, Send(base, msgs),
           DOMAIN base \subseteq DOMAIN network,
           \A m \in msgs :
             \/ /\ m.type = "append_entries" /\ RequestOK(m)
                /\ \E e \in elections' : e.leader = m.from /\ e.term = m.term
                /\ AppendLinks(m) \subseteq LogLinks(t.log)
             \/ /\ m.type # "append_entries"
                /\ m.type = "append_entries_response" => m.match_index \in Nat
    PROVE  MessageStep(t)
<1>1. PICK sent \in SUBSET msgs : network' = base (+) SetToBag(sent)
  BY DEF Send
<1>2. DOMAIN (base (+) SetToBag(sent)) = DOMAIN base \cup sent
  BY DEF (+), SetToBag
<1>3. \A m \in DOMAIN network' : m \in DOMAIN network \/ m \in msgs
  BY <1>1, <1>2
<1> QED BY <1>3 DEF MessageStep

(* A step that only takes a message away.                                  *)
LEMMA ReceiveMessages ==
    ASSUME NEW m
    PROVE  /\ DOMAIN Received(m) \subseteq DOMAIN network
           /\ network' = Received(m) => \A t : MessageStep(t)
<1>1. DOMAIN Received(m) \subseteq DOMAIN network
  BY DEF Received, (-)
<1> QED BY <1>1 DEF MessageStep

(* Requests of a leader.                                                   *)
LEMMA LeaderSends ==
    ASSUME NEW n \in Nodes, NEW base, NEW msgs, NEW s, NEW t,
           Send(base, msgs), DOMAIN base \subseteq DOMAIN network,
           \A m \in msgs : m \in AppendRequests(n, s) \/ m.type = "request_vote",
           NodeOK(s), s.peers = Nodes \ {n}, s.log = t.log,
           \E e \in elections' : e.leader = n /\ e.term = s.current_term
    PROVE  MessageStep(t)
<1>1. ASSUME NEW m \in AppendRequests(n, s)
      PROVE  /\ m.type = "append_entries" /\ RequestOK(m)
             /\ m.from = n /\ m.term = s.current_term
             /\ AppendLinks(m) \subseteq LogLinks(t.log)
  BY RequestLinks
<1>2. \A m \in msgs :
        \/ /\ m.type = "append_entries" /\ RequestOK(m)
           /\ \E e \in elections' : e.leader = m.from /\ e.term = m.term
           /\ AppendLinks(m) \subseteq LogLinks(t.log)
        \/ /\ m.type # "append_entries"
           /\ m.type = "append_entries_response" => m.match_index \in Nat
  BY <1>1
<1> QED BY <1>2, SendMessages

-----------------------------------------------------------------------------
(* One lemma per callback.  An election, won or not.                       *)
LEMMA ElectLogStep ==
    ASSUME VoteInv, LogInv, FullCluster, NEW n \in Nodes, NEW s, Shape(s),
           s.role = "candidate", s.current_term \in Nat, s.log = node[n].log,
           s.next_index = node[n].next_index, s.peers = node[n].peers,
           \/ s.current_term > node[n].current_term
           \/ s.current_term = node[n].current_term /\ node[n].role = "candidate",
           Elect(n, s), crashes' = crashes,
           NEW base, NEW msgs, Send(base, msgs), DOMAIN base \subseteq DOMAIN network,
           \A m \in msgs : m \in FirstAppends(n, s) \/ m.type = "request_vote"
    PROVE  LogInv'
<1> DEFINE t == AfterVote(n, s)
<1>1. /\ node' = [node EXCEPT ![n] = t]
      /\ elections' = elections \cup WonElection(n, s, t)
  BY DEF Elect
<1>2. After(n, t)
  BY <1>1, AfterUpdate
<1>3. NodeOK(s) /\ s.log \in Seq(EntryType) /\ Len(s.log) \in Nat
  BY DEF LogInv, LogTypes, NodeOK
<1>4. s.peers = Nodes \ {n}
  BY DEF FullCluster
<1>5. CASE t = s
  <2>1. elections' = elections
    BY <1>1, <1>5 DEF WonElection
  <2>2. FirstAppends(n, s) = {}
    BY <1>5 DEF FirstAppends
  <2>3. MessageStep(s)
    BY <2>2, SendMessages
  <2>4. RoleStep(n, s)
    BY <2>1 DEF RoleStep, Stay, Leave
  <2> QED BY <1>2, <1>3, <1>5, <2>3, <2>4, SameLogStep
<1>6. CASE t = BecomeLeader(n, s)
  <2>1. /\ Shape(t) /\ t.role = "leader" /\ t.current_term = s.current_term
        /\ t.log = Append(s.log, Entry(s.current_term, Len(s.log) + 1, NoOp))
        /\ t.next_index = [p \in s.peers |-> Len(s.log) + 1]
        /\ t.peers = s.peers
    BY <1>6, BecomeLeaderEffect
  <2>2. FirstAppends(n, s) = AppendRequests(n, t)
    BY <2>1 DEF FirstAppends
  <2>3. WonElection(n, s, t) =
          {[term |-> t.current_term, leader |-> n, votes |-> t.votes_received]}
    BY <2>1 DEF WonElection
  <2> HIDE DEF t
  <2>4. Win(n, t)
    <3> DEFINE e == [term |-> t.current_term, leader |-> n, votes |-> t.votes_received]
    <3>1. elections' = elections \cup {e} /\ e.leader = n /\ e.term = t.current_term
      BY <1>1, <2>3
    <3> HIDE DEF e
    <3>2. \E f : elections' = elections \cup {f} /\ f.leader = n /\ f.term = t.current_term
      BY <3>1
    <3>3. node[n].role = "candidate" => node[n].role # "leader"
      OBVIOUS
    <3> QED BY <2>1, <3>2, <3>3 DEF Win
  <2>5. \E e \in elections' : e.leader = n /\ e.term = t.current_term
    BY <2>4 DEF Win
  <2>6. NodeOK(t)
    <3>1. Entry(s.current_term, Len(s.log) + 1, NoOp) \in EntryType
      BY <1>3 DEF Entry, EntryType
    <3>2. t.log \in Seq(EntryType)
      BY <1>3, <2>1, <3>1, AppendedLinks
    <3> QED BY <1>3, <2>1, <3>2 DEF NodeOK
  <2>7. MessageStep(t)
    BY <1>4, <2>1, <2>2, <2>5, <2>6, LeaderSends
  <2> QED BY <1>2, <2>1, <2>4, <2>6, <2>7, LeaderAppendStep DEF RoleStep
<1> QED BY <1>5, <1>6 DEF AfterVote

(* The election timeout.                                                   *)
LEMMA ElectionTimeoutLog ==
    ASSUME VoteInv, LogInv, FullCluster, NEW n \in Nodes, ElectionTimeout(n)
    PROVE  LogInv'
<1> DEFINE r == node[n]
           s == Candidacy(n)
           term == r.current_term + 1
           d == PersistState(r.disk, term, n)
<1>1. Stored(r)
  BY DEF VoteInv
<1>2. s = [r EXCEPT !.role = "candidate", !.current_term = term,
                    !.voted_for = n, !.votes_received = {n}, !.disk = d]
  BY DEF Candidacy
<1>3. /\ Elect(n, s) /\ crashes' = crashes
      /\ Send(network, VoteRequests(n, s) \cup FirstAppends(n, s))
  BY DEF ElectionTimeout
<1>4. DOMAIN d = Files /\ term \in Nat /\ term > r.current_term
  BY <1>1 DEF PersistState, Stored, Shape, Files
<1> HIDE DEF s, d, r, term
<1>5. /\ Shape(s) /\ s.role = "candidate" /\ s.current_term = term /\ s.log = r.log
      /\ s.next_index = r.next_index /\ s.peers = r.peers
  BY <1>1, <1>2, <1>4 DEF Stored, Shape, Fields
<1>6. \A m \in VoteRequests(n, s) : m.type = "request_vote"
  BY DEF VoteRequests
<1>7. \A m \in VoteRequests(n, s) \cup FirstAppends(n, s) :
        m \in FirstAppends(n, s) \/ m.type = "request_vote"
  BY <1>6
<1> QED BY <1>3, <1>4, <1>5, <1>7, ElectLogStep DEF r

(* A vote, counted or not.                                                 *)
LEMMA HandleVoteResponseLog ==
    ASSUME VoteInv, LogInv, FullCluster, NEW m \in DOMAIN network, HandleVoteResponse(m)
    PROVE  LogInv'
<1> DEFINE n == m.to
           r == node[n]
           vs == r.votes_received \cup {m.from}
           s == [r EXCEPT !.votes_received = vs]
<1>1. n \in Nodes /\ Stored(r) /\ m.term \in Nat /\ NodeOK(r)
  BY DEF VoteInv, Addressed, LogInv, LogTypes
<1>2. crashes' = crashes
  BY DEF HandleVoteResponse
<1>3. \/ /\ m.term > r.current_term /\ network' = Received(m) /\ elections' = elections
         /\ node' = [node EXCEPT ![n] = StepDown(r, m.term)]
      \/ r.role = "candidate" /\ Elect(n, s) /\ Send(Received(m), FirstAppends(n, s))
      \/ node' = node /\ elections' = elections /\ network' = Received(m)
  BY DEF HandleVoteResponse
<1>4. CASE /\ m.term > r.current_term /\ network' = Received(m) /\ elections' = elections
           /\ node' = [node EXCEPT ![n] = StepDown(r, m.term)]
  <2> DEFINE t == StepDown(r, m.term)
  <2>1. /\ t.role = "follower" /\ t.current_term = m.term
        /\ t.log = r.log /\ t.next_index = r.next_index
    BY <1>1, StepDownEffect DEF Stored
  <2>2. After(n, t) /\ MessageStep(t)
    BY <1>1, <1>4, AfterUpdate, ReceiveMessages
  <2> HIDE DEF t
  <2>3. RoleStep(n, t)
    BY <1>4, <2>1 DEF RoleStep, Leave
  <2>4. NodeOK(t)
    BY <1>1, <2>1 DEF NodeOK
  <2> QED BY <1>1, <1>2, <2>1, <2>2, <2>3, <2>4, SameLogStep
<1>5. CASE r.role = "candidate" /\ Elect(n, s) /\ Send(Received(m), FirstAppends(n, s))
  <2> HIDE DEF vs
  <2>1. /\ Shape(s) /\ s.role = r.role /\ s.current_term = r.current_term
        /\ s.log = r.log /\ s.next_index = r.next_index /\ s.peers = r.peers
    BY <1>1 DEF Stored, Shape, Fields
  <2>2. r.current_term \in Nat
    BY <1>1 DEF Stored
  <2>3. DOMAIN Received(m) \subseteq DOMAIN network
    BY ReceiveMessages
  <2> HIDE DEF s
  <2> QED BY <1>1, <1>2, <1>5, <2>1, <2>2, <2>3, ElectLogStep
<1>6. CASE node' = node /\ elections' = elections /\ network' = Received(m)
  BY <1>1, <1>2, <1>6, ReceiveMessages, SameNodeStep
<1> QED BY <1>3, <1>4, <1>5, <1>6

(* A client's command.                                                     *)
LEMMA ProposeLog ==
    ASSUME VoteInv, LogInv, FullCluster, NEW n \in Nodes, NEW c \in Commands, Propose(n, c)
    PROVE  LogInv'
<1> DEFINE s == node[n]
           a == AppendOwn(s, c)
           x == a.pending \cup {[index |-> Len(s.log) + 1, command |-> c,
                                 term |-> s.current_term]}
           t == [a EXCEPT !.pending = x]
           w == ReplyToPending(ApplyCommitted(n, MaybeAdvanceCommit(n, t)))
<1>1. Stored(s) /\ NodeOK(s) /\ s.peers = Nodes \ {n}
  BY DEF VoteInv, LogInv, LogTypes, FullCluster
<1>2. /\ s.role = "leader" /\ node' = [node EXCEPT ![n] = w]
      /\ elections' = elections /\ crashes' = crashes
      /\ Send(network, AppendRequests(n, t))
  BY DEF Propose
<1>3. /\ Shape(a) /\ a.role = s.role /\ a.current_term = s.current_term
      /\ a.next_index = s.next_index /\ a.peers = s.peers
      /\ a.log = Append(s.log, Entry(s.current_term, Len(s.log) + 1, c))
  BY <1>1, AppendOwnEffect DEF Stored
<1> HIDE DEF a, x
<1>4. Frame(a, t) /\ t.peers = a.peers
  BY <1>3 DEF Frame, Shape, Fields
<1> HIDE DEF t
<1>5. Frame(t, w)
  BY <1>4, AdvanceFrame DEF Frame
<1>6. After(n, w)
  BY <1>2, AfterUpdate
<1> HIDE DEF w
<1>7. /\ w.role = "leader" /\ w.current_term = s.current_term /\ w.current_term \in Nat
      /\ w.next_index = s.next_index /\ t.next_index = s.next_index /\ w.log = t.log
      /\ t.peers = s.peers /\ t.current_term = s.current_term
      /\ w.log = Append(s.log, Entry(w.current_term, Len(s.log) + 1, c))
  BY <1>1, <1>2, <1>3, <1>4, <1>5 DEF Frame, Stored
<1>8. w.log \in Seq(EntryType) /\ Len(w.log) = Len(s.log) + 1 /\ Len(s.log) \in Nat
  <2>1. s.log \in Seq(EntryType) /\ Len(s.log) \in Nat
    BY <1>1 DEF NodeOK
  <2>2. Entry(w.current_term, Len(s.log) + 1, c) \in EntryType
    BY <1>7, <2>1 DEF Entry, EntryType
  <2> QED BY <1>7, <2>1, <2>2, AppendedLinks
<1>9. NodeOK(w) /\ NodeOK(t)
  BY <1>1, <1>7, <1>8 DEF NodeOK
<1>10. RoleStep(n, w)
  BY <1>2, <1>7, <1>8 DEF RoleStep, Stay
<1>11. \E e \in elections' : e.leader = n /\ e.term = t.current_term
  BY <1>2, <1>7 DEF LogInv, LeaderInv, Elected
<1>12. MessageStep(w)
  BY <1>1, <1>2, <1>7, <1>9, <1>11, LeaderSends
<1> QED BY <1>2, <1>6, <1>7, <1>9, <1>10, <1>12, LeaderAppendStep

(* A heartbeat.                                                            *)
LEMMA HeartbeatLog ==
    ASSUME VoteInv, LogInv, FullCluster, NEW n \in Nodes, Heartbeat(n)
    PROVE  LogInv'
<1> DEFINE s == node[n]
<1>1. NodeOK(s) /\ s.peers = Nodes \ {n}
  BY DEF LogInv, LogTypes, FullCluster
<1>2. /\ s.role = "leader" /\ node' = node /\ elections' = elections /\ crashes' = crashes
      /\ Send(network, AppendRequests(n, s))
  BY DEF Heartbeat
<1>3. \E e \in elections' : e.leader = n /\ e.term = s.current_term
  BY <1>2 DEF LogInv, LeaderInv, Elected
<1>4. MessageStep(s)
  BY <1>1, <1>2, <1>3, LeaderSends
<1> QED BY <1>2, <1>4, SameNodeStep


(* handle_vote_request keeps the log, and the role unless the term rises.  *)
LEMMA HandleRequestVoteLog ==
    ASSUME VoteInv, LogInv, NEW m \in DOMAIN network, HandleRequestVote(m)
    PROVE  LogInv'
<1> DEFINE n == m.to
           s == node[n]
           o == ObserveTerm(s, m.term)
           t == Voted(s, m)
           d == PersistState(o.disk, o.current_term, m.from)
<1>1. n \in Nodes /\ Stored(s) /\ m.term \in Nat /\ NodeOK(s)
  BY DEF VoteInv, Addressed, LogInv, LogTypes
<1>2. /\ node' = [node EXCEPT ![n] = t] /\ elections' = elections /\ crashes' = crashes
      /\ Send(Received(m), {VoteResponse(m, t.current_term, GrantsVote(s, m))})
  BY DEF HandleRequestVote
<1>3. /\ Shape(o) /\ o.log = s.log /\ o.next_index = s.next_index
      /\ o.current_term \in Nat
      /\ \/ o.current_term = s.current_term /\ o.role = s.role
         \/ o.current_term > s.current_term /\ o.role = "follower"
  BY <1>1, StepDownEffect DEF ObserveTerm, Stored
<1>4. t = [o EXCEPT !.voted_for = m.from, !.disk = d] \/ t = o
  BY DEF Voted
<1>5. DOMAIN d = Files
  BY <1>3 DEF PersistState, Shape, Files
<1>6. After(n, t)
  BY <1>1, <1>2, AfterUpdate
<1>7. MessageStep(t)
  <2> DEFINE v == VoteResponse(m, t.current_term, GrantsVote(s, m))
  <2>1. v.type = "vote_response"
    BY DEF VoteResponse
  <2>2. \A x \in {v} : x.type # "append_entries" /\ x.type # "append_entries_response"
    BY <2>1
  <2> HIDE DEF t
  <2> QED BY <1>2, <2>2, ReceiveMessages, SendMessages
<1> HIDE DEF d, o, t
<1>8. /\ t.log = s.log /\ t.next_index = s.next_index
      /\ t.current_term = o.current_term /\ t.role = o.role
  BY <1>3, <1>4, <1>5 DEF Shape, Fields
<1>9. RoleStep(n, t)
  <2>1. Len(s.log) \in Nat
    BY <1>1 DEF NodeOK
  <2> QED BY <1>2, <1>3, <1>8, <2>1 DEF RoleStep, Stay, Leave
<1>10. NodeOK(t)
  BY <1>1, <1>8 DEF NodeOK
<1> QED BY <1>1, <1>2, <1>3, <1>6, <1>7, <1>8, <1>9, <1>10, SameLogStep

(* handle_append_entries_rpc: in a cluster with one winner in every term a *)
(* leader never takes entries in its own term.                             *)
LEMMA HandleAppendEntriesLog ==
    ASSUME VoteInv, LogInv, NEW m \in DOMAIN network, HandleAppendEntries(m)
    PROVE  LogInv'
<1> DEFINE n == m.to
           s == node[n]
           o == ObserveTerm(s, m.term)
           f == [o EXCEPT !.leader_id = m.from]
           t == Appended(n, f, m)
<1>1. n \in Nodes /\ Stored(s) /\ m.term \in Nat /\ NodeOK(s)
  BY DEF VoteInv, Addressed, LogInv, LogTypes
<1>2. /\ elections' = elections /\ crashes' = crashes
      /\ m.type = "append_entries"
  BY DEF HandleAppendEntries
<1>3. RequestOK(m) /\ Elected(m.from, m.term)
  BY <1>2 DEF LogInv, LogTypes
<1>4. \/ /\ node' = node
         /\ Send(Received(m), {AppendResponse(m, s.current_term, FALSE, 0)})
      \/ /\ node' = [node EXCEPT ![n] = t] /\ m.term >= s.current_term /\ PrevOk(f, m)
         /\ Send(Received(m), {AppendResponse(m, t.current_term, TRUE, Len(t.log))})
      \/ /\ node' = [node EXCEPT ![n] = f]
         /\ Send(Received(m), {AppendResponse(m, f.current_term, FALSE, 0)})
  BY DEF HandleAppendEntries
<1>5. /\ Shape(o) /\ o.log = s.log /\ o.next_index = s.next_index
      /\ o.current_term \in Nat
      /\ m.term >= s.current_term => o.current_term = m.term
      /\ \/ o.current_term = s.current_term /\ o.role = s.role
         \/ o.current_term > s.current_term /\ o.role = "follower"
  BY <1>1, StepDownEffect DEF ObserveTerm, Stored
<1> HIDE DEF o
<1>6. Frame(o, f)
  BY <1>5 DEF Frame, Shape, Fields
<1> HIDE DEF f
<1>7. /\ Shape(t) /\ t.role = f.role /\ t.current_term = f.current_term
      /\ t.next_index = f.next_index
      /\ t.log = SubSeq(f.log, 1, m.prev_log_index) \o m.entries
  <2>1. Shape(f)
    BY <1>6 DEF Frame
  <2>2. Spliced(f, t, m)
    BY <2>1, AppendedEffect
  <2> HIDE DEF t
  <2> QED BY <2>2 DEF Spliced
<1> HIDE DEF t
<1>8. ASSUME NEW u, NEW term, NEW ok, NEW i \in Nat,
             Send(Received(m), {AppendResponse(m, term, ok, i)})
      PROVE  MessageStep(u)
  <2> DEFINE v == AppendResponse(m, term, ok, i)
  <2>1. v.type = "append_entries_response" /\ v.match_index = i
    BY DEF AppendResponse
  <2>2. \A x \in {v} : x.type # "append_entries" /\ x.match_index \in Nat
    BY <2>1
  <2> QED BY <1>8, <2>2, ReceiveMessages, SendMessages
<1>9. Len(s.log) \in Nat /\ s.log \in Seq(EntryType)
  BY <1>1 DEF NodeOK
<1>10. CASE node' = node /\ Send(Received(m), {AppendResponse(m, s.current_term, FALSE, 0)})
  <2>1. MessageStep(s)
    BY <1>8, <1>10
  <2> QED BY <1>1, <1>2, <1>10, <2>1, SameNodeStep
<1>11. CASE /\ node' = [node EXCEPT ![n] = f]
            /\ Send(Received(m), {AppendResponse(m, f.current_term, FALSE, 0)})
  <2>1. MessageStep(f) /\ After(n, f)
    BY <1>1, <1>8, <1>11, AfterUpdate
  <2>2. /\ f.log = s.log /\ f.next_index = s.next_index /\ f.current_term = o.current_term
        /\ f.role = o.role
    BY <1>5, <1>6 DEF Frame
  <2>3. RoleStep(n, f)
    BY <1>2, <1>5, <1>9, <2>2 DEF RoleStep, Stay, Leave
  <2>4. NodeOK(f)
    BY <1>1, <2>2 DEF NodeOK
  <2> QED BY <1>1, <1>2, <1>5, <2>1, <2>2, <2>3, <2>4, SameLogStep
<1>12. CASE /\ node' = [node EXCEPT ![n] = t] /\ m.term >= s.current_term /\ PrevOk(f, m)
            /\ Send(Received(m), {AppendResponse(m, t.current_term, TRUE, Len(t.log))})
  <2>1. f.log = s.log
    BY <1>5, <1>6 DEF Frame
  <2>2. /\ t.log \in Seq(EntryType)
        /\ LogLinks(t.log) \subseteq LogLinks(s.log) \cup AppendLinks(m)
    BY <1>3, <1>7, <1>9, <1>12, <2>1, SplicedLinks
  <2>3. LogLinks(s.log) \subseteq Links
    BY <1>1 DEF Links, InLogs
  <2>4. AppendLinks(m) \subseteq Links
    BY <1>2 DEF Links, InFlight, Appends
  <2>5. LogLinks(t.log) \subseteq Links
    BY <2>2, <2>3, <2>4
  <2>6. Len(t.log) \in Nat
    BY <2>2
  <2>7. MessageStep(t) /\ After(n, t)
    BY <1>1, <1>8, <1>12, <2>6, AfterUpdate
  <2>8. /\ t.next_index = s.next_index /\ t.role = o.role /\ t.current_term = o.current_term
        /\ t.current_term = m.term
    BY <1>5, <1>6, <1>7, <1>12 DEF Frame
  <2>9. ASSUME ElectionSafety, s.role = "leader", s.current_term = m.term PROVE FALSE
    <3>1. Elected(n, m.term)
      BY <1>1, <2>9 DEF LogInv, LeaderInv
    <3>2. m.from = n
      BY <1>3, <2>9, <3>1 DEF Elected, ElectionSafety
    <3> QED BY <1>3, <3>2 DEF RequestOK
  <2>10. RoleStep(n, t)
    BY <1>2, <1>5, <2>8, <2>9 DEF RoleStep, Stay, Leave
  <2>11. NodeOK(t)
    BY <1>1, <2>2, <2>8 DEF NodeOK
  <2> QED BY <1>1, <1>2, <1>5, <2>5, <2>7, <2>8, <2>10, <2>11, OldLinksStep
<1> QED BY <1>4, <1>10, <1>11, <1>12

(* handle_ae_response moves next_index and nothing else that matters here. *)
LEMMA HandleAppendResponseLog ==
    ASSUME VoteInv, LogInv, NEW m \in DOMAIN network, HandleAppendResponse(m)
    PROVE  LogInv'
<1> DEFINE n == m.to
           s == node[n]
           a == Matched(s, m)
           b == BackedOff(s, m)
           w == ReplyToPending(ApplyCommitted(n, MaybeAdvanceCommit(n, a)))
<1>1. n \in Nodes /\ Stored(s) /\ m.term \in Nat /\ NodeOK(s) /\ s.current_term \in Nat
  BY DEF VoteInv, Addressed, Stored, LogInv, LogTypes
<1>2. /\ elections' = elections /\ crashes' = crashes /\ network' = Received(m)
      /\ m.type = "append_entries_response"
  BY DEF HandleAppendResponse
<1>3. m.match_index \in Nat
  BY <1>2 DEF LogInv, LogTypes
<1>4. \A t : MessageStep(t)
  BY <1>2, ReceiveMessages
<1>5. \/ m.term > s.current_term /\ node' = [node EXCEPT ![n] = StepDown(s, m.term)]
      \/ node' = [node EXCEPT ![n] = w]
      \/ node' = [node EXCEPT ![n] = b]
      \/ node' = node
  BY DEF HandleAppendResponse
<1>6. Len(s.log) \in Nat /\ Shape(s)
  BY <1>1 DEF NodeOK, Stored
<1>7. ASSUME NEW t, node' = [node EXCEPT ![n] = t],
             t.log = s.log, t.role = s.role, t.current_term = s.current_term,
             \A p \in DOMAIN t.next_index : t.next_index[p] \in Nat \ {0}
      PROVE  LogInv'
  <2>1. NodeOK(t)
    BY <1>1, <1>7 DEF NodeOK
  <2>2. RoleStep(n, t)
    BY <1>2, <1>6, <1>7 DEF RoleStep, Stay
  <2>3. After(n, t)
    BY <1>1, <1>7, AfterUpdate
  <2> QED BY <1>1, <1>2, <1>4, <1>7, <2>1, <2>2, <2>3, SameLogStep
<1>8. CASE m.term > s.current_term /\ node' = [node EXCEPT ![n] = StepDown(s, m.term)]
  <2> DEFINE t == StepDown(s, m.term)
  <2>1. /\ t.role = "follower" /\ t.current_term = m.term
        /\ t.log = s.log /\ t.next_index = s.next_index
    BY <1>6, StepDownEffect
  <2>2. After(n, t)
    BY <1>1, <1>8, AfterUpdate
  <2> HIDE DEF t
  <2>3. RoleStep(n, t) /\ NodeOK(t)
    BY <1>1, <1>2, <1>8, <2>1 DEF RoleStep, Leave, NodeOK
  <2> QED BY <1>1, <1>2, <1>4, <2>1, <2>2, <2>3, SameLogStep
<1>9. CASE node' = [node EXCEPT ![n] = w]
  <2> DEFINE x == MapPut(s.next_index, m.from, m.match_index + 1)
             y == MapPut(s.match_index, m.from, m.match_index)
  <2>1. \A p \in DOMAIN x : x[p] \in Nat \ {0}
    BY <1>1, <1>3 DEF MapPut, NodeOK
  <2>2. a = [s EXCEPT !.next_index = x, !.match_index = y]
    BY DEF Matched
  <2> HIDE DEF x, y, a
  <2>3. /\ Shape(a) /\ a.log = s.log /\ a.role = s.role /\ a.current_term = s.current_term
        /\ a.next_index = x
    BY <1>6, <2>2 DEF Shape, Fields
  <2>4. Frame(a, w)
    BY <2>3, AdvanceFrame
  <2> HIDE DEF w
  <2> QED BY <1>7, <1>9, <2>1, <2>3, <2>4 DEF Frame
<1>10. CASE node' = [node EXCEPT ![n] = b]
  <2> DEFINE k == MapGet(s.next_index, m.from, 1) - 1
             j == Max({k, 1})
             x == MapPut(s.next_index, m.from, j)
  <2>1. k \in Nat
    BY <1>1 DEF MapGet, NodeOK
  <2> HIDE DEF k
  <2>2. j \in Nat \ {0}
    BY <2>1 DEF Max
  <2> HIDE DEF j
  <2>3. \A p \in DOMAIN x : x[p] \in Nat \ {0}
    BY <1>1, <2>2 DEF MapPut, NodeOK
  <2>4. b = [s EXCEPT !.next_index = x]
    BY DEF BackedOff, j, k
  <2> HIDE DEF x, b
  <2>5. /\ b.log = s.log /\ b.role = s.role /\ b.current_term = s.current_term
        /\ b.next_index = x
    BY <1>6, <2>4 DEF Shape, Fields
  <2> QED BY <1>7, <1>10, <2>3, <2>5
<1>11. CASE node' = node
  BY <1>1, <1>2, <1>4, <1>11, SameNodeStep
<1> QED BY <1>5, <1>8, <1>9, <1>10, <1>11

-----------------------------------------------------------------------------
(* A cluster that starts with empty disks has empty logs.                  *)
LEMMA LogInvInit ==
    ASSUME Init
    PROVE  LogInv
<1>1. ASSUME NEW n \in Nodes
      PROVE  /\ node[n].log = <<>> /\ node[n].role = "follower"
             /\ node[n].next_index = [p \in {} |-> 0]
  <2>1. RecoverLog(EmptyDisk) = <<>>
    <3> DEFINE P == {i \in DOMAIN EmptyDisk.wal : EmptyDisk.wal[i].index > EmptyDisk.snapshot.index}
               w == EmptyDisk.wal
               none == LinesAfter(w, EmptyDisk.snapshot.index)
    <3>1. P = {} /\ w = <<>>
      BY DEF EmptyDisk
    <3>2. Cardinality({}) = 0
      BY FS_EmptySet
    <3>3. DOMAIN LinesAt(w, P) = 1 .. Cardinality(P)
      BY DEF LinesAt
    <3>4. LinesAfter(w, EmptyDisk.snapshot.index) = LinesAt(w, P)
      BY DEF LinesAfter
    <3>5. DOMAIN none = {}
      BY <3>1, <3>2, <3>3, <3>4
    <3>6. RecoverLog(EmptyDisk) = [i \in DOMAIN none |-> DeserializeEntry(none[i])]
      BY DEF RecoverLog
    <3> HIDE DEF none
    <3> QED BY <3>5, <3>6
  <2> DEFINE d == EmptyDisk
             r == RecoverRegistry(d)
             ps == InitPeers[n]
             i == d.snapshot.index
             c == d.state.current_term
             v == d.state.voted_for
  <2>2. node[n] = StartNode(n, d)
    BY DEF Init
  <2>3. StartNode(n, d) =
          [role |-> "follower", current_term |-> c, voted_for |-> v, log |-> <<>>,
           commit_index |-> i, last_applied |-> i, next_index |-> [p \in {} |-> 0],
           match_index |-> [p \in {} |-> 0], leader_id |-> Nil, votes_received |-> {},
           registry |-> r, peers |-> ps, pending |-> {}, disk |-> d]
    BY <2>1 DEF StartNode
  <2> HIDE DEF d, r, ps, i, c, v
  <2> QED BY <2>2, <2>3
<1>2. DOMAIN network = {} /\ elections = {} /\ crashes = 0
  BY DEF Init, EmptyBag, SetToBag
<1>3. <<>> \in Seq(EntryType) /\ LogLinks(<<>>) = {}
  BY DEF LogLinks
<1>4. Links = {}
  BY <1>1, <1>2, <1>3 DEF Links, InLogs, InFlight, Appends
<1>5. LogTypes
  BY <1>1, <1>2, <1>3 DEF LogTypes, NodeOK
<1>6. LeaderInv
  BY <1>1, <1>2 DEF LeaderInv
<1>7. LinkInv
  BY <1>4 DEF LinkInv, LinksUnique, LinksElected, LinksLed
<1> QED BY <1>5, <1>6, <1>7 DEF LogInv

(* One case per callback; without crashes nothing else happens.            *)
LEMMA LogInvStep ==
    ASSUME MaxCrashes = 0, FullCluster, VoteInv, LogInv, [Next]_vars
    PROVE  LogInv'
<1>0. ~(crashes < MaxCrashes)
  BY DEF LogInv, LogTypes
<1>1. ASSUME NEW n \in Nodes, ElectionTimeout(n) PROVE LogInv'
  BY <1>1, ElectionTimeoutLog
<1>2. ASSUME NEW n \in Nodes, Heartbeat(n) PROVE LogInv'
  BY <1>2, HeartbeatLog
<1>3. ASSUME NEW n \in Nodes, CrashRestart(n) PROVE LogInv'
  BY <1>0, <1>3 DEF CrashRestart
<1>4. ASSUME NEW n \in Nodes, NEW c \in Commands, Propose(n, c) PROVE LogInv'
  BY <1>4, ProposeLog
<1>5. ASSUME NEW m \in BagToSet(network), HandleRequestVote(m) PROVE LogInv'
  BY <1>5, HandleRequestVoteLog DEF BagToSet
<1>6. ASSUME NEW m \in BagToSet(network), HandleVoteResponse(m) PROVE LogInv'
  BY <1>6, HandleVoteResponseLog DEF BagToSet
<1>7. ASSUME NEW m \in BagToSet(network), HandleAppendEntries(m) PROVE LogInv'
  BY <1>7, HandleAppendEntriesLog DEF BagToSet
<1>8. ASSUME NEW m \in BagToSet(network), HandleAppendResponse(m) PROVE LogInv'
  BY <1>8, HandleAppendResponseLog DEF BagToSet
<1>9. ASSUME NEW m \in BagToSet(network), CrashInVote(m) \/ CrashInAppend(m) PROVE LogInv'
  BY <1>0, <1>9 DEF CrashInVote, CrashInAppend
<1>10. CASE UNCHANGED vars
  <2>1. node' = node /\ network' = network /\ elections' = elections /\ crashes' = crashes
    BY <1>10 DEF vars
  <2>2. Links' = Links
    BY <2>1 DEF Links, InLogs, InFlight
  <2>3. LogTypes'
    BY <2>1 DEF LogInv, LogTypes, Elected
  <2>4. LeaderInv'
    BY <2>1 DEF LogInv, LeaderInv, Elected
  <2>5. LinkInv'
    BY <2>1, <2>2 DEF LogInv, LinkInv, ElectionSafety, LinksUnique, LinksElected, LinksLed
  <2> QED BY <2>3, <2>4, <2>5 DEF LogInv
<1> QED BY <1>1, <1>2, <1>3, <1>4, <1>5, <1>6, <1>7, <1>8, <1>9, <1>10 DEF Next

(* Two chains whose links are determined by place and term agree up to any *)
(* place where their terms agree.  The argument goes down from that place: *)
(* equal links have equal predecessor terms.                               *)
LEMMA ChainsAgree ==
    ASSUME NEW a \in Seq(EntryType), NEW b \in Seq(EntryType),
           \A x \in LogLinks(a), y \in LogLinks(b) : SameLink(x, y),
           NEW i \in DOMAIN a \cap DOMAIN b, a[i].term = b[i].term
    PROVE  SubSeq(a, 1, i) = SubSeq(b, 1, i)
<1> DEFINE Bad == {d \in Nat : d < i /\ a[i - d] # b[i - d]}
<1>1. /\ DOMAIN a = 1 .. Len(a) /\ DOMAIN b = 1 .. Len(b) /\ Len(a) \in Nat /\ Len(b) \in Nat
      /\ i \in Nat /\ i >= 1 /\ i <= Len(a) /\ i <= Len(b)
  OBVIOUS
<1>2. ASSUME NEW j \in 1 .. i, a[j].term = b[j].term
      PROVE  a[j] = b[j] /\ TermAt(a, j - 1) = TermAt(b, j - 1)
  <2> DEFINE x == [at |-> j, prev |-> TermAt(a, j - 1), entry |-> a[j]]
             y == [at |-> j, prev |-> TermAt(b, j - 1), entry |-> b[j]]
  <2>1. j \in DOMAIN a /\ j \in DOMAIN b
    BY <1>1
  <2>2. x \in LogLinks(a) /\ y \in LogLinks(b)
    BY <2>1 DEF LogLinks
  <2>3. x.at = y.at /\ x.entry.term = y.entry.term
    BY <1>2
  <2>4. x = y
    BY <2>2, <2>3 DEF SameLink
  <2> QED BY <2>4
<1>3. Bad = {}
  <2> SUFFICES ASSUME Bad # {} PROVE FALSE
    OBVIOUS
  <2>1. PICK d \in Bad : \A c \in Bad : ~(<<c, d>> \in OpToRel(<, Nat))
    BY NatLessThanWellFounded, WFMin
  <2>2. d \in Nat /\ d < i /\ a[i - d] # b[i - d] /\ \A c \in Bad : ~(c < d)
    BY <2>1 DEF OpToRel
  <2>3. i - d \in 1 .. i
    BY <1>1, <2>2
  <2>4. CASE d = 0
    <3>1. i - d = i
      BY <1>1, <2>4
    <3> QED BY <1>2, <2>2, <2>3, <3>1
  <2>5. CASE d # 0
    <3> DEFINE c == d - 1
    <3>1. c \in Nat /\ c < d /\ c < i /\ i - c \in 1 .. i /\ (i - c) - 1 = i - d
      BY <1>1, <2>2, <2>5
    <3>2. a[i - c] = b[i - c]
      BY <2>2, <3>1
    <3>3. TermAt(a, i - d) = TermAt(b, i - d)
      BY <1>2, <3>1, <3>2
    <3>4. i - d \in DOMAIN a /\ i - d \in DOMAIN b
      BY <1>1, <2>3
    <3>5. a[i - d].term = b[i - d].term
      BY <3>3, <3>4 DEF TermAt
    <3> QED BY <1>2, <2>2, <2>3, <3>5
  <2> QED BY <2>4, <2>5
<1>4. ASSUME NEW j \in 1 .. i PROVE a[j] = b[j]
  <2>1. i - j \in Nat /\ i - j < i /\ i - (i - j) = j
    BY <1>1
  <2> QED BY <1>3, <2>1
<1> QED BY <1>1, <1>4

(* A run without crashes in which every peer list names the rest of the    *)
(* cluster: as long as the elections counted only votes of their own term, *)
(* two logs that hold an entry of the same term at the same place are      *)
(* equal up to it, whatever order, loss and delay the AppendEntries        *)
(* requests see.                                                           *)
THEOREM LogsMatch ==
    WalEnabled /\ IsFiniteSet(Nodes) /\ MaxCrashes = 0 =>
        (Spec /\ []FullCluster => []LogMatching)
<1> SUFFICES ASSUME WalEnabled, IsFiniteSet(Nodes), MaxCrashes = 0
             PROVE  Spec /\ []FullCluster => []LogMatching
  OBVIOUS
<1>1. Init => VoteInv /\ ElectInv /\ LogInv
  BY VoteInvInit, LogInvInit DEF Init, ElectInv
<1>2. /\ FullCluster /\ VoteInv /\ ElectInv /\ LogInv /\ [Next]_vars
      => VoteInv' /\ ElectInv' /\ LogInv'
  BY VoteInvStep, ElectInvStep, LogInvStep
<1>3. VoteInv /\ ElectInv /\ LogInv => LogMatching
  <2> SUFFICES ASSUME VoteInv, ElectInv, LogInv, \A e \in elections : Backed(e),
                      NEW m \in Nodes, NEW n \in Nodes,
                      NEW i \in DOMAIN node[m].log \cap DOMAIN node[n].log,
                      node[m].log[i].term = node[n].log[i].term
               PROVE  SubSeq(node[m].log, 1, i) = SubSeq(node[n].log, 1, i)
    BY DEF LogMatching
  <2>1. ElectionSafety
    BY MajoritiesAgree DEF BackedElectionSafety, ElectionSafety
  <2>2. LinksUnique
    BY <2>1 DEF LogInv, LinkInv
  <2>3. node[m].log \in Seq(EntryType) /\ node[n].log \in Seq(EntryType)
    BY DEF LogInv, LogTypes, NodeOK
  <2>4. LogLinks(node[m].log) \subseteq Links /\ LogLinks(node[n].log) \subseteq Links
    BY DEF Links, InLogs
  <2>5. \A x \in LogLinks(node[m].log), y \in LogLinks(node[n].log) : SameLink(x, y)
    BY <2>2, <2>4 DEF LinksUnique
  <2> QED BY <2>3, <2>5, ChainsAgree
<1> QED BY <1>1, <1>2, <1>3, PTL DEF Spec

-----------------------------------------------------------------------------
(* The peer lists.  A cluster that starts with full peer lists keeps them  *)
(* when no command removes a server and none adds a stranger.              *)
Harmless(c) == c.op # "remove_server" /\ (c.op = "add_server" => c.id \in Nodes)

(* A list whose elements all carry harmless commands.                      *)
HarmlessList(l) == \E S : l \in Seq(S) /\ \A e \in S : Harmless(e.command)

(* A non-empty set of places in a list has a last one.                     *)
LEMMA LastPlace ==
    ASSUME NEW N \in Nat, NEW s \in SUBSET (1 .. N), s # {}
    PROVE  Max(s) \in s /\ \A y \in s : y <= Max(s)
<1> DEFINE U == {k \in Nat : \A y \in s : y <= k}
<1>1. N \in U
  OBVIOUS
<1>2. PICK u \in U : \A k \in U : ~(<<k, u>> \in OpToRel(<, Nat))
  BY <1>1, NatLessThanWellFounded, WFMin
<1>3. u \in Nat /\ (\A y \in s : y <= u) /\ \A k \in U : ~(k < u)
  BY <1>2 DEF OpToRel
<1>4. u \in s
  <2> SUFFICES ASSUME u \notin s PROVE FALSE
    OBVIOUS
  <2>1. PICK y \in s : y \in 1 .. N
    OBVIOUS
  <2>2. u >= 1
    BY <1>3, <2>1
  <2>3. \A z \in s : z <= u - 1
    BY <1>3
  <2>4. u - 1 \in U /\ u - 1 < u
    BY <1>3, <2>2, <2>3
  <2> QED BY <1>3, <2>4
<1>5. \E x \in s : \A y \in s : x >= y
  BY <1>3, <1>4
<1>6. Max(s) \in s /\ \A y \in s : Max(s) >= y
  BY <1>5 DEF Max
<1> QED BY <1>6

(* apply_membership_change leaves a full peer list full.                   *)
LEMMA HarmlessChange ==
    ASSUME NEW n \in Nodes, NEW c, Harmless(c)
    PROVE  ApplyMembershipChange(Nodes \ {n}, n, c) = Nodes \ {n}
<1>1. CASE c.op = "add_server"
  <2>1. c.op # "remove_server" /\ c.id \in Nodes
    BY <1>1 DEF Harmless
  <2>2. ApplyMembershipChange(Nodes \ {n}, n, c) = (Nodes \ {n}) \cup ({c.id} \ {n})
    BY <1>1 DEF ApplyMembershipChange
  <2> QED BY <2>1, <2>2
<1>2. CASE c.op # "add_server"
  BY <1>2 DEF ApplyMembershipChange, Harmless
<1> QED BY <1>1, <1>2

(* ... and so does a run of entries.                                       *)
LEMMA HarmlessEntries ==
    ASSUME NEW n \in Nodes, NEW es, HarmlessList(es)
    PROVE  ApplyMembership(Nodes \ {n}, n, es) = Nodes \ {n}
<1> DEFINE ps == Nodes \ {n}
           D == DOMAIN es
           N == Len(es)
           Step(f) == [s \in SUBSET D |->
                         IF s = {} THEN ps
                         ELSE ApplyMembershipChange(f[s \ {Max(s)}], n, es[Max(s)].command)]
           iter == CHOOSE f : f = Step(f)
<1>1. ApplyMembership(ps, n, es) = iter[D]
  BY DEF ApplyMembership, FoldLeft, MapThenFoldSet
<1>2. N \in Nat /\ D = 1 .. N /\ \A i \in D : Harmless(es[i].command)
  BY DEF HarmlessList
<1>3. \A c : Harmless(c) => ApplyMembershipChange(ps, n, c) = ps
  BY HarmlessChange
<1> HIDE DEF ps, D, N
<1>4. ASSUME NEW s \in SUBSET D, s # {}
      PROVE  /\ Max(s) \in s /\ (\A y \in s : y <= Max(s)) /\ s \ {Max(s)} \in SUBSET D
             /\ ApplyMembershipChange(ps, n, es[Max(s)].command) = ps
  BY <1>2, <1>3, <1>4, LastPlace
<1>5. \E f : f = Step(f)
  <2> DEFINE f == [s \in SUBSET D |-> ps]
  <2>1. ASSUME NEW s \in SUBSET D
        PROVE  f[s] = IF s = {} THEN ps
                      ELSE ApplyMembershipChange(f[s \ {Max(s)}], n, es[Max(s)].command)
    BY <1>4
  <2>2. f = Step(f)
    BY <2>1
  <2> QED BY <2>2
<1>6. iter = Step(iter)
  BY <1>5
<1> HIDE DEF iter
<1>7. \A s \in SUBSET D :
        iter[s] = IF s = {} THEN ps
                  ELSE ApplyMembershipChange(iter[s \ {Max(s)}], n, es[Max(s)].command)
  BY <1>6
<1> HIDE DEF Step
<1> DEFINE Bad == {k \in Nat : \E s \in SUBSET D : s \subseteq 1 .. k /\ iter[s] # ps}
<1>8. Bad = {}
  <2> SUFFICES ASSUME Bad # {} PROVE FALSE
    OBVIOUS
  <2>1. PICK k \in Bad : \A j \in Bad : ~(<<j, k>> \in OpToRel(<, Nat))
    BY NatLessThanWellFounded, WFMin
  <2>2. k \in Nat /\ \A j \in Bad : ~(j < k)
    BY <2>1 DEF OpToRel
  <2>3. PICK s \in SUBSET D : s \subseteq 1 .. k /\ iter[s] # ps
    OBVIOUS
  <2>4. s # {}
    BY <1>7, <2>3
  <2> DEFINE x == Max(s)
             r == s \ {x}
  <2>5. /\ x \in s /\ (\A y \in s : y <= x) /\ r \in SUBSET D
        /\ ApplyMembershipChange(ps, n, es[x].command) = ps
    BY <1>4, <2>4
  <2>6. iter[s] = ApplyMembershipChange(iter[r], n, es[x].command)
    BY <1>7, <2>4
  <2> HIDE DEF x
  <2>7. x \in Nat /\ x >= 1 /\ x <= k
    BY <2>2, <2>3, <2>5
  <2>8. r \subseteq 1 .. x - 1
    BY <2>2, <2>3, <2>5, <2>7
  <2>9. x - 1 \in Nat /\ x - 1 < k
    BY <2>2, <2>7
  <2> HIDE DEF r
  <2>10. iter[r] = ps
    BY <2>2, <2>5, <2>8, <2>9
  <2> QED BY <2>3, <2>5, <2>6, <2>10
<1>9. iter[D] = ps
  <2>1. D \in SUBSET D /\ D \subseteq 1 .. N
    BY <1>2
  <2> QED BY <1>2, <1>8, <2>1
<1> QED BY <1>1, <1>9 DEF ps


(* Lists of harmless entries: cut, joined and extended.                    *)
LEMMA HarmlessCut ==
    ASSUME NEW l, HarmlessList(l), NEW i \in Nat \ {0}, NEW j \in Int, j <= Len(l)
    PROVE  HarmlessList(SubSeq(l, i, j))
<1>1. PICK S : l \in Seq(S) /\ \A e \in S : Harmless(e.command)
  BY DEF HarmlessList
<1>2. \A k \in i .. j : l[k] \in S
  BY <1>1
<1>3. SubSeq(l, i, j) \in Seq(S)
  BY <1>2, SubSeqProperties
<1> QED BY <1>1, <1>3 DEF HarmlessList

(* Joined.                                                                 *)
LEMMA HarmlessJoin ==
    ASSUME NEW l, HarmlessList(l), NEW k, HarmlessList(k)
    PROVE  HarmlessList(l \o k)
<1>1. PICK S : l \in Seq(S) /\ \A e \in S : Harmless(e.command)
  BY DEF HarmlessList
<1>2. PICK T : k \in Seq(T) /\ \A e \in T : Harmless(e.command)
  BY DEF HarmlessList
<1>3. l \in Seq(S \cup T) /\ k \in Seq(S \cup T)
  BY <1>1, <1>2, SeqMonotonic
<1>4. l \o k \in Seq(S \cup T)
  BY <1>3, ConcatProperties
<1>5. \A e \in S \cup T : Harmless(e.command)
  BY <1>1, <1>2
<1> QED BY <1>4, <1>5 DEF HarmlessList

(* Extended by one entry.                                                  *)
LEMMA HarmlessAppend ==
    ASSUME NEW l, HarmlessList(l), NEW e, Harmless(e.command)
    PROVE  HarmlessList(Append(l, e))
<1>1. PICK S : l \in Seq(S) /\ \A x \in S : Harmless(x.command)
  BY DEF HarmlessList
<1>2. l \in Seq(S \cup {e})
  BY <1>1, SeqMonotonic
<1>3. Append(l, e) \in Seq(S \cup {e})
  BY <1>2, AppendProperties
<1>4. \A x \in S \cup {e} : Harmless(x.command)
  BY <1>1
<1> QED BY <1>3, <1>4 DEF HarmlessList

(* The length of a list.                                                   *)
LEMMA HarmlessLen ==
    ASSUME NEW l, HarmlessList(l)
    PROVE  Len(l) \in Nat /\ DOMAIN l = 1 .. Len(l)
  BY DEF HarmlessList
-----------------------------------------------------------------------------
(* The files: wal.jsonl stays a list of lines, whatever is filtered out of *)
(* it, and a recovered log holds only commands that JSON can carry.        *)
Lines(w) == \E S : w \in Seq(S)

GoodDisk(d) == DOMAIN d = Files /\ Lines(d.wal) /\ d.snapshot.index \in Nat

(* A function over a first part of the numbers is a list.                  *)
LEMMA ListOf ==
    ASSUME NEW N \in Nat, NEW w, w = [k \in 1 .. N |-> w[k]]
    PROVE  Lines(w)
<1> DEFINE S == {w[k] : k \in 1 .. N}
<1>1. w \in [1 .. N -> S]
  OBVIOUS
<1>2. w \in Seq(S)
  BY <1>1, SeqDef
<1> QED BY <1>2 DEF Lines

(* Enum.filter on the lines.                                               *)
LEMMA LinesAtList ==
    ASSUME NEW w, Lines(w), NEW P \in SUBSET DOMAIN w
    PROVE  Lines(LinesAt(w, P)) /\ DOMAIN LinesAt(w, P) = 1 .. Cardinality(P)
           /\ Cardinality(P) \in Nat
<1>1. Len(w) \in Nat /\ DOMAIN w = 1 .. Len(w)
  BY DEF Lines
<1>2. IsFiniteSet(1 .. Len(w))
  BY <1>1, FS_Interval
<1>3. Cardinality(P) \in Nat
  BY <1>1, <1>2, FS_Subset, FS_CardinalityType
<1> DEFINE nth(k) == CHOOSE i \in P : Cardinality({j \in P : j <= i}) = k
           u == [k \in 1 .. Cardinality(P) |-> w[nth(k)]]
<1>4. LinesAt(w, P) = u
  BY DEF LinesAt
<1>5. u = [k \in 1 .. Cardinality(P) |-> u[k]] /\ DOMAIN u = 1 .. Cardinality(P)
  OBVIOUS
<1> HIDE DEF u
<1>6. Lines(u)
  BY <1>3, <1>5, ListOf
<1> QED BY <1>3, <1>4, <1>5, <1>6

(* The three uses of the filter.                                           *)
LEMMA FilteredLists ==
    ASSUME NEW w, Lines(w), NEW i
    PROVE  Lines(LinesUpTo(w, i)) /\ Lines(LinesAfter(w, i))
<1>1. \A P \in SUBSET DOMAIN w : Lines(LinesAt(w, P))
  BY LinesAtList
<1> QED BY <1>1 DEF LinesUpTo, LinesAfter

(* append_entry and append_entries.                                        *)
LEMMA AppendWalGood ==
    ASSUME NEW d, GoodDisk(d), NEW es, Lines(es)
    PROVE  GoodDisk(AppendWal(d, es))
<1> DEFINE x == [i \in DOMAIN es |-> SerializeEntry(es[i])]
           w == d.wal \o x
<1>1. AppendWal(d, es) = d \/ AppendWal(d, es) = [d EXCEPT !.wal = w]
  BY DEF AppendWal
<1>2. Lines(x)
  <2>1. Len(es) \in Nat /\ DOMAIN es = 1 .. Len(es)
    BY DEF Lines
  <2>2. x = [i \in 1 .. Len(es) |-> x[i]]
    BY <2>1
  <2> HIDE DEF x
  <2> QED BY <2>1, <2>2, ListOf
<1> HIDE DEF x
<1>3. Lines(w)
  <2>1. PICK S : d.wal \in Seq(S)
    BY DEF GoodDisk, Lines
  <2>2. PICK T : x \in Seq(T)
    BY <1>2 DEF Lines
  <2>3. d.wal \in Seq(S \cup T) /\ x \in Seq(S \cup T)
    BY <2>1, <2>2, SeqMonotonic
  <2>4. w \in Seq(S \cup T)
    BY <2>3, ConcatProperties
  <2> QED BY <2>4 DEF Lines
<1> HIDE DEF w
<1>4. GoodDisk([d EXCEPT !.wal = w])
  BY <1>3 DEF GoodDisk, Files
<1> QED BY <1>1, <1>4

(* truncate_after, and the empty file a crash inside it may leave.         *)
LEMMA TruncateAfterGood ==
    ASSUME NEW d, GoodDisk(d), NEW keep
    PROVE  GoodDisk(TruncateAfter(d, keep)) /\ GoodDisk([d EXCEPT !.wal = <<>>])
<1> DEFINE w == LinesUpTo(d.wal, keep)
<1>1. TruncateAfter(d, keep) = d \/ TruncateAfter(d, keep) = [d EXCEPT !.wal = w]
  BY DEF TruncateAfter
<1>2. Lines(w) /\ Lines(<<>>)
  <2>1. <<>> \in Seq({})
    OBVIOUS
  <2> QED BY <2>1, FilteredLists DEF GoodDisk, Lines
<1> HIDE DEF w
<1>3. GoodDisk([d EXCEPT !.wal = w]) /\ GoodDisk([d EXCEPT !.wal = <<>>])
  BY <1>2 DEF GoodDisk, Files
<1> QED BY <1>1, <1>3

(* save_snapshot.                                                          *)
LEMMA SaveSnapshotGood ==
    ASSUME NEW d, GoodDisk(d), NEW reg, NEW i \in Nat
    PROVE  GoodDisk(SaveSnapshot(d, reg, i))
<1> DEFINE w == LinesAfter(d.wal, i)
           p == [index |-> i, registry |-> SerializeRegistry(reg)]
<1>1. \/ SaveSnapshot(d, reg, i) = d
      \/ SaveSnapshot(d, reg, i) = [d EXCEPT !.snapshot = p, !.wal = w]
  BY DEF SaveSnapshot
<1>2. Lines(w) /\ p.index \in Nat
  BY FilteredLists DEF GoodDisk
<1> HIDE DEF w, p
<1>3. GoodDisk([d EXCEPT !.snapshot = p, !.wal = w])
  BY <1>2 DEF GoodDisk, Files
<1> QED BY <1>1, <1>3

(* persist_state.                                                          *)
LEMMA PersistStateGood ==
    ASSUME NEW d, GoodDisk(d), NEW term, NEW voted
    PROVE  GoodDisk(PersistState(d, term, voted))
<1> DEFINE v == [current_term |-> term, voted_for |-> voted]
<1>1. PersistState(d, term, voted) = d \/ PersistState(d, term, voted) = [d EXCEPT !.state = v]
  BY DEF PersistState
<1> HIDE DEF v
<1>2. GoodDisk([d EXCEPT !.state = v])
  BY DEF GoodDisk, Files
<1> QED BY <1>1, <1>2

(* recover_log: deserialize_command yields no membership command.          *)
LEMMA RecoverLogHarmless ==
    ASSUME NEW d, GoodDisk(d)
    PROVE  HarmlessList(RecoverLog(d))
<1> DEFINE i == d.snapshot.index
           kept == LinesAfter(d.wal, i)
           log == [k \in DOMAIN kept |-> DeserializeEntry(kept[k])]
           S == {DeserializeEntry(kept[k]) : k \in DOMAIN kept}
<1>1. RecoverLog(d) = log
  BY DEF RecoverLog
<1>2. Lines(kept)
  BY FilteredLists DEF GoodDisk
<1> HIDE DEF kept
<1>3. Len(kept) \in Nat /\ DOMAIN kept = 1 .. Len(kept)
  BY <1>2 DEF Lines
<1>4. log \in [1 .. Len(kept) -> S]
  BY <1>3
<1>5. log \in Seq(S)
  BY <1>3, <1>4, SeqDef
<1>6. ASSUME NEW e \in S PROVE Harmless(e.command)
  <2>1. PICK k \in DOMAIN kept : e = DeserializeEntry(kept[k])
    BY <1>6
  <2>2. e.command = DeserializeCommand(kept[k].command)
    BY <2>1 DEF DeserializeEntry, Entry
  <2>3. \A c : Harmless(DeserializeCommand(c))
    BY DEF DeserializeCommand, Harmless, JsonOps, NoOp, Cmd
  <2> QED BY <2>2, <2>3
<1> QED BY <1>1, <1>5, <1>6 DEF HarmlessList

-----------------------------------------------------------------------------
(* What keeps a node's peer list full: the entries of its log, and indices *)
(* that stay numbers, so that what apply_committed takes from the log are  *)
(* entries of the log.                                                     *)
NextOK(f) == \A p \in DOMAIN f : f[p] \in Nat \ {0}

Good(n, s) ==
    /\ DOMAIN s = Fields
    /\ s.peers = Nodes \ {n}
    /\ HarmlessList(s.log)
    /\ s.current_term \in Nat /\ s.commit_index \in Nat /\ s.last_applied \in Nat
    /\ s.role \in {"candidate", "leader"} => s.current_term > 0
    /\ NextOK(s.next_index)
    /\ GoodDisk(s.disk)

(* step_down.                                                              *)
LEMMA StepDownGood ==
    ASSUME NEW n, NEW s, Good(n, s), NEW term \in Nat
    PROVE  Good(n, StepDown(s, term))
<1> DEFINE d == PersistState(s.disk, term, Nil)
<1>1. StepDown(s, term) = [s EXCEPT !.role = "follower", !.current_term = term,
                                    !.voted_for = Nil, !.votes_received = {},
                                    !.disk = d]
  BY DEF StepDown
<1>2. GoodDisk(d)
  BY PersistStateGood DEF Good
<1> HIDE DEF d
<1> QED BY <1>1, <1>2 DEF Good, Fields

(* append_own, at a candidate that turns leader or at a leader.            *)
LEMMA AppendOwnGood ==
    ASSUME NEW n, NEW s, Good(n, s), NEW c, Harmless(c)
    PROVE  Good(n, AppendOwn(s, c))
<1> DEFINE e == Entry(s.current_term, Len(s.log) + 1, c)
           l == Append(s.log, e)
           d == AppendWal(s.disk, <<e>>)
<1>1. AppendOwn(s, c) = [s EXCEPT !.log = l, !.disk = d]
  BY DEF AppendOwn
<1>2. e.command = c
  BY DEF Entry
<1> HIDE DEF e
<1>3. HarmlessList(l)
  BY <1>2, HarmlessAppend DEF Good
<1>4. Lines(<<e>>)
  <2>1. <<e>> \in Seq({e})
    OBVIOUS
  <2> QED BY <2>1 DEF Lines
<1>5. GoodDisk(d)
  BY <1>4, AppendWalGood DEF Good
<1> HIDE DEF l, d
<1> QED BY <1>1, <1>3, <1>5 DEF Good, Fields

(* become_leader.                                                          *)
LEMMA AfterVoteGood ==
    ASSUME NEW n, NEW s, Good(n, s), s.role = "candidate"
    PROVE  Good(n, AfterVote(n, s))
<1> DEFINE x == [p \in s.peers |-> Len(s.log) + 1]
           y == [p \in s.peers |-> 0]
           t == [s EXCEPT !.role = "leader", !.leader_id = n,
                          !.next_index = x, !.match_index = y]
<1>1. AfterVote(n, s) = s \/ AfterVote(n, s) = AppendOwn(t, NoOp)
  BY DEF AfterVote, BecomeLeader
<1>2. NextOK(x)
  <2>1. Len(s.log) \in Nat
    BY HarmlessLen DEF Good
  <2> QED BY <2>1 DEF NextOK
<1> HIDE DEF x, y
<1>3. Good(n, t)
  BY <1>2 DEF Good, Fields
<1> HIDE DEF t
<1>4. Harmless(NoOp)
  BY DEF Harmless, NoOp, Cmd
<1> QED BY <1>1, <1>3, <1>4, AppendOwnGood

(* apply_committed, with the snapshot it may take.                         *)
LEMMA ApplyCommittedGood ==
    ASSUME NEW n \in Nodes, NEW s, Good(n, s)
    PROVE  Good(n, ApplyCommitted(n, s))
<1> DEFINE j == Min({s.commit_index, Len(s.log)})
           es == SubSeq(s.log, s.last_applied + 1, j)
           r == ApplyEntries(s.registry, es)
           ps == ApplyMembership(s.peers, n, es)
           t == [s EXCEPT !.last_applied = s.commit_index, !.registry = r, !.peers = ps]
           d == SaveSnapshot(t.disk, t.registry, t.last_applied)
<1>1. ApplyCommitted(n, s) = s \/ ApplyCommitted(n, s) = MaybeTriggerSnapshot(t)
  BY DEF ApplyCommitted
<1>2. j \in Int /\ j <= Len(s.log)
  <2>1. Len(s.log) \in Nat /\ s.commit_index \in Nat
    BY HarmlessLen DEF Good
  <2> QED BY <2>1 DEF Min
<1> HIDE DEF j
<1>3. HarmlessList(es)
  <2>1. s.last_applied + 1 \in Nat \ {0} /\ HarmlessList(s.log)
    BY DEF Good
  <2> QED BY <1>2, <2>1, HarmlessCut
<1> HIDE DEF es
<1>4. ps = Nodes \ {n}
  BY <1>3, HarmlessEntries DEF Good
<1> HIDE DEF r, ps
<1>5. Good(n, t)
  BY <1>4 DEF Good, Fields
<1> HIDE DEF t
<1>6. GoodDisk(d)
  BY <1>5, SaveSnapshotGood DEF Good
<1>7. MaybeTriggerSnapshot(t) = t \/ MaybeTriggerSnapshot(t) = [t EXCEPT !.disk = d]
  BY DEF MaybeTriggerSnapshot
<1> HIDE DEF d
<1>8. Good(n, [t EXCEPT !.disk = d])
  BY <1>5, <1>6 DEF Good, Fields
<1> QED BY <1>1, <1>5, <1>7, <1>8

(* maybe_advance_commit at a leader: the new commit_index is the place of  *)
(* an entry of the leader's term, and only places have such a term.        *)
LEMMA AdvanceGood ==
    ASSUME NEW n \in Nodes, NEW s, Good(n, s), s.role = "leader"
    PROVE  LET u == ApplyCommitted(n, MaybeAdvanceCommit(n, s))
           IN  Good(n, u) /\ Good(n, ReplyToPending(u))
<1> DEFINE c == QuorumMatch(n, s)
           t == MaybeAdvanceCommit(n, s)
           u == ApplyCommitted(n, t)
           r == u.pending \ Fulfilled(u)
<1>1. t = s \/ (t = [s EXCEPT !.commit_index = c] /\ TermAt(s.log, c) = s.current_term)
  BY DEF MaybeAdvanceCommit
<1> HIDE DEF c
<1>2. ASSUME TermAt(s.log, c) = s.current_term PROVE c \in Nat
  <2>1. s.current_term > 0 /\ s.current_term \in Nat
    BY DEF Good
  <2>2. c \in DOMAIN s.log
    BY <1>2, <2>1 DEF TermAt
  <2>3. DOMAIN s.log = 1 .. Len(s.log) /\ Len(s.log) \in Nat
    BY HarmlessLen DEF Good
  <2> QED BY <2>2, <2>3
<1> HIDE DEF t
<1>3. Good(n, t)
  BY <1>1, <1>2 DEF Good, Fields
<1>4. Good(n, u)
  BY <1>3, ApplyCommittedGood
<1> HIDE DEF u
<1>5. ReplyToPending(u) = [u EXCEPT !.pending = r]
  BY DEF ReplyToPending
<1> HIDE DEF r
<1>6. Good(n, [u EXCEPT !.pending = r])
  BY <1>4 DEF Good, Fields
<1> QED BY <1>4, <1>5, <1>6 DEF t, u

(* The accepting branch of handle_append_entries_rpc.                      *)
GoodRequest(m) == HarmlessList(m.entries) /\ m.leader_commit \in Nat

(* Its effect.                                                             *)
LEMMA AppendedGood ==
    ASSUME NEW n \in Nodes, NEW s, Good(n, s), NEW m, GoodRequest(m), PrevOk(s, m)
    PROVE  Good(n, Appended(n, s, m))
<1> DEFINE cut == SubSeq(s.log, 1, m.prev_log_index)
           l == cut \o m.entries
           c == Min({m.leader_commit, Len(l)})
           d == WalAfterAppend(s, m)
           t == [s EXCEPT !.log = l, !.commit_index = c, !.disk = d]
<1>1. Appended(n, s, m) = ApplyCommitted(n, t)
  BY DEF Appended
<1>2. HarmlessList(cut)
  <2>1. HarmlessList(s.log) /\ Len(s.log) \in Nat /\ DOMAIN s.log = 1 .. Len(s.log)
    BY HarmlessLen DEF Good
  <2>2. m.prev_log_index \in Int /\ m.prev_log_index <= Len(s.log)
    BY <2>1 DEF PrevOk
  <2> QED BY <2>1, <2>2, HarmlessCut
<1> HIDE DEF cut
<1>3. HarmlessList(l)
  BY <1>2, HarmlessJoin DEF GoodRequest
<1> HIDE DEF l
<1>4. c \in Nat
  <2>1. Len(l) \in Nat /\ m.leader_commit \in Nat
    BY <1>3, HarmlessLen DEF GoodRequest
  <2> QED BY <2>1 DEF Min
<1>5. GoodDisk(d)
  <2>1. Lines(m.entries)
    BY DEF GoodRequest, HarmlessList, Lines
  <2>2. GoodDisk(s.disk) /\ GoodDisk(TruncateAfter(s.disk, m.prev_log_index))
    BY TruncateAfterGood DEF Good
  <2> QED BY <2>1, <2>2, AppendWalGood DEF WalAfterAppend
<1> HIDE DEF c, d
<1>6. Good(n, t)
  BY <1>3, <1>4, <1>5 DEF Good, Fields
<1> HIDE DEF t
<1> QED BY <1>1, <1>6, ApplyCommittedGood

(* A restart: init/1 takes the peers option and the recovered log.         *)
LEMMA StartNodeGood ==
    ASSUME InitPeers = [p \in Nodes |-> Nodes \ {p}],
           NEW n \in Nodes, NEW d, GoodDisk(d), d.state.current_term \in Nat
    PROVE  Good(n, StartNode(n, d))
<1> DEFINE l == RecoverLog(d)
           i == d.snapshot.index
           r == RecoverRegistry(d)
           x == [p \in {} |-> 0]
           c == d.state.current_term
           v == d.state.voted_for
           ps == InitPeers[n]
<1>1. StartNode(n, d) =
        [role |-> "follower", current_term |-> c, voted_for |-> v, log |-> l,
         commit_index |-> i, last_applied |-> i, next_index |-> x, match_index |-> x,
         leader_id |-> Nil, votes_received |-> {}, registry |-> r, peers |-> ps,
         pending |-> {}, disk |-> d]
  BY DEF StartNode
<1>2. HarmlessList(l) /\ i \in Nat /\ NextOK(x) /\ c \in Nat /\ ps = Nodes \ {n}
  BY RecoverLogHarmless DEF GoodDisk, NextOK
<1> HIDE DEF l, i, r, x, c, v, ps
<1> DEFINE t == StartNode(n, d)
<1>3. /\ DOMAIN t = Fields /\ t.peers = ps /\ t.log = l /\ t.current_term = c
      /\ t.commit_index = i /\ t.last_applied = i /\ t.role = "follower"
      /\ t.next_index = x /\ t.disk = d
  BY <1>1 DEF Fields
<1> HIDE DEF t
<1> QED BY <1>2, <1>3 DEF Good, t

-----------------------------------------------------------------------------
(* The cluster.                                                            *)
GoodMessages(msgs) ==
    \A m \in msgs : /\ m.type = "append_entries" => GoodRequest(m)
                    /\ m.type = "append_entries_response" => m.match_index \in Nat

PeerInv == (\A n \in Nodes : Good(n, node[n])) /\ GoodMessages(DOMAIN network)

(* Sending and receiving.                                                  *)
LEMMA SendGood ==
    ASSUME NEW base, NEW msgs, Send(base, msgs), GoodMessages(DOMAIN base), GoodMessages(msgs)
    PROVE  GoodMessages(DOMAIN network')
<1>1. PICK sent \in SUBSET msgs : network' = base (+) SetToBag(sent)
  BY DEF Send
<1>2. DOMAIN (base (+) SetToBag(sent)) = DOMAIN base \cup sent
  BY DEF (+), SetToBag
<1> QED BY <1>1, <1>2 DEF GoodMessages

(* Receiving.                                                              *)
LEMMA ReceivedGood ==
    ASSUME NEW m, GoodMessages(DOMAIN network)
    PROVE  GoodMessages(DOMAIN Received(m))
<1>1. DOMAIN Received(m) \subseteq DOMAIN network
  BY DEF Received, (-)
<1> QED BY <1>1 DEF GoodMessages

(* What a leader sends.                                                    *)
LEMMA RequestsGood ==
    ASSUME NEW n, NEW s, Good(n, s)
    PROVE  GoodMessages(AppendRequests(n, s))
<1> SUFFICES ASSUME NEW m \in AppendRequests(n, s)
             PROVE  m.type = "append_entries" /\ GoodRequest(m)
  BY DEF GoodMessages
<1>1. PICK p \in Reachable(s) :
        m = LET next == MapGet(s.next_index, p, 1) IN
            [type |-> "append_entries", from |-> n, to |-> p, term |-> s.current_term,
             prev_log_index |-> next - 1, prev_log_term |-> TermAt(s.log, next - 1),
             entries |-> SubSeq(s.log, next, Len(s.log)),
             leader_commit |-> s.commit_index]
  BY DEF AppendRequests
<1> DEFINE next == MapGet(s.next_index, p, 1)
           es == SubSeq(s.log, next, Len(s.log))
<1>2. m.type = "append_entries" /\ m.entries = es /\ m.leader_commit = s.commit_index
  BY <1>1
<1>3. next \in Nat \ {0}
  BY DEF MapGet, Good, NextOK
<1> HIDE DEF next
<1>4. HarmlessList(s.log) /\ Len(s.log) \in Nat
  BY HarmlessLen DEF Good
<1>5. HarmlessList(es)
  BY <1>3, <1>4, HarmlessCut
<1> HIDE DEF es
<1> QED BY <1>2, <1>5 DEF GoodRequest, Good

(* Messages without entries.                                               *)
LEMMA OthersGood ==
    ASSUME NEW m, NEW term, NEW ok, NEW i \in Nat, NEW n, NEW s
    PROVE  /\ GoodMessages({VoteResponse(m, term, ok)})
           /\ GoodMessages({AppendResponse(m, term, ok, i)})
           /\ GoodMessages(VoteRequests(n, s))
<1>1. VoteResponse(m, term, ok).type = "vote_response"
  BY DEF VoteResponse
<1>2. /\ AppendResponse(m, term, ok, i).type = "append_entries_response"
      /\ AppendResponse(m, term, ok, i).match_index = i
  BY DEF AppendResponse
<1>3. \A x \in VoteRequests(n, s) : x.type = "request_vote"
  BY DEF VoteRequests
<1> QED BY <1>1, <1>2, <1>3 DEF GoodMessages

(* A step of one node.                                                     *)
LEMMA PeerStep ==
    ASSUME VoteInv, PeerInv, NEW n \in Nodes, NEW t, node' = [node EXCEPT ![n] = t],
           Good(n, t), GoodMessages(DOMAIN network')
    PROVE  PeerInv'
<1>1. node'[n] = t /\ \A p \in Nodes \ {n} : node'[p] = node[p]
  BY DEF VoteInv
<1>2. \A p \in Nodes : Good(p, node'[p])
  BY <1>1 DEF PeerInv
<1> QED BY <1>2 DEF PeerInv

(* Elections.                                                              *)
LEMMA ElectGood ==
    ASSUME VoteInv, PeerInv, NEW n \in Nodes, NEW s, Good(n, s), s.role = "candidate",
           Elect(n, s), NEW base, NEW more,
           Send(base, more \cup FirstAppends(n, s)),
           GoodMessages(DOMAIN base), GoodMessages(more)
    PROVE  PeerInv'
<1> DEFINE t == AfterVote(n, s)
<1>1. node' = [node EXCEPT ![n] = t]
  BY DEF Elect
<1>2. Good(n, t)
  BY AfterVoteGood
<1>3. FirstAppends(n, s) = {} \/ FirstAppends(n, s) = AppendRequests(n, t)
  BY DEF FirstAppends
<1> HIDE DEF t
<1>4. GoodMessages(more \cup FirstAppends(n, s))
  BY <1>2, <1>3, RequestsGood DEF GoodMessages
<1>5. GoodMessages(DOMAIN network')
  BY <1>4, SendGood
<1> QED BY <1>1, <1>2, <1>5, PeerStep

(* The election timeout.                                                   *)
LEMMA ElectionTimeoutGood ==
    ASSUME VoteInv, PeerInv, NEW n \in Nodes, ElectionTimeout(n)
    PROVE  PeerInv'
<1> DEFINE r == node[n]
           s == Candidacy(n)
           term == r.current_term + 1
           d == PersistState(r.disk, term, n)
<1>1. Good(n, r) /\ GoodMessages(DOMAIN network)
  BY DEF PeerInv
<1>2. s = [r EXCEPT !.role = "candidate", !.current_term = term,
                    !.voted_for = n, !.votes_received = {n}, !.disk = d]
  BY DEF Candidacy
<1>3. Elect(n, s) /\ Send(network, VoteRequests(n, s) \cup FirstAppends(n, s))
  BY DEF ElectionTimeout
<1>4. GoodDisk(d) /\ term \in Nat /\ term > 0
  BY <1>1, PersistStateGood DEF Good
<1> HIDE DEF s, d, r, term
<1>5. Good(n, s) /\ s.role = "candidate"
  BY <1>1, <1>2, <1>4 DEF Good, Fields
<1>6. GoodMessages(VoteRequests(n, s))
  BY OthersGood
<1> QED BY <1>1, <1>3, <1>5, <1>6, ElectGood

(* A vote response.                                                        *)
LEMMA HandleVoteResponseGood ==
    ASSUME VoteInv, PeerInv, NEW m \in DOMAIN network, HandleVoteResponse(m)
    PROVE  PeerInv'
<1> DEFINE n == m.to
           r == node[n]
           vs == r.votes_received \cup {m.from}
           s == [r EXCEPT !.votes_received = vs]
           none == {}
<1>1. n \in Nodes /\ m.term \in Nat
  BY DEF VoteInv, Addressed
<1>2. Good(n, r) /\ GoodMessages(DOMAIN Received(m))
  BY <1>1, ReceivedGood DEF PeerInv
<1>3. \/ node' = [node EXCEPT ![n] = StepDown(r, m.term)] /\ network' = Received(m)
      \/ r.role = "candidate" /\ Elect(n, s) /\ Send(Received(m), FirstAppends(n, s))
      \/ node' = node /\ network' = Received(m)
  BY DEF HandleVoteResponse
<1>4. CASE node' = [node EXCEPT ![n] = StepDown(r, m.term)] /\ network' = Received(m)
  BY <1>1, <1>2, <1>4, StepDownGood, PeerStep
<1>5. CASE r.role = "candidate" /\ Elect(n, s) /\ Send(Received(m), FirstAppends(n, s))
  <2> HIDE DEF vs
  <2>1. Good(n, s) /\ s.role = "candidate"
    BY <1>2, <1>5 DEF Good, Fields
  <2>2. none \cup FirstAppends(n, s) = FirstAppends(n, s) /\ GoodMessages(none)
    BY DEF GoodMessages
  <2> HIDE DEF s, none
  <2>3. Send(Received(m), none \cup FirstAppends(n, s))
    BY <1>5, <2>2
  <2> QED BY <1>1, <1>2, <1>5, <2>1, <2>2, <2>3, ElectGood
<1>6. CASE node' = node /\ network' = Received(m)
  BY <1>2, <1>6 DEF PeerInv
<1> QED BY <1>3, <1>4, <1>5, <1>6

(* handle_vote_request.                                                    *)
LEMMA HandleRequestVoteGood ==
    ASSUME VoteInv, PeerInv, NEW m \in DOMAIN network, HandleRequestVote(m)
    PROVE  PeerInv'
<1> DEFINE n == m.to
           s == node[n]
           o == ObserveTerm(s, m.term)
           t == Voted(s, m)
           d == PersistState(o.disk, o.current_term, m.from)
<1>1. n \in Nodes /\ m.term \in Nat
  BY DEF VoteInv, Addressed
<1>2. Good(n, s) /\ GoodMessages(DOMAIN Received(m))
  BY <1>1, ReceivedGood DEF PeerInv
<1>3. Good(n, o)
  BY <1>1, <1>2, StepDownGood DEF ObserveTerm
<1>4. GoodDisk(d)
  BY <1>3, PersistStateGood DEF Good
<1>5. t = [o EXCEPT !.voted_for = m.from, !.disk = d] \/ t = o
  BY DEF Voted
<1>6. /\ node' = [node EXCEPT ![n] = t]
      /\ Send(Received(m), {VoteResponse(m, t.current_term, GrantsVote(s, m))})
  BY DEF HandleRequestVote
<1> HIDE DEF d, o, t
<1>7. Good(n, t)
  BY <1>3, <1>4, <1>5 DEF Good, Fields
<1>8. GoodMessages({VoteResponse(m, t.current_term, GrantsVote(s, m))})
  BY OthersGood
<1>9. GoodMessages(DOMAIN network')
  BY <1>2, <1>6, <1>8, SendGood
<1> QED BY <1>1, <1>6, <1>7, <1>9, PeerStep


(* handle_append_entries_rpc.                                              *)
LEMMA HandleAppendEntriesGood ==
    ASSUME VoteInv, PeerInv, NEW m \in DOMAIN network, HandleAppendEntries(m)
    PROVE  PeerInv'
<1> DEFINE n == m.to
           s == node[n]
           o == ObserveTerm(s, m.term)
           f == [o EXCEPT !.leader_id = m.from]
           t == Appended(n, f, m)
<1>1. n \in Nodes /\ m.term \in Nat
  BY DEF VoteInv, Addressed
<1>2. Good(n, s) /\ GoodMessages(DOMAIN Received(m)) /\ GoodRequest(m)
  BY <1>1, ReceivedGood DEF PeerInv, GoodMessages, HandleAppendEntries
<1>3. Good(n, o)
  BY <1>1, <1>2, StepDownGood DEF ObserveTerm
<1>4. \/ /\ node' = node
         /\ Send(Received(m), {AppendResponse(m, s.current_term, FALSE, 0)})
      \/ /\ node' = [node EXCEPT ![n] = t] /\ PrevOk(f, m)
         /\ Send(Received(m), {AppendResponse(m, t.current_term, TRUE, Len(t.log))})
      \/ /\ node' = [node EXCEPT ![n] = f]
         /\ Send(Received(m), {AppendResponse(m, f.current_term, FALSE, 0)})
  BY DEF HandleAppendEntries
<1> HIDE DEF o
<1>5. Good(n, f)
  BY <1>3 DEF Good, Fields
<1> HIDE DEF f
<1>6. ASSUME NEW term, NEW ok, NEW i \in Nat,
             Send(Received(m), {AppendResponse(m, term, ok, i)})
      PROVE  GoodMessages(DOMAIN network')
  <2>1. GoodMessages({AppendResponse(m, term, ok, i)})
    BY OthersGood
  <2> QED BY <1>2, <1>6, <2>1, SendGood
<1>7. CASE node' = node /\ Send(Received(m), {AppendResponse(m, s.current_term, FALSE, 0)})
  BY <1>6, <1>7 DEF PeerInv
<1>8. CASE /\ node' = [node EXCEPT ![n] = f]
           /\ Send(Received(m), {AppendResponse(m, f.current_term, FALSE, 0)})
  BY <1>1, <1>5, <1>6, <1>8, PeerStep
<1>9. CASE /\ node' = [node EXCEPT ![n] = t] /\ PrevOk(f, m)
           /\ Send(Received(m), {AppendResponse(m, t.current_term, TRUE, Len(t.log))})
  <2>1. Good(n, t)
    BY <1>1, <1>2, <1>5, <1>9, AppendedGood
  <2> HIDE DEF t
  <2>2. Len(t.log) \in Nat
    BY <2>1, HarmlessLen DEF Good
  <2>3. GoodMessages(DOMAIN network')
    BY <1>6, <1>9, <2>2
  <2> QED BY <1>1, <1>9, <2>1, <2>3, PeerStep
<1> QED BY <1>4, <1>7, <1>8, <1>9

(* handle_ae_response.                                                     *)
LEMMA HandleAppendResponseGood ==
    ASSUME VoteInv, PeerInv, NEW m \in DOMAIN network, HandleAppendResponse(m)
    PROVE  PeerInv'
<1> DEFINE n == m.to
           s == node[n]
           a == Matched(s, m)
           b == BackedOff(s, m)
           w == ReplyToPending(ApplyCommitted(n, MaybeAdvanceCommit(n, a)))
<1>1. n \in Nodes /\ m.term \in Nat
  BY DEF VoteInv, Addressed
<1>2. /\ Good(n, s) /\ GoodMessages(DOMAIN network') /\ m.match_index \in Nat
  BY <1>1, ReceivedGood DEF PeerInv, GoodMessages, HandleAppendResponse
<1>3. \/ node' = [node EXCEPT ![n] = StepDown(s, m.term)]
      \/ node' = [node EXCEPT ![n] = w] /\ s.role = "leader"
      \/ node' = [node EXCEPT ![n] = b]
      \/ node' = node
  BY DEF HandleAppendResponse
<1>4. CASE node' = [node EXCEPT ![n] = StepDown(s, m.term)]
  BY <1>1, <1>2, <1>4, StepDownGood, PeerStep
<1>5. CASE node' = [node EXCEPT ![n] = w] /\ s.role = "leader"
  <2> DEFINE x == MapPut(s.next_index, m.from, m.match_index + 1)
             y == MapPut(s.match_index, m.from, m.match_index)
  <2>1. NextOK(x)
    BY <1>2 DEF MapPut, Good, NextOK
  <2>2. a = [s EXCEPT !.next_index = x, !.match_index = y]
    BY DEF Matched
  <2> HIDE DEF x, y, a
  <2>3. Good(n, a) /\ a.role = "leader"
    BY <1>2, <1>5, <2>1, <2>2 DEF Good, Fields
  <2>4. Good(n, w)
    BY <1>1, <2>3, AdvanceGood
  <2> HIDE DEF w
  <2> QED BY <1>1, <1>2, <1>5, <2>4, PeerStep
<1>6. CASE node' = [node EXCEPT ![n] = b]
  <2> DEFINE k == MapGet(s.next_index, m.from, 1) - 1
             j == Max({k, 1})
             x == MapPut(s.next_index, m.from, j)
  <2>1. k \in Nat
    BY <1>2 DEF MapGet, Good, NextOK
  <2> HIDE DEF k
  <2>2. j \in Nat \ {0}
    BY <2>1 DEF Max
  <2> HIDE DEF j
  <2>3. NextOK(x)
    BY <1>2, <2>2 DEF MapPut, Good, NextOK
  <2>4. b = [s EXCEPT !.next_index = x]
    BY DEF BackedOff, j, k
  <2> HIDE DEF x, b
  <2>5. Good(n, b)
    BY <1>2, <2>3, <2>4 DEF Good, Fields
  <2> QED BY <1>1, <1>2, <1>6, <2>5, PeerStep
<1>7. CASE node' = node
  BY <1>2, <1>7 DEF PeerInv
<1> QED BY <1>3, <1>4, <1>5, <1>6, <1>7

(* A client's command, if it is harmless.                                  *)
LEMMA ProposeGood ==
    ASSUME VoteInv, PeerInv, NEW n \in Nodes, NEW c, Harmless(c), Propose(n, c)
    PROVE  PeerInv'
<1> DEFINE s == node[n]
           a == AppendOwn(s, c)
           x == a.pending \cup {[index |-> Len(s.log) + 1, command |-> c,
                                 term |-> s.current_term]}
           t == [a EXCEPT !.pending = x]
           w == ReplyToPending(ApplyCommitted(n, MaybeAdvanceCommit(n, t)))
<1>1. Good(n, s) /\ Shape(s) /\ GoodMessages(DOMAIN network)
  BY DEF PeerInv, VoteInv, Stored
<1>2. /\ s.role = "leader" /\ node' = [node EXCEPT ![n] = w]
      /\ Send(network, AppendRequests(n, t))
  BY DEF Propose
<1>3. Good(n, a) /\ a.role = "leader"
  BY <1>1, <1>2, AppendOwnGood, AppendOwnEffect
<1> HIDE DEF a, x
<1>4. Good(n, t) /\ t.role = "leader"
  BY <1>3 DEF Good, Fields
<1> HIDE DEF t
<1>5. Good(n, w)
  BY <1>4, AdvanceGood
<1>6. GoodMessages(DOMAIN network')
  BY <1>1, <1>2, <1>4, RequestsGood, SendGood
<1> HIDE DEF w
<1> QED BY <1>2, <1>5, <1>6, PeerStep

(* A heartbeat.                                                            *)
LEMMA HeartbeatGood ==
    ASSUME VoteInv, PeerInv, NEW n \in Nodes, Heartbeat(n)
    PROVE  PeerInv'
<1>1. Good(n, node[n]) /\ GoodMessages(DOMAIN network)
  BY DEF PeerInv
<1>2. GoodMessages(DOMAIN network')
  BY <1>1, RequestsGood, SendGood DEF Heartbeat
<1> QED BY <1>2 DEF PeerInv, Heartbeat

(* Restarts, between callbacks and inside them.                            *)
LEMMA CrashGood ==
    ASSUME WalEnabled, InitPeers = [p \in Nodes |-> Nodes \ {p}], VoteInv, PeerInv,
           \/ \E n \in Nodes : CrashRestart(n)
           \/ \E m \in DOMAIN network : CrashInVote(m) \/ CrashInAppend(m)
    PROVE  PeerInv'
<1>1. ASSUME NEW n \in Nodes, CrashRestart(n) PROVE PeerInv'
  <2>1. Good(n, node[n]) /\ Stored(node[n]) /\ GoodMessages(DOMAIN network)
    BY DEF PeerInv, VoteInv
  <2>2. node[n].disk.state.current_term \in Nat
    BY <2>1 DEF Stored
  <2>3. Good(n, StartNode(n, node[n].disk))
    BY <2>1, <2>2, StartNodeGood DEF Good
  <2>4. node' = [node EXCEPT ![n] = StartNode(n, node[n].disk)] /\ network' = network
    BY <1>1 DEF CrashRestart
  <2> QED BY <2>1, <2>3, <2>4, PeerStep
<1>2. ASSUME NEW m \in DOMAIN network, CrashInVote(m) PROVE PeerInv'
  <2> DEFINE n == m.to
             d == StepDown(node[n], m.term)
  <2>1. n \in Nodes /\ m.term \in Nat /\ Stored(node[n])
    BY DEF VoteInv, Addressed
  <2>2. Good(n, d) /\ Stored(d)
    BY <2>1, StepDownGood, StepDownStored DEF PeerInv
  <2>3. /\ node' = [node EXCEPT ![n] = StartNode(n, d.disk)]
        /\ GoodMessages(DOMAIN network')
    BY <1>2, ReceivedGood DEF CrashInVote, PeerInv
  <2> HIDE DEF d
  <2>4. Good(n, StartNode(n, d.disk))
    BY <2>1, <2>2, StartNodeGood DEF Good, Stored
  <2> QED BY <2>1, <2>3, <2>4, PeerStep
<1>3. ASSUME NEW m \in DOMAIN network, CrashInAppend(m) PROVE PeerInv'
  <2> DEFINE n == m.to
             s == node[n]
             f == ObserveTerm(s, m.term)
             kept == TruncateAfter(f.disk, m.prev_log_index)
  <2>1. n \in Nodes /\ m.term \in Nat /\ Stored(s) /\ Good(n, s)
    BY DEF VoteInv, Addressed, PeerInv
  <2>2. Good(n, f) /\ Stored(f)
    BY <2>1, StepDownGood, StepDownStored DEF ObserveTerm
  <2>3. PICK disk \in {kept, [kept EXCEPT !.wal = <<>>]} :
          node' = [node EXCEPT ![n] = StartNode(n, disk)]
    BY <1>3 DEF CrashInAppend
  <2>4. GoodMessages(DOMAIN network')
    BY <1>3, ReceivedGood DEF CrashInAppend, PeerInv
  <2> HIDE DEF f
  <2>5. GoodDisk(kept) /\ kept.state = f.disk.state
    BY <2>2, TruncateAfterGood, TruncateAfterKeeps DEF Good, Stored, Shape
  <2> HIDE DEF kept
  <2>6. GoodDisk(disk) /\ disk.state = f.disk.state
    <3>1. /\ GoodDisk([kept EXCEPT !.wal = <<>>])
          /\ [kept EXCEPT !.wal = <<>>].state = kept.state
      BY <2>5, TruncateAfterGood DEF GoodDisk, Files
    <3> QED BY <2>3, <2>5, <3>1
  <2>7. disk.state.current_term \in Nat
    BY <2>2, <2>6 DEF Stored
  <2>8. Good(n, StartNode(n, disk))
    BY <2>1, <2>6, <2>7, StartNodeGood
  <2> QED BY <2>1, <2>3, <2>4, <2>8, PeerStep
<1> QED BY <1>1, <1>2, <1>3
-----------------------------------------------------------------------------
(* A cluster of full peer lists whose clients remove no server and add no  *)
(* stranger.                                                               *)
FixedCluster ==
    /\ IsFiniteSet(Nodes)
    /\ InitPeers = [n \in Nodes |-> Nodes \ {n}]
    /\ \A c \in Commands : Harmless(c)

(* The peer lists at the start.                                            *)
LEMMA PeerInvInit ==
    ASSUME FixedCluster, Init
    PROVE  PeerInv
<1>1. GoodDisk(EmptyDisk) /\ EmptyDisk.state.current_term \in Nat
  <2>1. /\ EmptyDisk.wal = <<>> /\ EmptyDisk.state.current_term = 0
        /\ EmptyDisk.snapshot = NoSnapshot /\ DOMAIN EmptyDisk = Files
    BY DEF EmptyDisk, Files
  <2>2. NoSnapshot.index = 0
    BY DEF NoSnapshot
  <2>3. <<>> \in Seq({})
    OBVIOUS
  <2> QED BY <2>1, <2>2, <2>3 DEF GoodDisk, Lines
<1>2. \A n \in Nodes : Good(n, StartNode(n, EmptyDisk))
  BY <1>1, StartNodeGood DEF FixedCluster
<1>3. DOMAIN network = {}
  BY DEF Init, EmptyBag, SetToBag
<1> QED BY <1>2, <1>3 DEF Init, PeerInv, GoodMessages

(* Every step.                                                             *)
LEMMA PeerInvStep ==
    ASSUME WalEnabled, FixedCluster, VoteInv, PeerInv, [Next]_vars
    PROVE  PeerInv'
<1>1. ASSUME NEW n \in Nodes, ElectionTimeout(n) PROVE PeerInv'
  BY <1>1, ElectionTimeoutGood
<1>2. ASSUME NEW n \in Nodes, Heartbeat(n) PROVE PeerInv'
  BY <1>2, HeartbeatGood
<1>3. ASSUME NEW n \in Nodes, CrashRestart(n) PROVE PeerInv'
  BY <1>3, CrashGood DEF FixedCluster
<1>4. ASSUME NEW n \in Nodes, NEW c \in Commands, Propose(n, c) PROVE PeerInv'
  BY <1>4, ProposeGood DEF FixedCluster
<1>5. ASSUME NEW m \in BagToSet(network), HandleRequestVote(m) PROVE PeerInv'
  BY <1>5, HandleRequestVoteGood DEF BagToSet
<1>6. ASSUME NEW m \in BagToSet(network), HandleVoteResponse(m) PROVE PeerInv'
  BY <1>6, HandleVoteResponseGood DEF BagToSet
<1>7. ASSUME NEW m \in BagToSet(network), HandleAppendEntries(m) PROVE PeerInv'
  BY <1>7, HandleAppendEntriesGood DEF BagToSet
<1>8. ASSUME NEW m \in BagToSet(network), HandleAppendResponse(m) PROVE PeerInv'
  BY <1>8, HandleAppendResponseGood DEF BagToSet
<1>9. ASSUME NEW m \in BagToSet(network), CrashInVote(m) \/ CrashInAppend(m) PROVE PeerInv'
  BY <1>9, CrashGood DEF BagToSet, FixedCluster
<1>10. CASE UNCHANGED vars
  BY <1>10 DEF vars, PeerInv
<1> QED BY <1>1, <1>2, <1>3, <1>4, <1>5, <1>6, <1>7, <1>8, <1>9, <1>10 DEF Next

(* The peer lists of a fixed cluster stay full, through every crash and    *)
(* every recovery of the log: apply_membership_change never shrinks or     *)
(* grows them, and deserialize_command brings back no membership command.  *)
THEOREM PeersStayFull == WalEnabled /\ FixedCluster => (Spec => []FullCluster)
<1> SUFFICES ASSUME WalEnabled, FixedCluster PROVE Spec => []FullCluster
  OBVIOUS
<1>1. Init => VoteInv /\ PeerInv
  BY VoteInvInit, PeerInvInit
<1>2. VoteInv /\ PeerInv /\ [Next]_vars => VoteInv' /\ PeerInv'
  BY VoteInvStep, PeerInvStep
<1>3. PeerInv => FullCluster
  BY DEF PeerInv, FullCluster, Good
<1> QED BY <1>1, <1>2, <1>3, PTL DEF Spec

(* In a fixed cluster two elections of one term that counted only votes of *)
(* that term have the same winner, whatever is lost, delayed or reordered, *)
(* and wherever nodes crash.                                               *)
THEOREM BackedWinnersAgree == WalEnabled /\ FixedCluster => (Spec => []BackedElectionSafety)
<1> SUFFICES ASSUME WalEnabled, FixedCluster PROVE Spec => []BackedElectionSafety
  OBVIOUS
<1>1. Spec => []FullCluster
  BY PeersStayFull
<1>2. Spec /\ []FullCluster => []BackedElectionSafety
  BY OneBackedWinner DEF FixedCluster
<1> QED BY <1>1, <1>2, PTL

(* In a fixed cluster without crashes, as long as the elections counted    *)
(* only votes of their own term, two logs that hold an entry of the same   *)
(* term at the same place are equal up to it.                              *)
THEOREM FixedLogsMatch ==
    WalEnabled /\ FixedCluster /\ MaxCrashes = 0 => (Spec => []LogMatching)
<1> SUFFICES ASSUME WalEnabled, FixedCluster, MaxCrashes = 0 PROVE Spec => []LogMatching
  OBVIOUS
<1>1. Spec => []FullCluster
  BY PeersStayFull
<1>2. Spec /\ []FullCluster => []LogMatching
  BY LogsMatch DEF FixedCluster
<1> QED BY <1>1, <1>2, PTL

-----------------------------------------------------------------------------
(* Acknowledgements.  A pending request of the node's present term names   *)
(* the entry that propose appended: the node has led ever since, and a     *)
(* leader's log is rewritten by nobody, because an AppendEntries request   *)
(* of its own term would come from a second winner.  A restart forgets the *)
(* pending requests.                                                       *)
Winner(E, n, term) == \E e \in E : e.leader = n /\ e.term = term

LedRequests(E, msgs) ==
    \A m \in msgs :
        m.type = "append_entries" => m.from # m.to /\ Winner(E, m.from, m.term)

OwnRequests(s) ==
    \A r \in s.pending :
        /\ r.term \in Nat /\ r.term <= s.current_term
        /\ r.term = s.current_term =>
             /\ s.role = "leader"
             /\ r.index \in DOMAIN s.log /\ s.log[r.index].command = r.command

OwnAcks(A) == \A a \in A : a.term = a.now => a.command = a.logged

AckInv ==
    /\ \A n \in Nodes :
         node[n].role = "leader" => Winner(elections, n, node[n].current_term)
    /\ LedRequests(elections, DOMAIN network)
    /\ ElectionSafety => (\A n \in Nodes : OwnRequests(node[n])) /\ OwnAcks(acked)

(* What a callback may do to its node's requests and to what they name.    *)
Extends(l, k) == \A i \in DOMAIN l : i \in DOMAIN k /\ k[i] = l[i]

Holds(s, t) ==
    /\ t.pending \subseteq s.pending
    /\ \/ t.current_term > s.current_term
       \/ /\ t.current_term = s.current_term
          /\ s.role = "leader" => t.role = "leader" /\ Extends(s.log, t.log)

(* Such a callback leaves the requests right.                              *)
LEMMA HoldsOwn ==
    ASSUME NEW s, NEW t, s.current_term \in Nat, t.current_term \in Nat,
           OwnRequests(s), Holds(s, t)
    PROVE  OwnRequests(t)
<1> SUFFICES ASSUME NEW r \in t.pending
             PROVE  /\ r.term \in Nat /\ r.term <= t.current_term
                    /\ r.term = t.current_term =>
                         /\ t.role = "leader"
                         /\ r.index \in DOMAIN t.log
                         /\ t.log[r.index].command = r.command
  BY DEF OwnRequests
<1>1. /\ r.term \in Nat /\ r.term <= s.current_term
      /\ r.term = s.current_term =>
           /\ s.role = "leader"
           /\ r.index \in DOMAIN s.log /\ s.log[r.index].command = r.command
  BY DEF OwnRequests, Holds
<1>2. CASE t.current_term > s.current_term
  BY <1>1, <1>2
<1>3. CASE /\ t.current_term = s.current_term
           /\ s.role = "leader" => t.role = "leader" /\ Extends(s.log, t.log)
  BY <1>1, <1>3 DEF Extends
<1> QED BY <1>2, <1>3 DEF Holds

(* Messages added by Send.                                                 *)
LEMMA SendLed ==
    ASSUME NEW E, NEW base, NEW msgs, Send(base, msgs),
           LedRequests(E, DOMAIN base), LedRequests(E, msgs)
    PROVE  LedRequests(E, DOMAIN network')
<1>1. PICK sent \in SUBSET msgs : network' = base (+) SetToBag(sent)
  BY DEF Send
<1>2. DOMAIN (base (+) SetToBag(sent)) = DOMAIN base \cup sent
  BY DEF (+), SetToBag
<1> QED BY <1>1, <1>2 DEF LedRequests

(* A message received, and elections won.                                  *)
LEMMA ReceivedLed ==
    ASSUME NEW E, NEW F, E \subseteq F, LedRequests(E, DOMAIN network), NEW m
    PROVE  LedRequests(F, DOMAIN network) /\ LedRequests(F, DOMAIN Received(m))
<1>1. DOMAIN Received(m) \subseteq DOMAIN network
  BY DEF Received, (-)
<1> QED BY <1>1 DEF LedRequests, Winner

(* What a leader sends.                                                    *)
LEMMA RequestsLed ==
    ASSUME NEW E, NEW n, NEW s, Good(n, s), Winner(E, n, s.current_term)
    PROVE  LedRequests(E, AppendRequests(n, s))
<1> SUFFICES ASSUME NEW m \in AppendRequests(n, s)
             PROVE  m.from # m.to /\ Winner(E, m.from, m.term)
  BY DEF LedRequests
<1>1. PICK p \in Reachable(s) :
        m.from = n /\ m.to = p /\ m.term = s.current_term
  BY DEF AppendRequests
<1>2. p # n
  BY DEF Reachable, Good
<1> QED BY <1>1, <1>2

(* Messages that are no AppendEntries requests.                            *)
LEMMA OthersLed ==
    ASSUME NEW E, NEW m, NEW term, NEW ok, NEW i, NEW n, NEW s
    PROVE  /\ LedRequests(E, {VoteResponse(m, term, ok)})
           /\ LedRequests(E, {AppendResponse(m, term, ok, i)})
           /\ LedRequests(E, VoteRequests(n, s))
<1>1. VoteResponse(m, term, ok).type = "vote_response"
  BY DEF VoteResponse
<1>2. AppendResponse(m, term, ok, i).type = "append_entries_response"
  BY DEF AppendResponse
<1>3. \A x \in VoteRequests(n, s) : x.type = "request_vote"
  BY DEF VoteRequests
<1> QED BY <1>1, <1>2, <1>3 DEF LedRequests

(* A step of one node.                                                     *)
LEMMA AckStep ==
    ASSUME VoteInv, AckInv, NEW n \in Nodes, NEW t, node' = [node EXCEPT ![n] = t],
           elections \subseteq elections',
           t.role = "leader" => Winner(elections', n, t.current_term),
           LedRequests(elections', DOMAIN network'),
           ElectionSafety' /\ ElectionSafety => OwnRequests(t) /\ OwnAcks(acked')
    PROVE  AckInv'
<1>1. node'[n] = t /\ \A p \in Nodes \ {n} : node'[p] = node[p]
  BY DEF VoteInv
<1>2. \A p \in Nodes :
        node'[p].role = "leader" => Winner(elections', p, node'[p].current_term)
  BY <1>1 DEF AckInv, Winner
<1>3. ElectionSafety' => ElectionSafety
  BY DEF ElectionSafety
<1>4. ElectionSafety' => (\A p \in Nodes : OwnRequests(node'[p])) /\ OwnAcks(acked')
  BY <1>1, <1>3 DEF AckInv
<1>5. /\ (\A p \in Nodes : OwnRequests(node[p]))' <=> \A p \in Nodes : OwnRequests(node'[p])
      /\ OwnAcks(acked)' <=> OwnAcks(acked')
      /\ LedRequests(elections, DOMAIN network)' <=> LedRequests(elections', DOMAIN network')
      /\ (\A p \in Nodes :
            node[p].role = "leader" => Winner(elections, p, node[p].current_term))'
         <=> \A p \in Nodes :
               node'[p].role = "leader" => Winner(elections', p, node'[p].current_term)
  BY DEF OwnRequests, OwnAcks, LedRequests, Winner
<1> QED BY <1>2, <1>4, <1>5 DEF AckInv

(* A step that answers nobody and keeps what the node's requests name.     *)
LEMMA HeldStep ==
    ASSUME VoteInv, AckInv, NEW n \in Nodes, NEW t, node' = [node EXCEPT ![n] = t],
           elections \subseteq elections', acked' = acked, t.current_term \in Nat,
           t.role = "leader" => Winner(elections', n, t.current_term),
           LedRequests(elections', DOMAIN network'),
           ElectionSafety => Holds(node[n], t)
    PROVE  AckInv'
<1>1. node[n].current_term \in Nat
  BY DEF VoteInv, Stored
<1>2. ElectionSafety => OwnRequests(t) /\ OwnAcks(acked')
  BY <1>1, HoldsOwn DEF AckInv
<1> HIDE DEF AckInv, VoteInv
<1> QED BY <1>2, AckStep

(* A step that leaves the nodes alone.                                     *)
LEMMA IdleStep ==
    ASSUME AckInv, node' = node, elections' = elections, acked' = acked,
           LedRequests(elections, DOMAIN network')
    PROVE  AckInv'
<1>1. LedRequests(elections, DOMAIN network)' <=> LedRequests(elections', DOMAIN network')
  BY DEF LedRequests, Winner
<1>2. ElectionSafety' <=> ElectionSafety
  BY DEF ElectionSafety
<1> QED BY <1>1, <1>2 DEF AckInv, Winner, OwnRequests, OwnAcks

(* step_down keeps the requests and moves the term past theirs.            *)
LEMMA StepDownHolds ==
    ASSUME NEW s, Shape(s), NEW term \in Nat, s.current_term \in Nat
    PROVE  /\ term > s.current_term => Holds(s, StepDown(s, term))
           /\ Holds(s, ObserveTerm(s, term))
           /\ ObserveTerm(s, term).role = "leader" =>
                s.role = "leader" /\ ObserveTerm(s, term).current_term = s.current_term
<1> DEFINE t == StepDown(s, term)
<1>1. t.role = "follower" /\ t.current_term = term /\ t.pending = s.pending
  BY StepDownEffect DEF SameRequests
<1>2. ObserveTerm(s, term) = IF term > s.current_term THEN t ELSE s
  BY DEF ObserveTerm
<1> HIDE DEF t
<1>3. Holds(s, s)
  BY DEF Holds, Extends
<1>4. term > s.current_term => Holds(s, t)
  BY <1>1 DEF Holds
<1> QED BY <1>1, <1>2, <1>3, <1>4 DEF t

(* Elections: a candidate has no request of its own term.                  *)
LEMMA ElectAck ==
    ASSUME VoteInv, AckInv, NEW n \in Nodes, NEW s, Good(n, s), s.role = "candidate",
           Holds(node[n], s), Elect(n, s), acked' = acked, NEW base, NEW more,
           Send(base, more \cup FirstAppends(n, s)),
           LedRequests(elections', DOMAIN base), LedRequests(elections', more)
    PROVE  AckInv'
<1> DEFINE t == AfterVote(n, s)
<1>1. node' = [node EXCEPT ![n] = t] /\ elections' = elections \cup WonElection(n, s, t)
  BY DEF Elect
<1>2. Good(n, t)
  BY AfterVoteGood
<1>3. /\ t.current_term = s.current_term /\ t.pending = s.pending
      /\ t.role \in {"candidate", "leader"}
  <2>1. Shape(s)
    BY DEF Good, GoodDisk, Shape
  <2>2. t = s \/ t = BecomeLeader(n, s)
    BY DEF AfterVote
  <2> DEFINE u == BecomeLeader(n, s)
  <2>3. u.current_term = s.current_term /\ u.role = "leader" /\ SameRequests(s, u)
    BY <2>1, BecomeLeaderEffect, ZenonT(30)
  <2> HIDE DEF t, u
  <2> QED BY <2>2, <2>3 DEF SameRequests, u
<1>4. FirstAppends(n, s) = IF t.role = "leader" THEN AppendRequests(n, t) ELSE {}
  BY DEF FirstAppends
<1> HIDE DEF t
<1>5. ASSUME t.role = "leader" PROVE Winner(elections', n, t.current_term)
  <2> DEFINE e == [term |-> t.current_term, leader |-> n, votes |-> t.votes_received]
  <2>1. e \in elections'
    BY <1>1, <1>5 DEF WonElection
  <2> QED BY <2>1 DEF Winner
<1>6. LedRequests(elections', FirstAppends(n, s))
  BY <1>2, <1>4, <1>5, RequestsLed DEF LedRequests
<1>7. LedRequests(elections', more \cup FirstAppends(n, s))
  BY <1>6 DEF LedRequests
<1>8. LedRequests(elections', DOMAIN network')
  BY <1>7, SendLed
<1>9. Holds(node[n], t)
  <2>1. t.pending \subseteq node[n].pending
    BY <1>3 DEF Holds
  <2> QED BY <1>3, <2>1 DEF Holds
<1>10. t.current_term \in Nat /\ elections \subseteq elections'
  BY <1>1, <1>2 DEF Good
<1> QED BY <1>1, <1>5, <1>8, <1>9, <1>10, HeldStep

(* The election timeout.                                                   *)
LEMMA ElectionTimeoutAck ==
    ASSUME VoteInv, PeerInv, AckInv, NEW n \in Nodes, ElectionTimeout(n)
    PROVE  AckInv'
<1> DEFINE r == node[n]
           s == Candidacy(n)
           term == r.current_term + 1
           d == PersistState(r.disk, term, n)
<1>1. Good(n, r)
  BY DEF PeerInv
<1>2. s = [r EXCEPT !.role = "candidate", !.current_term = term,
                    !.voted_for = n, !.votes_received = {n}, !.disk = d]
  BY DEF Candidacy
<1>3. /\ Elect(n, s) /\ Send(network, VoteRequests(n, s) \cup FirstAppends(n, s))
      /\ acked' = acked
  BY DEF ElectionTimeout
<1>4. GoodDisk(d) /\ term \in Nat /\ term > 0 /\ term > r.current_term
  BY <1>1, PersistStateGood DEF Good
<1>5. elections \subseteq elections'
  BY <1>3 DEF Elect
<1> HIDE DEF s, d, r, term
<1>6. Good(n, s) /\ s.role = "candidate" /\ s.current_term = term /\ s.pending = r.pending
  BY <1>1, <1>2, <1>4 DEF Good, Fields
<1>7. Holds(r, s)
  BY <1>4, <1>6 DEF Holds
<1>8. LedRequests(elections', VoteRequests(n, s)) /\ LedRequests(elections', DOMAIN network)
  BY <1>5, OthersLed, ReceivedLed DEF AckInv
<1> QED BY <1>3, <1>6, <1>7, <1>8, ElectAck DEF r

(* A vote response.                                                        *)
LEMMA HandleVoteResponseAck ==
    ASSUME VoteInv, PeerInv, AckInv, NEW m \in DOMAIN network, HandleVoteResponse(m)
    PROVE  AckInv'
<1> DEFINE n == m.to
           r == node[n]
           vs == r.votes_received \cup {m.from}
           s == [r EXCEPT !.votes_received = vs]
           none == {}
<1>1. n \in Nodes /\ m.term \in Nat /\ Good(n, r) /\ Shape(r) /\ r.current_term \in Nat
  BY DEF VoteInv, Addressed, PeerInv, Stored
<1>2. /\ acked' = acked
      /\ \/ /\ node' = [node EXCEPT ![n] = StepDown(r, m.term)] /\ network' = Received(m)
            /\ m.term > r.current_term /\ elections' = elections
         \/ r.role = "candidate" /\ Elect(n, s) /\ Send(Received(m), FirstAppends(n, s))
         \/ node' = node /\ network' = Received(m) /\ elections' = elections
  BY DEF HandleVoteResponse
<1>3. elections \subseteq elections'
  BY <1>2 DEF Elect
<1>4. LedRequests(elections', DOMAIN Received(m))
  BY <1>3, ReceivedLed DEF AckInv
<1>5. CASE /\ node' = [node EXCEPT ![n] = StepDown(r, m.term)] /\ network' = Received(m)
           /\ m.term > r.current_term /\ elections' = elections
  <2> DEFINE t == StepDown(r, m.term)
  <2>1. t.role = "follower" /\ t.current_term = m.term /\ Holds(r, t)
    BY <1>1, <1>5, StepDownEffect, StepDownHolds
  <2> HIDE DEF t
  <2> QED BY <1>1, <1>2, <1>3, <1>4, <1>5, <2>1, HeldStep DEF t
<1>6. CASE r.role = "candidate" /\ Elect(n, s) /\ Send(Received(m), FirstAppends(n, s))
  <2> HIDE DEF vs
  <2>1. Good(n, s) /\ s.role = "candidate" /\ Holds(r, s)
    BY <1>1, <1>6 DEF Good, Fields, Holds
  <2>2. none \cup FirstAppends(n, s) = FirstAppends(n, s) /\ LedRequests(elections', none)
    BY DEF LedRequests
  <2> HIDE DEF s, none
  <2>3. Send(Received(m), none \cup FirstAppends(n, s))
    BY <1>6, <2>2
  <2> QED BY <1>1, <1>2, <1>4, <1>6, <2>1, <2>2, <2>3, ElectAck
<1>7. CASE node' = node /\ network' = Received(m) /\ elections' = elections
  BY <1>2, <1>4, <1>7, IdleStep
<1> QED BY <1>2, <1>5, <1>6, <1>7

(* handle_vote_request.                                                    *)
LEMMA HandleRequestVoteAck ==
    ASSUME VoteInv, PeerInv, AckInv, NEW m \in DOMAIN network, HandleRequestVote(m)
    PROVE  AckInv'
<1> DEFINE n == m.to
           s == node[n]
           o == ObserveTerm(s, m.term)
           t == Voted(s, m)
           d == PersistState(o.disk, o.current_term, m.from)
<1>1. n \in Nodes /\ m.term \in Nat /\ Good(n, s) /\ Shape(s) /\ s.current_term \in Nat
  BY DEF VoteInv, Addressed, PeerInv, Stored
<1>2. Good(n, o) /\ Holds(s, o)
  BY <1>1, StepDownGood, StepDownHolds DEF ObserveTerm
<1>3. o.role = "leader" => s.role = "leader" /\ o.current_term = s.current_term
  BY <1>1, StepDownHolds
<1>4. t = [o EXCEPT !.voted_for = m.from, !.disk = d] \/ t = o
  BY DEF Voted
<1>5. /\ node' = [node EXCEPT ![n] = t]
      /\ Send(Received(m), {VoteResponse(m, t.current_term, GrantsVote(s, m))})
      /\ elections' = elections /\ acked' = acked
  BY DEF HandleRequestVote
<1> HIDE DEF d, o, t
<1>6. /\ t.role = o.role /\ t.current_term = o.current_term /\ t.log = o.log
      /\ t.pending = o.pending
  BY <1>2, <1>4 DEF Good, Fields
<1>7. Holds(s, t) /\ t.current_term \in Nat
  BY <1>2, <1>6 DEF Holds, Good
<1>8. t.role = "leader" => Winner(elections', n, t.current_term)
  BY <1>1, <1>3, <1>5, <1>6 DEF AckInv
<1>9. LedRequests(elections', DOMAIN network')
  BY <1>5, OthersLed, ReceivedLed, SendLed DEF AckInv
<1> QED BY <1>1, <1>5, <1>7, <1>8, <1>9, HeldStep

(* handle_append_entries_rpc: only a node that does not lead the request's *)
(* term takes it.                                                          *)
LEMMA HandleAppendEntriesAck ==
    ASSUME VoteInv, PeerInv, AckInv, NEW m \in DOMAIN network, HandleAppendEntries(m)
    PROVE  AckInv'
<1> DEFINE n == m.to
           s == node[n]
           o == ObserveTerm(s, m.term)
           f == [o EXCEPT !.leader_id = m.from]
           t == Appended(n, f, m)
<1>1. n \in Nodes /\ m.term \in Nat /\ Good(n, s) /\ Shape(s) /\ s.current_term \in Nat
  BY DEF VoteInv, Addressed, PeerInv, Stored
<1>2. elections' = elections /\ acked' = acked /\ m.type = "append_entries"
  BY DEF HandleAppendEntries
<1>3. \/ /\ node' = node
         /\ Send(Received(m), {AppendResponse(m, s.current_term, FALSE, 0)})
      \/ /\ node' = [node EXCEPT ![n] = t] /\ m.term >= s.current_term
         /\ Send(Received(m), {AppendResponse(m, t.current_term, TRUE, Len(t.log))})
      \/ /\ node' = [node EXCEPT ![n] = f]
         /\ Send(Received(m), {AppendResponse(m, f.current_term, FALSE, 0)})
  BY DEF HandleAppendEntries
<1>4. Good(n, o) /\ Holds(s, o) /\ (m.term >= s.current_term => o.current_term = m.term)
  <2>1. Good(n, o) /\ Holds(s, o)
    BY <1>1, StepDownGood, StepDownHolds DEF ObserveTerm
  <2>2. StepDown(s, m.term).current_term = m.term
    BY <1>1, StepDownEffect
  <2>3. o = StepDown(s, m.term) \/ (o = s /\ ~(m.term > s.current_term))
    BY DEF ObserveTerm
  <2> HIDE DEF o
  <2> QED BY <1>1, <2>1, <2>2, <2>3
<1>5. o.role = "leader" => s.role = "leader" /\ o.current_term = s.current_term
  BY <1>1, StepDownHolds
<1> HIDE DEF o
<1>6. /\ f.role = o.role /\ f.current_term = o.current_term /\ f.log = o.log
      /\ f.pending = o.pending /\ Shape(f)
  BY <1>4 DEF Good, GoodDisk, Shape, Fields
<1> HIDE DEF f
<1>7. t.role = o.role /\ t.current_term = o.current_term /\ t.pending = o.pending
  <2>1. Spliced(f, t, m)
    BY <1>6, AppendedEffect
  <2> HIDE DEF t
  <2> QED BY <1>6, <2>1 DEF Spliced, SameRequests
<1> HIDE DEF t
<1>8. ASSUME NEW term, NEW ok, NEW i, Send(Received(m), {AppendResponse(m, term, ok, i)})
      PROVE  LedRequests(elections, DOMAIN network')
  <2>1. LedRequests(elections, DOMAIN Received(m))
    BY ReceivedLed DEF AckInv
  <2> QED BY <1>8, <2>1, OthersLed, SendLed
<1>9. o.role = "leader" => Winner(elections, n, o.current_term)
  BY <1>1, <1>5 DEF AckInv
<1>10. o.current_term \in Nat
  BY <1>4 DEF Good
<1>11. CASE node' = node /\ Send(Received(m), {AppendResponse(m, s.current_term, FALSE, 0)})
  BY <1>2, <1>8, <1>11, IdleStep
<1>12. CASE /\ node' = [node EXCEPT ![n] = f]
            /\ Send(Received(m), {AppendResponse(m, f.current_term, FALSE, 0)})
  <2>1. Holds(s, f)
    BY <1>4, <1>6 DEF Holds
  <2>2. LedRequests(elections, DOMAIN network')
    BY <1>8, <1>12
  <2> QED BY <1>1, <1>2, <1>6, <1>9, <1>10, <1>12, <2>1, <2>2, HeldStep
<1>13. CASE /\ node' = [node EXCEPT ![n] = t] /\ m.term >= s.current_term
            /\ Send(Received(m), {AppendResponse(m, t.current_term, TRUE, Len(t.log))})
  <2>1. ASSUME ElectionSafety, s.role = "leader", s.current_term = m.term PROVE FALSE
    <3>1. Winner(elections, n, m.term) /\ Winner(elections, m.from, m.term) /\ m.from # n
      BY <1>1, <1>2, <2>1 DEF AckInv, LedRequests
    <3> QED BY <2>1, <3>1 DEF Winner, ElectionSafety
  <2>2. o.current_term = m.term
    BY <1>4, <1>13
  <2>3. ElectionSafety => Holds(s, t)
    BY <1>4, <1>7, <2>1, <2>2 DEF Holds
  <2>4. LedRequests(elections, DOMAIN network')
    BY <1>8, <1>13
  <2> QED BY <1>1, <1>2, <1>7, <1>9, <1>10, <1>13, <2>3, <2>4, HeldStep
<1> QED BY <1>3, <1>11, <1>12, <1>13

(* reply_to_pending answers with the index where the log holds the         *)
(* request's command.                                                      *)
LEMMA RepliesOwn ==
    ASSUME NEW n, NEW u, OwnRequests(u), NEW A, OwnAcks(A)
    PROVE  OwnAcks(A \cup Replies(n, u))
<1>1. ASSUME NEW r \in Fulfilled(u), r.term = u.current_term
      PROVE  r.index \in DOMAIN u.log /\ u.log[r.index].command = r.command
  BY <1>1 DEF Fulfilled, OwnRequests
<1>2. ASSUME NEW a \in Replies(n, u), a.term = a.now PROVE a.command = a.logged
  <2>1. PICK r \in Fulfilled(u) :
          a = [node |-> n, index |-> r.index, command |-> r.command,
               term |-> r.term, now |-> u.current_term,
               logged |-> IF r.index \in DOMAIN u.log
                          THEN u.log[r.index].command ELSE NoOp]
    BY DEF Replies
  <2>2. /\ a.term = r.term /\ a.now = u.current_term /\ a.command = r.command
        /\ a.logged = IF r.index \in DOMAIN u.log THEN u.log[r.index].command ELSE NoOp
    BY <2>1
  <2> QED BY <1>1, <1>2, <2>2
<1> QED BY <1>2 DEF OwnAcks

(* maybe_advance_commit, apply_committed and reply_to_pending, at a leader *)
(* whose requests are right.                                               *)
LEMMA AnswerStep ==
    ASSUME VoteInv, AckInv, NEW n \in Nodes, NEW t, Shape(t), t.current_term \in Nat,
           NEW u, u = ApplyCommitted(n, MaybeAdvanceCommit(n, t)),
           node' = [node EXCEPT ![n] = ReplyToPending(u)],
           acked' = acked \cup Replies(n, u), elections' = elections,
           Winner(elections, n, t.current_term),
           LedRequests(elections, DOMAIN network'),
           ElectionSafety => OwnRequests(t)
    PROVE  AckInv'
<1> DEFINE w == ReplyToPending(u)
<1>1. /\ Frame(t, w) /\ Frame(t, u) /\ SameRequests(t, u) /\ w.pending \subseteq t.pending
  BY AdvanceFrame
<1> HIDE DEF w
<1>2. /\ u.log = t.log /\ u.role = t.role /\ u.current_term = t.current_term
      /\ u.pending = t.pending /\ w.log = t.log /\ w.role = t.role
      /\ w.current_term = t.current_term
  BY <1>1 DEF Frame, SameRequests
<1>3. ElectionSafety => OwnRequests(u)
  BY <1>2 DEF OwnRequests
<1>4. ElectionSafety => OwnRequests(w)
  BY <1>1, <1>2 DEF OwnRequests
<1>5. ElectionSafety => OwnAcks(acked')
  BY <1>3, RepliesOwn DEF AckInv
<1>6. node' = [node EXCEPT ![n] = w]
  BY DEF w
<1>7. w.role = "leader" => Winner(elections', n, w.current_term)
  BY <1>2
<1> QED BY <1>4, <1>5, <1>6, <1>7, AckStep

(* handle_ae_response.                                                     *)
LEMMA HandleAppendResponseAck ==
    ASSUME VoteInv, PeerInv, AckInv, NEW m \in DOMAIN network, HandleAppendResponse(m)
    PROVE  AckInv'
<1> DEFINE n == m.to
           s == node[n]
           a == Matched(s, m)
           b == BackedOff(s, m)
           u == ApplyCommitted(n, MaybeAdvanceCommit(n, a))
<1>1. n \in Nodes /\ m.term \in Nat /\ Good(n, s) /\ Shape(s) /\ s.current_term \in Nat
  BY DEF VoteInv, Addressed, PeerInv, Stored
<1>2. elections' = elections /\ LedRequests(elections, DOMAIN network')
  BY ReceivedLed DEF HandleAppendResponse, AckInv
<1>3. \/ /\ node' = [node EXCEPT ![n] = StepDown(s, m.term)] /\ m.term > s.current_term
         /\ acked' = acked
      \/ /\ node' = [node EXCEPT ![n] = ReplyToPending(u)] /\ s.role = "leader"
         /\ acked' = acked \cup Replies(n, u)
      \/ node' = [node EXCEPT ![n] = b] /\ acked' = acked
      \/ node' = node /\ acked' = acked
  BY DEF HandleAppendResponse
<1>4. CASE /\ node' = [node EXCEPT ![n] = StepDown(s, m.term)] /\ m.term > s.current_term
           /\ acked' = acked
  <2> DEFINE t == StepDown(s, m.term)
  <2>1. t.role = "follower" /\ t.current_term = m.term /\ Holds(s, t)
    BY <1>1, <1>4, StepDownEffect, StepDownHolds
  <2> HIDE DEF t
  <2> QED BY <1>1, <1>2, <1>4, <2>1, HeldStep DEF t
<1>5. CASE /\ node' = [node EXCEPT ![n] = ReplyToPending(u)] /\ s.role = "leader"
           /\ acked' = acked \cup Replies(n, u)
  <2> DEFINE x == MapPut(s.next_index, m.from, m.match_index + 1)
             y == MapPut(s.match_index, m.from, m.match_index)
  <2>1. a = [s EXCEPT !.next_index = x, !.match_index = y]
    BY DEF Matched
  <2> HIDE DEF x, y, a
  <2>2. /\ Shape(a) /\ a.log = s.log /\ a.role = s.role /\ a.current_term = s.current_term
        /\ a.pending = s.pending
    BY <1>1, <2>1 DEF Shape, Fields
  <2>3. ElectionSafety => OwnRequests(a)
    BY <1>1, <2>2 DEF OwnRequests, AckInv
  <2>4. Winner(elections, n, a.current_term)
    BY <1>1, <1>5, <2>2 DEF AckInv
  <2>5. a.current_term \in Nat
    BY <1>1, <2>2
  <2> QED BY <1>1, <1>2, <1>5, <2>2, <2>3, <2>4, <2>5, AnswerStep
<1>6. CASE node' = [node EXCEPT ![n] = b] /\ acked' = acked
  <2> DEFINE x == MapPut(s.next_index, m.from, Max({MapGet(s.next_index, m.from, 1) - 1, 1}))
  <2>1. b = [s EXCEPT !.next_index = x]
    BY DEF BackedOff
  <2> HIDE DEF x, b
  <2>2. /\ b.log = s.log /\ b.role = s.role /\ b.current_term = s.current_term
        /\ b.pending = s.pending
    BY <1>1, <2>1 DEF Shape, Fields
  <2>3. Holds(s, b) /\ b.current_term \in Nat
    BY <1>1, <2>2 DEF Holds, Extends
  <2>4. b.role = "leader" => Winner(elections, n, b.current_term)
    BY <1>1, <2>2 DEF AckInv
  <2> QED BY <1>1, <1>2, <1>6, <2>3, <2>4, HeldStep
<1>7. CASE node' = node /\ acked' = acked
  BY <1>2, <1>7, IdleStep
<1> QED BY <1>3, <1>4, <1>5, <1>6, <1>7

(* A client's command: the entry appended last is the one the new request  *)
(* names.                                                                  *)
LEMMA ProposeAck ==
    ASSUME VoteInv, PeerInv, AckInv, NEW n \in Nodes, NEW c, Propose(n, c), Harmless(c)
    PROVE  AckInv'
<1> DEFINE s == node[n]
           a == AppendOwn(s, c)
           e == Entry(s.current_term, Len(s.log) + 1, c)
           q == [index |-> Len(s.log) + 1, command |-> c, term |-> s.current_term]
           x == a.pending \cup {q}
           t == [a EXCEPT !.pending = x]
           u == ApplyCommitted(n, MaybeAdvanceCommit(n, t))
<1>1. Good(n, s) /\ Shape(s) /\ s.current_term \in Nat
  BY DEF PeerInv, VoteInv, Stored
<1>2. /\ s.role = "leader" /\ node' = [node EXCEPT ![n] = ReplyToPending(u)]
      /\ acked' = acked \cup Replies(n, u) /\ elections' = elections
      /\ Send(network, AppendRequests(n, t))
  BY DEF Propose
<1>3. /\ Good(n, a) /\ Shape(a) /\ a.role = s.role /\ a.current_term = s.current_term
      /\ a.log = Append(s.log, e) /\ SameRequests(s, a)
  BY <1>1, AppendOwnGood, AppendOwnEffect
<1>4. e.command = c
  BY DEF Entry
<1>5. q.index = Len(s.log) + 1 /\ q.command = c /\ q.term = s.current_term
  OBVIOUS
<1> HIDE DEF a, x, e, q
<1>6. /\ Good(n, t) /\ Shape(t) /\ t.role = "leader" /\ t.current_term = s.current_term
      /\ t.log = Append(s.log, e) /\ t.pending = x
  BY <1>2, <1>3 DEF Good, GoodDisk, Shape, Fields
<1>7. x = s.pending \cup {q}
  BY <1>3 DEF SameRequests, x
<1> HIDE DEF t
<1>8. /\ Extends(s.log, t.log)
      /\ Len(s.log) + 1 \in DOMAIN t.log /\ t.log[Len(s.log) + 1] = e
  <2>1. PICK S : s.log \in Seq(S)
    BY <1>1 DEF Good, HarmlessList
  <2>2. s.log \in Seq(S \cup {e})
    BY <2>1, SeqMonotonic
  <2> QED BY <1>6, <2>2, AppendProperties DEF Extends
<1>9. ElectionSafety => OwnRequests(t)
  <2> SUFFICES ASSUME ElectionSafety, NEW r \in t.pending
               PROVE  /\ r.term \in Nat /\ r.term <= t.current_term
                      /\ r.term = t.current_term =>
                           /\ t.role = "leader"
                           /\ r.index \in DOMAIN t.log
                           /\ t.log[r.index].command = r.command
    BY DEF OwnRequests
  <2>1. CASE r = q
    BY <1>1, <1>4, <1>5, <1>6, <1>8, <2>1
  <2>2. CASE r \in s.pending
    BY <1>6, <1>8, <2>2 DEF AckInv, OwnRequests, Extends
  <2> QED BY <1>6, <1>7, <2>1, <2>2
<1>10. Winner(elections, n, t.current_term)
  BY <1>2, <1>6 DEF AckInv
<1>11. LedRequests(elections, DOMAIN network')
  BY <1>2, <1>6, <1>10, RequestsLed, SendLed DEF AckInv
<1>12. t.current_term \in Nat
  BY <1>1, <1>6
<1> QED BY <1>2, <1>6, <1>9, <1>10, <1>11, <1>12, AnswerStep

(* A heartbeat.                                                            *)
LEMMA HeartbeatAck ==
    ASSUME VoteInv, PeerInv, AckInv, NEW n \in Nodes, Heartbeat(n)
    PROVE  AckInv'
<1>1. Good(n, node[n]) /\ Winner(elections, n, node[n].current_term)
  BY DEF PeerInv, AckInv, Heartbeat
<1>2. LedRequests(elections, DOMAIN network')
  BY <1>1, RequestsLed, SendLed DEF Heartbeat, AckInv
<1> QED BY <1>2, IdleStep DEF Heartbeat

(* Restarts, between callbacks and inside them: no request stays pending.  *)
LEMMA CrashAck ==
    ASSUME VoteInv, AckInv,
           \/ \E n \in Nodes : CrashRestart(n)
           \/ \E m \in DOMAIN network : CrashInVote(m) \/ CrashInAppend(m)
    PROVE  AckInv'
<1>1. ASSUME NEW n \in Nodes, NEW d, node' = [node EXCEPT ![n] = StartNode(n, d)],
             elections' = elections, acked' = acked,
             LedRequests(elections, DOMAIN network')
      PROVE  AckInv'
  <2> DEFINE t == StartNode(n, d)
  <2>1. t.role = "follower" /\ t.pending = {}
    BY DEF StartNode
  <2> HIDE DEF t
  <2>2. OwnRequests(t) /\ (ElectionSafety => OwnAcks(acked))
    BY <2>1 DEF OwnRequests, AckInv
  <2>3. node' = [node EXCEPT ![n] = t]
    BY <1>1 DEF t
  <2> QED BY <1>1, <2>1, <2>2, <2>3, AckStep
<1>2. ASSUME NEW n \in Nodes, CrashRestart(n) PROVE AckInv'
  <2>1. LedRequests(elections, DOMAIN network')
    BY <1>2 DEF CrashRestart, AckInv
  <2> QED BY <1>1, <1>2, <2>1 DEF CrashRestart
<1>3. ASSUME NEW m \in DOMAIN network, CrashInVote(m) PROVE AckInv'
  <2>1. m.to \in Nodes /\ LedRequests(elections, DOMAIN network')
    BY <1>3, ReceivedLed DEF CrashInVote, AckInv, VoteInv, Addressed
  <2> QED BY <1>1, <1>3, <2>1 DEF CrashInVote
<1>4. ASSUME NEW m \in DOMAIN network, CrashInAppend(m) PROVE AckInv'
  <2>1. m.to \in Nodes /\ LedRequests(elections, DOMAIN network')
    BY <1>4, ReceivedLed DEF CrashInAppend, AckInv, VoteInv, Addressed
  <2>2. PICK d : node' = [node EXCEPT ![m.to] = StartNode(m.to, d)]
    BY <1>4 DEF CrashInAppend
  <2>3. elections' = elections /\ acked' = acked
    BY <1>4 DEF CrashInAppend
  <2> QED BY <1>1, <2>1, <2>2, <2>3
<1> QED BY <1>2, <1>3, <1>4

(* At the start nobody leads, asks or is answered.                         *)
LEMMA AckInvInit ==
    ASSUME Init
    PROVE  AckInv
<1>1. \A n \in Nodes : node[n] = StartNode(n, EmptyDisk)
  BY DEF Init
<1>2. ASSUME NEW n \in Nodes
      PROVE  StartNode(n, EmptyDisk).role = "follower" /\ StartNode(n, EmptyDisk).pending = {}
  BY DEF StartNode
<1>3. DOMAIN network = {} /\ acked = {}
  BY DEF Init, EmptyBag, SetToBag
<1>4. \A n \in Nodes : node[n].role = "follower" /\ node[n].pending = {}
  BY <1>1, <1>2
<1> QED BY <1>3, <1>4 DEF AckInv, LedRequests, OwnRequests, OwnAcks

(* Every step.                                                             *)
LEMMA AckInvStep ==
    ASSUME FixedCluster, VoteInv, PeerInv, AckInv, [Next]_vars
    PROVE  AckInv'
<1>1. ASSUME NEW n \in Nodes, ElectionTimeout(n) PROVE AckInv'
  BY <1>1, ElectionTimeoutAck
<1>2. ASSUME NEW n \in Nodes, Heartbeat(n) PROVE AckInv'
  BY <1>2, HeartbeatAck
<1>3. ASSUME NEW n \in Nodes, CrashRestart(n) PROVE AckInv'
  BY <1>3, CrashAck
<1>4. ASSUME NEW n \in Nodes, NEW c \in Commands, Propose(n, c) PROVE AckInv'
  BY <1>4, ProposeAck DEF FixedCluster
<1>5. ASSUME NEW m \in BagToSet(network), HandleRequestVote(m) PROVE AckInv'
  BY <1>5, HandleRequestVoteAck DEF BagToSet
<1>6. ASSUME NEW m \in BagToSet(network), HandleVoteResponse(m) PROVE AckInv'
  BY <1>6, HandleVoteResponseAck DEF BagToSet
<1>7. ASSUME NEW m \in BagToSet(network), HandleAppendEntries(m) PROVE AckInv'
  BY <1>7, HandleAppendEntriesAck DEF BagToSet
<1>8. ASSUME NEW m \in BagToSet(network), HandleAppendResponse(m) PROVE AckInv'
  BY <1>8, HandleAppendResponseAck DEF BagToSet
<1>9. ASSUME NEW m \in BagToSet(network), CrashInVote(m) \/ CrashInAppend(m) PROVE AckInv'
  BY <1>9, CrashAck DEF BagToSet
<1>10. CASE UNCHANGED vars
  BY <1>10, IdleStep DEF vars, AckInv
<1> QED BY <1>1, <1>2, <1>3, <1>4, <1>5, <1>6, <1>7, <1>8, <1>9, <1>10 DEF Next

(* In a fixed cluster, crashes included, as long as the elections counted  *)
(* only votes of their own term, a leader that answers a request it took   *)
(* in the same term names the index where its log holds that command.      *)
THEOREM AcksNameOwnCommands == WalEnabled /\ FixedCluster => (Spec => []AckNamesOwnCommand)
<1> SUFFICES ASSUME WalEnabled, FixedCluster PROVE Spec => []AckNamesOwnCommand
  OBVIOUS
<1>1. Init => VoteInv /\ PeerInv /\ AckInv
  BY VoteInvInit, PeerInvInit, AckInvInit
<1>2. VoteInv /\ PeerInv /\ AckInv /\ [Next]_vars => VoteInv' /\ PeerInv' /\ AckInv'
  BY VoteInvStep, PeerInvStep, AckInvStep
<1>3. BackedElectionSafety /\ AckInv => AckNamesOwnCommand
  BY DEF BackedElectionSafety, ElectionSafety, AckInv, OwnAcks, AckNamesOwnCommand
<1>4. Spec => []BackedElectionSafety
  BY BackedWinnersAgree
<1> QED BY <1>1, <1>2, <1>3, <1>4, PTL DEF Spec

-----------------------------------------------------------------------------
(* Replay.  apply_entries as a walk along the entries: g[k] is the         *)
(* registry after the first k of them.                                     *)
Walk(g, reg, es, N) ==
    g[0] = reg /\ \A k \in 1 .. N : g[k] = ApplyCommand(g[k - 1], es[k].command)

FoldFn(f, reg, es, N) ==
    f = [s \in SUBSET (1 .. N) |->
           IF s = {} THEN reg
           ELSE ApplyCommand(f[s \ {Max(s)}], es[Max(s)].command)]

(* The fold's function over the sets of places exists, one place more at a *)
(* time.                                                                   *)
LEMMA FoldGrows ==
    ASSUME NEW reg, NEW es, NEW k \in Nat, \E f : FoldFn(f, reg, es, k)
    PROVE  \E f : FoldFn(f, reg, es, k + 1)
<1>1. PICK f : FoldFn(f, reg, es, k)
  OBVIOUS
<1> DEFINE A == SUBSET (1 .. k)
           B == SUBSET (1 .. (k + 1))
           g == [s \in B |-> IF k + 1 \in s
                             THEN ApplyCommand(f[s \ {k + 1}], es[k + 1].command)
                             ELSE f[s]]
<1>2. \A s \in A : f[s] = IF s = {} THEN reg
                          ELSE ApplyCommand(f[s \ {Max(s)}], es[Max(s)].command)
  BY <1>1 DEF FoldFn
<1>3. \A s \in B : (k + 1 \notin s => s \in A) /\ s \ {k + 1} \in A
  OBVIOUS
<1>4. ASSUME NEW s \in B
      PROVE  g[s] = IF s = {} THEN reg
                    ELSE ApplyCommand(g[s \ {Max(s)}], es[Max(s)].command)
  <2>1. CASE k + 1 \in s
    <3>1. Max(s) \in s /\ \A y \in s : y <= Max(s)
      <4>1. k + 1 \in Nat /\ s \in SUBSET (1 .. (k + 1)) /\ s # {}
        BY <2>1
      <4> QED BY <4>1, LastPlace
    <3>2. Max(s) \in 1 .. (k + 1)
      BY <3>1
    <3>3. Max(s) = k + 1
      BY <2>1, <3>1, <3>2
    <3>4. s \ {k + 1} \in B /\ k + 1 \notin s \ {k + 1}
      OBVIOUS
    <3>5. g[s \ {k + 1}] = f[s \ {k + 1}]
      BY <3>4
    <3>6. g[s] = ApplyCommand(f[s \ {k + 1}], es[k + 1].command)
      BY <2>1
    <3> QED BY <2>1, <3>3, <3>5, <3>6
  <2>2. CASE k + 1 \notin s
    <3>1. s \in A /\ g[s] = f[s]
      BY <1>3, <2>2
    <3>2. CASE s = {}
      BY <1>2, <3>1, <3>2
    <3>3. CASE s # {}
      <4> DEFINE r == s \ {Max(s)}
      <4>1. r \in B /\ k + 1 \notin r
        BY <2>2
      <4>2. g[r] = f[r]
        BY <4>1
      <4> HIDE DEF g, r
      <4> QED BY <1>2, <3>1, <3>3, <4>2 DEF r
    <3> QED BY <3>2, <3>3
  <2> QED BY <2>1, <2>2
<1>5. g = [s \in B |-> g[s]]
  OBVIOUS
<1> HIDE DEF g
<1>6. FoldFn(g, reg, es, k + 1)
  BY <1>4, <1>5 DEF FoldFn
<1> QED BY <1>6

(* It exists over all places.                                              *)
LEMMA FoldExists ==
    ASSUME NEW reg, NEW es, NEW N \in Nat
    PROVE  \E f : FoldFn(f, reg, es, N)
<1> DEFINE Bad == {k \in Nat : ~ \E f : FoldFn(f, reg, es, k)}
<1> SUFFICES ASSUME Bad # {} PROVE FALSE
  OBVIOUS
<1>1. PICK k \in Bad : \A j \in Bad : ~(<<j, k>> \in OpToRel(<, Nat))
  BY NatLessThanWellFounded, WFMin
<1>2. k \in Nat /\ \A j \in Bad : ~(j < k)
  BY <1>1 DEF OpToRel
<1>3. k # 0
  <2> DEFINE f == [s \in {{}} |-> reg]
  <2>1. SUBSET (1 .. 0) = {{}}
    BY 1 .. 0 = {}
  <2>2. f[{}] = reg
    OBVIOUS
  <2>3. FoldFn(f, reg, es, 0)
    BY <2>1, <2>2 DEF FoldFn
  <2> QED BY <2>3
<1>4. k - 1 \in Nat /\ k - 1 < k /\ (k - 1) + 1 = k
  BY <1>2, <1>3
<1>5. \E f : FoldFn(f, reg, es, k - 1)
  BY <1>2, <1>4
<1>6. \E f : FoldFn(f, reg, es, k)
  BY <1>4, <1>5, FoldGrows
<1> QED BY <1>6

(* apply_entries is the end of a walk along the entries.                   *)
LEMMA EntriesWalk ==
    ASSUME NEW reg, NEW S, NEW es \in Seq(S)
    PROVE  \E g : Walk(g, reg, es, Len(es)) /\ ApplyEntries(reg, es) = g[Len(es)]
<1> DEFINE D == DOMAIN es
           N == Len(es)
           iter == CHOOSE f : f = [s \in SUBSET D |->
                                     IF s = {} THEN reg
                                     ELSE ApplyCommand(f[s \ {Max(s)}], es[Max(s)].command)]
<1>1. ApplyEntries(reg, es) = iter[D]
  BY DEF ApplyEntries, FoldLeft, MapThenFoldSet
<1>2. N \in Nat /\ D = 1 .. N
  OBVIOUS
<1>3. iter = CHOOSE f : FoldFn(f, reg, es, N)
  BY <1>2 DEF FoldFn
<1> HIDE DEF iter, D, N
<1>4. FoldFn(iter, reg, es, N)
  BY <1>2, <1>3, FoldExists
<1>5. \A s \in SUBSET (1 .. N) :
        iter[s] = IF s = {} THEN reg
                  ELSE ApplyCommand(iter[s \ {Max(s)}], es[Max(s)].command)
  BY <1>4 DEF FoldFn
<1> DEFINE g == [k \in 0 .. N |-> iter[1 .. k]]
<1>6. g[0] = reg
  <2>1. 1 .. 0 = {} /\ {} \in SUBSET (1 .. N) /\ 0 \in 0 .. N
    BY <1>2
  <2> QED BY <1>5, <2>1
<1>7. ASSUME NEW k \in 1 .. N PROVE g[k] = ApplyCommand(g[k - 1], es[k].command)
  <2> DEFINE s == 1 .. k
  <2>1. k \in Nat /\ k \in s /\ s \in SUBSET (1 .. N) /\ s \in SUBSET (1 .. k)
    BY <1>2
  <2>2. Max(s) \in s /\ \A y \in s : y <= Max(s)
    BY <2>1, LastPlace
  <2>3. Max(s) = k
    <3>1. Max(s) \in Nat /\ Max(s) <= k /\ k <= Max(s)
      BY <2>1, <2>2
    <3> QED BY <2>1, <3>1
  <2>4. s \ {k} = 1 .. (k - 1) /\ k \in 0 .. N /\ k - 1 \in 0 .. N
    BY <1>2
  <2>5. iter[s] = ApplyCommand(iter[s \ {k}], es[k].command)
    BY <1>5, <2>1, <2>3
  <2> QED BY <2>4, <2>5
<1>8. g[N] = iter[1 .. N]
  BY <1>2
<1> HIDE DEF g
<1>9. Walk(g, reg, es, N)
  BY <1>6, <1>7 DEF Walk
<1> QED BY <1>1, <1>2, <1>8, <1>9 DEF N, D

(* There is one walk.                                                      *)
LEMMA WalkUnique ==
    ASSUME NEW g, NEW h, NEW reg, NEW es, NEW N \in Nat,
           Walk(g, reg, es, N), Walk(h, reg, es, N)
    PROVE  g[N] = h[N]
<1> DEFINE Bad == {k \in Nat : k <= N /\ g[k] # h[k]}
<1> SUFFICES ASSUME Bad # {} PROVE FALSE
  OBVIOUS
<1>1. PICK k \in Bad : \A j \in Bad : ~(<<j, k>> \in OpToRel(<, Nat))
  BY NatLessThanWellFounded, WFMin
<1>2. k \in Nat /\ k <= N /\ g[k] # h[k] /\ \A j \in Bad : ~(j < k)
  BY <1>1 DEF OpToRel
<1>3. k # 0
  BY <1>2 DEF Walk
<1>4. k \in 1 .. N /\ k - 1 \in Nat /\ k - 1 < k /\ k - 1 <= N
  BY <1>2, <1>3
<1>5. g[k - 1] = h[k - 1]
  BY <1>2, <1>4
<1>6. g[k] = ApplyCommand(g[k - 1], es[k].command) /\ h[k] = ApplyCommand(h[k - 1], es[k].command)
  BY <1>4 DEF Walk
<1> QED BY <1>2, <1>5, <1>6

(* Applying a log in two runs is applying it in one.                       *)
LEMMA EntriesJoin ==
    ASSUME NEW reg, NEW S, NEW l \in Seq(S), NEW a \in Nat, NEW c \in Nat,
           a <= c, c <= Len(l)
    PROVE  ApplyEntries(ApplyEntries(reg, SubSeq(l, 1, a)), SubSeq(l, a + 1, c))
             = ApplyEntries(reg, SubSeq(l, 1, c))
<1> DEFINE p == SubSeq(l, 1, a)
           q == SubSeq(l, a + 1, c)
           w == SubSeq(l, 1, c)
<1>1. /\ 1 \in 1 .. Len(l) + 1 /\ a \in 1 - 1 .. Len(l) /\ c \in 1 - 1 .. Len(l)
      /\ a + 1 \in 1 .. Len(l) + 1 /\ c \in (a + 1) - 1 .. Len(l)
  OBVIOUS
<1>2. p \in Seq(S) /\ Len(p) = a /\ \A i \in 1 .. a : p[i] = l[i]
  BY <1>1, SubSeqProperties
<1>3. w \in Seq(S) /\ Len(w) = c /\ \A i \in 1 .. c : w[i] = l[i]
  BY <1>1, SubSeqProperties
<1>4. q \in Seq(S) /\ Len(q) = c - a /\ \A i \in 1 .. (c - a) : q[i] = l[a + i]
  BY <1>1, SubSeqProperties
<1> HIDE DEF p, q, w
<1>5. PICK g : Walk(g, reg, p, a) /\ ApplyEntries(reg, p) = g[a]
  BY <1>2, EntriesWalk
<1>6. PICK h : Walk(h, g[a], q, c - a) /\ ApplyEntries(g[a], q) = h[c - a]
  BY <1>4, EntriesWalk
<1>7. PICK f : Walk(f, reg, w, c) /\ ApplyEntries(reg, w) = f[c]
  BY <1>3, EntriesWalk
<1> DEFINE j == [k \in 0 .. c |-> IF k <= a THEN g[k] ELSE h[k - a]]
<1>8. j[0] = reg
  BY <1>5 DEF Walk
<1>9. h[0] = g[a]
  BY <1>6 DEF Walk
<1>10. ASSUME NEW k \in 1 .. c PROVE j[k] = ApplyCommand(j[k - 1], w[k].command)
  <2>1. k \in 0 .. c /\ k - 1 \in 0 .. c
    OBVIOUS
  <2>2. CASE k <= a
    <3>1. k \in 1 .. a
      BY <2>2
    <3>2. g[k] = ApplyCommand(g[k - 1], p[k].command) /\ p[k] = w[k]
      BY <1>2, <1>3, <1>5, <3>1 DEF Walk
    <3>3. j[k] = g[k] /\ j[k - 1] = g[k - 1]
      BY <2>1, <2>2
    <3> QED BY <3>2, <3>3
  <2>3. CASE k > a
    <3>1. k - a \in 1 .. (c - a) /\ (k - a) - 1 = (k - 1) - a /\ a + (k - a) = k
      BY <2>3
    <3>2. h[k - a] = ApplyCommand(h[(k - a) - 1], q[k - a].command)
      BY <1>6, <3>1 DEF Walk
    <3>3. q[k - a] = w[k]
      BY <1>3, <1>4, <3>1
    <3>4. j[k] = h[k - a]
      BY <2>1, <2>3
    <3>5. j[k - 1] = h[(k - 1) - a]
      <4>1. CASE k - 1 = a
        <5>1. j[k - 1] = g[a] /\ (k - 1) - a = 0
          BY <2>1, <4>1
        <5> QED BY <1>9, <5>1
      <4>2. CASE k - 1 # a
        BY <2>1, <2>3, <4>2
      <4> QED BY <4>1, <4>2
    <3> QED BY <3>1, <3>2, <3>3, <3>4, <3>5
  <2> QED BY <2>2, <2>3
<1>11. j[c] = h[c - a]
  <2>1. CASE c = a
    <3>1. j[c] = g[a] /\ c - a = 0
      BY <2>1
    <3> QED BY <1>9, <3>1
  <2>2. CASE c # a
    BY <2>2
  <2> QED BY <2>1, <2>2
<1> HIDE DEF j
<1>12. Walk(j, reg, w, c)
  BY <1>8, <1>10 DEF Walk
<1>13. f[c] = j[c]
  BY <1>7, <1>12, WalkUnique
<1> QED BY <1>5, <1>6, <1>7, <1>11, <1>13 DEF p, q, w

(* Applying nothing.                                                       *)
LEMMA EntriesNone ==
    ASSUME NEW reg
    PROVE  ApplyEntries(reg, <<>>) = reg
<1>1. <<>> \in Seq({}) /\ Len(<<>>) = 0
  OBVIOUS
<1> QED BY <1>1, EntriesWalk, ZenonT(30) DEF Walk

(* What a run of entries does to a peer list, as a walk along the entries. *)
PeerWalk(g, ps, n, es, N) ==
    g[0] = ps /\ \A k \in 1 .. N : g[k] = ApplyMembershipChange(g[k - 1], n, es[k].command)

PeerFn(f, ps, n, es, N) ==
    f = [s \in SUBSET (1 .. N) |->
           IF s = {} THEN ps
           ELSE ApplyMembershipChange(f[s \ {Max(s)}], n, es[Max(s)].command)]

(* The fold's function exists, one place more at a time.                   *)
LEMMA PeerFnGrows ==
    ASSUME NEW ps, NEW n, NEW es, NEW k \in Nat, \E f : PeerFn(f, ps, n, es, k)
    PROVE  \E f : PeerFn(f, ps, n, es, k + 1)
<1>1. PICK f : PeerFn(f, ps, n, es, k)
  OBVIOUS
<1> DEFINE A == SUBSET (1 .. k)
           B == SUBSET (1 .. (k + 1))
           g == [s \in B |-> IF k + 1 \in s
                             THEN ApplyMembershipChange(f[s \ {k + 1}], n, es[k + 1].command)
                             ELSE f[s]]
<1>2. \A s \in A : f[s] = IF s = {} THEN ps
                          ELSE ApplyMembershipChange(f[s \ {Max(s)}], n, es[Max(s)].command)
  BY <1>1 DEF PeerFn
<1>3. \A s \in B : (k + 1 \notin s => s \in A) /\ s \ {k + 1} \in A
  OBVIOUS
<1>4. ASSUME NEW s \in B
      PROVE  g[s] = IF s = {} THEN ps
                    ELSE ApplyMembershipChange(g[s \ {Max(s)}], n, es[Max(s)].command)
  <2>1. CASE k + 1 \in s
    <3>1. Max(s) \in s /\ \A y \in s : y <= Max(s)
      <4>1. k + 1 \in Nat /\ s \in SUBSET (1 .. (k + 1)) /\ s # {}
        BY <2>1
      <4> QED BY <4>1, LastPlace
    <3>2. Max(s) \in 1 .. (k + 1)
      BY <3>1
    <3>3. Max(s) = k + 1
      BY <2>1, <3>1, <3>2
    <3>4. s \ {k + 1} \in B /\ k + 1 \notin s \ {k + 1}
      OBVIOUS
    <3>5. g[s \ {k + 1}] = f[s \ {k + 1}]
      BY <3>4
    <3>6. g[s] = ApplyMembershipChange(f[s \ {k + 1}], n, es[k + 1].command)
      BY <2>1
    <3> QED BY <2>1, <3>3, <3>5, <3>6
  <2>2. CASE k + 1 \notin s
    <3>1. s \in A /\ g[s] = f[s]
      BY <1>3, <2>2
    <3>2. CASE s = {}
      BY <1>2, <3>1, <3>2
    <3>3. CASE s # {}
      <4> DEFINE r == s \ {Max(s)}
      <4>1. r \in B /\ k + 1 \notin r
        BY <2>2
      <4>2. g[r] = f[r]
        BY <4>1
      <4> HIDE DEF g, r
      <4> QED BY <1>2, <3>1, <3>3, <4>2 DEF r
    <3> QED BY <3>2, <3>3
  <2> QED BY <2>1, <2>2
<1>5. g = [s \in B |-> g[s]]
  OBVIOUS
<1> HIDE DEF g
<1>6. PeerFn(g, ps, n, es, k + 1)
  BY <1>4, <1>5 DEF PeerFn
<1> QED BY <1>6

(* It exists over all places.                                              *)
LEMMA PeerFnExists ==
    ASSUME NEW ps, NEW n, NEW es, NEW N \in Nat
    PROVE  \E f : PeerFn(f, ps, n, es, N)
<1> DEFINE Bad == {k \in Nat : ~ \E f : PeerFn(f, ps, n, es, k)}
<1> SUFFICES ASSUME Bad # {} PROVE FALSE
  OBVIOUS
<1>1. PICK k \in Bad : \A j \in Bad : ~(<<j, k>> \in OpToRel(<, Nat))
  BY NatLessThanWellFounded, WFMin
<1>2. k \in Nat /\ \A j \in Bad : ~(j < k)
  BY <1>1 DEF OpToRel
<1>3. k # 0
  <2> DEFINE f == [s \in {{}} |-> ps]
  <2>1. SUBSET (1 .. 0) = {{}}
    BY 1 .. 0 = {}
  <2>2. f[{}] = ps
    OBVIOUS
  <2>3. PeerFn(f, ps, n, es, 0)
    BY <2>1, <2>2 DEF PeerFn
  <2> QED BY <2>3
<1>4. k - 1 \in Nat /\ k - 1 < k /\ (k - 1) + 1 = k
  BY <1>2, <1>3
<1>5. \E f : PeerFn(f, ps, n, es, k - 1)
  BY <1>2, <1>4
<1>6. \E f : PeerFn(f, ps, n, es, k)
  BY <1>4, <1>5, PeerFnGrows
<1> QED BY <1>6

(* No run of entries puts a node into its own peer list.                   *)
LEMMA NeverOwnPeer ==
    ASSUME NEW n, NEW ps, n \notin ps, NEW es, Lines(es)
    PROVE  n \notin ApplyMembership(ps, n, es)
<1> DEFINE D == DOMAIN es
           N == Len(es)
           iter == CHOOSE f : f = [s \in SUBSET D |->
                                     IF s = {} THEN ps
                                     ELSE ApplyMembershipChange(f[s \ {Max(s)}], n, es[Max(s)].command)]
<1>1. ApplyMembership(ps, n, es) = iter[D]
  BY DEF ApplyMembership, FoldLeft, MapThenFoldSet
<1>2. N \in Nat /\ D = 1 .. N
  BY DEF Lines
<1>3. iter = CHOOSE f : PeerFn(f, ps, n, es, N)
  BY <1>2 DEF PeerFn
<1> HIDE DEF iter, D, N
<1>4. PeerFn(iter, ps, n, es, N)
  BY <1>2, <1>3, PeerFnExists
<1>5. \A s \in SUBSET (1 .. N) :
        iter[s] = IF s = {} THEN ps
                  ELSE ApplyMembershipChange(iter[s \ {Max(s)}], n, es[Max(s)].command)
  BY <1>4 DEF PeerFn
<1>6. \A q, c : n \notin q => n \notin ApplyMembershipChange(q, n, c)
  BY DEF ApplyMembershipChange
<1> DEFINE Bad == {k \in Nat : \E s \in SUBSET (1 .. N) : s \subseteq 1 .. k /\ n \in iter[s]}
<1>7. Bad = {}
  <2> SUFFICES ASSUME Bad # {} PROVE FALSE
    OBVIOUS
  <2>1. PICK k \in Bad : \A j \in Bad : ~(<<j, k>> \in OpToRel(<, Nat))
    BY NatLessThanWellFounded, WFMin
  <2>2. k \in Nat /\ \A j \in Bad : ~(j < k)
    BY <2>1 DEF OpToRel
  <2>3. PICK s \in SUBSET (1 .. N) : s \subseteq 1 .. k /\ n \in iter[s]
    OBVIOUS
  <2>4. s # {}
    BY <1>5, <2>3
  <2> DEFINE x == Max(s)
             r == s \ {x}
  <2>5. x \in s /\ (\A y \in s : y <= x) /\ r \in SUBSET (1 .. N)
    BY <1>2, <2>4, LastPlace
  <2>6. iter[s] = ApplyMembershipChange(iter[r], n, es[x].command)
    BY <1>5, <2>4
  <2> HIDE DEF x
  <2>7. x \in Nat /\ x >= 1 /\ x <= k
    BY <2>2, <2>3, <2>5
  <2>8. r \subseteq 1 .. x - 1
    BY <2>2, <2>3, <2>5, <2>7
  <2>9. x - 1 \in Nat /\ x - 1 < k
    BY <2>2, <2>7
  <2> HIDE DEF r
  <2>10. n \notin iter[r]
    BY <2>2, <2>5, <2>8, <2>9
  <2> QED BY <1>6, <2>3, <2>6, <2>10
<1>8. n \notin iter[1 .. N]
  BY <1>2, <1>7
<1> QED BY <1>1, <1>2, <1>8

-----------------------------------------------------------------------------
(* Recovery.  A node on its own with a WAL, whatever it is told to do and  *)
(* however often it takes a snapshot.  Nothing below looks at peers,       *)
(* because there is nobody to be asked.                                    *)
Known == JsonOps \cup {"add_server", "remove_server"}

Alone ==
    /\ WalEnabled
    /\ \E n : Nodes = {n}
    /\ \A c \in Commands : c.op \in Known

(* What keeps a node on its own quiet: it is not in its own peer list, and *)
(* its indices and lists stay what they are.                               *)
Calm(n, s) ==
    /\ Shape(s)
    /\ n \notin s.peers
    /\ Lines(s.log) /\ GoodDisk(s.disk)
    /\ s.current_term \in Nat /\ s.commit_index \in Nat /\ s.last_applied \in Nat
    /\ s.role \in {"candidate", "leader"} => s.current_term > 0

(* An entry as it comes back from the WAL.                                 *)
Survive(e) == [e EXCEPT !.command = Survivor(@)]

(* A request whose command is in the log where it says ...                 *)
Named(r, log) == r.index \in DOMAIN log /\ log[r.index].command = r.command

(* ... and an answer, after k crashes.                                     *)
Told(a, log, k) ==
    /\ a.index \in DOMAIN log
    /\ \/ log[a.index].command = a.command
       \/ k > 0 /\ log[a.index].command = Survivor(a.command)

(* Disk against memory: the snapshot is the replay of a first part of the  *)
(* log, and the lines are the rest of it.                                  *)
Mirrored(s) ==
    LET b == s.disk.snapshot.index
        w == s.disk.wal
    IN  /\ s.log \in Seq(EntryType)
        /\ b \in Nat /\ b <= Len(s.log)
        /\ Lines(w) /\ Len(w) = Len(s.log) - b
        /\ \A i \in 1 .. Len(w) :
             w[i].index = b + i /\ DeserializeEntry(w[i]) = Survive(s.log[b + i])
        /\ s.disk.snapshot.registry =
             SerializeRegistry(ApplyEntries(InitialRegistry, SubSeq(s.log, 1, b)))

(* The registry against the log.                                           *)
Replayed(s) ==
    /\ s.last_applied = s.commit_index
    /\ s.last_applied \in Nat /\ s.last_applied <= Len(s.log)
    /\ s.disk.snapshot.index <= s.last_applied
    /\ s.registry = ApplyEntries(InitialRegistry, SubSeq(s.log, 1, s.last_applied))

Kept(s) ==
    /\ Mirrored(s)
    /\ Replayed(s)
    /\ \A r \in s.pending : Named(r, s.log)

SoloInv ==
    /\ DOMAIN network = {} /\ crashes \in Nat
    /\ \A n \in Nodes : Calm(n, node[n])
    /\ Intact => /\ \A n \in Nodes : Kept(node[n])
                 /\ \A a \in acked : a.node \in Nodes /\ Told(a, node[a.node].log, crashes)
-----------------------------------------------------------------------------
(* There are i places up to place i.                                       *)
LEMMA PlacesUpTo ==
    ASSUME NEW i \in Nat, NEW c \in Nat, c <= i
    PROVE  Cardinality((c + 1) .. i) = i - c
<1>1. Cardinality((c + 1) .. i) = IF c + 1 > i THEN 0 ELSE i - (c + 1) + 1
  BY FS_Interval
<1> QED BY <1>1

(* Keeping the lines after the first c.                                    *)
LEMMA LinesFrom ==
    ASSUME NEW w, Lines(w), NEW c \in Nat, c <= Len(w)
    PROVE  LinesAt(w, (c + 1) .. Len(w)) = [k \in 1 .. (Len(w) - c) |-> w[c + k]]
<1> DEFINE N == Len(w)
           P == (c + 1) .. N
           nth(k) == CHOOSE i \in P : Cardinality({j \in P : j <= i}) = k
<1>1. N \in Nat /\ Cardinality(P) = N - c
  <2>1. N \in Nat
    BY DEF Lines
  <2> QED BY <2>1, PlacesUpTo
<1>2. ASSUME NEW i \in P PROVE Cardinality({j \in P : j <= i}) = i - c
  <2>1. {j \in P : j <= i} = (c + 1) .. i
    BY <1>1
  <2>2. i \in Nat /\ c <= i
    BY <1>1
  <2> QED BY <2>1, <2>2, PlacesUpTo
<1>3. ASSUME NEW k \in 1 .. (N - c) PROVE nth(k) = c + k
  <2>1. c + k \in P /\ (c + k) - c = k
    BY <1>1
  <2>2. Cardinality({j \in P : j <= c + k}) = k
    BY <1>2, <2>1
  <2>3. \A i \in P : Cardinality({j \in P : j <= i}) = k => i = c + k
    BY <1>1, <1>2
  <2> QED BY <2>1, <2>2, <2>3
<1>4. LinesAt(w, P) = [k \in 1 .. (N - c) |-> w[nth(k)]]
  BY <1>1 DEF LinesAt
<1> HIDE DEF nth
<1> QED BY <1>3, <1>4

(* Numbered lines: those after index v are the last ones.                  *)
LEMMA LinesAfterIndex ==
    ASSUME NEW w, Lines(w), NEW b \in Nat, NEW v \in Nat, b <= v, v - b <= Len(w),
           \A i \in 1 .. Len(w) : w[i].index = b + i
    PROVE  LinesAfter(w, v) = [k \in 1 .. (Len(w) - (v - b)) |-> w[(v - b) + k]]
<1>1. Len(w) \in Nat /\ DOMAIN w = 1 .. Len(w) /\ v - b \in Nat
  BY DEF Lines
<1>2. {i \in DOMAIN w : w[i].index > v} = ((v - b) + 1) .. Len(w)
  BY <1>1
<1>3. LinesAfter(w, v) = LinesAt(w, ((v - b) + 1) .. Len(w))
  BY <1>2 DEF LinesAfter
<1> DEFINE c == v - b
<1>4. c \in Nat /\ c <= Len(w)
  BY <1>1
<1> HIDE DEF c
<1>5. LinesAt(w, (c + 1) .. Len(w)) = [k \in 1 .. (Len(w) - c) |-> w[c + k]]
  BY <1>4, LinesFrom, ZenonT(60)
<1> QED BY <1>3, <1>5 DEF c

(* JSON carries an entry, a membership command excepted.                   *)
LEMMA JsonEntry ==
    ASSUME Alone, NEW e \in EntryType
    PROVE  /\ SerializeEntry(e).index = e.index
           /\ DeserializeEntry(SerializeEntry(e)) = Survive(e)
           /\ Survive(e) \in EntryType /\ Survive(e).command = Survivor(e.command)
           /\ Survive(Survive(e)) = Survive(e)
<1> DEFINE c == e.command
           m == {"add_server", "remove_server"}
<1>1. c \in Commands \cup {NoOp} /\ NoOp.op = "noop"
  BY DEF EntryType, NoOp, Cmd
<1>2. c.op \in JsonOps \/ c.op \in m
  BY <1>1 DEF Alone, JsonOps, Known
<1>3. c.op \in JsonOps => c.op \notin m
  BY DEF JsonOps
<1>4. Cmd("unknown", Absent, Absent).op = "unknown" /\ "unknown" \notin JsonOps
  BY DEF Cmd, JsonOps
<1>5. DeserializeCommand(SerializeCommand(c)) = Survivor(c)
  BY <1>2, <1>3, <1>4 DEF SerializeCommand, DeserializeCommand, Survivor
<1>6. Survivor(Survivor(c)) = Survivor(c) /\ Survivor(c) \in Commands \cup {NoOp}
  BY <1>1 DEF Survivor
<1> DEFINE x == SerializeCommand(c)
           y == Survivor(c)
<1>7. /\ SerializeEntry(e) = [e EXCEPT !.command = x]
      /\ Survive(e) = [e EXCEPT !.command = y]
      /\ DeserializeCommand(x) = y /\ y \in Commands \cup {NoOp} /\ Survivor(y) = y
  BY <1>5, <1>6 DEF SerializeEntry, Survive
<1> HIDE DEF x, y
<1>8. /\ [e EXCEPT !.command = x] = [term |-> e.term, index |-> e.index, command |-> x]
      /\ [e EXCEPT !.command = y] = [term |-> e.term, index |-> e.index, command |-> y]
  BY DEF EntryType
<1>9. DeserializeEntry(SerializeEntry(e)) = [term |-> e.term, index |-> e.index, command |-> y]
  BY <1>7, <1>8 DEF DeserializeEntry, Entry
<1>10. [Survive(e) EXCEPT !.command = Survivor(Survive(e).command)] = Survive(e)
  BY <1>7, <1>8
<1>11. Survive(Survive(e)) = Survive(e)
  BY <1>10 DEF Survive
<1> QED BY <1>7, <1>8, <1>9, <1>11 DEF EntryType, y

(* recover_from_wal reads back what the log holds after the snapshot.      *)
LEMMA MirrorRecovers ==
    ASSUME Alone, NEW s, Mirrored(s)
    PROVE  LET b == s.disk.snapshot.index
           IN  RecoverLog(s.disk) = [i \in 1 .. (Len(s.log) - b) |-> Survive(s.log[b + i])]
<1> DEFINE b == s.disk.snapshot.index
           w == s.disk.wal
           N == Len(s.log)
<1>1. /\ b \in Nat /\ b <= N /\ N \in Nat /\ Lines(w) /\ Len(w) = N - b
      /\ \A i \in 1 .. Len(w) :
           w[i].index = b + i /\ DeserializeEntry(w[i]) = Survive(s.log[b + i])
  BY DEF Mirrored
<1>2. RecoverLog(s.disk) = LET kept == LinesAfter(w, b)
                           IN  [i \in DOMAIN kept |-> DeserializeEntry(kept[i])]
  BY DEF RecoverLog
<1> HIDE DEF b, w, N
<1>3. LinesAfter(w, b) = [k \in 1 .. (Len(w) - (b - b)) |-> w[(b - b) + k]]
  <2>1. b <= b /\ b - b <= Len(w) /\ \A i \in 1 .. Len(w) : w[i].index = b + i
    BY <1>1
  <2>2. Lines(w) /\ b \in Nat
    BY <1>1
  <2> QED BY <2>1, <2>2, LinesAfterIndex, ZenonT(60)
<1>4. LinesAfter(w, b) = [k \in 1 .. (N - b) |-> w[k]]
  BY <1>1, <1>3
<1>5. RecoverLog(s.disk) = [i \in 1 .. (N - b) |-> DeserializeEntry(w[i])]
  BY <1>2, <1>4
<1>6. \A i \in 1 .. (N - b) : DeserializeEntry(w[i]) = Survive(s.log[b + i])
  BY <1>1
<1>7. RecoverLog(s.disk) = [i \in 1 .. (N - b) |-> Survive(s.log[b + i])]
  BY <1>5, <1>6
<1> QED BY <1>7 DEF b, N

(* Fields that the invariant reads.                                        *)
Alike(s, t) ==
    /\ t.log = s.log /\ t.disk.wal = s.disk.wal /\ t.disk.snapshot = s.disk.snapshot
    /\ t.last_applied = s.last_applied /\ t.commit_index = s.commit_index
    /\ t.registry = s.registry /\ t.pending = s.pending

(* Nothing else matters to it.                                             *)
LEMMA AlikeKept ==
    ASSUME NEW s, NEW t, Kept(s), Alike(s, t)
    PROVE  Kept(t)
<1>1. Mirrored(t)
  BY DEF Kept, Mirrored, Alike
<1>2. Replayed(t)
  BY DEF Kept, Replayed, Alike
<1> QED BY <1>1, <1>2 DEF Kept, Alike

(* Restart without a snapshot: memory is rebuilt from the disk, nothing is *)
(* applied yet.                                                            *)
LEMMA RestartKept ==
    ASSUME Alone, NEW n, NEW s, Kept(s), s.disk.snapshot.index = 0
    PROVE  LET t == StartNode(n, s.disk)
           IN  /\ Kept(t) /\ DOMAIN t.log = DOMAIN s.log
               /\ \A i \in DOMAIN s.log : t.log[i].command = Survivor(s.log[i].command)
<1> DEFINE d == s.disk
           t == StartNode(n, d)
           N == Len(s.log)
           l == [i \in 1 .. N |-> Survive(s.log[i])]
<1>1. /\ s.log \in Seq(EntryType) /\ N \in Nat /\ DOMAIN s.log = 1 .. N
      /\ Lines(d.wal) /\ Len(d.wal) = N
      /\ \A i \in 1 .. N : d.wal[i].index = i /\ DeserializeEntry(d.wal[i]) = Survive(s.log[i])
      /\ d.snapshot.registry =
           SerializeRegistry(ApplyEntries(InitialRegistry, SubSeq(s.log, 1, 0)))
  BY DEF Kept, Mirrored
<1>2. RecoverLog(d) = l
  <2>1. RecoverLog(d) = [i \in 1 .. (N - 0) |-> Survive(s.log[0 + i])]
    BY MirrorRecovers DEF Kept
  <2> QED BY <1>1, <2>1
<1>3. ASSUME NEW i \in 1 .. N
      PROVE  /\ l[i] \in EntryType /\ l[i].command = Survivor(s.log[i].command)
             /\ Survive(l[i]) = l[i] /\ DeserializeEntry(d.wal[i]) = Survive(l[i])
  <2>1. s.log[i] \in EntryType /\ l[i] = Survive(s.log[i])
    BY <1>1
  <2> HIDE DEF l
  <2> QED BY <1>1, <2>1, JsonEntry
<1>4. l \in Seq(EntryType) /\ Len(l) = N
  <2>1. l \in [1 .. N -> EntryType]
    BY <1>3
  <2> QED BY <1>1, <2>1, SeqDef, LenProperties
<1>5. SubSeq(s.log, 1, 0) = <<>> /\ SubSeq(l, 1, 0) = <<>>
  BY <1>1, <1>4
<1>6. d.snapshot.registry = SerializeRegistry(InitialRegistry)
  BY <1>1, <1>5, EntriesNone
<1>7. RecoverRegistry(d) = InitialRegistry
  BY <1>6 DEF RecoverRegistry, DeserializeRegistry, SerializeRegistry, InitialRegistry
<1>8. ApplyEntries(InitialRegistry, SubSeq(l, 1, 0)) = InitialRegistry
  BY <1>5, EntriesNone
<1>9. d.snapshot.index = 0
  OBVIOUS
<1> HIDE DEF d, l
<1>10. /\ t.log = RecoverLog(d) /\ t.last_applied = d.snapshot.index
       /\ t.commit_index = d.snapshot.index /\ t.registry = RecoverRegistry(d)
       /\ t.pending = {} /\ t.disk = d
  BY DEF StartNode
<1> HIDE DEF t
<1>11. t.log = l
  BY <1>2, <1>10
<1>12. Mirrored(t)
  <2>1. \A i \in 1 .. Len(d.wal) :
          d.wal[i].index = 0 + i /\ DeserializeEntry(d.wal[i]) = Survive(l[0 + i])
    BY <1>1, <1>3
  <2>2. Len(d.wal) = N - 0 /\ 0 \in Nat /\ 0 <= N
    BY <1>1
  <2> QED BY <1>1, <1>4, <1>6, <1>8, <1>9, <1>10, <1>11, <2>1, <2>2 DEF Mirrored
<1>13. Replayed(t)
  BY <1>1, <1>4, <1>7, <1>8, <1>9, <1>10, <1>11 DEF Replayed
<1>14. Kept(t)
  BY <1>10, <1>12, <1>13 DEF Kept
<1>15. DOMAIN l = 1 .. N
  BY DEF l
<1> QED BY <1>1, <1>3, <1>11, <1>14, <1>15 DEF d, t


(* Lists that agree up to a place have the same first part.                *)
LEMMA SamePrefix ==
    ASSUME NEW S, NEW k \in Seq(S), NEW l \in Seq(S), NEW a \in Nat,
           a <= Len(k), a <= Len(l), \A i \in 1 .. Len(k) : l[i] = k[i]
    PROVE  SubSeq(l, 1, a) = SubSeq(k, 1, a)
<1> DEFINE p == SubSeq(l, 1, a)
           q == SubSeq(k, 1, a)
<1>1. \A i \in 1 .. a : l[i] \in S /\ k[i] \in S /\ l[i] = k[i]
  OBVIOUS
<1>2. /\ p \in Seq(S) /\ Len(p) = IF 1 <= a THEN a - 1 + 1 ELSE 0
      /\ \A i \in 1 .. a - 1 + 1 : p[i] = l[1 + i - 1]
  BY <1>1, SubSeqProperties
<1>3. /\ q \in Seq(S) /\ Len(q) = IF 1 <= a THEN a - 1 + 1 ELSE 0
      /\ \A i \in 1 .. a - 1 + 1 : q[i] = k[1 + i - 1]
  BY <1>1, SubSeqProperties
<1> HIDE DEF p, q
<1>4. Len(p) = a /\ Len(q) = a
  BY <1>2, <1>3
<1>5. ASSUME NEW i \in 1 .. a PROVE p[i] = q[i]
  <2>1. i \in 1 .. a - 1 + 1 /\ 1 + i - 1 = i
    OBVIOUS
  <2> QED BY <1>1, <1>2, <1>3, <2>1
<1>6. p = q
  BY <1>2, <1>3, <1>4, <1>5, SeqEqual
<1> QED BY <1>6 DEF p, q

(* append_own: log and file grow by the same entry.                        *)
LEMMA AppendKept ==
    ASSUME Alone, NEW s, Kept(s), Shape(s), s.current_term \in Nat,
           NEW c \in Commands \cup {NoOp}
    PROVE  LET t == AppendOwn(s, c)
           IN  /\ Kept(t) /\ Extends(s.log, t.log)
               /\ Len(s.log) + 1 \in DOMAIN t.log
               /\ t.log[Len(s.log) + 1].command = c
<1> DEFINE e == Entry(s.current_term, Len(s.log) + 1, c)
           l == Append(s.log, e)
           x == SerializeEntry(e)
           w == s.disk.wal
           v == w \o <<x>>
           d == AppendWal(s.disk, <<e>>)
           t == [s EXCEPT !.log = l, !.disk = d]
           N == Len(s.log)
           M == Len(w)
           b == s.disk.snapshot.index
<1>1. AppendOwn(s, c) = t
  BY DEF AppendOwn
<1>2. /\ s.log \in Seq(EntryType) /\ N \in Nat /\ b \in Nat /\ b <= N
      /\ Lines(w) /\ M = N - b
      /\ \A i \in 1 .. M : w[i].index = b + i /\ DeserializeEntry(w[i]) = Survive(s.log[b + i])
      /\ s.disk.snapshot.registry =
           SerializeRegistry(ApplyEntries(InitialRegistry, SubSeq(s.log, 1, b)))
  <2>1. s.log \in Seq(EntryType) /\ Mirrored(s)
    BY DEF Kept, Mirrored
  <2>2. N \in Nat
    BY <2>1
  <2> QED BY <2>1, <2>2, Zenon DEF Mirrored
<1>3. e \in EntryType /\ e.index = N + 1 /\ e.command = c
  BY <1>2 DEF EntryType, Entry
<1> HIDE DEF e
<1>4. /\ l \in Seq(EntryType) /\ Len(l) = N + 1 /\ l[N + 1] = e
      /\ \A i \in 1 .. N : l[i] = s.log[i]
  BY <1>2, <1>3, AppendProperties
<1>5. DOMAIN s.log = 1 .. N /\ DOMAIN l = 1 .. (N + 1)
  BY <1>2, <1>4
<1>6. x.index = N + 1 /\ DeserializeEntry(x) = Survive(e)
  BY <1>3, JsonEntry
<1>7. d.wal = v /\ d.snapshot = s.disk.snapshot
  <2>1. [i \in DOMAIN <<e>> |-> SerializeEntry(<<e>>[i])] = <<x>>
    OBVIOUS
  <2>2. DOMAIN s.disk = Files
    BY DEF Shape
  <2>3. d = [s.disk EXCEPT !.wal = v]
    BY <2>1 DEF AppendWal, Alone
  <2> HIDE DEF d, v
  <2> QED BY <2>2, <2>3 DEF Files
<1> HIDE DEF d, l, x
<1>8. Lines(v) /\ Len(v) = M + 1 /\ v[M + 1] = x /\ \A i \in 1 .. M : v[i] = w[i]
  <2>1. PICK S : w \in Seq(S)
    BY <1>2 DEF Lines
  <2>2. w \in Seq(S \cup {x})
    BY <2>1, SeqMonotonic
  <2> HIDE DEF w
  <2>3. v = Append(w, x)
    BY <2>2
  <2> HIDE DEF v
  <2>4. /\ v \in Seq(S \cup {x}) /\ Len(v) = M + 1 /\ v[M + 1] = x
        /\ \A i \in 1 .. M : v[i] = w[i]
    BY <2>2, <2>3, AppendProperties
  <2> QED BY <2>4 DEF Lines
<1> HIDE DEF v
<1>9. /\ t.log = l /\ t.disk = d /\ t.last_applied = s.last_applied
      /\ t.commit_index = s.commit_index /\ t.registry = s.registry
      /\ t.pending = s.pending
  BY DEF Shape, Fields
<1> HIDE DEF t
<1>10. SubSeq(l, 1, b) = SubSeq(s.log, 1, b)
  <2>1. b <= Len(l)
    BY <1>2, <1>4
  <2> HIDE DEF b
  <2> QED BY <1>2, <1>4, <2>1, SamePrefix
<1>11. Mirrored(t)
  <2>1. ASSUME NEW i \in 1 .. (M + 1)
        PROVE  v[i].index = b + i /\ DeserializeEntry(v[i]) = Survive(l[b + i])
    <3>1. M \in Nat
      BY <1>2
    <3>2. CASE i \in 1 .. M
      <4>1. b + i \in 1 .. N
        BY <1>2, <3>1, <3>2
      <4> HIDE DEF b, M, N, w
      <4> QED BY <1>2, <1>4, <1>8, <3>2, <4>1
    <3>3. CASE i = M + 1
      <4>1. b + i = N + 1
        BY <1>2, <3>1, <3>3
      <4> HIDE DEF b, M, N, w
      <4> QED BY <1>4, <1>6, <1>8, <3>3, <4>1
    <3> HIDE DEF M
    <3> QED BY <3>1, <3>2, <3>3
  <2>2. Len(v) = Len(l) - b /\ b <= Len(l)
    BY <1>2, <1>4, <1>8
  <2>3. t.disk.snapshot.index = b /\ t.disk.wal = v /\ t.log = l
    BY <1>7, <1>9
  <2>4. t.disk.snapshot.registry =
          SerializeRegistry(ApplyEntries(InitialRegistry, SubSeq(l, 1, b)))
    BY <1>2, <1>7, <1>9, <1>10
  <2>5. \A i \in 1 .. Len(v) : v[i].index = b + i /\ DeserializeEntry(v[i]) = Survive(l[b + i])
    BY <1>8, <2>1
  <2> HIDE DEF b, N, M, w
  <2> QED BY <1>2, <1>4, <1>8, <2>2, <2>3, <2>4, <2>5 DEF Mirrored
<1>12. Replayed(t)
  <2> DEFINE a == s.last_applied
  <2>1. a \in Nat /\ a <= N
    BY DEF Kept, Replayed
  <2> HIDE DEF a
  <2>2. SubSeq(l, 1, a) = SubSeq(s.log, 1, a)
    <3>1. a <= Len(l)
      BY <1>2, <1>4, <2>1
    <3> QED BY <1>2, <1>4, <2>1, <3>1, SamePrefix
  <2>3. /\ s.commit_index = a /\ s.last_applied = a /\ s.disk.snapshot.index <= a
        /\ s.registry = ApplyEntries(InitialRegistry, SubSeq(s.log, 1, a))
    BY DEF Kept, Replayed, a
  <2>4. a <= Len(l)
    BY <1>2, <1>4, <2>1
  <2> QED BY <1>7, <1>9, <2>1, <2>2, <2>3, <2>4 DEF Replayed
<1>13. Extends(s.log, l)
  BY <1>2, <1>4, <1>5 DEF Extends
<1>14. \A r \in t.pending : Named(r, t.log)
  BY <1>9, <1>13 DEF Kept, Named, Extends
<1>15. N + 1 \in DOMAIN l
  BY <1>2, <1>5
<1> QED BY <1>1, <1>3, <1>4, <1>9, <1>11, <1>12, <1>13, <1>14, <1>15 DEF Kept

(* reply_to_pending only forgets requests.                                 *)
LEMMA ReplyKept ==
    ASSUME NEW u, Kept(u), DOMAIN u = Fields
    PROVE  Kept(ReplyToPending(u)) /\ ReplyToPending(u).log = u.log
<1> DEFINE q == u.pending \ Fulfilled(u)
           t == [u EXCEPT !.pending = q]
<1>1. ReplyToPending(u) = t /\ q \subseteq u.pending
  BY DEF ReplyToPending
<1> HIDE DEF q
<1>2. /\ t.log = u.log /\ t.disk = u.disk /\ t.last_applied = u.last_applied
      /\ t.commit_index = u.commit_index /\ t.registry = u.registry /\ t.pending = q
  BY DEF Fields
<1> HIDE DEF t
<1>3. Mirrored(t)
  BY <1>2 DEF Kept, Mirrored
<1>4. Replayed(t)
  BY <1>2 DEF Kept, Replayed
<1>5. Kept(t)
  BY <1>1, <1>2, <1>3, <1>4 DEF Kept
<1> QED BY <1>1, <1>2, <1>5

(* maybe_trigger_snapshot: the registry replaces the lines that made it.   *)
LEMMA SnapshotKept ==
    ASSUME Alone, NEW s, Kept(s), Shape(s)
    PROVE  Kept(MaybeTriggerSnapshot(s))
<1> DEFINE b == s.disk.snapshot.index
           w == s.disk.wal
           v == s.last_applied
           N == Len(s.log)
           z == LinesAfter(w, v)
           p == [index |-> v, registry |-> SerializeRegistry(s.registry)]
           d == SaveSnapshot(s.disk, s.registry, v)
           t == [s EXCEPT !.disk = d]
<1>1. MaybeTriggerSnapshot(s) = s \/ MaybeTriggerSnapshot(s) = t
  BY DEF MaybeTriggerSnapshot
<1>2. /\ s.log \in Seq(EntryType) /\ N \in Nat /\ b \in Nat /\ b <= N
      /\ Lines(w) /\ Len(w) = N - b
      /\ \A i \in 1 .. Len(w) : w[i].index = b + i /\ DeserializeEntry(w[i]) = Survive(s.log[b + i])
  BY DEF Kept, Mirrored
<1>3. /\ v \in Nat /\ v <= N /\ b <= v /\ s.commit_index = v
      /\ s.registry = ApplyEntries(InitialRegistry, SubSeq(s.log, 1, v))
  BY DEF Kept, Replayed
<1>4. d.snapshot = p /\ d.wal = z
  <2>1. d = [s.disk EXCEPT !.snapshot = p, !.wal = z]
    BY DEF SaveSnapshot, Alone
  <2>2. DOMAIN s.disk = Files
    BY DEF Shape
  <2> HIDE DEF d, p, z
  <2> QED BY <2>1, <2>2 DEF Files
<1>5. p.index = v /\ p.registry = SerializeRegistry(ApplyEntries(InitialRegistry, SubSeq(s.log, 1, v)))
  BY <1>3
<1>6. Lines(z)
  BY <1>2, FilteredLists
<1> HIDE DEF d, p
<1>7. /\ t.log = s.log /\ t.disk = d /\ t.last_applied = v /\ t.commit_index = s.commit_index
      /\ t.registry = s.registry /\ t.pending = s.pending
  BY DEF Shape, Fields
<1> HIDE DEF t, b, w, N, v
<1>8. z = [k \in 1 .. (Len(w) - (v - b)) |-> w[(v - b) + k]]
  <2>1. b <= v /\ v - b <= Len(w) /\ \A i \in 1 .. Len(w) : w[i].index = b + i
    BY <1>2, <1>3
  <2>2. Lines(w) /\ b \in Nat /\ v \in Nat
    BY <1>2, <1>3
  <2> QED BY <2>1, <2>2, LinesAfterIndex, ZenonT(60)
<1>9. z = [k \in 1 .. (N - v) |-> w[(v - b) + k]]
  <2>1. Len(w) - (v - b) = N - v
    BY <1>2, <1>3
  <2> QED BY <1>8, <2>1
<1>10. Len(z) = N - v
  <2>1. DOMAIN z = 1 .. (N - v) /\ N - v \in Nat
    BY <1>2, <1>3, <1>9
  <2>2. Len(z) \in Nat /\ DOMAIN z = 1 .. Len(z)
    BY <1>6 DEF Lines
  <2> HIDE DEF z
  <2> QED BY <2>1, <2>2
<1>11. ASSUME NEW i \in 1 .. (N - v)
       PROVE  z[i].index = v + i /\ DeserializeEntry(z[i]) = Survive(s.log[v + i])
  <2> DEFINE k == (v - b) + i
  <2>1. k \in 1 .. Len(w) /\ b + k = v + i /\ z[i] = w[k]
    BY <1>2, <1>3, <1>9
  <2> HIDE DEF k, z
  <2>2. w[k].index = b + k /\ DeserializeEntry(w[k]) = Survive(s.log[b + k])
    BY <1>2, <2>1
  <2> QED BY <2>1, <2>2
<1> HIDE DEF z
<1>12. Mirrored(t)
  <2>1. t.disk.snapshot.index = v /\ t.disk.wal = z /\ t.log = s.log
    BY <1>4, <1>5, <1>7
  <2>2. t.disk.snapshot.registry =
          SerializeRegistry(ApplyEntries(InitialRegistry, SubSeq(s.log, 1, v)))
    BY <1>4, <1>5, <1>7
  <2>3. \A i \in 1 .. Len(z) : z[i].index = v + i /\ DeserializeEntry(z[i]) = Survive(s.log[v + i])
    BY <1>10, <1>11
  <2>4. Len(z) = Len(s.log) - v /\ v <= Len(s.log)
    BY <1>3, <1>10 DEF N
  <2> QED BY <1>2, <1>3, <1>6, <2>1, <2>2, <2>3, <2>4 DEF Mirrored
<1>13. Replayed(t)
  BY <1>3, <1>4, <1>5, <1>7 DEF Replayed, N
<1>14. Kept(t)
  BY <1>7, <1>12, <1>13 DEF Kept
<1> QED BY <1>1, <1>14

(* maybe_advance_commit, apply_committed and reply_to_pending at a leader: *)
(* what is applied are the entries after the last applied one.             *)
LEMMA AdvanceKept ==
    ASSUME Alone, NEW n, NEW s, Kept(s), Shape(s),
           s.current_term \in Nat, s.current_term > 0
    PROVE  LET u == ApplyCommitted(n, MaybeAdvanceCommit(n, s))
           IN  /\ Kept(u) /\ Kept(ReplyToPending(u))
               /\ u.log = s.log /\ ReplyToPending(u).log = s.log
<1> DEFINE v == QuorumMatch(n, s)
           t == MaybeAdvanceCommit(n, s)
           u == ApplyCommitted(n, t)
           a == s.last_applied
<1>1. s.log \in Seq(EntryType) /\ Len(s.log) \in Nat /\ DOMAIN s.log = 1 .. Len(s.log)
  BY DEF Kept, Mirrored
<1>2. /\ a \in Nat /\ a <= Len(s.log) /\ s.commit_index = a
      /\ s.disk.snapshot.index <= a
      /\ s.registry = ApplyEntries(InitialRegistry, SubSeq(s.log, 1, a))
  BY DEF Kept, Replayed
<1>3. \/ t = s
      \/ /\ t = [s EXCEPT !.commit_index = v] /\ v > s.commit_index
         /\ TermAt(s.log, v) = s.current_term
  BY DEF MaybeAdvanceCommit
<1>4. u.log = s.log /\ DOMAIN u = Fields
  BY AdvanceFrame DEF Frame, Shape
<1> HIDE DEF v, t
<1>5. CASE t = s
  <2>1. t.last_applied >= t.commit_index
    BY <1>2, <1>5
  <2>2. u = s
    BY <1>5, <2>1 DEF ApplyCommitted
  <2> HIDE DEF u
  <2>3. Kept(ReplyToPending(s)) /\ ReplyToPending(s).log = s.log
    BY ReplyKept DEF Shape
  <2> QED BY <2>2, <2>3 DEF t, u
<1>6. CASE /\ t = [s EXCEPT !.commit_index = v] /\ v > s.commit_index
           /\ TermAt(s.log, v) = s.current_term
  <2>1. v \in 1 .. Len(s.log) /\ v > a
    BY <1>1, <1>2, <1>6 DEF TermAt
  <2>2. v \in Nat /\ v <= Len(s.log) /\ a + 1 \in Nat /\ a <= v
    BY <1>1, <1>2, <2>1
  <2> DEFINE es == SubSeq(s.log, a + 1, v)
             r == ApplyEntries(s.registry, es)
             ps == ApplyMembership(s.peers, n, es)
             x == [s EXCEPT !.commit_index = v, !.last_applied = v,
                            !.registry = r, !.peers = ps]
  <2>3. Min({v, Len(s.log)}) = v
    BY <1>1, <2>2 DEF Min
  <2>4. /\ Shape(t) /\ t.commit_index = v /\ t.last_applied = a /\ t.log = s.log
        /\ t.registry = s.registry /\ t.peers = s.peers
    BY <1>6 DEF Shape, Fields
  <2>5. u = MaybeTriggerSnapshot([t EXCEPT !.last_applied = v, !.registry = r, !.peers = ps])
    <3>1. ~(t.last_applied >= t.commit_index)
      BY <1>2, <2>1, <2>2, <2>4
    <3> HIDE DEF a
    <3> QED BY <2>3, <2>4, <3>1 DEF ApplyCommitted
  <2> HIDE DEF es, r, ps
  <2>6. [t EXCEPT !.last_applied = v, !.registry = r, !.peers = ps] = x
    BY <1>6 DEF Shape, Fields
  <2>7. /\ x.commit_index = v /\ x.last_applied = v /\ x.registry = r /\ x.log = s.log
        /\ x.disk = s.disk /\ x.pending = s.pending /\ Shape(x)
    BY DEF Shape, Fields
  <2> HIDE DEF x
  <2>8. u = MaybeTriggerSnapshot(x)
    BY <2>5, <2>6
  <2>9. r = ApplyEntries(InitialRegistry, SubSeq(s.log, 1, v))
    BY <1>1, <1>2, <2>1, <2>2, EntriesJoin DEF r, es
  <2>10. Kept(x)
    <3>1. Mirrored(x)
      BY <2>7 DEF Kept, Mirrored
    <3>2. x.disk.snapshot.index <= v
      <4>1. s.disk.snapshot.index \in Nat
        BY DEF Kept, Mirrored
      <4> QED BY <1>2, <2>2, <2>7, <4>1
    <3>3. Replayed(x)
      BY <2>2, <2>7, <2>9, <3>2 DEF Replayed
    <3>4. \A q \in x.pending : Named(q, x.log)
      BY <2>7 DEF Kept
    <3> QED BY <3>1, <3>3, <3>4 DEF Kept
  <2>11. Kept(MaybeTriggerSnapshot(x))
    BY <2>7, <2>10, SnapshotKept
  <2> HIDE DEF u
  <2>12. Kept(u)
    BY <2>8, <2>11
  <2>13. Kept(ReplyToPending(u)) /\ ReplyToPending(u).log = u.log
    BY <1>4, <2>12, ReplyKept
  <2> QED BY <1>4, <2>12, <2>13 DEF t, u
<1> QED BY <1>3, <1>5, <1>6


-----------------------------------------------------------------------------
(* A node on its own stays calm.  A snapshot, once there, is replaced by   *)
(* later ones only.                                                        *)
Snaps(s, t) == t.disk.snapshot = s.disk.snapshot \/ t.disk.snapshot.index > 0

(* append_own.                                                             *)
LEMMA CalmAppend ==
    ASSUME NEW n, NEW s, Calm(n, s), NEW c
    PROVE  LET t == AppendOwn(s, c)
           IN  Calm(n, t) /\ t.disk.snapshot = s.disk.snapshot
<1> DEFINE e == Entry(s.current_term, Len(s.log) + 1, c)
           l == Append(s.log, e)
           d == AppendWal(s.disk, <<e>>)
           t == [s EXCEPT !.log = l, !.disk = d]
<1>1. AppendOwn(s, c) = t
  BY DEF AppendOwn
<1> HIDE DEF e
<1>2. Lines(<<e>>) /\ Lines(l)
  <2>1. <<e>> \in Seq({e})
    OBVIOUS
  <2>2. PICK S : s.log \in Seq(S)
    BY DEF Calm, Lines
  <2>3. s.log \in Seq(S \cup {e})
    BY <2>2, SeqMonotonic
  <2>4. l \in Seq(S \cup {e})
    BY <2>3, AppendProperties
  <2> QED BY <2>1, <2>4 DEF Lines
<1>3. GoodDisk(d)
  BY <1>2, AppendWalGood DEF Calm
<1>4. d.snapshot = s.disk.snapshot
  <2> DEFINE w == s.disk.wal \o [i \in DOMAIN <<e>> |-> SerializeEntry(<<e>>[i])]
  <2>1. d = s.disk \/ d = [s.disk EXCEPT !.wal = w]
    BY DEF AppendWal
  <2>2. DOMAIN s.disk = Files
    BY DEF Calm, Shape
  <2> HIDE DEF d, w
  <2> QED BY <2>1, <2>2 DEF Files
<1> HIDE DEF d, l
<1>5. /\ DOMAIN t = Fields /\ t.disk = d /\ t.log = l /\ t.peers = s.peers
      /\ t.current_term = s.current_term /\ t.commit_index = s.commit_index
      /\ t.last_applied = s.last_applied /\ t.role = s.role
  BY DEF Calm, Shape, Fields
<1> HIDE DEF t
<1>6. Shape(t)
  BY <1>3, <1>5 DEF Shape, GoodDisk
<1> QED BY <1>1, <1>2, <1>3, <1>4, <1>5, <1>6 DEF Calm

(* become_leader.                                                          *)
LEMMA CalmAfterVote ==
    ASSUME NEW n, NEW s, Calm(n, s), s.role = "candidate"
    PROVE  LET t == AfterVote(n, s)
           IN  Calm(n, t) /\ t.disk.snapshot = s.disk.snapshot
<1> DEFINE x == [p \in s.peers |-> Len(s.log) + 1]
           y == [p \in s.peers |-> 0]
           t == [s EXCEPT !.role = "leader", !.leader_id = n,
                          !.next_index = x, !.match_index = y]
<1>1. AfterVote(n, s) = s \/ AfterVote(n, s) = AppendOwn(t, NoOp)
  BY DEF AfterVote, BecomeLeader
<1> HIDE DEF x, y
<1>2. Calm(n, t) /\ t.disk = s.disk
  BY DEF Calm, Shape, Fields
<1> HIDE DEF t
<1> QED BY <1>1, <1>2, CalmAppend

(* apply_committed, with the snapshot it may take.                         *)
LEMMA CalmApply ==
    ASSUME NEW n, NEW s, Calm(n, s)
    PROVE  LET t == ApplyCommitted(n, s) IN Calm(n, t) /\ Snaps(s, t)
<1> DEFINE j == Min({s.commit_index, Len(s.log)})
           es == SubSeq(s.log, s.last_applied + 1, j)
           r == ApplyEntries(s.registry, es)
           ps == ApplyMembership(s.peers, n, es)
           t == [s EXCEPT !.last_applied = s.commit_index, !.registry = r, !.peers = ps]
           d == SaveSnapshot(t.disk, t.registry, t.last_applied)
           u == [t EXCEPT !.disk = d]
<1>1. ApplyCommitted(n, s) = s \/ ApplyCommitted(n, s) = MaybeTriggerSnapshot(t)
  BY DEF ApplyCommitted
<1>2. PICK S : s.log \in Seq(S)
  BY DEF Calm, Lines
<1>3. Len(s.log) \in Nat /\ DOMAIN s.log = 1 .. Len(s.log)
  BY <1>2
<1>4. j \in Int /\ j <= Len(s.log) /\ s.last_applied + 1 \in Nat \ {0}
  BY <1>3 DEF Min, Calm
<1> HIDE DEF j
<1>5. Lines(es)
  <2>1. \A k \in (s.last_applied + 1) .. j : s.log[k] \in S
    BY <1>2, <1>4
  <2>2. es \in Seq(S)
    BY <1>4, <2>1, SubSeqProperties
  <2> QED BY <2>2 DEF Lines
<1> HIDE DEF es
<1>6. n \notin ps
  BY <1>5, NeverOwnPeer DEF Calm
<1> HIDE DEF r, ps
<1>7. Calm(n, t) /\ t.disk = s.disk /\ t.log = s.log
  BY <1>6 DEF Calm, Shape, Fields
<1> HIDE DEF t
<1>8. GoodDisk(d)
  BY <1>7, SaveSnapshotGood DEF Calm
<1>9. d.snapshot = t.disk.snapshot \/ d.snapshot.index = t.last_applied
  <2> DEFINE p == [index |-> t.last_applied, registry |-> SerializeRegistry(t.registry)]
             w == LinesAfter(t.disk.wal, t.last_applied)
  <2>1. d = t.disk \/ d = [t.disk EXCEPT !.snapshot = p, !.wal = w]
    BY DEF SaveSnapshot
  <2>2. DOMAIN t.disk = Files
    BY <1>7 DEF Calm, Shape
  <2>3. p.index = t.last_applied
    OBVIOUS
  <2> HIDE DEF d, p, w
  <2> QED BY <2>1, <2>2, <2>3 DEF Files
<1>10. \/ MaybeTriggerSnapshot(t) = t
       \/ MaybeTriggerSnapshot(t) = u /\ t.last_applied \in DOMAIN t.log
  BY DEF MaybeTriggerSnapshot
<1> HIDE DEF d
<1>11. Calm(n, u) /\ u.disk = d
  BY <1>7, <1>8 DEF Calm, Shape, Fields, GoodDisk
<1> HIDE DEF u
<1>12. t.last_applied \in DOMAIN t.log => t.last_applied > 0
  BY <1>3, <1>7
<1> QED BY <1>1, <1>7, <1>9, <1>10, <1>11, <1>12 DEF Snaps

(* maybe_advance_commit, apply_committed and reply_to_pending at a leader. *)
LEMMA CalmAdvance ==
    ASSUME NEW n, NEW s, Calm(n, s), s.role = "leader"
    PROVE  LET u == ReplyToPending(ApplyCommitted(n, MaybeAdvanceCommit(n, s)))
           IN  Calm(n, u) /\ Snaps(s, u)
<1> DEFINE c == QuorumMatch(n, s)
           t == MaybeAdvanceCommit(n, s)
           u == ApplyCommitted(n, t)
           r == u.pending \ Fulfilled(u)
           x == [u EXCEPT !.pending = r]
<1>1. t = s \/ (t = [s EXCEPT !.commit_index = c] /\ TermAt(s.log, c) = s.current_term)
  BY DEF MaybeAdvanceCommit
<1> HIDE DEF c
<1>2. ASSUME TermAt(s.log, c) = s.current_term PROVE c \in Nat
  <2>1. s.current_term > 0 /\ s.current_term \in Nat
    BY DEF Calm
  <2>2. c \in DOMAIN s.log
    BY <1>2, <2>1 DEF TermAt
  <2>3. DOMAIN s.log = 1 .. Len(s.log) /\ Len(s.log) \in Nat
    BY DEF Calm, Lines
  <2> QED BY <2>2, <2>3
<1> HIDE DEF t
<1>3. Calm(n, t) /\ t.disk = s.disk
  BY <1>1, <1>2 DEF Calm, Shape, Fields
<1>4. Calm(n, u) /\ Snaps(s, u)
  BY <1>3, CalmApply DEF Snaps
<1> HIDE DEF u
<1>5. ReplyToPending(u) = x
  BY DEF ReplyToPending
<1> HIDE DEF r
<1>6. Calm(n, x) /\ x.disk = u.disk
  BY <1>4 DEF Calm, Shape, Fields
<1> HIDE DEF x
<1> QED BY <1>4, <1>5, <1>6 DEF t, u, Snaps

(* Restart.                                                                *)
LEMMA CalmStart ==
    ASSUME NEW n \in Nodes, NEW d, GoodDisk(d), d.state.current_term \in Nat
    PROVE  LET t == StartNode(n, d) IN Calm(n, t) /\ t.disk = d
<1> DEFINE l == RecoverLog(d)
           i == d.snapshot.index
           t == StartNode(n, d)
           ps == InitPeers[n]
<1>1. Lines(l) /\ i \in Nat /\ n \notin ps
  BY RecoverLogHarmless, NodeAssumption DEF GoodDisk, HarmlessList, Lines
<1> HIDE DEF l
<1>2. /\ DOMAIN t = Fields /\ t.peers = ps /\ t.log = l
      /\ t.current_term = d.state.current_term
      /\ t.commit_index = i /\ t.last_applied = i /\ t.role = "follower" /\ t.disk = d
  BY DEF StartNode, Fields, l
<1> HIDE DEF t
<1> QED BY <1>1, <1>2 DEF Calm, Shape, GoodDisk, t

-----------------------------------------------------------------------------
(* Nobody is there to be asked.                                            *)
LEMMA NoPeers ==
    ASSUME Alone, NEW n \in Nodes, NEW s, n \notin s.peers
    PROVE  AppendRequests(n, s) = {} /\ VoteRequests(n, s) = {}
<1>1. PICK m : Nodes = {m}
  BY DEF Alone
<1>2. Reachable(s) = {}
  BY <1>1 DEF Reachable
<1> QED BY <1>2 DEF AppendRequests, VoteRequests

(* Sending nothing.                                                        *)
LEMMA SendNothing ==
    ASSUME SoloInv, NEW msgs, msgs = {}, Send(network, msgs)
    PROVE  DOMAIN network' = {}
<1>1. PICK sent \in SUBSET msgs : network' = network (+) SetToBag(sent)
  BY DEF Send
<1>2. DOMAIN (network (+) SetToBag(sent)) = DOMAIN network \cup sent
  BY DEF (+), SetToBag
<1> QED BY <1>1, <1>2 DEF SoloInv

(* An answer that holds of a log holds of one that extends it, and of the  *)
(* one that a restart makes of it.                                         *)
LEMMA StillTold ==
    ASSUME NEW a, NEW l, NEW k, NEW m \in Nat, Told(a, l, m)
    PROVE  /\ Extends(l, k) => Told(a, k, m)
           /\ (/\ DOMAIN k = DOMAIN l
               /\ \A i \in DOMAIN l : k[i].command = Survivor(l[i].command))
              => Told(a, k, m + 1)
<1>1. Extends(l, k) => Told(a, k, m)
  BY DEF Extends, Told
<1>2. ASSUME DOMAIN k = DOMAIN l, \A i \in DOMAIN l : k[i].command = Survivor(l[i].command)
      PROVE  Told(a, k, m + 1)
  <2>1. m + 1 > 0
    OBVIOUS
  <2>2. \A c : Survivor(Survivor(c)) = Survivor(c)
    BY DEF Survivor
  <2>3. k[a.index].command = Survivor(a.command)
    BY <1>2, <2>2 DEF Told
  <2> QED BY <1>2, <2>1, <2>3 DEF Told
<1> QED BY <1>1, <1>2

(* A step of the node.                                                     *)
LEMMA SoloStep ==
    ASSUME Alone, VoteInv, SoloInv, NEW n \in Nodes, NEW t, node' = [node EXCEPT ![n] = t],
           DOMAIN network' = {}, crashes' \in {crashes, crashes + 1},
           Calm(n, t), Snaps(node[n], t),
           ASSUME Kept(node[n]), crashes' > 0 => t.disk.snapshot.index = 0,
                  \A a \in acked : a.node = n /\ Told(a, node[n].log, crashes)
           PROVE  Kept(t) /\ \A a \in acked' : a.node = n /\ Told(a, t.log, crashes')
    PROVE  SoloInv'
<1>1. node'[n] = t /\ \A p \in Nodes : p = n
  BY DEF VoteInv, Alone
<1>2. crashes' \in Nat /\ crashes \in Nat /\ (crashes' = 0 => crashes = 0)
  BY DEF SoloInv
<1>3. \A p \in Nodes : Calm(p, node'[p])
  BY <1>1
<1>4. ASSUME Intact'
      PROVE  /\ \A p \in Nodes : Kept(node'[p])
             /\ \A a \in acked' : a.node \in Nodes /\ Told(a, node'[a.node].log, crashes')
  <2>1. crashes' = 0 \/ t.disk.snapshot.index = 0
    BY <1>1, <1>4 DEF Intact
  <2>2. Intact
    <3>1. CASE crashes' = 0
      BY <1>2, <3>1 DEF Intact
    <3>2. CASE t.disk.snapshot.index = 0
      <4>1. node[n].disk.snapshot.index = 0
        BY <3>2 DEF Snaps
      <4> QED BY <1>1, <4>1 DEF Intact
    <3> QED BY <2>1, <3>1, <3>2
  <2>3. Kept(node[n]) /\ \A a \in acked : a.node = n /\ Told(a, node[n].log, crashes)
    BY <1>1, <2>2 DEF SoloInv
  <2>4. crashes' > 0 => t.disk.snapshot.index = 0
    BY <1>2, <2>1
  <2>5. Kept(t) /\ \A a \in acked' : a.node = n /\ Told(a, t.log, crashes')
    BY <2>3, <2>4
  <2> QED BY <1>1, <2>5
<1>5. /\ (\A p \in Nodes : Kept(node[p]))' <=> \A p \in Nodes : Kept(node'[p])
      /\ (\A a \in acked : a.node \in Nodes /\ Told(a, node[a.node].log, crashes))'
         <=> \A a \in acked' : a.node \in Nodes /\ Told(a, node'[a.node].log, crashes')
      /\ (\A p \in Nodes : Calm(p, node[p]))' <=> \A p \in Nodes : Calm(p, node'[p])
  BY DEF Kept, Mirrored, Replayed, Named, Told, Calm
<1> QED BY <1>2, <1>3, <1>4, <1>5 DEF SoloInv


(* The election timeout, and the election that the node's own vote wins.   *)
LEMMA ElectionTimeoutSolo ==
    ASSUME Alone, VoteInv, SoloInv, NEW n \in Nodes, ElectionTimeout(n)
    PROVE  SoloInv'
<1> DEFINE r == node[n]
           term == r.current_term + 1
           d == PersistState(r.disk, term, n)
           s == [r EXCEPT !.role = "candidate", !.current_term = term,
                          !.voted_for = n, !.votes_received = {n}, !.disk = d]
           t == AfterVote(n, s)
<1>1. Calm(n, r) /\ term \in Nat /\ term > 0
  <2>1. Calm(n, r)
    BY DEF SoloInv
  <2>2. r.current_term \in Nat
    BY <2>1 DEF Calm
  <2> QED BY <2>1, <2>2
<1>2. Candidacy(n) = s
  BY DEF Candidacy
<1>3. /\ node' = [node EXCEPT ![n] = t] /\ acked' = acked /\ crashes' = crashes
      /\ Send(network, VoteRequests(n, s) \cup FirstAppends(n, s))
  BY <1>2 DEF ElectionTimeout, Elect
<1>4. GoodDisk(d)
  BY <1>1, PersistStateGood DEF Calm
<1>5. d.wal = r.disk.wal /\ d.snapshot = r.disk.snapshot
  BY <1>1 DEF PersistState, Calm, Shape, Files
<1>6. FirstAppends(n, s) = IF t.role = "leader" THEN AppendRequests(n, t) ELSE {}
  BY DEF FirstAppends
<1> HIDE DEF d, term
<1>7. Calm(n, s) /\ Alike(r, s) /\ s.role = "candidate"
  BY <1>1, <1>4, <1>5 DEF Calm, GoodDisk, Shape, Fields, Alike
<1> HIDE DEF s
<1>8. Calm(n, t) /\ t.disk.snapshot = r.disk.snapshot
  BY <1>7, CalmAfterVote DEF Alike
<1>9. VoteRequests(n, s) \cup FirstAppends(n, s) = {}
  <2>1. n \notin s.peers /\ n \notin t.peers
    BY <1>7, <1>8 DEF Calm
  <2> QED BY <1>6, <2>1, NoPeers
<1>10. DOMAIN network' = {}
  BY <1>3, <1>9, SendNothing
<1>11. ASSUME Kept(r), \A a \in acked : a.node = n /\ Told(a, r.log, crashes)
       PROVE  Kept(t) /\ \A a \in acked' : a.node = n /\ Told(a, t.log, crashes')
  <2>1. Kept(s) /\ s.log = r.log
    BY <1>7, <1>11, AlikeKept DEF Alike
  <2>2. Kept(t) /\ Extends(s.log, t.log)
    <3>1. CASE t = s
      BY <2>1, <3>1 DEF Extends
    <3>2. CASE t = BecomeLeader(n, s)
      <4> DEFINE x == [p \in s.peers |-> Len(s.log) + 1]
                 y == [p \in s.peers |-> 0]
                 b == [s EXCEPT !.role = "leader", !.leader_id = n,
                                !.next_index = x, !.match_index = y]
      <4>1. t = AppendOwn(b, NoOp)
        BY <3>2 DEF BecomeLeader
      <4> HIDE DEF x, y, t
      <4>2. Shape(b) /\ Alike(s, b) /\ b.current_term \in Nat
        BY <1>7 DEF Calm, Shape, Fields, Alike
      <4> HIDE DEF b
      <4>3. Kept(b) /\ b.log = s.log
        BY <2>1, <4>2, AlikeKept DEF Alike
      <4>4. Kept(AppendOwn(b, NoOp)) /\ Extends(b.log, AppendOwn(b, NoOp).log)
        BY <4>2, <4>3, AppendKept
      <4> QED BY <4>1, <4>3, <4>4
    <3> QED BY <3>1, <3>2 DEF AfterVote
  <2> HIDE DEF t
  <2>3. \A a \in acked : Told(a, t.log, crashes)
    <3>1. crashes \in Nat
      BY DEF SoloInv
    <3> QED BY <1>11, <2>1, <2>2, <3>1, StillTold
  <2> QED BY <1>3, <1>11, <2>2, <2>3
<1>12. Snaps(node[n], t)
  BY <1>8 DEF Snaps
<1> HIDE DEF t
<1> QED BY <1>3, <1>8, <1>10, <1>11, <1>12, SoloStep

(* A client's command.                                                     *)
LEMMA ProposeSolo ==
    ASSUME Alone, VoteInv, SoloInv, NEW n \in Nodes, NEW c \in Commands, Propose(n, c)
    PROVE  SoloInv'
<1> DEFINE s == node[n]
           a == AppendOwn(s, c)
           q == [index |-> Len(s.log) + 1, command |-> c, term |-> s.current_term]
           x == a.pending \cup {q}
           t == [a EXCEPT !.pending = x]
           u == ApplyCommitted(n, MaybeAdvanceCommit(n, t))
           w == ReplyToPending(u)
<1>1. /\ s.role = "leader" /\ node' = [node EXCEPT ![n] = w] /\ crashes' = crashes
      /\ acked' = acked \cup Replies(n, u) /\ Send(network, AppendRequests(n, t))
  BY DEF Propose
<1>2. Calm(n, s) /\ Shape(s) /\ crashes \in Nat
  BY DEF SoloInv, Calm
<1>3. s.current_term \in Nat /\ s.current_term > 0
  BY <1>1, <1>2 DEF Calm
<1>4. /\ Calm(n, a) /\ a.disk.snapshot = s.disk.snapshot
      /\ a.current_term = s.current_term /\ a.role = "leader"
  BY <1>1, <1>2, CalmAppend, AppendOwnEffect
<1>5. q.index = Len(s.log) + 1 /\ q.command = c
  OBVIOUS
<1>6. Kept(s) => /\ Kept(a) /\ Extends(s.log, a.log)
                 /\ Len(s.log) + 1 \in DOMAIN a.log /\ a.log[Len(s.log) + 1].command = c
  BY <1>2, <1>3, AppendKept
<1> HIDE DEF a, q, x
<1>7. /\ Calm(n, t) /\ t.log = a.log /\ t.pending = x /\ t.role = "leader"
      /\ t.current_term = a.current_term /\ t.disk = a.disk
      /\ t.last_applied = a.last_applied /\ t.commit_index = a.commit_index
      /\ t.registry = a.registry
  BY <1>4 DEF Calm, Shape, Fields
<1> HIDE DEF t
<1>8. Calm(n, w) /\ Snaps(t, w)
  BY <1>7, CalmAdvance
<1>9. Snaps(s, w)
  BY <1>4, <1>7, <1>8 DEF Snaps
<1>10. DOMAIN network' = {}
  <2>1. n \notin t.peers
    BY <1>7 DEF Calm
  <2> QED BY <1>1, <2>1, NoPeers, SendNothing
<1>11. ASSUME Kept(s), \A z \in acked : z.node = n /\ Told(z, s.log, crashes)
       PROVE  Kept(w) /\ \A z \in acked' : z.node = n /\ Told(z, w.log, crashes')
  <2>1. /\ Kept(a) /\ Extends(s.log, a.log) /\ Named(q, a.log)
    BY <1>5, <1>6, <1>11 DEF Named
  <2>2. Kept(t)
    <3>1. \A r \in x : Named(r, a.log)
      BY <2>1 DEF Kept, x
    <3>2. Mirrored(t)
      BY <1>7, <2>1 DEF Kept, Mirrored
    <3>3. Replayed(t)
      BY <1>7, <2>1 DEF Kept, Replayed
    <3> QED BY <1>7, <3>1, <3>2, <3>3 DEF Kept
  <2>3. Shape(t) /\ t.current_term \in Nat /\ t.current_term > 0
    BY <1>3, <1>4, <1>7 DEF Calm
  <2>4. Kept(u) /\ Kept(w) /\ u.log = t.log /\ w.log = t.log
    BY <2>2, <2>3, AdvanceKept
  <2> HIDE DEF w, u
  <2>5. \A z \in Replies(n, u) : z.node = n /\ Told(z, w.log, crashes)
    <3> SUFFICES ASSUME NEW z \in Replies(n, u) PROVE z.node = n /\ Told(z, w.log, crashes)
      OBVIOUS
    <3>1. PICK r \in Fulfilled(u) : z.node = n /\ z.index = r.index /\ z.command = r.command
      BY DEF Replies
    <3>2. Named(r, u.log)
      BY <2>4 DEF Fulfilled, Kept
    <3> QED BY <2>4, <3>1, <3>2 DEF Named, Told
  <2>6. Extends(s.log, w.log)
    BY <1>7, <2>1, <2>4
  <2>7. \A z \in acked : Told(z, w.log, crashes)
    BY <1>2, <1>11, <2>6, StillTold
  <2> QED BY <1>1, <1>11, <2>4, <2>5, <2>7
<1> HIDE DEF w, u
<1> QED BY <1>1, <1>8, <1>9, <1>10, <1>11, SoloStep

(* A crash and the restart.                                                *)
LEMMA CrashSolo ==
    ASSUME Alone, VoteInv, SoloInv, NEW n \in Nodes, CrashRestart(n)
    PROVE  SoloInv'
<1> DEFINE s == node[n]
           t == StartNode(n, s.disk)
<1>1. /\ node' = [node EXCEPT ![n] = t] /\ network' = network /\ acked' = acked
      /\ crashes' = crashes + 1
  BY DEF CrashRestart
<1>2. Calm(n, s) /\ crashes \in Nat /\ DOMAIN network = {}
  BY DEF SoloInv
<1>3. s.disk.state.current_term \in Nat
  <2>1. /\ s.disk.state = [current_term |-> s.current_term, voted_for |-> s.voted_for]
        /\ s.current_term \in Nat
    BY Zenon DEF VoteInv, Stored
  <2> QED BY <2>1
<1>4. Calm(n, t) /\ t.disk = s.disk
  BY <1>2, <1>3, CalmStart DEF Calm
<1>5. ASSUME Kept(s), crashes' > 0 => t.disk.snapshot.index = 0,
             \A a \in acked : a.node = n /\ Told(a, s.log, crashes)
      PROVE  Kept(t) /\ \A a \in acked' : a.node = n /\ Told(a, t.log, crashes')
  <2>1. s.disk.snapshot.index = 0
    BY <1>1, <1>2, <1>4, <1>5
  <2>2. /\ Kept(t) /\ DOMAIN t.log = DOMAIN s.log
        /\ \A i \in DOMAIN s.log : t.log[i].command = Survivor(s.log[i].command)
    BY <1>5, <2>1, RestartKept
  <2> HIDE DEF t
  <2>3. \A a \in acked : Told(a, t.log, crashes + 1)
    BY <1>2, <1>5, <2>2, StillTold
  <2> QED BY <1>1, <1>5, <2>2, <2>3
<1> HIDE DEF t
<1>6. Snaps(s, t) /\ DOMAIN network' = {}
  BY <1>1, <1>2, <1>4 DEF Snaps
<1> QED BY <1>1, <1>4, <1>5, <1>6, SoloStep

(* The start.                                                              *)
LEMMA SoloInvInit ==
    ASSUME Alone, Init
    PROVE  SoloInv
<1>1. DOMAIN network = {} /\ acked = {} /\ crashes \in Nat
  BY DEF Init, EmptyBag, SetToBag
<1> DEFINE s == [log |-> <<>>, disk |-> EmptyDisk, last_applied |-> 0,
                 commit_index |-> 0, registry |-> InitialRegistry, pending |-> {}]
<1>2. /\ s.log = <<>> /\ s.disk = EmptyDisk /\ s.last_applied = 0 /\ s.commit_index = 0
      /\ s.registry = InitialRegistry /\ s.pending = {}
  OBVIOUS
<1>3. /\ EmptyDisk.wal = <<>> /\ EmptyDisk.snapshot = NoSnapshot /\ DOMAIN EmptyDisk = Files
      /\ EmptyDisk.state.current_term = 0
  BY DEF EmptyDisk, Files
<1>4. NoSnapshot.index = 0 /\ NoSnapshot.registry = SerializeRegistry(InitialRegistry)
  BY DEF NoSnapshot
<1>5. <<>> \in Seq(EntryType) /\ Len(<<>>) = 0 /\ SubSeq(<<>>, 1, 0) = <<>>
  OBVIOUS
<1>6. Lines(<<>>)
  BY <1>5 DEF Lines
<1>7. GoodDisk(EmptyDisk)
  BY <1>3, <1>4, <1>6 DEF GoodDisk
<1>8. \A n \in Nodes : Calm(n, StartNode(n, EmptyDisk))
  BY <1>3, <1>7, CalmStart
<1>9. ApplyEntries(InitialRegistry, SubSeq(<<>>, 1, 0)) = InitialRegistry
  BY <1>5, EntriesNone
<1> HIDE DEF s
<1>10. Mirrored(s)
  <2>1. \A i \in 1 .. 0 : FALSE
    OBVIOUS
  <2> QED BY <1>2, <1>3, <1>4, <1>5, <1>6, <1>9, <2>1 DEF Mirrored
<1>11. Replayed(s)
  BY <1>2, <1>3, <1>4, <1>5, <1>9 DEF Replayed
<1>12. Kept(s)
  BY <1>2, <1>10, <1>11 DEF Kept
<1>13. \A n \in Nodes : Kept(StartNode(n, EmptyDisk))
  BY <1>2, <1>3, <1>4, <1>12, RestartKept
<1>14. \A n \in Nodes : node[n] = StartNode(n, EmptyDisk)
  BY DEF Init
<1> QED BY <1>1, <1>8, <1>13, <1>14 DEF SoloInv

(* Every step.  No message is ever there to be handled.                    *)
LEMMA SoloInvStep ==
    ASSUME Alone, VoteInv, SoloInv, [Next]_vars
    PROVE  SoloInv'
<1>1. ASSUME NEW n \in Nodes, ElectionTimeout(n) PROVE SoloInv'
  BY <1>1, ElectionTimeoutSolo
<1>2. ASSUME NEW n \in Nodes, Heartbeat(n) PROVE SoloInv'
  <2>1. n \notin node[n].peers /\ Send(network, AppendRequests(n, node[n]))
    BY <1>2 DEF SoloInv, Calm, Heartbeat
  <2>2. DOMAIN network' = {}
    BY <2>1, NoPeers, SendNothing
  <2> QED BY <1>2, <2>2 DEF SoloInv, Heartbeat, Intact
<1>3. ASSUME NEW n \in Nodes, CrashRestart(n) PROVE SoloInv'
  BY <1>3, CrashSolo
<1>4. ASSUME NEW n \in Nodes, NEW c \in Commands, Propose(n, c) PROVE SoloInv'
  BY <1>4, ProposeSolo
<1>5. BagToSet(network) = {}
  BY DEF SoloInv, BagToSet
<1>6. CASE UNCHANGED vars
  BY <1>6 DEF vars, SoloInv, Intact
<1> QED BY <1>1, <1>2, <1>3, <1>4, <1>5, <1>6 DEF Next

(* What the recovery of a node on its own rests on.                        *)
LEMMA SoloInvariant == Alone => (Spec => []SoloInv)
<1> SUFFICES ASSUME Alone PROVE Spec => []SoloInv
  OBVIOUS
<1>1. Init => VoteInv /\ SoloInv
  BY VoteInvInit, SoloInvInit
<1>2. VoteInv /\ SoloInv /\ [Next]_vars => VoteInv' /\ SoloInv'
  BY VoteInvStep, SoloInvStep DEF Alone
<1> QED BY <1>1, <1>2, PTL DEF Spec

-----------------------------------------------------------------------------
(* Registries that differ at most in their members.                        *)
RegistryKeys == {"stores", "mappings", "members"}

SameData(r, q) ==
    /\ DOMAIN r = RegistryKeys /\ DOMAIN q = RegistryKeys
    /\ r.stores = q.stores /\ r.mappings = q.mappings

(* A command and its survivor do the same to stores and mappings.          *)
LEMMA CommandSame ==
    ASSUME NEW r, NEW q, SameData(r, q), NEW c
    PROVE  SameData(ApplyCommand(r, c), ApplyCommand(q, Survivor(c)))
<1>1. CASE c.op \in {"add_server", "remove_server"}
  <2>1. Survivor(c) = NoOp /\ NoOp.op = "noop"
    BY <1>1 DEF Survivor, NoOp, Cmd
  <2>2. ApplyCommand(q, Survivor(c)) = q
    BY <2>1 DEF ApplyCommand
  <2>3. SameData(ApplyCommand(r, c), r)
    <3>1. CASE c.op = "add_server"
      <4>1. ApplyCommand(r, c) = [r EXCEPT !.members = @ \cup {c.id}]
        BY <3>1 DEF ApplyCommand
      <4> QED BY <4>1 DEF SameData, RegistryKeys
    <3>2. CASE c.op = "remove_server"
      <4>1. ApplyCommand(r, c) = [r EXCEPT !.members = @ \ {c.id}]
        BY <3>2 DEF ApplyCommand
      <4> QED BY <4>1 DEF SameData, RegistryKeys
    <3> QED BY <1>1, <3>1, <3>2
  <2> QED BY <2>2, <2>3 DEF SameData
<1>2. CASE c.op \notin {"add_server", "remove_server"}
  <2>1. Survivor(c) = c
    BY <1>2 DEF Survivor
  <2>2. \A x : /\ SameData([r EXCEPT !.stores = x], [q EXCEPT !.stores = x])
               /\ SameData([r EXCEPT !.mappings = x], [q EXCEPT !.mappings = x])
    BY DEF SameData, RegistryKeys
  <2>3. \/ \E x : ApplyCommand(r, c) = [r EXCEPT !.stores = x] /\ ApplyCommand(q, c) = [q EXCEPT !.stores = x]
        \/ \E x : ApplyCommand(r, c) = [r EXCEPT !.mappings = x] /\ ApplyCommand(q, c) = [q EXCEPT !.mappings = x]
        \/ ApplyCommand(r, c) = r /\ ApplyCommand(q, c) = q
    <3>1. CASE c.op = "register_store"
      <4> DEFINE x == [r.stores EXCEPT ![c.id] = DefaultTrust]
      <4>1. ApplyCommand(r, c) = [r EXCEPT !.stores = x] /\ ApplyCommand(q, c) = [q EXCEPT !.stores = x]
        BY <3>1 DEF ApplyCommand, SameData
      <4> HIDE DEF x
      <4> QED BY <4>1
    <3>2. CASE c.op = "unregister_store"
      <4> DEFINE x == [r.stores EXCEPT ![c.id] = Absent]
      <4>1. ApplyCommand(r, c) = [r EXCEPT !.stores = x] /\ ApplyCommand(q, c) = [q EXCEPT !.stores = x]
        BY <3>2 DEF ApplyCommand, SameData
      <4> HIDE DEF x
      <4> QED BY <4>1
    <3>3. CASE c.op = "update_trust"
      <4> DEFINE x == [r.stores EXCEPT ![c.id] = IF @ = Absent THEN @ ELSE c.arg]
      <4>1. ApplyCommand(r, c) = [r EXCEPT !.stores = x] /\ ApplyCommand(q, c) = [q EXCEPT !.stores = x]
        BY <3>3 DEF ApplyCommand, SameData
      <4> HIDE DEF x
      <4> QED BY <4>1
    <3>4. CASE c.op = "map_hexad"
      <4> DEFINE x == [r.mappings EXCEPT ![c.id] = c.arg]
      <4>1. ApplyCommand(r, c) = [r EXCEPT !.mappings = x] /\ ApplyCommand(q, c) = [q EXCEPT !.mappings = x]
        BY <3>4 DEF ApplyCommand, SameData
      <4> HIDE DEF x
      <4> QED BY <4>1
    <3>5. CASE c.op = "unmap_hexad"
      <4> DEFINE x == [r.mappings EXCEPT ![c.id] = Absent]
      <4>1. ApplyCommand(r, c) = [r EXCEPT !.mappings = x] /\ ApplyCommand(q, c) = [q EXCEPT !.mappings = x]
        BY <3>5 DEF ApplyCommand, SameData
      <4> HIDE DEF x
      <4> QED BY <4>1
    <3>6. CASE c.op \notin {"register_store", "unregister_store", "update_trust",
                            "map_hexad", "unmap_hexad"}
      BY <1>2, <3>6 DEF ApplyCommand
    <3> QED BY <3>1, <3>2, <3>3, <3>4, <3>5, <3>6
  <2> QED BY <2>1, <2>2, <2>3
<1> QED BY <1>1, <1>2

(* ... and so do runs of entries.                                          *)
LEMMA EntriesSame ==
    ASSUME NEW r, NEW q, SameData(r, q), NEW S, NEW T, NEW es \in Seq(S), NEW fs \in Seq(T),
           Len(fs) = Len(es),
           \A i \in 1 .. Len(es) : fs[i].command = Survivor(es[i].command)
    PROVE  SameData(ApplyEntries(r, es), ApplyEntries(q, fs))
<1> DEFINE N == Len(es)
<1>1. PICK g : Walk(g, r, es, N) /\ ApplyEntries(r, es) = g[N]
  BY EntriesWalk
<1>2. PICK h : Walk(h, q, fs, N) /\ ApplyEntries(q, fs) = h[N]
  BY EntriesWalk
<1>3. N \in Nat
  OBVIOUS
<1> HIDE DEF N
<1> DEFINE Bad == {k \in Nat : k <= N /\ ~SameData(g[k], h[k])}
<1>4. Bad = {}
  <2> SUFFICES ASSUME Bad # {} PROVE FALSE
    OBVIOUS
  <2>1. PICK k \in Bad : \A j \in Bad : ~(<<j, k>> \in OpToRel(<, Nat))
    BY NatLessThanWellFounded, WFMin
  <2>2. k \in Nat /\ k <= N /\ ~SameData(g[k], h[k]) /\ \A j \in Bad : ~(j < k)
    BY <2>1 DEF OpToRel
  <2>3. k # 0
    BY <1>1, <1>2, <2>2 DEF Walk
  <2>4. k \in 1 .. N /\ k - 1 \in Nat /\ k - 1 < k /\ k - 1 <= N
    BY <1>3, <2>2, <2>3
  <2>5. SameData(g[k - 1], h[k - 1])
    BY <2>2, <2>4
  <2>6. /\ g[k] = ApplyCommand(g[k - 1], es[k].command)
        /\ h[k] = ApplyCommand(h[k - 1], Survivor(es[k].command))
    BY <1>1, <1>2, <2>4 DEF Walk, N
  <2> QED BY <2>2, <2>5, <2>6, CommandSame
<1>5. SameData(g[N], h[N])
  BY <1>3, <1>4
<1> QED BY <1>1, <1>2, <1>5

(* Applying entries keeps the registry a registry.                         *)
LEMMA EntriesKeys ==
    ASSUME NEW S, NEW es \in Seq(S)
    PROVE  DOMAIN ApplyEntries(InitialRegistry, es) = RegistryKeys
<1>1. SameData(InitialRegistry, InitialRegistry)
  BY DEF SameData, InitialRegistry, RegistryKeys
<1> DEFINE N == Len(es)
           fs == [i \in 1 .. N |-> [command |-> Survivor(es[i].command)]]
           T == {fs[i] : i \in 1 .. N}
<1>2. N \in Nat
  OBVIOUS
<1>3. fs \in [1 .. N -> T] /\ DOMAIN fs = 1 .. N
  OBVIOUS
<1>4. \A i \in 1 .. N : fs[i].command = Survivor(es[i].command)
  OBVIOUS
<1> HIDE DEF T, fs
<1>5. fs \in Seq(T)
  BY <1>2, <1>3, SeqDef
<1>6. Len(fs) = N
  BY <1>2, <1>3, <1>5
<1>7. SameData(ApplyEntries(InitialRegistry, es), ApplyEntries(InitialRegistry, fs))
  BY <1>1, <1>4, <1>5, <1>6, EntriesSame
<1> QED BY <1>7 DEF SameData

(* What a restart would give back.                                         *)
LEMMA KeptRecovers ==
    ASSUME Alone, NEW s, Kept(s)
    PROVE  LET b == s.disk.snapshot.index
               rest == SubSeq(s.log, b + 1, Len(s.log))
               recovered == RecoverLog(s.disk)
               again == ApplyEntries(RecoverRegistry(s.disk),
                                     SubSeq(recovered, 1, s.last_applied - b))
           IN  /\ recovered = [i \in DOMAIN rest |-> [rest[i] EXCEPT !.command = Survivor(@)]]
               /\ again.stores = s.registry.stores
               /\ again.mappings = s.registry.mappings
<1> DEFINE b == s.disk.snapshot.index
           N == Len(s.log)
           v == s.last_applied
           l == s.log
           rest == SubSeq(l, b + 1, N)
           rec == RecoverLog(s.disk)
           p == ApplyEntries(InitialRegistry, SubSeq(l, 1, b))
           q == RecoverRegistry(s.disk)
           es == SubSeq(l, b + 1, v)
           fs == SubSeq(rec, 1, v - b)
<1>1. /\ l \in Seq(EntryType) /\ b \in Nat /\ b <= N
      /\ s.disk.snapshot.registry = SerializeRegistry(p)
  BY Zenon DEF Kept, Mirrored
<1>2. N \in Nat /\ N = Len(l) /\ DOMAIN l = 1 .. N
  BY <1>1
<1>3. /\ v \in Nat /\ v <= N /\ b <= v
      /\ s.registry = ApplyEntries(InitialRegistry, SubSeq(l, 1, v))
  BY Zenon DEF Kept, Replayed
<1>4. rec = [i \in 1 .. (N - b) |-> Survive(l[b + i])]
  BY MirrorRecovers DEF Kept
<1> HIDE DEF l, b, N, v, rec
<1>5. /\ rest \in Seq(EntryType) /\ Len(rest) = N - b
      /\ \A i \in 1 .. (N - b) : rest[i] = l[b + i]
  BY <1>1, <1>2, SubSeqProperties
<1>6. DOMAIN rest = 1 .. (N - b)
  BY <1>1, <1>2, <1>5
<1> HIDE DEF rest
<1>7. rec = [i \in DOMAIN rest |-> [rest[i] EXCEPT !.command = Survivor(@)]]
  BY <1>4, <1>5, <1>6 DEF Survive
<1>8. /\ es \in Seq(EntryType) /\ Len(es) = v - b
      /\ \A i \in 1 .. (v - b) : es[i] = l[b + i]
  BY <1>1, <1>2, <1>3, SubSeqProperties
<1>9. rec \in Seq(EntryType) /\ Len(rec) = N - b /\ N - b \in Nat
  <2>1. N - b \in Nat
    BY <1>1, <1>2
  <2>2. \A i \in 1 .. (N - b) : l[b + i] \in EntryType
    BY <1>1, <1>2
  <2>3. \A i \in 1 .. (N - b) : Survive(l[b + i]) \in EntryType
    BY <2>2, JsonEntry
  <2>4. rec \in [1 .. (N - b) -> EntryType]
    BY <1>4, <2>3
  <2> QED BY <2>1, <2>4, SeqDef, LenProperties
<1>10. /\ fs \in Seq(EntryType) /\ Len(fs) = v - b
       /\ \A i \in 1 .. (v - b) : fs[i] = rec[i]
  <2>1. v - b \in Nat /\ v - b <= Len(rec)
    BY <1>1, <1>2, <1>3, <1>9
  <2> QED BY <1>9, <2>1, SubSeqProperties
<1> HIDE DEF es, fs
<1>11. \A i \in 1 .. (v - b) : fs[i].command = Survivor(es[i].command)
  <2> SUFFICES ASSUME NEW i \in 1 .. (v - b) PROVE fs[i].command = Survivor(es[i].command)
    OBVIOUS
  <2>1. i \in 1 .. (N - b) /\ b + i \in 1 .. N
    BY <1>1, <1>2, <1>3
  <2>2. l[b + i] \in EntryType
    BY <1>1, <1>2, <2>1
  <2>3. fs[i] = Survive(l[b + i])
    BY <1>4, <1>10, <2>1
  <2>4. Survive(l[b + i]).command = Survivor(l[b + i].command)
    BY <2>2, JsonEntry
  <2> QED BY <1>8, <2>3, <2>4
<1>12. SameData(p, q)
  <2>1. \A k \in 1 .. b : l[k] \in EntryType
    BY <1>1, <1>2
  <2>2. SubSeq(l, 1, b) \in Seq(EntryType)
    BY <1>1, <2>1, SubSeqProperties
  <2>3. DOMAIN p = RegistryKeys
    BY <2>2, EntriesKeys
  <2> HIDE DEF p
  <2>4. q = [stores |-> p.stores, mappings |-> p.mappings, members |-> {}]
    BY <1>1 DEF RecoverRegistry, DeserializeRegistry, SerializeRegistry
  <2> HIDE DEF q
  <2> QED BY <2>3, <2>4 DEF SameData, RegistryKeys
<1>13. ApplyEntries(p, es) = s.registry
  <2>1. ApplyEntries(ApplyEntries(InitialRegistry, SubSeq(l, 1, b)), SubSeq(l, b + 1, v))
          = ApplyEntries(InitialRegistry, SubSeq(l, 1, v))
    BY <1>1, <1>2, <1>3, EntriesJoin
  <2> QED BY <1>3, <2>1 DEF es
<1> HIDE DEF p, q
<1>14. Len(fs) = Len(es) /\ \A i \in 1 .. Len(es) : fs[i].command = Survivor(es[i].command)
  BY <1>8, <1>10, <1>11
<1>15. SameData(ApplyEntries(p, es), ApplyEntries(q, fs))
  BY <1>8, <1>10, <1>12, <1>14, EntriesSame
<1>16. /\ ApplyEntries(q, fs).stores = s.registry.stores
       /\ ApplyEntries(q, fs).mappings = s.registry.mappings
  BY <1>13, <1>15 DEF SameData
<1> QED BY <1>7, <1>16 DEF b, N, v, l, rest, rec, q, fs

(* Disk always gives a node on its own the log that it has in memory, but  *)
(* for membership commands, and stores and mappings with it, however often *)
(* it took a snapshot; until it has restarted from one.                    *)
THEOREM SoloRecovers == Alone => (Spec => []RecoversOwnLog)
<1> SUFFICES ASSUME Alone PROVE Spec => []RecoversOwnLog
  OBVIOUS
<1>1. SoloInv => RecoversOwnLog
  <2> SUFFICES ASSUME SoloInv, Intact, NEW n \in Nodes
               PROVE  LET s == node[n]
                          index == s.disk.snapshot.index
                          rest == SubSeq(s.log, index + 1, Len(s.log))
                          recovered == RecoverLog(s.disk)
                          again == ApplyEntries(RecoverRegistry(s.disk),
                                                SubSeq(recovered, 1, s.last_applied - index))
                      IN  /\ recovered = [i \in DOMAIN rest |->
                                            [rest[i] EXCEPT !.command = Survivor(@)]]
                          /\ again.stores = s.registry.stores
                          /\ again.mappings = s.registry.mappings
    BY DEF RecoversOwnLog
  <2>1. Kept(node[n])
    BY DEF SoloInv
  <2> QED BY <2>1, KeptRecovers
<1> QED BY <1>1, SoloInvariant, PTL

(* Its registry is the replay of the applied part of its log, however the  *)
(* entries were grouped when they were applied.                            *)
THEOREM SoloReplays == Alone => (Spec => []RegistryIsReplay)
<1> SUFFICES ASSUME Alone PROVE Spec => []RegistryIsReplay
  OBVIOUS
<1>1. SoloInv => RegistryIsReplay
  BY DEF SoloInv, Kept, Replayed, RegistryIsReplay
<1> QED BY <1>1, SoloInvariant, PTL

(* What it acknowledged is in its log, at the index it gave, through every *)
(* crash and restart; a membership command as a no-op after a crash.       *)
THEOREM SoloAcksSurvive == Alone => (Spec => []AckedSurvives)
<1> SUFFICES ASSUME Alone PROVE Spec => []AckedSurvives
  OBVIOUS
<1>1. SoloInv => AckedSurvives
  BY DEF SoloInv, Told, AckedSurvives
<1> QED BY <1>1, SoloInvariant, PTL
=============================================================================
