----------------------------- MODULE MCQuery_proofs -----------------------------
(***************************************************************************)
(* Proofs about the API and the planner: what the handlers that read, let  *)
(* go and write later keep of the writes of others, what the gateway       *)
(* admits, how the plan cache and the slow query log stay within their     *)
(* limits, and that plans answer their queries.                            *)
(***************************************************************************)
EXTENDS MCQuery, FiniteSetTheorems, SequenceTheorems, TLAPS

(* One component moves at a time.                                          *)
LEMMA FocusMoves ==
    ASSUME [Next]_vars
    PROVE  /\ PlannerNext \/ UNCHANGED plannerVars
           /\ CacheNext \/ UNCHANGED cacheVars
           /\ LogNext \/ UNCHANGED logVars
           /\ GatewayNext \/ UNCHANGED gatewayVars
           /\ FedNext \/ UNCHANGED fedVars
           /\ TxnNext \/ UNCHANGED txnApiVars
           /\ ApiNext \/ UNCHANGED apiVars
           /\ PlanApiNext \/ UNCHANGED planApiVars
<1>1. CASE UNCHANGED vars
  BY <1>1 DEF vars
<1>2. CASE Next
  BY <1>2 DEF Next
<1> QED BY <1>1, <1>2

-----------------------------------------------------------------------------
(* Stored hexads.  All but the costs of an entity is what a client sent,   *)
(* and the costs that an optimize request carries were computed for it.    *)
IsHexad(h) ==
    /\ h = [document |-> h.document, vector |-> h.vector, semantic |-> h.semantic,
            tensor |-> h.tensor, provenance |-> h.provenance]
    /\ h.provenance \in Nat

SameButCosts(h, w) ==
    /\ h.document = w.document /\ h.vector = w.vector
    /\ h.semantic = w.semantic /\ h.provenance = w.provenance

ApiInv ==
    /\ entities = [i \in DOMAIN entities |-> entities[i]]
    /\ written = [i \in DOMAIN entities |-> written[i]]
    /\ DOMAIN entities \subseteq ApiIds
    /\ \A i \in DOMAIN entities :
         /\ IsHexad(entities[i]) /\ IsHexad(written[i])
         /\ SameButCosts(entities[i], written[i])
         /\ entities[i].tensor \in {written[i].tensor} \cup scaled[i]
    /\ scaled = [i \in ApiIds |-> scaled[i]]
    /\ optimizing = [o \in Optimizers |-> optimizing[o]]
    /\ \A o \in Optimizers : optimizing[o] # NotOptimizing =>
         optimizing[o].id \in ApiIds /\ optimizing[o].cost \in scaled[optimizing[o].id]

(* The same update of both sides keeps them alike.                         *)
LEMMA OverlaidAlike ==
    ASSUME NEW h, NEW w, NEW input, NEW S, IsHexad(h), IsHexad(w),
           input.provenance \in Nat, SameButCosts(h, w), h.tensor \in {w.tensor} \cup S
    PROVE  /\ IsHexad(Overlaid(h, input)) /\ IsHexad(Overlaid(w, input))
           /\ SameButCosts(Overlaid(h, input), Overlaid(w, input))
           /\ Overlaid(h, input).tensor \in {Overlaid(w, input).tensor} \cup S
  BY DEF IsHexad, SameButCosts, Overlaid

(* A client's create stores a new hexad.                                   *)
LEMMA StoresNewStep ==
    ASSUME ApiInv, NEW input, IsHexad(input), StoresNew(input)
    PROVE  ApiInv'
<1>1. PICK i \in ApiIds :
        /\ entities' = [x \in DOMAIN entities \cup {i} |-> IF x = i THEN input ELSE entities[x]]
        /\ written' = [x \in DOMAIN written \cup {i} |-> IF x = i THEN input ELSE written[x]]
        /\ UNCHANGED <<optimizing, scaled>>
  BY DEF StoresNew
<1>2. DOMAIN written = DOMAIN entities
  BY DEF ApiInv
<1> QED BY <1>1, <1>2 DEF ApiInv, SameButCosts

(* A client's update writes both sides.                                    *)
LEMMA WritesStep ==
    ASSUME ApiInv, NEW i, NEW input, input.provenance \in Nat, Writes(i, input)
    PROVE  ApiInv'
<1>1. DOMAIN written = DOMAIN entities
  BY DEF ApiInv
<1>2. /\ i \in DOMAIN entities
      /\ entities' = [x \in DOMAIN entities |-> IF x = i THEN Overlaid(entities[i], input) ELSE entities[x]]
      /\ written' = [x \in DOMAIN entities |-> IF x = i THEN Overlaid(written[i], input) ELSE written[x]]
      /\ UNCHANGED <<optimizing, scaled>>
  BY <1>1 DEF Writes, ApiInv
<1>3. /\ IsHexad(Overlaid(entities[i], input)) /\ IsHexad(Overlaid(written[i], input))
      /\ SameButCosts(Overlaid(entities[i], input), Overlaid(written[i], input))
      /\ Overlaid(entities[i], input).tensor \in {Overlaid(written[i], input).tensor} \cup scaled[i]
  BY <1>2, OverlaidAlike DEF ApiInv
<1> QED BY <1>2, <1>3 DEF ApiInv

(* The costs alone are written back.                                       *)
LEMMA OptimizeStep ==
    ASSUME ApiInv, NEW o \in Optimizers, OptimizeWrites(o)
    PROVE  ApiInv'
<1> DEFINE i == optimizing[o].id
           c == optimizing[o].cost
           input == [NoInput EXCEPT !.tensor = c]
<1>1. i \in ApiIds /\ c \in scaled[i] /\ UNCHANGED <<written, scaled>>
  BY DEF ApiInv, OptimizeWrites
<1>2. optimizing' = [x \in Optimizers |-> IF x = o THEN NotOptimizing ELSE optimizing[x]]
  BY DEF ApiInv, OptimizeWrites
<1>3. \A h : IsHexad(h) =>
             /\ IsHexad(Overlaid(h, input)) /\ SameButCosts(Overlaid(h, input), h)
             /\ Overlaid(h, input).tensor \in {h.tensor, c}
  BY DEF Overlaid, IsHexad, SameButCosts, NoInput, NoDocument
<1>4. entities' = [x \in DOMAIN entities |-> IF x = i THEN Overlaid(entities[i], input) ELSE entities[x]]
  BY DEF ApiInv, OptimizeWrites
<1> HIDE DEF i, c, input
<1>5. ASSUME NEW x \in DOMAIN entities
      PROVE  /\ IsHexad(entities'[x]) /\ IsHexad(written[x]) /\ SameButCosts(entities'[x], written[x])
             /\ entities'[x].tensor \in {written[x].tensor} \cup scaled[x]
  <2>1. /\ IsHexad(entities[x]) /\ IsHexad(written[x]) /\ SameButCosts(entities[x], written[x])
        /\ entities[x].tensor \in {written[x].tensor} \cup scaled[x]
    BY DEF ApiInv
  <2>2. CASE x # i
    BY <1>4, <2>1, <2>2
  <2>3. CASE x = i
    <3>1. entities'[x] = Overlaid(entities[x], input)
      BY <1>4, <2>3
    <3>2. /\ IsHexad(entities'[x]) /\ SameButCosts(entities'[x], entities[x])
          /\ entities'[x].tensor \in {entities[x].tensor, c}
      BY <1>3, <2>1, <3>1
    <3> QED BY <1>1, <2>1, <2>3, <3>2 DEF SameButCosts
  <2> QED BY <2>2, <2>3
<1>6. DOMAIN entities' = DOMAIN entities
  BY <1>4
<1> QED BY <1>1, <1>2, <1>4, <1>5, <1>6 DEF ApiInv

(* Every step of the handlers keeps the invariant.                         *)
LEMMA ApiStep ==
    ASSUME ApiInv, ApiNext \/ UNCHANGED apiVars
    PROVE  ApiInv'
<1>1. CASE UNCHANGED apiVars
  BY <1>1 DEF ApiInv, apiVars
<1>2. ASSUME NEW r \in Requests, NEW surface, CreateHexad(surface, r) PROVE ApiInv'
  BY <1>2, StoresNewStep DEF CreateHexad, ToHexadInput, IsHexad
<1>3. ASSUME NEW r \in Requests, StoreQuery(r) PROVE ApiInv'
  BY <1>3, StoresNewStep DEF StoreQuery, QueryInput, IsHexad
<1>4. ASSUME NEW r \in Requests, NEW i, NEW surface, UpdateHexad(surface, i, r) PROVE ApiInv'
  BY <1>4, WritesStep DEF UpdateHexad, ToHexadInput
<1>5. ASSUME NEW i, RecordProvenance(i) PROVE ApiInv'
  BY <1>5, WritesStep DEF RecordProvenance, NoInput
<1>6. ASSUME NEW i, DeleteHexad(i) PROVE ApiInv'
  BY <1>6 DEF DeleteHexad, ApiInv
<1>7. ASSUME NEW o \in Optimizers, NEW i \in DOMAIN entities, NEW planned, OptimizeReads(o, i, planned)
      PROVE  ApiInv'
  <2> DEFINE cost == CostVector(entities[i], planned)
  <2>1. /\ optimizing' = [x \in Optimizers |-> IF x = o THEN [id |-> i, cost |-> cost, seen |-> entities[i]]
                                                        ELSE optimizing[x]]
        /\ scaled' = [x \in ApiIds |-> IF x = i THEN scaled[i] \cup {cost} ELSE scaled[x]]
        /\ UNCHANGED <<entities, written>> /\ i \in ApiIds
    BY <1>7 DEF OptimizeReads, ApiInv
  <2> HIDE DEF cost
  <2> QED BY <2>1 DEF ApiInv
<1>8. ASSUME NEW o \in Optimizers, OptimizeWrites(o) PROVE ApiInv'
  BY <1>8, OptimizeStep
<1> QED
  BY <1>1, <1>2, <1>3, <1>4, <1>5, <1>6, <1>7, <1>8 DEF ApiNext, OptimizeBounded

(* Clients and optimizers together.                                        *)
LEMMA ApiKeeps == Spec => []OptimizeKeepsWrites
<1>1. Init => ApiInv
  BY DEF Init, ApiInit, ApiInv
<1>2. ApiInv /\ [Next]_vars => ApiInv'
  BY ApiStep, FocusMoves
<1>3. ApiInv => OptimizeKeepsWrites
  <2> SUFFICES ASSUME ApiInv, NEW i \in DOMAIN entities
               PROVE  [entities[i] EXCEPT !.tensor = 0] = [written[i] EXCEPT !.tensor = 0]
    BY DEF ApiInv, OptimizeKeepsWrites
  <2>1. /\ IsHexad(entities[i]) /\ IsHexad(written[i])
        /\ SameButCosts(entities[i], written[i])
    BY DEF ApiInv
  <2> QED BY <2>1 DEF IsHexad, SameButCosts
<1> QED BY <1>1, <1>2, <1>3, PTL DEF Spec

-----------------------------------------------------------------------------
(* Federation.  A heartbeat writes only to a peer that is there.           *)
LEMMA PeersStand == Spec => []NoResurrection
<1>1. Init => NoResurrection
  BY DEF Init, FedInit, NoResurrection
<1>2. ASSUME NoResurrection, FedNext \/ UNCHANGED fedVars PROVE NoResurrection'
  <2>1. CASE UNCHANGED <<peers, standing>>
    BY <1>2, <2>1 DEF NoResurrection
  <2>2. ASSUME NEW s, NEW x, NEW m, RegisterPeer(s, x, m) PROVE NoResurrection'
    BY <1>2, <2>2 DEF RegisterPeer, NoResurrection
  <2>3. ASSUME NEW s, DeregisterPeer(s) PROVE NoResurrection'
    BY <1>2, <2>3 DEF DeregisterPeer, NoResurrection
  <2>4. ASSUME NEW b, HeartbeatApplied(b) PROVE NoResurrection'
    BY <1>2, <2>4 DEF HeartbeatApplied, Touched, NoResurrection
  <2>5. ASSUME FedNext
        PROVE  \/ UNCHANGED <<peers, standing>>
               \/ \E s, x, m : RegisterPeer(s, x, m)
               \/ \E s : DeregisterPeer(s)
               \/ \E b : HeartbeatApplied(b)
    BY <2>5 DEF FedNext, PeerAnswers, PeerFails, HeartbeatChecked, StartQuery, QueryAnswers
  <2>6. CASE UNCHANGED fedVars
    BY <2>1, <2>6 DEF fedVars
  <2> QED BY <1>2, <2>1, <2>2, <2>3, <2>4, <2>5, <2>6
<1>3. NoResurrection /\ [Next]_vars => NoResurrection'
  BY <1>2, FocusMoves
<1> QED BY <1>1, <1>3, PTL DEF Spec

-----------------------------------------------------------------------------
(* Transactions of the API.  A serial number is in the table at most once, *)
(* what an active transaction holds is what was accepted for it, and what  *)
(* was handed over belongs to no active one.                               *)
TxnRecord == [serial : Nat, state : {"active", "committed", "rolled back"}, ops : Seq(TxnOps),
              started : Nat, completed : Nat]

TxnTypes ==
    /\ txnNow \in Nat /\ begun \in Nat
    /\ table = [i \in DOMAIN table |-> table[i]]
    /\ \A i \in DOMAIN table : table[i] \in TxnRecord /\ table[i].serial < begun
    /\ buffered \in [0 .. (begun - 1) -> Seq(TxnOps)]

SerialsApart == \A i, j \in DOMAIN table : table[i].serial = table[j].serial => i = j

BuffersFollow == \A i \in ActiveIds : table[i].ops = buffered[table[i].serial]

HandedDone ==
    \A h \in handed :
        /\ h.serial \in 0 .. (begun - 1)
        /\ \A i \in ActiveIds : table[i].serial # h.serial

TxnApiInv == TxnTypes /\ SerialsApart /\ BuffersFollow /\ HandedDone /\ HandedOverOnce

(* The transactions in the table.                                          *)
LEMMA InTable ==
    ASSUME TxnTypes, NEW i \in DOMAIN table
    PROVE  /\ table[i] \in TxnRecord /\ table[i].ops \in Seq(TxnOps)
           /\ table[i].serial \in 0 .. (begun - 1)
<1>1. table[i] \in TxnRecord /\ table[i].serial < begun /\ begun \in Nat
  BY DEF TxnTypes
<1>2. table[i].serial \in Nat /\ table[i].ops \in Seq(TxnOps)
  BY <1>1 DEF TxnRecord
<1> QED BY <1>1, <1>2

(* begin enters a transaction with a new serial number, over one that has  *)
(* the same id.                                                            *)
LEMMA BeginStep ==
    ASSUME TxnApiInv, NEW c, BeginTransaction(c)
    PROVE  TxnApiInv'
<1> DEFINE new == [serial |-> begun, state |-> "active", ops |-> <<>>, started |-> txnNow, completed |-> txnNow]
<1>1. /\ table' = [i \in DOMAIN table \cup {txnNow} |-> IF i = txnNow THEN new ELSE table[i]]
      /\ buffered' = [s \in DOMAIN buffered \cup {begun} |-> IF s = begun THEN <<>> ELSE buffered[s]]
      /\ begun' = begun + 1 /\ UNCHANGED <<txnNow, handed>>
  BY DEF BeginTransaction
<1>2. txnNow \in Nat /\ begun \in Nat /\ begun' \in Nat
  BY <1>1 DEF TxnApiInv, TxnTypes
<1>3. new \in TxnRecord /\ new.serial = begun /\ new.state = "active" /\ new.ops = <<>>
  BY <1>2 DEF TxnRecord
<1> HIDE DEF new
<1>4. 0 .. (begun' - 1) = (0 .. (begun - 1)) \cup {begun} /\ begun \notin 0 .. (begun - 1)
  BY <1>1, <1>2
<1>5. TxnTypes'
  <2>1. buffered' \in [0 .. (begun' - 1) -> Seq(TxnOps)]
    BY <1>1, <1>4 DEF TxnApiInv, TxnTypes
  <2>2. \A i \in DOMAIN table' : table'[i] \in TxnRecord /\ table'[i].serial < begun'
    <3> SUFFICES ASSUME NEW i \in DOMAIN table' PROVE table'[i] \in TxnRecord /\ table'[i].serial < begun'
      OBVIOUS
    <3>1. CASE i = txnNow
      BY <1>1, <1>2, <1>3, <3>1
    <3>2. CASE i # txnNow
      <4>1. i \in DOMAIN table /\ table'[i] = table[i]
        BY <1>1, <3>2
      <4>2. table[i] \in TxnRecord /\ table[i].serial < begun /\ table[i].serial \in Nat
        BY <4>1 DEF TxnApiInv, TxnTypes, TxnRecord
      <4> QED BY <1>1, <1>2, <4>1, <4>2
    <3> QED BY <3>1, <3>2
  <2> QED BY <1>1, <1>2, <2>1, <2>2 DEF TxnTypes
<1>6. \A i \in DOMAIN table : table[i].serial \in 0 .. (begun - 1)
  BY InTable DEF TxnApiInv
<1>7. SerialsApart'
  BY <1>1, <1>3, <1>4, <1>6 DEF SerialsApart, TxnApiInv
<1>8. BuffersFollow'
  <2> SUFFICES ASSUME NEW i \in ActiveIds' PROVE table'[i].ops = buffered'[table'[i].serial]
    BY DEF BuffersFollow
  <2>1. CASE i = txnNow
    BY <1>1, <1>3, <2>1
  <2>2. CASE i # txnNow
    <3>1. i \in ActiveIds /\ table'[i] = table[i] /\ i \in DOMAIN table
      BY <1>1, <2>2 DEF ActiveIds
    <3>2. table[i].serial \in DOMAIN buffered /\ table[i].serial # begun
      BY <1>4, <1>6, <3>1 DEF TxnApiInv, TxnTypes
    <3> QED BY <1>1, <3>1, <3>2 DEF TxnApiInv, BuffersFollow
  <2> QED BY <2>1, <2>2
<1>9. HandedDone'
  BY <1>1, <1>3, <1>4 DEF HandedDone, TxnApiInv, ActiveIds
<1>10. HandedOverOnce'
  <2>1. \A h \in handed : h.serial \in DOMAIN buffered /\ h.serial # begun
    BY <1>4 DEF TxnApiInv, HandedDone, TxnTypes
  <2> QED BY <1>1, <2>1 DEF HandedOverOnce, TxnApiInv
<1> QED BY <1>5, <1>7, <1>8, <1>9, <1>10 DEF TxnApiInv

(* An operation is added to the transaction and to what was accepted.      *)
LEMMA BufferStep ==
    ASSUME TxnApiInv, NEW i \in DOMAIN table, NEW op \in TxnOps, BufferOperation(i, op)
    PROVE  TxnApiInv'
<1> DEFINE n == table[i].serial
           new == [table[i] EXCEPT !.ops = Append(@, op)]
<1>1. table[i] \in TxnRecord /\ n \in Nat /\ n < begun /\ begun \in Nat /\ i \in ActiveIds
  BY DEF TxnApiInv, TxnTypes, TxnRecord, BufferOperation
<1>2. n \in 0 .. (begun - 1)
  BY <1>1
<1>3. /\ new \in TxnRecord /\ new.serial = n /\ new.state = table[i].state
      /\ new.ops = Append(table[i].ops, op)
  <2>1. table[i].ops \in Seq(TxnOps) /\ Append(table[i].ops, op) \in Seq(TxnOps)
    BY InTable DEF TxnApiInv
  <2> QED BY <1>1, <2>1 DEF TxnRecord
<1>4. /\ table' = [x \in DOMAIN table |-> IF x = i THEN new ELSE table[x]]
      /\ buffered' = [s \in 0 .. (begun - 1) |-> IF s = n THEN Append(buffered[n], op) ELSE buffered[s]]
      /\ UNCHANGED <<txnNow, begun, handed>>
  BY <1>2 DEF BufferOperation, TxnApiInv, TxnTypes
<1> HIDE DEF n, new
<1>5. \A x \in DOMAIN table : table'[x].serial = table[x].serial /\ table'[x].state = table[x].state
  BY <1>3, <1>4 DEF n
<1>6. ActiveIds' = ActiveIds
  BY <1>4, <1>5 DEF ActiveIds
<1>7. TxnTypes'
  <2>1. buffered' \in [0 .. (begun - 1) -> Seq(TxnOps)]
    BY <1>2, <1>4 DEF TxnApiInv, TxnTypes
  <2> QED BY <1>1, <1>3, <1>4, <2>1 DEF TxnApiInv, TxnTypes
<1>8. SerialsApart'
  BY <1>4, <1>5 DEF SerialsApart, TxnApiInv
<1>9. BuffersFollow'
  <2> SUFFICES ASSUME NEW x \in ActiveIds PROVE table'[x].ops = buffered'[table[x].serial]
    BY <1>5, <1>6 DEF BuffersFollow, ActiveIds
  <2>0. x \in DOMAIN table /\ table[x].serial \in 0 .. (begun - 1)
    BY InTable DEF ActiveIds, TxnApiInv
  <2>1. CASE x = i
    BY <1>2, <1>3, <1>4, <2>0, <2>1 DEF TxnApiInv, BuffersFollow, n
  <2>2. CASE x # i
    <3>1. table[x].serial # n
      BY <2>0, <2>2 DEF TxnApiInv, SerialsApart, n
    <3> QED BY <1>4, <2>0, <2>2, <3>1 DEF TxnApiInv, BuffersFollow
  <2> QED BY <2>1, <2>2
<1>10. HandedDone'
  BY <1>4, <1>5, <1>6 DEF HandedDone, TxnApiInv, ActiveIds
<1>11. HandedOverOnce'
  <2>1. \A h \in handed : h.serial # n /\ h.serial \in 0 .. (begun - 1)
    BY <1>1 DEF TxnApiInv, HandedDone, n
  <2> QED BY <1>4, <2>1 DEF HandedOverOnce, TxnApiInv
<1> QED BY <1>7, <1>8, <1>9, <1>10, <1>11 DEF TxnApiInv

(* A transaction that completes leaves the active ones.                    *)
LEMMA CompletedShape ==
    ASSUME TxnApiInv, NEW i \in ActiveIds, NEW state \in {"committed", "rolled back"},
           NEW ops \in Seq(TxnOps), table' = Completed(i, state, ops), UNCHANGED <<txnNow, begun, buffered>>
    PROVE  /\ TxnTypes' /\ SerialsApart' /\ BuffersFollow'
           /\ ActiveIds' = ActiveIds \ {i}
           /\ \A x \in ActiveIds' : table'[x] = table[x]
<1> DEFINE new == [table[i] EXCEPT !.state = state, !.ops = ops, !.completed = txnNow]
<1>1. i \in DOMAIN table /\ table[i] \in TxnRecord /\ txnNow \in Nat
  BY DEF ActiveIds, TxnApiInv, TxnTypes
<1>2. new \in TxnRecord /\ new.serial = table[i].serial /\ new.state = state
  BY <1>1 DEF TxnRecord
<1>3. table' = [x \in DOMAIN table |-> IF x = i THEN new ELSE table[x]]
  BY <1>1 DEF Completed, TxnApiInv, TxnTypes
<1> HIDE DEF new
<1>4. \A x \in DOMAIN table : table'[x].serial = table[x].serial
  BY <1>2, <1>3
<1>5. TxnTypes'
  BY <1>2, <1>3, <1>4 DEF TxnApiInv, TxnTypes
<1>6. ActiveIds' = ActiveIds \ {i} /\ \A x \in ActiveIds' : table'[x] = table[x]
  BY <1>2, <1>3 DEF ActiveIds
<1>7. SerialsApart'
  BY <1>3, <1>4 DEF SerialsApart, TxnApiInv
<1>8. BuffersFollow'
  BY <1>6 DEF BuffersFollow, TxnApiInv
<1> QED BY <1>5, <1>6, <1>7, <1>8

(* commit hands the operations over.                                       *)
LEMMA CommitStep ==
    ASSUME TxnApiInv, NEW c, NEW i, CommitTransaction(c, i)
    PROVE  TxnApiInv'
<1> DEFINE new == [serial |-> table[i].serial, ops |-> table[i].ops]
<1>1. /\ i \in ActiveIds /\ i \in DOMAIN table /\ table' = Completed(i, "committed", table[i].ops)
      /\ handed' = handed \cup {new} /\ UNCHANGED <<txnNow, begun, buffered>>
  BY DEF CommitTransaction, ActiveIds
<1>2. /\ table[i] \in TxnRecord /\ table[i].ops \in Seq(TxnOps)
      /\ table[i].serial \in 0 .. (begun - 1)
  BY <1>1, InTable DEF TxnApiInv
<1>3. /\ TxnTypes' /\ SerialsApart' /\ BuffersFollow' /\ ActiveIds' = ActiveIds \ {i}
      /\ \A x \in ActiveIds' : table'[x] = table[x]
  BY <1>1, <1>2, CompletedShape
<1>4. new.serial = table[i].serial /\ new.ops = buffered[new.serial]
  BY <1>1 DEF TxnApiInv, BuffersFollow
<1> HIDE DEF new
<1>5. \A x \in ActiveIds' : table'[x].serial # new.serial
  BY <1>1, <1>3, <1>4 DEF TxnApiInv, SerialsApart, ActiveIds
<1>6. HandedDone'
  BY <1>1, <1>2, <1>3, <1>4, <1>5 DEF HandedDone, TxnApiInv
<1>7. \A h \in handed : h.serial # new.serial
  BY <1>1, <1>4 DEF HandedDone, TxnApiInv
<1>8. HandedOverOnce'
  BY <1>1, <1>4, <1>7 DEF HandedOverOnce, TxnApiInv
<1> QED BY <1>3, <1>6, <1>8 DEF TxnApiInv

(* rollback hands nothing over.                                            *)
LEMMA RollbackStep ==
    ASSUME TxnApiInv, NEW c, NEW i, RollbackTransaction(c, i)
    PROVE  TxnApiInv'
<1>1. /\ i \in ActiveIds /\ table' = Completed(i, "rolled back", <<>>)
      /\ UNCHANGED <<txnNow, begun, buffered, handed>>
  BY DEF RollbackTransaction
<1>2. <<>> \in Seq(TxnOps)
  OBVIOUS
<1>3. /\ TxnTypes' /\ SerialsApart' /\ BuffersFollow' /\ ActiveIds' = ActiveIds \ {i}
      /\ \A x \in ActiveIds' : table'[x] = table[x]
  BY <1>1, <1>2, CompletedShape
<1>4. HandedDone'
  BY <1>1, <1>3 DEF TxnApiInv, HandedDone
<1>5. HandedOverOnce'
  BY <1>1 DEF TxnApiInv, HandedOverOnce
<1> QED BY <1>3, <1>4, <1>5 DEF TxnApiInv

(* What expires leaves the table, and nothing else changes.                *)
LEMMA CleanupStep ==
    ASSUME TxnApiInv, CleanupExpired
    PROVE  TxnApiInv'
<1>1. /\ table' = [i \in DOMAIN table' |-> table[i]] /\ DOMAIN table' \subseteq DOMAIN table
      /\ UNCHANGED <<txnNow, begun, buffered, handed>>
  BY DEF CleanupExpired
<1>2. ActiveIds' \subseteq ActiveIds /\ \A i \in ActiveIds' : table'[i] = table[i]
  BY <1>1 DEF ActiveIds
<1>3. TxnTypes'
  BY <1>1 DEF TxnApiInv, TxnTypes
<1>4. SerialsApart'
  BY <1>1 DEF TxnApiInv, SerialsApart
<1> QED BY <1>1, <1>2, <1>3, <1>4 DEF TxnApiInv, BuffersFollow, HandedDone, HandedOverOnce

(* Every step of the transactions keeps the invariant.                     *)
LEMMA TxnStep ==
    ASSUME TxnApiInv, TxnNext \/ UNCHANGED txnApiVars
    PROVE  TxnApiInv'
<1>1. CASE UNCHANGED txnApiVars
  BY <1>1 DEF TxnApiInv, txnApiVars, TxnTypes, SerialsApart, BuffersFollow, ActiveIds, HandedDone, HandedOverOnce
<1>2. ASSUME NEW c, AnswerStatus(c) PROVE TxnApiInv'
  BY <1>2 DEF AnswerStatus, TxnApiInv, TxnTypes, SerialsApart, BuffersFollow, ActiveIds, HandedDone, HandedOverOnce
<1>3. ASSUME TxnTick PROVE TxnApiInv'
  <2>1. txnNow' \in Nat /\ UNCHANGED <<table, begun, handed, buffered>>
    BY <1>3 DEF TxnTick, TxnApiInv, TxnTypes
  <2> QED BY <2>1 DEF TxnApiInv, TxnTypes, SerialsApart, BuffersFollow, ActiveIds, HandedDone, HandedOverOnce
<1> QED BY <1>1, <1>2, <1>3, BeginStep, BufferStep, CommitStep, RollbackStep, CleanupStep DEF TxnNext

(* Before the first transaction.                                           *)
LEMMA TxnApiInvInit ==
    ASSUME TxnInit
    PROVE  TxnApiInv
<1>1. 0 .. (0 - 1) = {}
  OBVIOUS
<1>2. /\ DOMAIN table = {} /\ table = [i \in DOMAIN table |-> table[i]]
      /\ DOMAIN buffered = {} /\ buffered \in [{} -> Seq(TxnOps)]
      /\ txnNow = 0 /\ begun = 0 /\ handed = {}
  BY DEF TxnInit
<1> QED BY <1>1, <1>2 DEF TxnApiInv, TxnTypes, SerialsApart, BuffersFollow, ActiveIds, HandedDone, HandedOverOnce

(* Operations are handed over once.                                        *)
LEMMA OperationsHandedOnce == Spec => []HandedOverOnce
<1>1. Init => TxnApiInv
  BY TxnApiInvInit DEF Init
<1>2. TxnApiInv /\ [Next]_vars => TxnApiInv'
  BY TxnStep, FocusMoves
<1>3. TxnApiInv => HandedOverOnce
  BY DEF TxnApiInv
<1> QED BY <1>1, <1>2, <1>3, PTL DEF Spec

(* The outcome of a transaction stays for the timeout after completion.    *)
LEMMA OutcomeStep ==
    ASSUME TxnApiInv, TxnNext,
           NEW i \in DOMAIN table, table[i].state # "active", txnNow - table[i].completed <= TxnTimeout
    PROVE  i \in DOMAIN table' /\ (table'[i] = table[i] \/ table[i].serial \in clashed')
<1>1. table[i] \in TxnRecord /\ txnNow \in Nat /\ i \notin ActiveIds
  BY DEF TxnApiInv, TxnTypes, ActiveIds
<1>2. ASSUME NEW c, BeginTransaction(c)
      PROVE  i \in DOMAIN table' /\ (table'[i] = table[i] \/ table[i].serial \in clashed')
  BY <1>2 DEF BeginTransaction
<1>3. ASSUME NEW j, NEW op, BufferOperation(j, op) PROVE i \in DOMAIN table' /\ table'[i] = table[i]
  BY <1>1, <1>3 DEF BufferOperation
<1>4. ASSUME NEW c, NEW j, CommitTransaction(c, j) \/ RollbackTransaction(c, j)
      PROVE  i \in DOMAIN table' /\ table'[i] = table[i]
  BY <1>1, <1>4 DEF CommitTransaction, RollbackTransaction, Completed
<1>5. ASSUME CleanupExpired PROVE i \in DOMAIN table' /\ table'[i] = table[i]
  <2>1. table[i].completed \in Nat
    BY <1>1 DEF TxnRecord
  <2>2. ~Expired(table[i])
    BY <1>1, <2>1, TimeoutAssumption DEF Expired
  <2> QED BY <1>5, <2>2 DEF CleanupExpired
<1>6. ASSUME NEW c, AnswerStatus(c) PROVE table' = table
  BY <1>6 DEF AnswerStatus
<1>7. ASSUME TxnTick PROVE table' = table
  BY <1>7 DEF TxnTick
<1> QED BY <1>2, <1>3, <1>4, <1>5, <1>6, <1>7 DEF TxnNext

(* A client of the API can ask for the outcome of its transaction for as   *)
(* long as the timeout after its completion, however long it was open and  *)
(* whatever cleanup_expired removes, unless another transaction began at   *)
(* the same reading of the clock.                                          *)
THEOREM OutcomesKept == Spec => OutcomeKept
<1>1. Init => TxnApiInv
  BY TxnApiInvInit DEF Init
<1>2. TxnApiInv /\ [Next]_vars => TxnApiInv'
  BY TxnStep, FocusMoves
<1>3. TxnApiInv /\ [Next]_vars =>
        [\A i \in DOMAIN table :
           (table[i].state # "active" /\ txnNow - table[i].completed <= TxnTimeout) =>
             i \in DOMAIN table' /\ (table'[i] = table[i] \/ table[i].serial \in clashed')]_txnApiVars
  BY FocusMoves, OutcomeStep
<1> QED BY <1>1, <1>2, <1>3, PTL DEF Spec, OutcomeKept

-----------------------------------------------------------------------------
(* Prepared statements.  A request carries the logical plan that its id    *)
(* has in the cache, unless the id was replaced meanwhile.                 *)
Logicals == LogicalPlans \cup {Unplanned}

PlannedFor(x, i, R) == x.plan = x.logical \/ i \in R

PlanApiTypes ==
    /\ executing \in [Callers -> [pc : {"idle", "plan", "keep"}, id : Statements \cup {"none"},
                                  logical : Logicals, plan : Logicals]]
    /\ slots = [i \in DOMAIN slots |-> slots[i]]
    /\ \A i \in DOMAIN slots : slots[i] \in [logical : Logicals, plan : Logicals]

PlanApiInv ==
    /\ PlanApiTypes
    /\ \A i \in DOMAIN slots : slots[i].plan = Unplanned \/ PlannedFor(slots[i], i, replaced)
    /\ \A c \in Callers :
         /\ executing[c].pc = "keep" => PlannedFor(executing[c], executing[c].id, replaced)
         /\ (executing[c].pc # "idle" /\ executing[c].id \in DOMAIN slots) =>
              slots[executing[c].id].logical = executing[c].logical \/ executing[c].id \in replaced
    /\ PlanIsOfStatement

(* prepared_create keeps what is in the cache and notes a replacement.     *)
LEMMA PrepareStep ==
    ASSUME PlanApiInv, NEW i \in Statements, NEW l \in LogicalPlans, PreparedCreate(i, l)
    PROVE  PlanApiInv'
<1> DEFINE new == [logical |-> l, plan |-> Unplanned]
<1>1. /\ slots' = [x \in DOMAIN slots \cup {i} |-> IF x = i /\ i \notin DOMAIN slots THEN new ELSE slots[x]]
      /\ replaced \subseteq replaced'
      /\ (i \notin DOMAIN slots /\ \E c \in Callers : executing[c].id = i) => i \in replaced'
      /\ UNCHANGED <<executing, answered>>
  BY DEF PreparedCreate
<1>2. new \in [logical : Logicals, plan : Logicals] /\ new.plan = Unplanned
  BY DEF Logicals
<1> HIDE DEF new
<1>3. PlanApiTypes'
  BY <1>1, <1>2 DEF PlanApiInv, PlanApiTypes
<1>4. \A x \in DOMAIN slots' : slots'[x].plan = Unplanned \/ PlannedFor(slots'[x], x, replaced')
  BY <1>1, <1>2 DEF PlanApiInv, PlannedFor
<1>5. \A c \in Callers : executing[c].pc = "keep" => PlannedFor(executing[c], executing[c].id, replaced')
  BY <1>1 DEF PlanApiInv, PlannedFor
<1>6. \A c \in Callers :
        (executing[c].pc # "idle" /\ executing[c].id \in DOMAIN slots') =>
           slots'[executing[c].id].logical = executing[c].logical \/ executing[c].id \in replaced'
  BY <1>1 DEF PlanApiInv
<1>7. PlanIsOfStatement'
  BY <1>1 DEF PlanApiInv, PlanIsOfStatement
<1> QED BY <1>1, <1>3, <1>4, <1>5, <1>6, <1>7 DEF PlanApiInv, PlannedFor

(* A request takes a statement.                                            *)
LEMMA TakesStep ==
    ASSUME PlanApiInv, NEW c \in Callers, NEW i \in Statements, ExecuteTakes(c, i)
    PROVE  PlanApiInv'
<1> DEFINE new == [pc |-> IF slots[i].plan = Unplanned THEN "plan" ELSE "keep",
                   id |-> i, logical |-> slots[i].logical, plan |-> slots[i].plan]
<1>1. /\ executing' = [x \in Callers |-> IF x = c THEN new ELSE executing[x]]
      /\ i \in DOMAIN slots /\ UNCHANGED <<slots, answered, replaced>>
  BY DEF ExecuteTakes, PlanApiInv, PlanApiTypes
<1>2. /\ new \in [pc : {"idle", "plan", "keep"}, id : Statements \cup {"none"}, logical : Logicals, plan : Logicals]
      /\ new.id = i /\ new.logical = slots[i].logical
      /\ new.pc = "keep" => PlannedFor(new, i, replaced)
  BY <1>1 DEF PlanApiInv, PlanApiTypes, PlannedFor
<1> HIDE DEF new
<1>3. PlanApiTypes'
  BY <1>1, <1>2 DEF PlanApiInv, PlanApiTypes
<1> QED BY <1>1, <1>2, <1>3 DEF PlanApiInv, PlannedFor, PlanIsOfStatement

(* The planner plans what the request carries.                             *)
LEMMA PlansStep ==
    ASSUME PlanApiInv, NEW c \in Callers, ExecutePlans(c)
    PROVE  PlanApiInv'
<1> DEFINE new == [executing[c] EXCEPT !.pc = "keep", !.plan = executing[c].logical]
<1>0. executing[c] \in [pc : {"idle", "plan", "keep"}, id : Statements \cup {"none"}, logical : Logicals, plan : Logicals]
  BY DEF PlanApiInv, PlanApiTypes
<1>1. /\ executing' = [x \in Callers |-> IF x = c THEN new ELSE executing[x]]
      /\ executing[c].pc = "plan" /\ UNCHANGED <<slots, answered, replaced>>
  BY DEF ExecutePlans, PlanApiInv, PlanApiTypes
<1>2. /\ new \in [pc : {"idle", "plan", "keep"}, id : Statements \cup {"none"}, logical : Logicals, plan : Logicals]
      /\ new.id = executing[c].id /\ new.logical = executing[c].logical
      /\ PlannedFor(new, new.id, replaced)
  BY <1>0 DEF PlannedFor
<1> HIDE DEF new
<1>3. PlanApiTypes'
  BY <1>1, <1>2 DEF PlanApiInv, PlanApiTypes
<1> QED BY <1>1, <1>2, <1>3 DEF PlanApiInv, PlannedFor, PlanIsOfStatement

(* The plan goes into the cache and to the client.                         *)
LEMMA AnswersStep ==
    ASSUME PlanApiInv, NEW c \in Callers, ExecuteAnswers(c)
    PROVE  PlanApiInv'
<1> DEFINE e == executing[c]
<1>1. /\ executing' = [x \in Callers |-> IF x = c THEN Waiting ELSE executing[x]]
      /\ slots' = [i \in DOMAIN slots |-> IF i = e.id THEN [slots[i] EXCEPT !.plan = e.plan] ELSE slots[i]]
      /\ e.pc = "keep" /\ answered' = e /\ UNCHANGED replaced
  BY DEF ExecuteAnswers, PlanApiInv, PlanApiTypes, CachePlan
<1>2. /\ e \in [pc : {"idle", "plan", "keep"}, id : Statements \cup {"none"}, logical : Logicals, plan : Logicals]
      /\ PlannedFor(e, e.id, replaced)
      /\ e.id \in DOMAIN slots => slots[e.id].logical = e.logical \/ e.id \in replaced
  BY <1>1 DEF PlanApiInv, PlanApiTypes
<1>3. Waiting \in [pc : {"idle", "plan", "keep"}, id : Statements \cup {"none"}, logical : Logicals, plan : Logicals]
  BY DEF Waiting, Logicals, Unplanned
<1>4. \A i \in DOMAIN slots : slots[i] \in [logical : Logicals, plan : Logicals]
  BY DEF PlanApiInv, PlanApiTypes
<1> HIDE DEF e
<1>5. \A i \in DOMAIN slots : /\ slots'[i] \in [logical : Logicals, plan : Logicals]
                              /\ slots'[i].logical = slots[i].logical
                              /\ i = e.id => slots'[i].plan = e.plan
                              /\ i # e.id => slots'[i] = slots[i]
  BY <1>1, <1>2, <1>4
<1>6. PlanApiTypes'
  BY <1>1, <1>3, <1>5 DEF PlanApiInv, PlanApiTypes
<1>7. \A i \in DOMAIN slots' : slots'[i].plan = Unplanned \/ PlannedFor(slots'[i], i, replaced')
  BY <1>1, <1>2, <1>5 DEF PlanApiInv, PlannedFor
<1>8. \A x \in Callers :
         /\ executing'[x].pc = "keep" => PlannedFor(executing'[x], executing'[x].id, replaced')
         /\ (executing'[x].pc # "idle" /\ executing'[x].id \in DOMAIN slots') =>
              slots'[executing'[x].id].logical = executing'[x].logical \/ executing'[x].id \in replaced'
  <2> SUFFICES ASSUME NEW x \in Callers, x # c
               PROVE  /\ executing[x].pc = "keep" => PlannedFor(executing[x], executing[x].id, replaced')
                      /\ (executing[x].pc # "idle" /\ executing[x].id \in DOMAIN slots') =>
                           slots'[executing[x].id].logical = executing[x].logical \/ executing[x].id \in replaced'
    BY <1>1 DEF Waiting
  <2> QED BY <1>1, <1>5 DEF PlanApiInv, PlannedFor
<1>9. PlanIsOfStatement'
  BY <1>1, <1>2 DEF PlanIsOfStatement, PlannedFor
<1> QED BY <1>6, <1>7, <1>8, <1>9 DEF PlanApiInv

(* Every step of the planner's handlers keeps the invariant.               *)
LEMMA PlanApiStep ==
    ASSUME PlanApiInv, PlanApiNext \/ UNCHANGED planApiVars
    PROVE  PlanApiInv'
<1>1. CASE UNCHANGED <<slots, executing, answered, replaced>>
  BY <1>1 DEF PlanApiInv, PlanApiTypes, PlannedFor, PlanIsOfStatement
<1>2. CASE UNCHANGED planApiVars
  BY <1>1, <1>2 DEF planApiVars
<1>3. ASSUME NEW s, NEW b, PutConfig(s) \/ SetConfigGrpc(s) \/ UpdateConfig(s, b) PROVE PlanApiInv'
  BY <1>1, <1>3 DEF PutConfig, SetConfigGrpc, UpdateConfig, SetConfig
<1>4. ASSUME NEW i, EvictStatement(i) PROVE PlanApiInv'
  BY <1>4 DEF EvictStatement, PlanApiInv, PlanApiTypes, PlannedFor, PlanIsOfStatement
<1> QED BY <1>2, <1>3, <1>4, PrepareStep, TakesStep, PlansStep, AnswersStep DEF PlanApiNext

(* The answered plan is of the statement.                                  *)
LEMMA PlansMatch == Spec => []PlanIsOfStatement
<1>1. Init => PlanApiInv
  <2> SUFFICES ASSUME PlanApiInit PROVE PlanApiInv
    BY DEF Init
  <2>1. Waiting \in [pc : {"idle", "plan", "keep"}, id : Statements \cup {"none"}, logical : Logicals, plan : Logicals]
    BY DEF Waiting, Logicals, Unplanned
  <2>2. /\ slots = [i \in {} |-> Unplanned] /\ executing = [c \in Callers |-> Waiting] /\ answered = Waiting
    BY DEF PlanApiInit
  <2> QED BY <2>1, <2>2 DEF PlanApiInv, PlanApiTypes, PlanIsOfStatement, Waiting, Unplanned
<1>2. PlanApiInv /\ [Next]_vars => PlanApiInv'
  BY PlanApiStep, FocusMoves
<1>3. PlanApiInv => PlanIsOfStatement
  BY DEF PlanApiInv
<1> QED BY <1>1, <1>2, <1>3, PTL DEF Spec

(* Of what others wrote between a handler's read and its write, optimize   *)
(* overwrites the costs at most, a heartbeat revives no peer, commit hands *)
(* operations over once, and a prepared statement is answered with its own *)
(* plan unless it was evicted and prepared anew while a request executed   *)
(* it.                                                                     *)
THEOREM WritesKept == Spec => []HandlersKeepWrites
<1>1. OptimizeKeepsWrites /\ NoResurrection /\ HandedOverOnce /\ PlanIsOfStatement
        => HandlersKeepWrites
  BY DEF HandlersKeepWrites
<1> QED BY <1>1, ApiKeeps, PeersStand, OperationsHandedOnce, PlansMatch, PTL

-----------------------------------------------------------------------------
(* A set of numbers has a least one.                                       *)
LEMMA LeastOf ==
    ASSUME NEW P \in SUBSET Nat, P # {}
    PROVE  \E m \in P : \A y \in P : m <= y
<1>1. PICK m \in P : \A y \in P : <<y, m>> \notin OpToRel(<, Nat)
  BY NatLessThanWellFounded, WFMin
<1>2. m \in Nat /\ \A y \in P : y \in Nat /\ ~(y < m)
  BY <1>1 DEF OpToRel
<1>3. \A y \in P : m <= y
  BY <1>2
<1> QED BY <1>3

(* Sequences.  s is t without its first n elements.                        *)
Suffix(s, t, n) ==
    /\ n \in 0 .. Len(t) /\ Len(s) = Len(t) - n
    /\ \A i \in 1 .. Len(s) : s[i] = t[n + i]

(* A suffix is a SubSeq.                                                   *)
LEMMA SuffixIsSubSeq ==
    ASSUME NEW X, NEW s \in Seq(X), NEW t \in Seq(X), NEW n \in 0 .. Len(t)
    PROVE  Suffix(s, t, n) <=> s = SubSeq(t, n + 1, Len(t))
<1> DEFINE u == SubSeq(t, n + 1, Len(t))
<1>0. Len(t) \in Nat /\ Len(s) \in Nat
  BY LenProperties
<1>1. u \in Seq(X) /\ Len(u) = Len(t) - n /\ \A i \in 1 .. (Len(t) - n) : u[i] = t[n + i]
  <2>1. n + 1 \in Int /\ Len(t) \in Int /\ \A i \in (n + 1) .. Len(t) : t[i] \in X
    BY <1>0
  <2>2. /\ u \in Seq(X) /\ Len(u) = IF n + 1 <= Len(t) THEN Len(t) - (n + 1) + 1 ELSE 0
        /\ \A i \in 1 .. (Len(t) - (n + 1) + 1) : u[i] = t[(n + 1) + i - 1]
    BY <2>1, SubSeqProperties
  <2> HIDE DEF u
  <2>3. \A a \in Nat : \A b \in 0 .. a : /\ (IF b + 1 <= a THEN a - (b + 1) + 1 ELSE 0) = a - b
                                     /\ a - (b + 1) + 1 = a - b
                                     /\ \A i \in 1 .. (a - b) : (b + 1) + i - 1 = b + i
    OBVIOUS
  <2> QED BY <1>0, <2>2, <2>3
<1> HIDE DEF u
<1>2. ASSUME Suffix(s, t, n) PROVE s = u
  BY <1>0, <1>1, <1>2, SeqEqual DEF Suffix
<1>3. ASSUME s = u PROVE Suffix(s, t, n)
  BY <1>1, <1>3 DEF Suffix
<1> QED BY <1>2, <1>3 DEF u

(* A suffix of a suffix.                                                   *)
LEMMA SuffixOfSuffix ==
    ASSUME NEW X, NEW r \in Seq(X), NEW s \in Seq(X), NEW t \in Seq(X), NEW m, NEW n,
           Suffix(r, s, m), Suffix(s, t, n)
    PROVE  Suffix(r, t, n + m)
<1>0. Len(t) \in Nat /\ Len(s) \in Nat /\ Len(r) \in Nat
  BY LenProperties
<1>1. n + m \in 0 .. Len(t) /\ Len(r) = Len(t) - (n + m)
  BY <1>0 DEF Suffix
<1>2. ASSUME NEW i \in 1 .. Len(r) PROVE r[i] = t[(n + m) + i]
  <2>1. r[i] = s[m + i] /\ m + i \in 1 .. Len(s)
    BY <1>0 DEF Suffix
  <2>2. s[m + i] = t[n + (m + i)] /\ n + (m + i) = (n + m) + i
    BY <1>0, <2>1 DEF Suffix
  <2> QED BY <2>1, <2>2
<1> QED BY <1>1, <1>2 DEF Suffix

(* Both sides grow by the same element.                                    *)
LEMMA SuffixAppend ==
    ASSUME NEW X, NEW s \in Seq(X), NEW t \in Seq(X), NEW n, NEW x \in X, Suffix(s, t, n)
    PROVE  Suffix(Append(s, x), Append(t, x), n)
<1>0. Len(t) \in Nat /\ Len(s) \in Nat /\ n \in 0 .. Len(t) /\ Len(s) = Len(t) - n
  BY LenProperties DEF Suffix
<1>1. /\ Len(Append(s, x)) = Len(s) + 1 /\ Len(Append(t, x)) = Len(t) + 1
      /\ \A i \in 1 .. Len(s) : Append(s, x)[i] = s[i]
      /\ \A i \in 1 .. Len(t) : Append(t, x)[i] = t[i]
      /\ Append(s, x)[Len(s) + 1] = x /\ Append(t, x)[Len(t) + 1] = x
  BY AppendProperties
<1>2. ASSUME NEW i \in 1 .. (Len(s) + 1) PROVE Append(s, x)[i] = Append(t, x)[n + i]
  <2>1. CASE i \in 1 .. Len(s)
    <3>1. n + i \in 1 .. Len(t) /\ s[i] = t[n + i]
      BY <1>0, <2>1 DEF Suffix
    <3> QED BY <1>1, <2>1, <3>1
  <2>2. CASE i = Len(s) + 1
    <3>1. n + i = Len(t) + 1
      BY <1>0, <2>2
    <3> QED BY <1>1, <2>2, <3>1
  <2> QED BY <1>0, <2>1, <2>2
<1>3. n \in 0 .. (Len(t) + 1) /\ Len(s) + 1 = (Len(t) + 1) - n
  BY <1>0
<1> QED BY <1>1, <1>2, <1>3 DEF Suffix

(* What Append makes.                                                      *)
LEMMA AppendIs ==
    ASSUME NEW X, NEW s \in Seq(X), NEW t \in Seq(X), NEW x \in X, Len(t) = Len(s) + 1,
           \A i \in 1 .. Len(s) : t[i] = s[i], t[Len(s) + 1] = x
    PROVE  Append(s, x) = t
<1>1. /\ Append(s, x) \in Seq(X) /\ Len(Append(s, x)) = Len(s) + 1 /\ Len(s) \in Nat
      /\ \A i \in 1 .. Len(s) : Append(s, x)[i] = s[i]
      /\ Append(s, x)[Len(s) + 1] = x
  BY AppendProperties, LenProperties
<1>2. \A i \in 1 .. (Len(s) + 1) : i \in 1 .. Len(s) \/ i = Len(s) + 1
  BY <1>1
<1>3. \A i \in 1 .. (Len(s) + 1) : Append(s, x)[i] = t[i]
  BY <1>1, <1>2
<1> QED BY <1>1, <1>3, SeqEqual

(* What follows the head of a suffix.                                      *)
LEMMA SuffixTail ==
    ASSUME NEW X, NEW s \in Seq(X), s # <<>>
    PROVE  Suffix(Tail(s), s, 1)
<1>1. /\ Len(s) \in Nat /\ Len(s) # 0 /\ Len(Tail(s)) = Len(s) - 1
      /\ \A i \in 1 .. Len(Tail(s)) : Tail(s)[i] = s[i + 1]
  BY HeadTailProperties, LenProperties, EmptySeq
<1> QED BY <1>1 DEF Suffix

-----------------------------------------------------------------------------
(* The rate limiter.  retain drops a prefix of a list of times in order.   *)
KeptFn(f, ts, span) ==
    f = [i \in 0 .. Len(ts) |->
           IF i = 0 THEN <<>> ELSE IF apiNow - ts[i] < span THEN Append(f[i - 1], ts[i]) ELSE f[i - 1]]

InOrder(ts) == \A i, j \in DOMAIN ts : i <= j => ts[i] <= ts[j]

(* The first time that is recent, and all after it.                        *)
LEMMA FirstRecent ==
    ASSUME NEW ts \in Seq(Nat), InOrder(ts), apiNow \in Nat, NEW span \in Nat
    PROVE  \E k \in 0 .. Len(ts) : \A i \in 1 .. Len(ts) : (apiNow - ts[i] < span) <=> i > k
<1> DEFINE P == {i \in 1 .. Len(ts) : apiNow - ts[i] < span}
<1>0. Len(ts) \in Nat /\ DOMAIN ts = 1 .. Len(ts) /\ \A i \in 1 .. Len(ts) : ts[i] \in Nat
  BY LenProperties
<1>1. CASE P = {}
  <2>1. \A i \in 1 .. Len(ts) : ~(apiNow - ts[i] < span) /\ ~(i > Len(ts))
    BY <1>0, <1>1
  <2>2. \A i \in 1 .. Len(ts) : (apiNow - ts[i] < span) <=> i > Len(ts)
    BY <2>1
  <2>3. Len(ts) \in 0 .. Len(ts)
    BY <1>0
  <2> QED BY <2>2, <2>3
<1>2. CASE P # {}
  <2>1. PICK m \in P : \A y \in P : m <= y
    <3>1. P \in SUBSET Nat
      BY <1>0
    <3> HIDE DEF P
    <3> QED BY <1>2, <3>1, LeastOf
  <2>2. m \in 1 .. Len(ts) /\ apiNow - ts[m] < span /\ \A y \in P : ~(y < m)
    BY <1>0, <2>1
  <2>3. m - 1 \in 0 .. Len(ts)
    BY <1>0, <2>2
  <2>4. ASSUME NEW i \in 1 .. Len(ts) PROVE (apiNow - ts[i] < span) <=> i > m - 1
    <3>1. CASE i < m
      BY <1>0, <2>2, <3>1
    <3>2. CASE m <= i
      <4>1. ts[m] <= ts[i] /\ ts[m] \in Nat /\ ts[i] \in Nat
        BY <1>0, <2>2, <3>2 DEF InOrder
      <4> QED BY <2>2, <3>2, <4>1, SMTT(60)
    <3> QED BY <1>0, <2>2, <3>1, <3>2
  <2> QED BY <2>3, <2>4
<1> QED BY <1>1, <1>2

(* A run of a sequence grows at its end.                                   *)
LEMMA RunGrows ==
    ASSUME NEW ts \in Seq(Nat), NEW k \in 0 .. Len(ts), NEW n \in (k + 1) .. Len(ts)
    PROVE  Append([i \in 1 .. (n - 1 - k) |-> ts[k + i]], ts[n]) = [i \in 1 .. (n - k) |-> ts[k + i]]
<1> DEFINE a == n - 1 - k
           s == [i \in 1 .. a |-> ts[k + i]]
           t == [i \in 1 .. (a + 1) |-> ts[k + i]]
<1>0. Len(ts) \in Nat /\ k \in Nat /\ n \in Nat /\ \A i \in 1 .. Len(ts) : ts[i] \in Nat
  BY LenProperties
<1>1. a \in Nat /\ a + 1 = n - k /\ k + (a + 1) = n /\ k + a + 1 <= Len(ts)
  BY <1>0
<1> HIDE DEF a
<1>2. s \in Seq(Nat) /\ Len(s) = a /\ t \in Seq(Nat) /\ Len(t) = a + 1
  BY <1>0, <1>1
<1>3. \A i \in 1 .. a : s[i] = ts[k + i]
  OBVIOUS
<1>4. \A i \in 1 .. (a + 1) : t[i] = ts[k + i]
  OBVIOUS
<1> HIDE DEF s, t
<1>5. \A i \in 1 .. Len(s) : t[i] = s[i]
  <2>1. \A i \in 1 .. a : i \in 1 .. (a + 1)
    BY <1>1
  <2> QED BY <1>2, <1>3, <1>4, <2>1, Zenon
<1>7. t[Len(s) + 1] = ts[n]
  <2>1. a + 1 \in 1 .. (a + 1)
    BY <1>1
  <2>2. t[a + 1] = ts[k + (a + 1)]
    BY <1>4, <2>1, Zenon
  <2> QED BY <1>1, <1>2, <2>2, Zenon
<1>8. ts[n] \in Nat
  <2>1. n \in 1 .. Len(ts)
    BY <1>0
  <2> QED BY <1>0, <2>1, Zenon
<1>6. Append(s, ts[n]) = t
  BY <1>2, <1>5, <1>7, <1>8, AppendIs, SMTT(60)
<1> QED BY <1>1, <1>6 DEF s, t, a

(* What the retained times are.                                            *)
LEMMA RetainedIsSuffix ==
    ASSUME NEW ts \in Seq(Nat), InOrder(ts), apiNow \in Nat, NEW span \in Nat
    PROVE  /\ Retained(ts, span) \in Seq(Nat)
           /\ \E k \in 0 .. Len(ts) : /\ Suffix(Retained(ts, span), ts, k)
                                      /\ \A i \in 1 .. Len(ts) : (apiNow - ts[i] < span) <=> i > k
<1>0. Len(ts) \in Nat /\ DOMAIN ts = 1 .. Len(ts) /\ \A i \in 1 .. Len(ts) : ts[i] \in Nat
  BY LenProperties
<1>1. PICK k \in 0 .. Len(ts) : \A i \in 1 .. Len(ts) : (apiNow - ts[i] < span) <=> i > k
  BY FirstRecent
<1> DEFINE N == Len(ts)
           len(n) == IF n <= k THEN 0 ELSE n - k
           g == [n \in 0 .. N |-> [i \in 1 .. len(n) |-> ts[k + i]]]
<1>2. ASSUME NEW n \in 0 .. N PROVE g[n] \in Seq(Nat) /\ Len(g[n]) = len(n)
  <2>1. len(n) \in Nat
    BY <1>0
  <2>2. \A i \in 1 .. len(n) : ts[k + i] \in Nat
    BY <1>0
  <2> QED BY <2>1, <2>2
<1>3. ASSUME NEW n \in 0 .. N
      PROVE  g[n] = IF n = 0 THEN <<>> ELSE IF apiNow - ts[n] < span THEN Append(g[n - 1], ts[n]) ELSE g[n - 1]
  <2>1. CASE n = 0
    BY <1>0, <1>2, <2>1
  <2>2. CASE n # 0 /\ n <= k
    <3>1. n \in 1 .. N /\ ~(apiNow - ts[n] < span) /\ n - 1 \in 0 .. N
      BY <1>0, <1>1, <2>2
    <3>2. len(n) = 0 /\ len(n - 1) = 0
      BY <1>0, <2>2
    <3>3. g[n] = g[n - 1]
      BY <3>1, <3>2
    <3> HIDE DEF g, len
    <3> QED BY <2>2, <3>1, <3>3
  <2>3. CASE n # 0 /\ n > k
    <3>1. n \in 1 .. N /\ apiNow - ts[n] < span /\ n - 1 \in 0 .. N
      BY <1>0, <1>1, <2>3
    <3>2. len(n) = n - k /\ len(n - 1) = n - 1 - k /\ n \in (k + 1) .. N
      BY <1>0, <2>3
    <3>3. /\ g[n] = [i \in 1 .. (n - k) |-> ts[k + i]]
          /\ g[n - 1] = [i \in 1 .. (n - 1 - k) |-> ts[k + i]]
      BY <3>1, <3>2
    <3> HIDE DEF g, len
    <3>6. Append(g[n - 1], ts[n]) = g[n]
      <4>1. Append([i \in 1 .. (n - 1 - k) |-> ts[k + i]], ts[n]) = [i \in 1 .. (n - k) |-> ts[k + i]]
        BY <3>2, RunGrows, Zenon
      <4> QED BY <3>3, <4>1, Zenon
    <3> QED BY <2>3, <3>1, <3>6
  <2>4. n = 0 \/ (n # 0 /\ n <= k) \/ (n # 0 /\ n > k)
    BY <1>0
  <2> QED BY <2>1, <2>2, <2>3, <2>4
<1>4. KeptFn(g, ts, span)
  BY <1>3, Zenon DEF KeptFn
<1> HIDE DEF g
<1>5. ASSUME NEW f, KeptFn(f, ts, span) PROVE \A n \in 0 .. N : f[n] = g[n]
  <2> DEFINE Bad == {n \in 0 .. N : f[n] # g[n]}
  <2> SUFFICES ASSUME Bad # {} PROVE FALSE
    OBVIOUS
  <2>1. PICK n \in Bad : \A y \in Bad : n <= y
    <3>1. Bad \in SUBSET Nat
      BY <1>0
    <3> HIDE DEF Bad
    <3> QED BY <3>1, LeastOf
  <2>2. n \in 0 .. N /\ f[n] # g[n] /\ \A y \in Bad : ~(y < n)
    BY <1>0, <2>1
  <2>3. f[n] = IF n = 0 THEN <<>> ELSE IF apiNow - ts[n] < span THEN Append(f[n - 1], ts[n]) ELSE f[n - 1]
    BY <1>5, <2>2, Zenon DEF KeptFn
  <2>4. n # 0 => n - 1 \in 0 .. N /\ n - 1 < n
    BY <1>0, <2>2
  <2>5. n # 0 => f[n - 1] = g[n - 1]
    BY <2>2, <2>4
  <2> QED BY <1>3, <2>2, <2>3, <2>5
<1>6. Retained(ts, span) = (CHOOSE f : KeptFn(f, ts, span))[N]
  BY DEF Retained, KeptFn
<1>7. KeptFn(CHOOSE f : KeptFn(f, ts, span), ts, span)
  BY <1>4
<1>8. Retained(ts, span) = g[N]
  BY <1>0, <1>5, <1>6, <1>7
<1>9. g[N] \in Seq(Nat) /\ Len(g[N]) = N - k /\ \A i \in 1 .. (N - k) : g[N][i] = ts[k + i]
  <2>0. \A a \in Nat : \A b \in 0 .. a : a \in 0 .. a /\ (IF a <= b THEN 0 ELSE a - b) = a - b
    BY SMTT(60)
  <2>1. N \in 0 .. N /\ len(N) = N - k
    BY <1>0, <2>0
  <2>2. g[N] \in Seq(Nat) /\ Len(g[N]) = N - k
    BY <1>2, <2>1, SMTT(60)
  <2>3. g[N] = [i \in 1 .. len(N) |-> ts[k + i]]
    BY <2>1 DEF g
  <2> HIDE DEF len
  <2> QED BY <2>1, <2>2, <2>3
<1>10. Suffix(g[N], ts, k)
  BY <1>0, <1>9 DEF Suffix
<1> QED BY <1>1, <1>8, <1>9, <1>10

(* The admissions of a client are in order, none lies in the future, and   *)
(* any limit + 1 of them span a window; its window lacks only those that   *)
(* are older than a window.                                                *)
Admissions(a, now) ==
    a \in Seq(Nat) /\ InOrder(a) /\ \A i \in 1 .. Len(a) : a[i] <= now

Spaced(a, limit) ==
    \A i \in 1 .. Len(a) : i + limit \in 1 .. Len(a) => a[i + limit] - a[i] >= Window

Follows(w, a, now) ==
    /\ w \in Seq(Nat)
    /\ \E k \in 0 .. Len(a) : Suffix(w, a, k) /\ \A i \in 1 .. k : now - a[i] >= Window

Clients == DOMAIN admitted \cup DOMAIN windows

LimiterInv ==
    /\ authConfig \in AuthConfigs /\ apiNow \in Nat
    /\ \A c \in Clients : Admissions(TimesOf(admitted, c), apiNow)
    /\ authConfig.limit # 0 =>
         \A c \in Clients : /\ Spaced(TimesOf(admitted, c), authConfig.limit)
                            /\ Follows(TimesOf(windows, c), TimesOf(admitted, c), apiNow)

(* A client that was never seen has admissions and a window without times. *)
LEMMA UnseenClient ==
    ASSUME apiNow \in Nat, NEW limit
    PROVE  Admissions(<<>>, apiNow) /\ Spaced(<<>>, limit) /\ Follows(<<>>, <<>>, apiNow)
<1>1. <<>> \in Seq(Nat) /\ Len(<<>>) = 0 /\ DOMAIN <<>> = {} /\ 1 .. 0 = {} /\ 0 \in 0 .. 0
  OBVIOUS
<1>2. Suffix(<<>>, <<>>, 0)
  BY <1>1 DEF Suffix
<1> QED BY <1>1, <1>2 DEF Admissions, InOrder, Spaced, Follows

(* The invariant of any client.                                            *)
LEMMA AnyClient ==
    ASSUME LimiterInv, NEW c
    PROVE  /\ Admissions(TimesOf(admitted, c), apiNow)
           /\ authConfig.limit # 0 => /\ Spaced(TimesOf(admitted, c), authConfig.limit)
                                      /\ Follows(TimesOf(windows, c), TimesOf(admitted, c), apiNow)
<1>1. CASE c \in Clients
  BY <1>1 DEF LimiterInv
<1>2. CASE c \notin Clients
  <2>1. TimesOf(admitted, c) = <<>> /\ TimesOf(windows, c) = <<>>
    BY <1>2 DEF Clients, TimesOf
  <2> QED BY <2>1, UnseenClient DEF LimiterInv
<1> QED BY <1>1, <1>2

(* The window that check has cleaned still follows the admissions.         *)
LEMMA RecentFollows ==
    ASSUME apiNow \in Nat, NEW a, NEW w, Admissions(a, apiNow), Follows(w, a, apiNow)
    PROVE  Follows(Recent(w), a, apiNow) /\ Recent(w) \in Seq(Nat)
<1>1. PICK k \in 0 .. Len(a) : Suffix(w, a, k) /\ \A i \in 1 .. k : apiNow - a[i] >= Window
  BY DEF Follows
<1>2. w \in Seq(Nat) /\ a \in Seq(Nat) /\ Len(a) \in Nat /\ Len(w) \in Nat /\ Window \in Nat
  BY GatewayAssumption, LenProperties DEF Follows, Admissions
<1>3. DOMAIN a = 1 .. Len(a) /\ DOMAIN w = 1 .. Len(w) /\ Len(w) = Len(a) - k
  BY <1>1, <1>2, LenProperties DEF Suffix
<1>4. InOrder(w)
  <2> SUFFICES ASSUME NEW i \in DOMAIN w, NEW j \in DOMAIN w, i <= j PROVE w[i] <= w[j]
    BY DEF InOrder
  <2>0. i \in 1 .. (Len(a) - k) /\ j \in 1 .. (Len(a) - k)
    BY <1>3
  <2>1. k + i \in 1 .. Len(a) /\ k + j \in 1 .. Len(a) /\ k + i <= k + j
    <3>1. \A n \in Nat : \A b \in 0 .. n : \A x, y \in 1 .. (n - b) :
            x <= y => b + x \in 1 .. n /\ b + y \in 1 .. n /\ b + x <= b + y
      OBVIOUS
    <3> QED BY <1>2, <2>0, <3>1, Zenon
  <2>2. w[i] = a[k + i] /\ w[j] = a[k + j]
    BY <1>1, <1>3 DEF Suffix
  <2> QED BY <1>3, <2>1, <2>2 DEF Admissions, InOrder
<1>5. PICK m \in 0 .. Len(w) : /\ Suffix(Recent(w), w, m)
                               /\ \A i \in 1 .. Len(w) : (apiNow - w[i] < Window) <=> i > m
  BY <1>2, <1>4, RetainedIsSuffix DEF Recent
<1>6. Recent(w) \in Seq(Nat)
  BY <1>2, <1>4, RetainedIsSuffix DEF Recent
<1>7. Suffix(Recent(w), a, k + m)
  BY <1>1, <1>2, <1>5, <1>6, SuffixOfSuffix
<1>8. k + m \in 0 .. Len(a)
  BY <1>2, <1>3
<1>9. ASSUME NEW i \in 1 .. (k + m) PROVE apiNow - a[i] >= Window
  <2>1. CASE i <= k
    BY <1>1, <2>1
  <2>2. CASE i > k
    <3>1. i - k \in 1 .. Len(w) /\ ~(i - k > m) /\ k + (i - k) = i
      BY <1>2, <1>3, <2>2
    <3>2. w[i - k] = a[i]
      BY <1>1, <3>1 DEF Suffix
    <3>3. ~(apiNow - a[i] < Window) /\ a[i] \in Nat
      BY <1>2, <1>5, <3>1, <3>2, SMTT(30)
    <3> QED BY <1>2, <3>3
  <2> QED BY <2>1, <2>2
<1> QED BY <1>6, <1>7, <1>8, <1>9 DEF Follows

(* A request that is let through.                                          *)
LEMMA AdmitFollows ==
    ASSUME apiNow \in Nat, NEW limit \in Nat \ {0}, NEW a, NEW w,
           Admissions(a, apiNow), Spaced(a, limit), Follows(w, a, apiNow), Len(w) < limit
    PROVE  /\ Spaced(Append(a, apiNow), limit)
           /\ Follows(Append(w, apiNow), Append(a, apiNow), apiNow)
<1>1. PICK k \in 0 .. Len(a) : Suffix(w, a, k) /\ \A i \in 1 .. k : apiNow - a[i] >= Window
  BY DEF Follows
<1>2. w \in Seq(Nat) /\ a \in Seq(Nat) /\ Len(a) \in Nat /\ Len(w) \in Nat /\ Len(w) = Len(a) - k
  BY <1>1, LenProperties DEF Follows, Admissions, Suffix
<1> DEFINE b == Append(a, apiNow)
<1>3. /\ b \in Seq(Nat) /\ Len(b) = Len(a) + 1 /\ b[Len(a) + 1] = apiNow
      /\ \A i \in 1 .. Len(a) : b[i] = a[i]
  BY <1>2, AppendProperties
<1>4. Append(w, apiNow) \in Seq(Nat) /\ Suffix(Append(w, apiNow), b, k)
  BY <1>1, <1>2, AppendProperties, SuffixAppend
<1> HIDE DEF b
<1>5. \A i \in 1 .. k : i \in 1 .. Len(a)
  BY <1>2
<1>6. Follows(Append(w, apiNow), b, apiNow)
  <2>1. k \in 0 .. Len(b)
    BY <1>2, <1>3
  <2>2. \A i \in 1 .. k : apiNow - b[i] >= Window
    BY <1>1, <1>3, <1>5
  <2> QED BY <1>4, <2>1, <2>2 DEF Follows
<1>7. ASSUME NEW i \in 1 .. Len(b), i + limit \in 1 .. Len(b) PROVE b[i + limit] - b[i] >= Window
  <2>1. CASE i + limit \in 1 .. Len(a)
    <3>1. i \in 1 .. Len(a)
      BY <1>2, <1>3, <2>1
    <3> QED BY <1>3, <2>1, <3>1 DEF Spaced
  <2>2. CASE i + limit = Len(a) + 1
    <3>1. i \in 1 .. k
      BY <1>2, <1>3, <2>2
    <3>2. b[i] = a[i] /\ b[i + limit] = apiNow
      BY <1>3, <1>5, <2>2, <3>1
    <3> QED BY <1>1, <3>1, <3>2
  <2>3. i + limit \in 1 .. Len(a) \/ i + limit = Len(a) + 1
    <3>1. i + limit \in 1 .. (Len(a) + 1)
      BY <1>3, <1>7
    <3>2. \A n \in Nat : \A x \in 1 .. (n + 1) : x \in 1 .. n \/ x = n + 1
      OBVIOUS
    <3> QED BY <1>2, <3>1, <3>2, Zenon
  <2> QED BY <2>1, <2>2, <2>3
<1>8. Spaced(b, limit)
  BY <1>7 DEF Spaced
<1> QED BY <1>6, <1>8 DEF b

(* An admission now is the last one.                                       *)
LEMMA AdmitOrdered ==
    ASSUME apiNow \in Nat, NEW a, Admissions(a, apiNow)
    PROVE  Admissions(Append(a, apiNow), apiNow)
<1> DEFINE b == Append(a, apiNow)
<1>1. a \in Seq(Nat) /\ Len(a) \in Nat /\ DOMAIN a = 1 .. Len(a) /\ \A i \in 1 .. Len(a) : a[i] \in Nat
  BY LenProperties DEF Admissions
<1>2. /\ b \in Seq(Nat) /\ Len(b) = Len(a) + 1 /\ b[Len(a) + 1] = apiNow
      /\ \A i \in 1 .. Len(a) : b[i] = a[i]
  BY <1>1, AppendProperties
<1>3. DOMAIN b = 1 .. Len(b)
  BY <1>2, LenProperties
<1> HIDE DEF b
<1>4. \A i \in 1 .. Len(b) : i \in 1 .. Len(a) \/ i = Len(a) + 1
  BY <1>1, <1>2
<1>5. \A i \in 1 .. Len(b) : b[i] <= apiNow
  BY <1>1, <1>2, <1>4 DEF Admissions
<1>6. ASSUME NEW i \in DOMAIN b, NEW j \in DOMAIN b, i <= j PROVE b[i] <= b[j]
  <2>1. CASE j \in 1 .. Len(a)
    <3>1. i \in 1 .. Len(a)
      BY <1>1, <1>3, <1>6, <2>1
    <3> QED BY <1>1, <1>2, <1>6, <2>1, <3>1 DEF Admissions, InOrder
  <2>2. CASE j = Len(a) + 1
    BY <1>2, <1>3, <1>5, <2>2
  <2> QED BY <1>3, <1>4, <2>1, <2>2
<1> QED BY <1>2, <1>5, <1>6 DEF Admissions, InOrder, b

(* The limiter's step for the client of the request.                       *)
LEMMA LimitStep ==
    ASSUME LimiterInv, NEW c, RateLimit(c)
    PROVE  LimiterInv'
<1> DEFINE id == handling[c].id
           a == TimesOf(admitted, id)
           w == TimesOf(windows, id)
           limit == authConfig.limit
<1>1. /\ windows' = CountedWindow(id) /\ UNCHANGED <<authConfig, apiNow>>
      /\ admitted' = IF Room(id) THEN Put(admitted, id, Append(a, apiNow)) ELSE admitted
  BY DEF RateLimit
<1>2. apiNow \in Nat /\ limit \in Nat /\ authConfig \in AuthConfigs
  BY GatewayAssumption DEF LimiterInv
<1>3. /\ Admissions(a, apiNow)
      /\ limit # 0 => Spaced(a, limit) /\ Follows(w, a, apiNow)
  BY AnyClient
<1>4. ASSUME NEW x, x # id
      PROVE  TimesOf(admitted', x) = TimesOf(admitted, x) /\ TimesOf(windows', x) = TimesOf(windows, x)
  BY <1>1, <1>4 DEF CountedWindow, Put, TimesOf
<1>5. TimesOf(admitted', id) = IF Room(id) THEN Append(a, apiNow) ELSE a
  BY <1>1 DEF Put, TimesOf
<1>6. limit # 0 => TimesOf(windows', id) = IF Room(id) THEN Append(Recent(w), apiNow) ELSE Recent(w)
  BY <1>1 DEF CountedWindow, Put, TimesOf
<1>7. limit # 0 /\ Room(id) => Len(Recent(w)) < limit
  BY DEF Room
<1> HIDE DEF id, a, w, limit
<1>8. Admissions(TimesOf(admitted', id), apiNow)
  BY <1>2, <1>3, <1>5, AdmitOrdered
<1>9. ASSUME limit # 0
      PROVE  /\ Spaced(TimesOf(admitted', id), limit)
             /\ Follows(TimesOf(windows', id), TimesOf(admitted', id), apiNow)
  <2>1. Follows(Recent(w), a, apiNow) /\ Spaced(a, limit) /\ limit \in Nat \ {0}
    BY <1>2, <1>3, <1>9, RecentFollows
  <2>2. CASE Room(id)
    <3>1. /\ Spaced(Append(a, apiNow), limit)
          /\ Follows(Append(Recent(w), apiNow), Append(a, apiNow), apiNow)
      BY <1>2, <1>3, <1>7, <1>9, <2>1, <2>2, AdmitFollows
    <3> QED BY <1>5, <1>6, <1>9, <2>2, <3>1
  <2>3. CASE ~Room(id)
    BY <1>5, <1>6, <1>9, <2>1, <2>3
  <2> QED BY <2>2, <2>3
<1>10. ASSUME NEW x
       PROVE  /\ Admissions(TimesOf(admitted', x), apiNow)
              /\ limit # 0 => /\ Spaced(TimesOf(admitted', x), limit)
                              /\ Follows(TimesOf(windows', x), TimesOf(admitted', x), apiNow)
  <2>1. CASE x = id
    BY <1>8, <1>9, <2>1
  <2>2. CASE x # id
    BY <1>4, <2>2, AnyClient DEF limit
  <2> QED BY <2>1, <2>2
<1> QED BY <1>1, <1>2, <1>10 DEF LimiterInv, limit

(* Time passes.                                                            *)
LEMMA TickStep ==
    ASSUME LimiterInv, ApiTick
    PROVE  LimiterInv'
<1>1. /\ apiNow \in Nat /\ apiNow' \in Nat /\ apiNow < apiNow' /\ UNCHANGED <<authConfig, windows, admitted>>
  BY DEF ApiTick, LimiterInv
<1>2. ASSUME NEW a, Admissions(a, apiNow) PROVE Admissions(a, apiNow')
  <2>1. \A i \in 1 .. Len(a) : a[i] \in Nat /\ a[i] <= apiNow
    BY <1>2 DEF Admissions
  <2>2. \A i \in 1 .. Len(a) : a[i] <= apiNow'
    BY <1>1, <2>1
  <2> QED BY <1>2, <2>2 DEF Admissions
<1>3. ASSUME NEW a, NEW w, Admissions(a, apiNow), Follows(w, a, apiNow) PROVE Follows(w, a, apiNow')
  <2>1. PICK k \in 0 .. Len(a) : Suffix(w, a, k) /\ \A i \in 1 .. k : apiNow - a[i] >= Window
    BY <1>3 DEF Follows
  <2>2. a \in Seq(Nat) /\ Len(a) \in Nat /\ Window \in Nat
    BY <1>3, LenProperties, GatewayAssumption DEF Admissions
  <2>3. \A i \in 1 .. k : i \in 1 .. Len(a) /\ a[i] \in Nat
    BY <2>2
  <2>4. \A i \in 1 .. k : apiNow' - a[i] >= Window
    BY <1>1, <2>1, <2>2, <2>3, SMTT(60)
  <2> QED BY <1>3, <2>1, <2>4 DEF Follows
<1> QED BY <1>1, <1>2, <1>3 DEF LimiterInv, Clients

(* Every step of the gateway keeps the limiter's invariant.                *)
LEMMA LimiterStep ==
    ASSUME LimiterInv, GatewayNext \/ UNCHANGED gatewayVars
    PROVE  LimiterInv'
<1>1. CASE UNCHANGED <<authConfig, windows, apiNow, admitted>>
  BY <1>1 DEF LimiterInv, Clients
<1>2. CASE UNCHANGED gatewayVars
  BY <1>1, <1>2 DEF gatewayVars
<1>3. CASE GatewayNext
  <2>1. \/ UNCHANGED <<authConfig, windows, apiNow, admitted>>
        \/ ApiTick
        \/ \E c \in ApiCallers : RateLimit(c)
    BY <1>3 DEF GatewayNext, Arrive, Authorize, Respond, RegisterApiKey, RevokeApiKey, SetRole, AddEntityAcl
  <2> QED BY <1>1, <2>1, TickStep, LimitStep
<1> QED BY <1>2, <1>3

(* No client exceeds the limit, and a quiet one has room.                  *)
LEMMA LimiterHolds == LimiterInv => RateRespected /\ QuietClientServed
<1> SUFFICES ASSUME LimiterInv PROVE RateRespected /\ QuietClientServed
  OBVIOUS
<1>1. authConfig.limit \in Nat /\ apiNow \in Nat /\ Window \in Nat
  BY GatewayAssumption DEF LimiterInv
<1>2. ASSUME NEW c \in DOMAIN admitted
      PROVE  /\ c \in Clients /\ admitted[c] = TimesOf(admitted, c)
             /\ DOMAIN admitted[c] = 1 .. Len(admitted[c]) /\ admitted[c] \in Seq(Nat)
  <2>1. c \in Clients /\ admitted[c] = TimesOf(admitted, c)
    BY DEF Clients, TimesOf
  <2>2. admitted[c] \in Seq(Nat)
    BY <2>1, AnyClient DEF Admissions
  <2> QED BY <2>1, <2>2, LenProperties
<1>3. RateRespected
  <2> SUFFICES ASSUME authConfig.limit > 0, NEW c \in DOMAIN admitted, NEW i \in DOMAIN admitted[c],
                      i + authConfig.limit \in DOMAIN admitted[c]
               PROVE  admitted[c][i + authConfig.limit] - admitted[c][i] >= Window
    BY DEF RateRespected
  <2>1. authConfig.limit # 0
    BY <1>1
  <2>2. Spaced(admitted[c], authConfig.limit)
    BY <1>2, <2>1, AnyClient
  <2> QED BY <1>2, <2>2 DEF Spaced
<1>4. QuietClientServed
  <2> SUFFICES ASSUME NEW c \in DOMAIN admitted, authConfig.limit # 0,
                      \A i \in DOMAIN admitted[c] : apiNow - admitted[c][i] >= Window
               PROVE  Len(Recent(TimesOf(windows, c))) < authConfig.limit
    BY DEF QuietClientServed, Room
  <2> DEFINE a == admitted[c]
             w == TimesOf(windows, c)
  <2>1. Admissions(a, apiNow) /\ Follows(w, a, apiNow) /\ DOMAIN a = 1 .. Len(a) /\ a \in Seq(Nat)
    BY <1>2, AnyClient
  <2>2. PICK k \in 0 .. Len(a) : Suffix(w, a, k)
    BY <2>1 DEF Follows
  <2>3. w \in Seq(Nat) /\ Len(w) \in Nat /\ Len(a) \in Nat /\ Len(w) = Len(a) - k
    BY <2>1, <2>2, LenProperties DEF Follows, Suffix
  <2> HIDE DEF a, w
  <2>4. InOrder(w)
    <3> SUFFICES ASSUME NEW i \in 1 .. Len(w), NEW j \in 1 .. Len(w), i <= j PROVE w[i] <= w[j]
      BY <2>3, LenProperties DEF InOrder
    <3>1. k + i \in 1 .. Len(a) /\ k + j \in 1 .. Len(a) /\ k + i <= k + j
      BY <2>3
    <3>2. w[i] = a[k + i] /\ w[j] = a[k + j]
      BY <2>2 DEF Suffix
    <3> QED BY <2>1, <3>1, <3>2 DEF Admissions, InOrder
  <2>5. PICK m \in 0 .. Len(w) : /\ Suffix(Recent(w), w, m)
                                 /\ \A i \in 1 .. Len(w) : (apiNow - w[i] < Window) <=> i > m
    BY <1>1, <2>3, <2>4, RetainedIsSuffix DEF Recent
  <2>6. m = Len(w)
    <3> SUFFICES ASSUME m < Len(w) PROVE FALSE
      BY <2>3
    <3>1. Len(w) \in 1 .. Len(w) /\ Len(w) > m /\ k + Len(w) \in 1 .. Len(a)
      BY <2>3
    <3>2. apiNow - w[Len(w)] < Window /\ w[Len(w)] = a[k + Len(w)] /\ w[Len(w)] \in Nat
      BY <2>2, <2>3, <2>5, <3>1, SMTT(60) DEF Suffix
    <3>3. apiNow - a[k + Len(w)] >= Window
      BY <2>1, <3>1 DEF a
    <3> QED BY <1>1, <3>2, <3>3
  <2>7. Len(Recent(w)) = 0
    BY <2>3, <2>5, <2>6 DEF Suffix
  <2> QED BY <1>1, <2>7 DEF w
<1> QED BY <1>3, <1>4

(* The audit log drops its oldest entry when it is full.                   *)
Beyond(n) == IF n > MaxAudit THEN n - MaxAudit ELSE 0

AuditInv ==
    \E X : decisions \in Seq(X) /\ audit \in Seq(X) /\ Suffix(audit, decisions, Beyond(Len(decisions)))

(* A decision is recorded.                                                 *)
LEMMA AuditGrows ==
    ASSUME NEW X, NEW d \in Seq(X), NEW l \in Seq(X), Suffix(l, d, Beyond(Len(d))), NEW e \in X
    PROVE  /\ AuditRecorded(l, e) \in Seq(X) /\ Append(d, e) \in Seq(X)
           /\ Suffix(AuditRecorded(l, e), Append(d, e), Beyond(Len(Append(d, e))))
<1>0. /\ Len(d) \in Nat /\ Len(l) \in Nat /\ MaxAudit \in Nat /\ MaxAudit # 0
      /\ Len(l) = Len(d) - Beyond(Len(d))
      /\ Append(d, e) \in Seq(X) /\ Len(Append(d, e)) = Len(d) + 1
  BY LenProperties, AppendProperties, GatewayAssumption DEF Suffix
<1>1. CASE Len(l) >= MaxAudit
  <2>1. Len(d) >= MaxAudit /\ Beyond(Len(d)) = Len(d) - MaxAudit /\ Beyond(Len(d) + 1) = Beyond(Len(d)) + 1
    BY <1>0, <1>1 DEF Beyond
  <2>2. l # <<>>
    <3>1. Len(<<>>) = 0
      OBVIOUS
    <3> QED BY <1>0, <1>1, <3>1
  <2>3. Tail(l) \in Seq(X) /\ Suffix(Tail(l), l, 1)
    BY <2>2, SuffixTail, HeadTailProperties
  <2>4. Suffix(Tail(l), d, Beyond(Len(d)) + 1)
    BY <2>3, SuffixOfSuffix
  <2>5. Suffix(Append(Tail(l), e), Append(d, e), Beyond(Len(d)) + 1) /\ Append(Tail(l), e) \in Seq(X)
    BY <2>3, <2>4, SuffixAppend, AppendProperties
  <2>6. AuditRecorded(l, e) = Append(Tail(l), e)
    BY <1>1 DEF AuditRecorded
  <2> QED BY <1>0, <2>1, <2>5, <2>6
<1>2. CASE ~(Len(l) >= MaxAudit)
  <2>1. Beyond(Len(d)) = 0 /\ Beyond(Len(d) + 1) = 0
    BY <1>0, <1>2 DEF Beyond
  <2>2. Suffix(Append(l, e), Append(d, e), 0) /\ Append(l, e) \in Seq(X)
    BY <2>1, SuffixAppend, AppendProperties
  <2>3. AuditRecorded(l, e) = Append(l, e)
    BY <1>2 DEF AuditRecorded
  <2> QED BY <1>0, <2>1, <2>2, <2>3
<1> QED BY <1>1, <1>2

(* Every step of the gateway keeps the audit's invariant.                  *)
LEMMA AuditStep ==
    ASSUME AuditInv, GatewayNext \/ UNCHANGED gatewayVars
    PROVE  AuditInv'
<1>1. CASE UNCHANGED <<audit, decisions>>
  BY <1>1 DEF AuditInv
<1>2. CASE UNCHANGED gatewayVars
  BY <1>1, <1>2 DEF gatewayVars
<1>3. ASSUME NEW c, Authorize(c) PROVE AuditInv'
  <2>1. PICK e : audit' = AuditRecorded(audit, e) /\ decisions' = Append(decisions, e)
    BY <1>3 DEF Authorize
  <2>2. PICK X : decisions \in Seq(X) /\ audit \in Seq(X) /\ Suffix(audit, decisions, Beyond(Len(decisions)))
    BY DEF AuditInv
  <2> DEFINE Y == X \cup {e}
  <2>3. decisions \in Seq(Y) /\ audit \in Seq(Y) /\ e \in Y
    BY <2>2
  <2> HIDE DEF Y
  <2>4. /\ AuditRecorded(audit, e) \in Seq(Y) /\ Append(decisions, e) \in Seq(Y)
        /\ Suffix(AuditRecorded(audit, e), Append(decisions, e), Beyond(Len(Append(decisions, e))))
    BY <2>2, <2>3, AuditGrows
  <2>5. audit' \in Seq(Y) /\ decisions' \in Seq(Y) /\ Suffix(audit', decisions', Beyond(Len(decisions')))
    BY <2>1, <2>4
  <2> QED BY <2>5 DEF AuditInv
<1>4. CASE GatewayNext
  <2>1. \/ UNCHANGED <<audit, decisions>>
        \/ \E c \in ApiCallers : Authorize(c)
    BY <1>4 DEF GatewayNext, Arrive, RateLimit, Respond, RegisterApiKey, RevokeApiKey, SetRole, AddEntityAcl, ApiTick
  <2> QED BY <1>1, <1>3, <2>1
<1> QED BY <1>2, <1>4

(* The audit is the end of the decisions.                                  *)
LEMMA AuditHolds == AuditInv => AuditIsNewest
<1> SUFFICES ASSUME NEW X, decisions \in Seq(X), audit \in Seq(X),
                    Suffix(audit, decisions, Beyond(Len(decisions)))
             PROVE  AuditIsNewest
  BY DEF AuditInv
<1>1. Beyond(Len(decisions)) \in 0 .. Len(decisions)
  BY DEF Suffix
<1>2. audit = SubSeq(decisions, Beyond(Len(decisions)) + 1, Len(decisions))
  BY <1>1, SuffixIsSubSeq
<1> QED BY <1>2 DEF AuditIsNewest, Beyond

(* At the start nothing was admitted or decided.                           *)
LEMMA GatewayStart ==
    ASSUME GatewayInit
    PROVE  LimiterInv /\ AuditInv
<1>1. /\ authConfig \in AuthConfigs /\ apiNow = 0 /\ audit = <<>> /\ decisions = <<>>
      /\ DOMAIN windows = {} /\ DOMAIN admitted = {}
  BY DEF GatewayInit
<1>2. <<>> \in Seq({}) /\ Len(<<>>) = 0 /\ 1 .. 0 = {} /\ 0 \in 0 .. 0
  OBVIOUS
<1>3. Beyond(0) = 0
  BY GatewayAssumption DEF Beyond
<1>4. Suffix(<<>>, <<>>, Beyond(Len(<<>>)))
  BY <1>2, <1>3 DEF Suffix
<1> QED BY <1>1, <1>2, <1>4 DEF LimiterInv, Clients, AuditInv

(* The gateway admits no more than the limit in any window of time, serves *)
(* a client again whose admissions are all a window old, and audits the    *)
(* newest decisions, for any clients, limits and windows.                  *)
THEOREM GatewayIsSound == Spec => []GatewaySound
<1>1. Init => LimiterInv /\ AuditInv
  BY GatewayStart DEF Init
<1>2. LimiterInv /\ AuditInv /\ [Next]_vars => LimiterInv' /\ AuditInv'
  BY FocusMoves, LimiterStep, AuditStep
<1>3. LimiterInv /\ AuditInv => GatewaySound
  BY LimiterHolds, AuditHolds DEF GatewaySound
<1> QED BY <1>1, <1>2, <1>3, PTL DEF Spec

-----------------------------------------------------------------------------
(* The plan cache.                                                         *)
Bumping(f) == {p \in Preparers : f[p].step = "bump"}

CacheTypes ==
    /\ maxEntries \in Nat /\ IsFiniteSet(Cached)
    /\ statements = [x \in Cached |-> statements[x]]
    /\ preparing = [p \in Preparers |-> preparing[p]]
    /\ generation \in Nat /\ changes \in Nat /\ evictions \in Nat /\ inserted \in Nat /\ expelled \in Nat

CacheInv == CacheTypes /\ CacheBounded /\ FingerprintsCover /\ EvictionsCounted /\ GenerationFollows

(* Statements leave together with their fingerprints, and are counted.     *)
LEMMA RemovedStep ==
    ASSUME CacheInv, NEW gone \in SUBSET Cached, Removed(gone), UNCHANGED <<maxEntries, inserted, expelled>>
    PROVE  /\ IsFiniteSet(Cached') /\ statements' = [x \in Cached' |-> statements'[x]]
           /\ evictions' \in Nat /\ CacheBounded' /\ FingerprintsCover' /\ EvictionsCounted'
<1>1. /\ Cached' = Cached \ gone /\ statements' = [x \in Cached' |-> statements'[x]]
      /\ fingerprints' = fingerprints \ gone /\ evictions' = evictions + Cardinality(gone)
      /\ orphaned' = orphaned
  BY DEF Removed, Without, Cached
<1>2. /\ IsFiniteSet(Cached) /\ maxEntries \in Nat /\ evictions \in Nat /\ inserted \in Nat /\ expelled \in Nat
  BY DEF CacheInv, CacheTypes
<1>3. IsFiniteSet(gone) /\ Cardinality(gone) \in Nat /\ Cardinality(Cached) \in Nat
  BY <1>2, FS_Subset, FS_CardinalityType
<1>4. IsFiniteSet(Cached') /\ Cardinality(Cached') = Cardinality(Cached) - Cardinality(gone)
  <2>1. /\ IsFiniteSet(Cached \ gone)
        /\ Cardinality(Cached \ gone) = Cardinality(Cached) - Cardinality(Cached \cap gone)
    BY <1>2, <1>3, FS_Difference
  <2>2. Cached \cap gone = gone
    OBVIOUS
  <2> QED BY <1>1, <2>1, <2>2
<1>5. Cardinality(Cached') <= Cardinality(Cached)
  BY <1>3, <1>4
<1>6. CacheBounded'
  <2>1. Cardinality(Cached) <= (IF maxEntries = 0 THEN 1 ELSE maxEntries)
    BY DEF CacheInv, CacheBounded
  <2>2. Cardinality(Cached') \in Nat
    BY <1>4, FS_CardinalityType
  <2> QED BY <1>2, <1>3, <1>5, <2>1, <2>2 DEF CacheBounded
<1>7. FingerprintsCover'
  BY <1>1 DEF CacheInv, FingerprintsCover
<1>8. EvictionsCounted'
  BY <1>1, <1>2, <1>3, <1>4 DEF CacheInv, EvictionsCounted
<1> QED BY <1>1, <1>2, <1>3, <1>4, <1>6, <1>7, <1>8

(* Who is about to bump the generation does not change.                    *)
LEMMA SameBumping ==
    ASSUME CacheInv, Bumping(preparing') = Bumping(preparing),
           \/ UNCHANGED <<generation, changes>>
           \/ generation' = generation + 1 /\ changes' = changes + 1
    PROVE  generation' \in Nat /\ changes' \in Nat /\ GenerationFollows'
<1>1. generation \in Nat /\ changes \in Nat
  BY DEF CacheInv, CacheTypes
<1>2. IsFiniteSet(Bumping(preparing)) /\ Cardinality(Bumping(preparing)) \in Nat
  BY CacheAssumption, FS_Subset, FS_CardinalityType DEF Bumping
<1>3. generation + Cardinality(Bumping(preparing)) = changes
  BY DEF CacheInv, GenerationFollows, Bumping
<1>4. generation' + Cardinality(Bumping(preparing')) = changes'
  BY <1>1, <1>2, <1>3
<1> QED BY <1>1, <1>4 DEF GenerationFollows, Bumping

(* A step that touches neither map nor the counts of entries.              *)
LEMMA SameEntries ==
    ASSUME CacheInv, Cached' = Cached, statements' = [x \in Cached' |-> statements'[x]],
           UNCHANGED <<maxEntries, fingerprints, orphaned, evictions, inserted, expelled>>
    PROVE  /\ IsFiniteSet(Cached') /\ evictions' \in Nat /\ inserted' \in Nat /\ expelled' \in Nat
           /\ CacheBounded' /\ FingerprintsCover' /\ EvictionsCounted'
<1>1. Cardinality(Cached') = Cardinality(Cached)
  OBVIOUS
<1> QED BY <1>1 DEF CacheInv, CacheTypes, CacheBounded, FingerprintsCover, EvictionsCounted

(* prepare stores its statement.                                           *)
LEMMA InsertStep ==
    ASSUME CacheInv, NEW p \in Preparers, PrepareInserts(p), UNCHANGED maxEntries
    PROVE  CacheInv'
<1> DEFINE id == Fingerprint(preparing[p].text)
<1>1. PICK gone \in Victims :
        /\ Cached' = (Cached \ gone) \cup {id} /\ statements' = [x \in Cached' |-> statements'[x]]
        /\ fingerprints' = (fingerprints \ gone) \cup {id}
        /\ evictions' = evictions + Cardinality(gone)
        /\ generation' = generation + Cardinality(gone)
        /\ changes' = changes + Cardinality(gone) + 1
        /\ inserted' = inserted + (IF id \in Cached \ gone THEN 0 ELSE 1)
        /\ orphaned' = orphaned \ {id}
  BY DEF PrepareInserts, Without, Cached
<1>2. /\ preparing' = [q \in Preparers |-> IF q = p THEN [step |-> "bump"] ELSE preparing[q]]
      /\ preparing[p].step = "insert" /\ UNCHANGED expelled
  BY DEF PrepareInserts, CacheInv, CacheTypes
<1> HIDE DEF id
<1>3. /\ IsFiniteSet(Cached) /\ maxEntries \in Nat /\ Cardinality(Cached) \in Nat
      /\ generation \in Nat /\ changes \in Nat /\ evictions \in Nat /\ inserted \in Nat /\ expelled \in Nat
  BY FS_CardinalityType DEF CacheInv, CacheTypes
<1>4. \/ gone = {} /\ (Cardinality(Cached) < maxEntries \/ Cached = {})
      \/ \E x \in Cached : gone = {x}
  BY <1>3 DEF Victims, LeastRecent, Cached
<1>5. /\ gone \subseteq Cached /\ Cardinality(gone) \in {0, 1}
      /\ IsFiniteSet(Cached \ gone) /\ Cardinality(Cached \ gone) = Cardinality(Cached) - Cardinality(gone)
  <2>1. CASE gone = {}
    <3>1. Cardinality(gone) = 0 /\ Cached \ gone = Cached
      BY <2>1, FS_EmptySet
    <3> QED BY <1>3, <2>1, <3>1
  <2>2. CASE \E x \in Cached : gone = {x}
    <3>1. PICK x \in Cached : gone = {x}
      BY <2>2
    <3>2. Cardinality(gone) = 1
      BY <3>1, FS_Singleton
    <3>3. IsFiniteSet(Cached \ {x}) /\ Cardinality(Cached \ {x}) = Cardinality(Cached) - 1
      BY <1>3, FS_RemoveElement
    <3> QED BY <3>1, <3>2, <3>3
  <2> QED BY <1>4, <2>1, <2>2
<1>6. /\ IsFiniteSet(Cached')
      /\ Cardinality(Cached') = Cardinality(Cached \ gone) + (IF id \in Cached \ gone THEN 0 ELSE 1)
  <2>1. CASE id \in Cached \ gone
    <3>1. Cached' = Cached \ gone
      BY <1>1, <2>1
    <3> QED BY <1>3, <1>5, <2>1, <3>1
  <2>2. CASE id \notin Cached \ gone
    BY <1>1, <1>5, <2>2, FS_AddElement
  <2> QED BY <2>1, <2>2
<1>7. CacheBounded'
  <2>1. Cardinality(Cached) <= (IF maxEntries = 0 THEN 1 ELSE maxEntries)
    BY DEF CacheInv, CacheBounded
  <2>2. Cardinality(Cached') <= Cardinality(Cached) - Cardinality(gone) + 1
    BY <1>3, <1>5, <1>6
  <2>3. Cardinality(Cached') \in Nat
    BY <1>6, FS_CardinalityType
  <2>4. CASE gone = {} /\ Cached = {}
    <3>1. Cardinality(Cached) = 0 /\ Cardinality(gone) = 0
      BY <2>4, FS_EmptySet
    <3> QED BY <1>1, <1>2, <1>3, <2>2, <2>3, <3>1 DEF CacheBounded
  <2>5. CASE gone = {} /\ Cardinality(Cached) < maxEntries
    <3>1. Cardinality(gone) = 0
      BY <2>5, FS_EmptySet
    <3> QED BY <1>3, <2>2, <2>3, <2>5, <3>1 DEF CacheBounded
  <2>6. CASE \E x \in Cached : gone = {x}
    <3>1. Cardinality(gone) = 1
      BY <2>6, FS_Singleton
    <3> QED BY <1>3, <2>1, <2>2, <2>3, <3>1 DEF CacheBounded
  <2> QED BY <1>4, <2>4, <2>5, <2>6
<1>8. FingerprintsCover'
  BY <1>1, <1>5 DEF CacheInv, FingerprintsCover
<1>9. EvictionsCounted'
  BY <1>1, <1>2, <1>3, <1>5, <1>6 DEF CacheInv, EvictionsCounted
<1>10. GenerationFollows'
  <2>1. IsFiniteSet(Bumping(preparing)) /\ p \notin Bumping(preparing)
    BY <1>2, CacheAssumption, FS_Subset DEF Bumping
  <2>2. Bumping(preparing') = Bumping(preparing) \cup {p}
    BY <1>2 DEF Bumping
  <2>3. /\ Cardinality(Bumping(preparing')) = Cardinality(Bumping(preparing)) + 1
        /\ Cardinality(Bumping(preparing)) \in Nat
    BY <2>1, <2>2, FS_AddElement, FS_CardinalityType
  <2>4. generation + Cardinality(Bumping(preparing)) = changes
    BY DEF CacheInv, GenerationFollows, Bumping
  <2>5. generation' + Cardinality(Bumping(preparing')) = changes'
    BY <1>1, <1>3, <1>5, <2>3, <2>4
  <2> QED BY <2>5 DEF GenerationFollows, Bumping
<1>11. CacheTypes'
  <2>1. preparing' = [q \in Preparers |-> preparing'[q]]
    BY <1>2
  <2>2. /\ generation' \in Nat /\ changes' \in Nat /\ evictions' \in Nat /\ inserted' \in Nat
        /\ expelled' \in Nat /\ maxEntries' \in Nat
    BY <1>1, <1>2, <1>3, <1>5
  <2> QED BY <1>1, <1>6, <2>1, <2>2 DEF CacheTypes
<1> QED BY <1>7, <1>8, <1>9, <1>10, <1>11 DEF CacheInv

(* prepare returns, and bumps the generation it owes.                      *)
LEMMA ReturnStep ==
    ASSUME CacheInv, NEW p \in Preparers, PrepareReturns(p), UNCHANGED maxEntries
    PROVE  CacheInv'
<1>1. /\ preparing' = [q \in Preparers |-> IF q = p THEN NoText ELSE preparing[q]]
      /\ preparing[p].step = "bump" /\ generation' = generation + 1
      /\ UNCHANGED <<statements, fingerprints, evictions, inserted, expelled, orphaned, changes>>
  BY DEF PrepareReturns, CacheInv, CacheTypes
<1>2. generation \in Nat /\ changes \in Nat
  BY DEF CacheInv, CacheTypes
<1>3. Cached' = Cached /\ statements' = [x \in Cached' |-> statements'[x]]
  BY <1>1 DEF CacheInv, CacheTypes, Cached
<1>4. /\ IsFiniteSet(Cached') /\ evictions' \in Nat /\ inserted' \in Nat /\ expelled' \in Nat
      /\ CacheBounded' /\ FingerprintsCover' /\ EvictionsCounted'
  BY <1>1, <1>3, SameEntries
<1>5. GenerationFollows'
  <2>1. IsFiniteSet(Bumping(preparing)) /\ p \in Bumping(preparing)
    BY <1>1, CacheAssumption, FS_Subset DEF Bumping
  <2>2. Bumping(preparing') = Bumping(preparing) \ {p}
    BY <1>1 DEF Bumping, NoText
  <2>3. /\ Cardinality(Bumping(preparing')) = Cardinality(Bumping(preparing)) - 1
        /\ Cardinality(Bumping(preparing)) \in Nat
    BY <2>1, <2>2, FS_RemoveElement, FS_CardinalityType
  <2>4. generation + Cardinality(Bumping(preparing)) = changes
    BY DEF CacheInv, GenerationFollows, Bumping
  <2>5. generation' + Cardinality(Bumping(preparing')) = changes'
    BY <1>1, <1>2, <2>3, <2>4
  <2> QED BY <2>5 DEF GenerationFollows, Bumping
<1>6. CacheTypes'
  <2>1. preparing' = [q \in Preparers |-> preparing'[q]] /\ generation' \in Nat /\ changes' \in Nat
    BY <1>1, <1>2
  <2>2. maxEntries' \in Nat
    BY DEF CacheInv, CacheTypes
  <2> QED BY <1>3, <1>4, <2>1, <2>2 DEF CacheTypes
<1> QED BY <1>4, <1>5, <1>6 DEF CacheInv

(* A step that changes at most what an entry holds, or who has looked.     *)
LEMMA EntryStep ==
    ASSUME CacheInv, Cached' = Cached, statements' = [x \in Cached' |-> statements'[x]],
           UNCHANGED <<maxEntries, fingerprints, orphaned, evictions, inserted, expelled>>,
           preparing' = [q \in Preparers |-> preparing'[q]], Bumping(preparing') = Bumping(preparing),
           \/ UNCHANGED <<generation, changes>>
           \/ generation' = generation + 1 /\ changes' = changes + 1
    PROVE  CacheInv'
<1>1. maxEntries' \in Nat
  BY DEF CacheInv, CacheTypes
<1> QED BY <1>1, SameEntries, SameBumping DEF CacheInv, CacheTypes

(* A step that removes entries and has nobody start or end a prepare.      *)
LEMMA EvictStep ==
    ASSUME CacheInv, NEW gone \in SUBSET Cached, Removed(gone),
           UNCHANGED <<maxEntries, inserted, expelled, preparing>>,
           \/ UNCHANGED <<generation, changes>>
           \/ generation' = generation + 1 /\ changes' = changes + 1
    PROVE  CacheInv'
<1>1. /\ maxEntries' \in Nat /\ inserted' \in Nat /\ expelled' \in Nat
      /\ preparing' = [q \in Preparers |-> preparing'[q]]
  BY DEF CacheInv, CacheTypes
<1>2. generation' \in Nat /\ changes' \in Nat /\ GenerationFollows'
  BY SameBumping
<1> QED BY <1>1, <1>2, RemovedStep DEF CacheInv, CacheTypes

(* execute_prepared drops what has expired and leaves its fingerprint.     *)
LEMMA ExpireStep ==
    ASSUME CacheInv, NEW id \in Cached, statements' = Without(statements, {id}),
           expelled' = expelled + 1, orphaned' = orphaned \cup {id},
           UNCHANGED <<maxEntries, fingerprints, evictions, inserted, generation, changes, preparing>>
    PROVE  CacheInv'
<1>1. Cached' = Cached \ {id} /\ statements' = [x \in Cached' |-> statements'[x]]
  BY DEF Without, Cached
<1>2. /\ IsFiniteSet(Cached) /\ maxEntries \in Nat /\ evictions \in Nat /\ inserted \in Nat /\ expelled \in Nat
      /\ Cardinality(Cached) \in Nat
  BY FS_CardinalityType DEF CacheInv, CacheTypes
<1>3. IsFiniteSet(Cached') /\ Cardinality(Cached') = Cardinality(Cached) - 1 /\ Cardinality(Cached') \in Nat
  BY <1>1, <1>2, FS_RemoveElement, FS_CardinalityType
<1>4. CacheBounded'
  <2>1. Cardinality(Cached) <= (IF maxEntries = 0 THEN 1 ELSE maxEntries)
    BY DEF CacheInv, CacheBounded
  <2> QED BY <1>2, <1>3, <2>1 DEF CacheBounded
<1>5. FingerprintsCover'
  <2>1. Cached \subseteq fingerprints /\ fingerprints \ Cached = orphaned
    BY DEF CacheInv, FingerprintsCover
  <2> QED BY <1>1, <2>1 DEF FingerprintsCover
<1>6. EvictionsCounted'
  <2>1. inserted = Cardinality(Cached) + evictions + expelled
    BY DEF CacheInv, EvictionsCounted
  <2> QED BY <1>2, <1>3, <2>1 DEF EvictionsCounted
<1>7. generation' \in Nat /\ changes' \in Nat /\ GenerationFollows'
  BY SameBumping
<1>8. CacheTypes'
  <2>1. preparing' = [q \in Preparers |-> preparing'[q]]
    BY DEF CacheInv, CacheTypes
  <2> QED BY <1>1, <1>2, <1>3, <1>7, <2>1 DEF CacheTypes
<1> QED BY <1>4, <1>5, <1>6, <1>7, <1>8 DEF CacheInv

(* prepare looks, or refreshes what it found.                              *)
LEMMA LookStep ==
    ASSUME CacheInv, NEW p \in Preparers, UNCHANGED maxEntries,
           PrepareRefreshes(p) \/ \E t \in Texts : PrepareLooks(p, t)
    PROVE  CacheInv'
<1>1. CASE PrepareRefreshes(p)
  <2>1. /\ preparing' = [q \in Preparers |-> IF q = p THEN NoText ELSE preparing[q]]
        /\ preparing[p].step = "refresh"
    BY <1>1 DEF PrepareRefreshes, CacheInv, CacheTypes
  <2>2. Bumping(preparing') = Bumping(preparing)
    BY <2>1 DEF Bumping, NoText
  <2>3. Cached' = Cached /\ statements' = [x \in Cached' |-> statements'[x]]
    BY <1>1 DEF PrepareRefreshes, CacheInv, CacheTypes, Cached
  <2>4. /\ UNCHANGED <<fingerprints, orphaned, evictions, inserted, expelled>>
        /\ generation' = generation + 1 /\ changes' = changes + 1
    BY <1>1 DEF PrepareRefreshes, Bump
  <2>5. preparing' = [q \in Preparers |-> preparing'[q]]
    BY <2>1
  <2> QED BY <2>2, <2>3, <2>4, <2>5, EntryStep
<1>2. ASSUME NEW t \in Texts, PrepareLooks(p, t) PROVE CacheInv'
  <2>1. PICK s \in {"refresh", "insert"} :
          preparing' = [q \in Preparers |-> IF q = p THEN [step |-> s, text |-> t] ELSE preparing[q]]
    BY <1>2 DEF PrepareLooks, CacheInv, CacheTypes
  <2>2. preparing[p].step = "idle"
    BY <1>2 DEF PrepareLooks
  <2>3. Bumping(preparing') = Bumping(preparing)
    BY <2>1, <2>2 DEF Bumping
  <2>4. UNCHANGED <<statements, fingerprints, orphaned, evictions, inserted, expelled, generation, changes>>
    BY <1>2 DEF PrepareLooks
  <2>5. Cached' = Cached /\ statements' = [x \in Cached' |-> statements'[x]]
    BY <2>4 DEF CacheInv, CacheTypes, Cached
  <2>6. preparing' = [q \in Preparers |-> preparing'[q]]
    BY <2>1
  <2> QED BY <2>3, <2>4, <2>5, <2>6, EntryStep
<1> QED BY <1>1, <1>2

(* execute_prepared, in its three cases.                                   *)
LEMMA ExecuteStep ==
    ASSUME CacheInv, NEW id, NEW params, ExecutePrepared(id, params), UNCHANGED maxEntries
    PROVE  CacheInv'
<1>1. UNCHANGED <<fingerprints, misses, evictions, cacheClock, preparing, inserted>>
  BY DEF ExecutePrepared
<1>2. /\ statements = [x \in Cached |-> statements[x]]
      /\ preparing = [q \in Preparers |-> preparing[q]]
  BY DEF CacheInv, CacheTypes
<1>3. CASE id \in Cached /\ IsExpired(statements[id])
  <2>1. /\ statements' = Without(statements, {id})
        /\ expelled' = expelled + 1 /\ orphaned' = orphaned \cup {id}
        /\ UNCHANGED <<hits, generation, changes>>
    BY <1>3 DEF ExecutePrepared
  <2> QED BY <1>1, <1>3, <2>1, ExpireStep
<1>4. CASE ~(id \in Cached /\ IsExpired(statements[id]))
  <2>1. /\ UNCHANGED <<expelled, orphaned>>
        /\ \/ UNCHANGED <<statements, generation, changes>>
           \/ /\ id \in Cached /\ Bump
              /\ statements' = [statements EXCEPT ![id].count = @ + 1, ![id].used = cacheClock]
    BY <1>4 DEF ExecutePrepared
  <2>2. /\ Cached' = Cached /\ statements' = [x \in Cached' |-> statements'[x]]
        /\ \/ UNCHANGED <<generation, changes>>
           \/ generation' = generation + 1 /\ changes' = changes + 1
    BY <1>2, <2>1 DEF Cached, Bump
  <2>3. preparing' = [q \in Preparers |-> preparing'[q]] /\ Bumping(preparing') = Bumping(preparing)
    BY <1>1, <1>2
  <2> QED BY <1>1, <2>1, <2>2, <2>3, EntryStep
<1> QED BY <1>3, <1>4

(* The operations that remove entries.                                     *)
LEMMA EvictionsStep ==
    ASSUME CacheInv, UNCHANGED maxEntries,
           InvalidateAll \/ EvictExpired \/ EvictLru \/ \E id \in Ids : Invalidate(id)
    PROVE  CacheInv'
<1>1. CASE InvalidateAll
  <2>1. /\ statements' = <<>> /\ fingerprints' = {} /\ orphaned' = {}
        /\ evictions' = evictions + Cardinality(Cached)
        /\ generation' = generation + 1 /\ changes' = changes + 1
        /\ UNCHANGED <<preparing, inserted, expelled>>
    BY <1>1 DEF InvalidateAll, Bump
  <2>2. Cached' = {} /\ statements' = [x \in Cached' |-> statements'[x]]
    BY <2>1 DEF Cached
  <2>3. IsFiniteSet(Cached') /\ Cardinality(Cached') = 0
    BY <2>2, FS_EmptySet
  <2>4. /\ maxEntries \in Nat /\ IsFiniteSet(Cached) /\ Cardinality(Cached) \in Nat
        /\ evictions \in Nat /\ inserted \in Nat /\ expelled \in Nat
        /\ preparing = [q \in Preparers |-> preparing[q]]
    BY FS_CardinalityType DEF CacheInv, CacheTypes
  <2>5. CacheBounded'
    BY <2>3, <2>4 DEF CacheBounded
  <2>6. FingerprintsCover'
    BY <2>1, <2>2 DEF FingerprintsCover
  <2>7. EvictionsCounted'
    BY <2>1, <2>3, <2>4 DEF CacheInv, EvictionsCounted
  <2>8. generation' \in Nat /\ changes' \in Nat /\ GenerationFollows'
    BY <2>1, SameBumping
  <2>9. CacheTypes'
    BY <2>1, <2>2, <2>3, <2>4, <2>8 DEF CacheTypes
  <2> QED BY <2>5, <2>6, <2>7, <2>8, <2>9 DEF CacheInv
<1>2. CASE EvictExpired
  <2> DEFINE gone == {x \in Cached : IsExpired(statements[x])}
  <2>1. /\ Removed(gone) /\ UNCHANGED <<preparing, inserted, expelled>>
        /\ \/ UNCHANGED <<generation, changes>>
           \/ generation' = generation + 1 /\ changes' = changes + 1
    BY <1>2 DEF EvictExpired, Bump
  <2>2. gone \in SUBSET Cached
    OBVIOUS
  <2> HIDE DEF gone
  <2> QED BY <2>1, <2>2, EvictStep
<1>3. CASE EvictLru
  <2>1. PICK x \in LeastRecent(statements) : Removed({x})
    BY <1>3 DEF EvictLru
  <2>2. {x} \in SUBSET Cached
    BY DEF LeastRecent, Cached
  <2>3. /\ UNCHANGED <<preparing, inserted, expelled>>
        /\ generation' = generation + 1 /\ changes' = changes + 1
    BY <1>3 DEF EvictLru, Bump
  <2> QED BY <2>1, <2>2, <2>3, EvictStep
<1>4. ASSUME NEW id \in Ids, Invalidate(id) PROVE CacheInv'
  <2>1. /\ {id} \in SUBSET Cached /\ Removed({id}) /\ UNCHANGED <<preparing, inserted, expelled>>
        /\ generation' = generation + 1 /\ changes' = changes + 1
    BY <1>4 DEF Invalidate, Bump
  <2> QED BY <2>1, EvictStep
<1> QED BY <1>1, <1>2, <1>3, <1>4

(* Every step of the cache.                                                *)
LEMMA CacheStep ==
    ASSUME CacheInv, CacheNext \/ UNCHANGED cacheVars
    PROVE  CacheInv'
<1>1. CASE UNCHANGED cacheVars
  BY <1>1 DEF cacheVars, CacheInv, CacheTypes, Cached, CacheBounded, FingerprintsCover,
              EvictionsCounted, GenerationFollows
<1>2. CASE CacheNext
  <2>1. UNCHANGED maxEntries
    BY <1>2 DEF CacheNext
  <2>2. CASE \E p \in Preparers : PrepareInserts(p)
    BY <2>1, <2>2, InsertStep
  <2>3. CASE \E p \in Preparers : PrepareReturns(p)
    BY <2>1, <2>3, ReturnStep
  <2>4. CASE \E p \in Preparers : PrepareRefreshes(p) \/ \E t \in Texts : PrepareLooks(p, t)
    BY <2>1, <2>4, LookStep
  <2>5. CASE \E id \in Ids, s \in Supplied : ExecutePrepared(id, s)
    BY <2>1, <2>5, ExecuteStep
  <2>6. CASE InvalidateAll \/ EvictExpired \/ EvictLru \/ \E id \in Ids : Invalidate(id)
    BY <2>1, <2>6, EvictionsStep
  <2>7. CASE \E id \in Ids : KeepPlan(id)
    <3>1. PICK id \in Ids : KeepPlan(id)
      BY <2>7
    <3>2. /\ UNCHANGED <<fingerprints, orphaned, evictions, inserted, expelled, preparing>>
          /\ generation' = generation + 1 /\ changes' = changes + 1
      BY <3>1 DEF KeepPlan, Bump
    <3>3. Cached' = Cached /\ statements' = [x \in Cached' |-> statements'[x]]
      BY <3>1 DEF KeepPlan, CacheInv, CacheTypes, Cached
    <3>4. preparing' = [q \in Preparers |-> preparing'[q]] /\ Bumping(preparing') = Bumping(preparing)
      BY <3>2 DEF CacheInv, CacheTypes
    <3> QED BY <2>1, <3>2, <3>3, <3>4, EntryStep
  <2>8. CASE CacheTick \/ (\E t \in Texts : LookupByQuery(t)) \/ \E id \in Ids : Get(id)
    <3>1. UNCHANGED <<statements, fingerprints, orphaned, evictions, inserted, expelled, preparing,
                      generation, changes>>
      BY <2>8 DEF CacheTick, LookupByQuery, Get
    <3>2. Cached' = Cached /\ statements' = [x \in Cached' |-> statements'[x]]
      BY <3>1 DEF CacheInv, CacheTypes, Cached
    <3>3. preparing' = [q \in Preparers |-> preparing'[q]] /\ Bumping(preparing') = Bumping(preparing)
      BY <3>1 DEF CacheInv, CacheTypes
    <3> QED BY <2>1, <3>1, <3>2, <3>3, EntryStep
  <2> QED BY <1>2, <2>2, <2>3, <2>4, <2>5, <2>6, <2>7, <2>8 DEF CacheNext
<1> QED BY <1>1, <1>2

LEMMA CacheStart ==
    ASSUME CacheInit
    PROVE  CacheInv
<1>1. /\ maxEntries \in Nat /\ statements = <<>> /\ fingerprints = {} /\ orphaned = {}
      /\ generation = 0 /\ evictions = 0 /\ inserted = 0 /\ expelled = 0 /\ changes = 0
      /\ preparing = [p \in Preparers |-> NoText]
  BY CacheAssumption DEF CacheInit
<1>2. Cached = {} /\ statements = [x \in Cached |-> statements[x]]
  BY <1>1 DEF Cached
<1>3. IsFiniteSet(Cached) /\ Cardinality(Cached) = 0
  BY <1>2, FS_EmptySet
<1>4. Bumping(preparing) = {} /\ Cardinality(Bumping(preparing)) = 0
  <2>1. Bumping(preparing) = {}
    BY <1>1 DEF Bumping, NoText
  <2> QED BY <2>1, FS_EmptySet
<1>5. generation + Cardinality(Bumping(preparing)) = changes
  BY <1>1, <1>4
<1> QED BY <1>1, <1>2, <1>3, <1>5 DEF CacheInv, CacheTypes, CacheBounded, FingerprintsCover,
                                     EvictionsCounted, GenerationFollows, Bumping

-----------------------------------------------------------------------------
(* The slow query log.  The last of the largest elements of a sequence.    *)
LastLargest(ts, i, n) == \A j \in 1 .. n : ts[j] < ts[i] \/ (ts[j] = ts[i] /\ j <= i)

LEMMA LargestExists ==
    ASSUME NEW ts \in Seq(Nat), ts # <<>>
    PROVE  \E i \in 1 .. Len(ts) : LastLargest(ts, i, Len(ts))
<1>0. Len(ts) \in Nat /\ Len(ts) # 0 /\ \A i \in 1 .. Len(ts) : ts[i] \in Nat
  BY LenProperties, EmptySeq
<1> DEFINE Bad == {n \in 1 .. Len(ts) : ~\E i \in 1 .. n : LastLargest(ts, i, n)}
<1>1. Bad = {}
  <2> SUFFICES ASSUME Bad # {} PROVE FALSE
    OBVIOUS
  <2>1. PICK n \in Bad : \A y \in Bad : n <= y
    <3>1. Bad \in SUBSET Nat
      BY <1>0
    <3> HIDE DEF Bad
    <3> QED BY <3>1, LeastOf
  <2>2. n \in 1 .. Len(ts) /\ n \in Nat /\ \A y \in Bad : ~(y < n)
    BY <1>0, <2>1
  <2>3. CASE n = 1
    <3>1. LastLargest(ts, 1, 1)
      BY <1>0, <2>2 DEF LastLargest
    <3>2. 1 \in 1 .. n
      BY <2>3
    <3> QED BY <2>1, <2>3, <3>1, <3>2
  <2>4. CASE n # 1
    <3>1. n - 1 \in 1 .. Len(ts) /\ n - 1 < n
      BY <1>0, <2>2, <2>4
    <3>2. PICK i \in 1 .. (n - 1) : LastLargest(ts, i, n - 1)
      BY <2>2, <3>1
    <3>3. i \in 1 .. n /\ n \in 1 .. n /\ ts[i] \in Nat /\ ts[n] \in Nat /\ i \in Nat /\ i < n
      BY <1>0, <2>2, <3>1, <3>2
    <3>4. \A j \in 1 .. n : j \in Nat /\ ts[j] \in Nat /\ (j \in 1 .. (n - 1) \/ j = n)
      BY <1>0, <2>2
    <3>5. CASE ts[n] < ts[i]
      <4>1. LastLargest(ts, i, n)
        BY <3>2, <3>4, <3>5 DEF LastLargest
      <4> QED BY <2>1, <3>3, <4>1
    <3>6. CASE ~(ts[n] < ts[i])
      <4>1. ASSUME NEW j \in 1 .. n PROVE ts[j] < ts[n] \/ (ts[j] = ts[n] /\ j <= n)
        <5>1. CASE j = n
          BY <3>3, <5>1
        <5>2. CASE j \in 1 .. (n - 1)
          <6>1. ts[j] < ts[i] \/ ts[j] = ts[i]
            BY <3>2, <5>2, Zenon DEF LastLargest
          <6>2. ts[j] \in Nat
            BY <3>4
          <6> QED BY <3>3, <3>6, <5>2, <6>1, <6>2, SMTT(60)
        <5> QED BY <3>4, <5>1, <5>2
      <4>2. LastLargest(ts, n, n)
        BY <4>1 DEF LastLargest
      <4> QED BY <2>1, <3>3, <4>2
    <3> QED BY <3>5, <3>6
  <2> QED BY <2>3, <2>4
<1>2. Len(ts) \in 1 .. Len(ts)
  BY <1>0
<1> QED BY <1>1, <1>2

(* The bottleneck of a record took longest.                                *)
WorstIsLongest(e) ==
    e.times # <<>> => \A k \in DOMAIN e.times : e.times[k] <= e.times[e.worst]

LEMMA BottleneckIsLongest ==
    ASSUME NEW ts \in Seq(Nat)
    PROVE  /\ Bottleneck(ts) \in Nat
           /\ ts # <<>> => \A k \in DOMAIN ts : ts[k] <= ts[Bottleneck(ts)]
<1>0. Len(ts) \in Nat /\ DOMAIN ts = 1 .. Len(ts) /\ \A i \in 1 .. Len(ts) : ts[i] \in Nat
  BY LenProperties
<1>1. CASE ts = <<>>
  BY <1>1 DEF Bottleneck
<1>2. CASE ts # <<>>
  <2>1. \E i \in DOMAIN ts : \A j \in DOMAIN ts : ts[j] < ts[i] \/ (ts[j] = ts[i] /\ j <= i)
    BY <1>0, <1>2, LargestExists DEF LastLargest
  <2>2. /\ Bottleneck(ts) \in DOMAIN ts
        /\ \A j \in DOMAIN ts : ts[j] < ts[Bottleneck(ts)] \/ (ts[j] = ts[Bottleneck(ts)] /\ j <= Bottleneck(ts))
    BY <1>2, <2>1, Zenon DEF Bottleneck
  <2>3. Bottleneck(ts) \in Nat /\ ts[Bottleneck(ts)] \in Nat
    BY <1>0, <2>2
  <2> QED BY <1>0, <2>2, <2>3
<1> QED BY <1>1, <1>2

(* A record on its way carries a limit that was configured once, and the   *)
(* log is a suffix of what was logged, within such a limit.                *)
SlowEntry == {e \in [id : Nat, ms : Nat, times : Seq(Nat), worst : Nat] : WorstIsLongest(e)}

RingTypes ==
    /\ started \in Nat /\ logConfig.max \in limits /\ limits \subseteq Nat
    /\ logging = [t \in Loggers |-> logging[t]]
    /\ entries \in Seq(SlowEntry) /\ logged \in Seq(SlowEntry)

RingInv ==
    /\ RingTypes
    /\ \A t \in Loggers : logging[t] # Quiet => logging[t].max \in limits /\ logging[t].entry \in SlowEntry
    /\ \E n \in 0 .. Len(logged) : Suffix(entries, logged, n)
    /\ \E m \in limits : Len(entries) <= m

(* Trimming keeps the newest.                                              *)
LEMMA TrimmedIs ==
    ASSUME NEW X, NEW s \in Seq(X), NEW n \in Nat
    PROVE  /\ Trimmed(s, n) \in Seq(X) /\ Len(Trimmed(s, n)) <= n
           /\ \E k \in 0 .. Len(s) : Suffix(Trimmed(s, n), s, k)
<1> DEFINE k == IF Len(s) > n THEN Len(s) - n ELSE 0
<1>0. Len(s) \in Nat
  BY LenProperties
<1>1. k \in 0 .. Len(s) /\ Len(s) - k <= n
  BY <1>0
<1>2. Trimmed(s, n) = SubSeq(s, k + 1, Len(s))
  BY DEF Trimmed
<1> HIDE DEF k
<1>3. Trimmed(s, n) \in Seq(X)
  <2>1. k + 1 \in Int /\ Len(s) \in Int /\ \A i \in (k + 1) .. Len(s) : s[i] \in X
    BY <1>0, <1>1
  <2> QED BY <1>2, <2>1, SubSeqProperties
<1>4. Suffix(Trimmed(s, n), s, k)
  BY <1>1, <1>2, <1>3, SuffixIsSubSeq
<1>5. Len(Trimmed(s, n)) <= n
  BY <1>0, <1>1, <1>4 DEF Suffix
<1> QED BY <1>1, <1>3, <1>4, <1>5

(* record decides.                                                         *)
LEMMA DecideStep ==
    ASSUME RingInv, NEW t \in Loggers, NEW x \in Executions, LogDecides(t, x)
    PROVE  RingInv'
<1> DEFINE e == [id |-> started + 1, ms |-> x.ms, times |-> x.times, worst |-> Bottleneck(x.times)]
           new == [max |-> logConfig.max, entry |-> e]
<1>1. x.ms \in Nat /\ x.times \in Seq(Nat)
  BY LogAssumption
<1>2. e \in SlowEntry
  <2>1. Bottleneck(x.times) \in Nat
    BY <1>1, BottleneckIsLongest
  <2>2. x.times # <<>> => \A k \in DOMAIN x.times : x.times[k] <= x.times[Bottleneck(x.times)]
    BY <1>1, BottleneckIsLongest
  <2>3. e \in [id : Nat, ms : Nat, times : Seq(Nat), worst : Nat]
    BY <1>1, <2>1 DEF RingInv, RingTypes
  <2>4. e.times = x.times /\ e.worst = Bottleneck(x.times)
    OBVIOUS
  <2> HIDE DEF e
  <2>5. WorstIsLongest(e)
    BY <2>2, <2>4 DEF WorstIsLongest
  <2> QED BY <2>3, <2>5 DEF SlowEntry
<1>3. /\ UNCHANGED <<logConfig, entries, logged, limits>> /\ started' = started + 1
      /\ logging' = logging \/ logging' = [logging EXCEPT ![t] = new]
  BY DEF LogDecides
<1>4. new.max \in limits /\ new.entry \in SlowEntry
  BY <1>2 DEF RingInv, RingTypes
<1> HIDE DEF new
<1>5. RingTypes'
  BY <1>3 DEF RingInv, RingTypes
<1>6. \A u \in Loggers : logging'[u] = logging[u] \/ logging'[u] = new
  BY <1>3 DEF RingInv, RingTypes
<1>7. \A u \in Loggers : logging'[u] # Quiet => logging'[u].max \in limits' /\ logging'[u].entry \in SlowEntry
  BY <1>3, <1>4, <1>6 DEF RingInv
<1> QED BY <1>3, <1>5, <1>7 DEF RingInv

(* record appends and trims.                                               *)
LEMMA AppendStep ==
    ASSUME RingInv, NEW t \in Loggers, LogAppends(t)
    PROVE  RingInv'
<1> DEFINE e == logging[t].entry
           max == logging[t].max
<1>1. e \in SlowEntry /\ max \in limits /\ max \in Nat
  BY DEF LogAppends, RingInv, RingTypes
<1>2. /\ entries' = Trimmed(Append(entries, e), max) /\ logged' = Append(logged, e)
      /\ logging' = [u \in Loggers |-> IF u = t THEN Quiet ELSE logging[u]]
      /\ UNCHANGED <<logConfig, started, limits>>
  BY DEF LogAppends, RingInv, RingTypes
<1> HIDE DEF e, max
<1>3. entries \in Seq(SlowEntry) /\ logged \in Seq(SlowEntry)
  BY DEF RingInv, RingTypes
<1>4. Append(entries, e) \in Seq(SlowEntry) /\ logged' \in Seq(SlowEntry)
  BY <1>1, <1>2, <1>3, AppendProperties
<1>5. PICK n \in 0 .. Len(logged) : Suffix(entries, logged, n)
  BY DEF RingInv
<1>6. Suffix(Append(entries, e), logged', n)
  BY <1>1, <1>2, <1>3, <1>5, SuffixAppend
<1>7. /\ entries' \in Seq(SlowEntry) /\ Len(entries') <= max
      /\ \E k \in 0 .. Len(Append(entries, e)) : Suffix(entries', Append(entries, e), k)
  BY <1>1, <1>2, <1>4, TrimmedIs
<1>8. PICK k : Suffix(entries', Append(entries, e), k)
  BY <1>7
<1>9. Suffix(entries', logged', n + k)
  BY <1>4, <1>6, <1>7, <1>8, SuffixOfSuffix
<1>10. n + k \in 0 .. Len(logged')
  BY <1>9 DEF Suffix
<1>11. RingTypes'
  <2>1. logging' = [u \in Loggers |-> logging'[u]]
    BY <1>2
  <2> QED BY <1>2, <1>4, <1>7, <2>1 DEF RingInv, RingTypes
<1>12. \A u \in Loggers : logging'[u] # Quiet => logging'[u].max \in limits' /\ logging'[u].entry \in SlowEntry
  BY <1>2 DEF RingInv
<1> QED BY <1>1, <1>2, <1>7, <1>9, <1>10, <1>11, <1>12 DEF RingInv

(* The log is cleared, or configured.                                      *)
LEMMA RingStep ==
    ASSUME RingInv, LogNext \/ UNCHANGED logVars
    PROVE  RingInv'
<1>1. CASE UNCHANGED logVars
  BY <1>1 DEF logVars, RingInv, RingTypes
<1>2. CASE LogClears
  <2>1. entries' = <<>> /\ logged' = <<>> /\ UNCHANGED <<logConfig, logging, started, limits>>
    BY <1>2 DEF LogClears
  <2>2. entries' \in Seq(SlowEntry) /\ logged' \in Seq(SlowEntry) /\ Len(entries') = 0 /\ Len(logged') = 0
    BY <2>1, EmptySeq
  <2>3. Suffix(entries', logged', 0) /\ 0 \in 0 .. Len(logged')
    BY <2>2 DEF Suffix
  <2>4. \E m \in limits' : Len(entries') <= m
    <3>1. logConfig.max \in limits /\ logConfig.max \in Nat
      BY DEF RingInv, RingTypes
    <3> QED BY <2>1, <2>2, <3>1
  <2>5. RingTypes'
    BY <2>1, <2>2 DEF RingInv, RingTypes
  <2> QED BY <2>1, <2>3, <2>4, <2>5 DEF RingInv
<1>3. ASSUME NEW c \in LogConfigs, SetLogConfig(c) PROVE RingInv'
  <2>1. c.max \in Nat
    BY LogAssumption
  <2>2. logConfig' = c /\ limits' = limits \cup {c.max} /\ UNCHANGED <<entries, logging, started, logged>>
    BY <1>3 DEF SetLogConfig
  <2>3. RingTypes'
    BY <2>1, <2>2 DEF RingInv, RingTypes
  <2> QED BY <2>2, <2>3 DEF RingInv
<1>4. ASSUME NEW t \in Loggers, (\E x \in Executions : LogDecides(t, x)) \/ LogAppends(t) PROVE RingInv'
  BY <1>4, DecideStep, AppendStep
<1> QED BY <1>1, <1>2, <1>3, <1>4 DEF LogNext

LEMMA RingStart ==
    ASSUME LogInit
    PROVE  RingInv
<1>1. entries \in Seq(SlowEntry) /\ logged \in Seq(SlowEntry) /\ Len(entries) = 0 /\ Len(logged) = 0
  BY EmptySeq DEF LogInit
<1>2. Suffix(entries, logged, 0) /\ 0 \in 0 .. Len(logged)
  BY <1>1 DEF Suffix
<1>3. logConfig.max \in Nat /\ limits = {logConfig.max}
  BY LogAssumption DEF LogInit
<1>4. \E m \in limits : Len(entries) <= m
  BY <1>1, <1>3
<1>5. RingTypes
  BY <1>1, <1>3 DEF LogInit, RingTypes
<1>6. \A t \in Loggers : logging[t] = Quiet
  BY DEF LogInit
<1> QED BY <1>2, <1>4, <1>5, <1>6 DEF RingInv

-----------------------------------------------------------------------------
(* The summary.  Total is the function below, which is unique and lies     *)
(* between the multiples of the extremes.                                  *)
Added(f, s, n) == f = [i \in 0 .. n |-> IF i = 0 THEN 0 ELSE f[i - 1] + s[i].ms]

LEMMA AddedExists ==
    ASSUME NEW s, Len(s) \in Nat
    PROVE  \E f : Added(f, s, Len(s))
<1> DEFINE Bad == {n \in 0 .. Len(s) : ~\E f : Added(f, s, n)}
<1>1. Bad = {}
  <2> SUFFICES ASSUME Bad # {} PROVE FALSE
    OBVIOUS
  <2>1. PICK n \in Bad : \A y \in Bad : n <= y
    <3>1. Bad \in SUBSET Nat
      OBVIOUS
    <3> HIDE DEF Bad
    <3> QED BY <3>1, LeastOf
  <2>2. n \in 0 .. Len(s) /\ n \in Nat /\ (\A y \in Bad : ~(y < n)) /\ ~\E f : Added(f, s, n)
    BY <2>1
  <2>3. CASE n = 0
    <3> DEFINE g == [i \in 0 .. 0 |-> 0]
    <3>1. Added(g, s, 0)
      <4>1. \A i \in 0 .. 0 : g[i] = IF i = 0 THEN 0 ELSE g[i - 1] + s[i].ms
        OBVIOUS
      <4> QED BY <4>1 DEF Added
    <3> QED BY <2>2, <2>3, <3>1
  <2>4. CASE n # 0
    <3>1. n - 1 \in 0 .. Len(s) /\ n - 1 < n /\ n - 1 \in Nat
      BY <2>2, <2>4
    <3>2. PICK f : Added(f, s, n - 1)
      BY <2>2, <3>1
    <3>3. \A i \in 0 .. (n - 1) : f[i] = IF i = 0 THEN 0 ELSE f[i - 1] + s[i].ms
      BY <3>2 DEF Added
    <3> DEFINE g == [i \in 0 .. n |-> IF i = n THEN f[n - 1] + s[n].ms ELSE f[i]]
    <3>4. ASSUME NEW i \in 0 .. n PROVE g[i] = IF i = 0 THEN 0 ELSE g[i - 1] + s[i].ms
      <4>1. CASE i = n
        <5>1. n - 1 \in 0 .. n /\ n - 1 # n /\ n \in 0 .. n
          BY <2>2, <2>4
        <5>2. g[n - 1] = f[n - 1] /\ g[n] = f[n - 1] + s[n].ms
          BY <5>1
        <5> HIDE DEF g
        <5> QED BY <2>4, <4>1, <5>2
      <4>2. CASE i # n
        <5>1. i \in 0 .. (n - 1) /\ (i # 0 => i - 1 \in 0 .. n /\ i - 1 # n)
          BY <2>2, <4>2
        <5>2. g[i] = f[i] /\ (i # 0 => g[i - 1] = f[i - 1])
          BY <4>2, <5>1
        <5> HIDE DEF g
        <5> QED BY <3>3, <5>1, <5>2
      <4> QED BY <4>1, <4>2
    <3>5. Added(g, s, n)
      <4>1. g = [i \in 0 .. n |-> g[i]]
        OBVIOUS
      <4> HIDE DEF g
      <4>2. [i \in 0 .. n |-> g[i]] = [i \in 0 .. n |-> IF i = 0 THEN 0 ELSE g[i - 1] + s[i].ms]
        BY <3>4
      <4> QED BY <4>1, <4>2, Zenon DEF Added
    <3> QED BY <2>2, <3>5
  <2> QED BY <2>3, <2>4
<1> QED BY <1>1

(* One more summand between the extremes.                                  *)
LEMMA OneMore ==
    ASSUME NEW n \in Nat, n # 0, NEW lo \in Nat, NEW hi \in Nat, NEW a \in Nat, NEW x \in Nat,
           (n - 1) * lo <= a, a <= (n - 1) * hi, lo <= x, x <= hi
    PROVE  n * lo <= a + x /\ a + x <= n * hi
<1>1. n * lo = (n - 1) * lo + lo /\ n * hi = (n - 1) * hi + hi
  OBVIOUS
<1>2. (n - 1) * lo \in Nat /\ (n - 1) * hi \in Nat
  OBVIOUS
<1> QED BY <1>1, <1>2

LEMMA TotalBetween ==
    ASSUME NEW s, Len(s) \in Nat, NEW lo \in Nat, NEW hi \in Nat,
           \A i \in 1 .. Len(s) : s[i].ms \in Nat /\ lo <= s[i].ms /\ s[i].ms <= hi
    PROVE  Total(s) \in Nat /\ Len(s) * lo <= Total(s) /\ Total(s) <= Len(s) * hi
<1> DEFINE f == CHOOSE g : Added(g, s, Len(s))
           Good(n) == f[n] \in Nat /\ n * lo <= f[n] /\ f[n] <= n * hi
           Bad == {n \in 0 .. Len(s) : ~Good(n)}
<1>1. Added(f, s, Len(s))
  BY AddedExists
<1>2. Total(s) = f[Len(s)]
  BY DEF Total, Added
<1>3. \A i \in 0 .. Len(s) : f[i] = IF i = 0 THEN 0 ELSE f[i - 1] + s[i].ms
  BY <1>1 DEF Added
<1> HIDE DEF f
<1>4. Bad = {}
  <2> SUFFICES ASSUME Bad # {} PROVE FALSE
    OBVIOUS
  <2>1. PICK n \in Bad : \A y \in Bad : n <= y
    <3>1. Bad \in SUBSET Nat
      OBVIOUS
    <3> HIDE DEF Bad
    <3> QED BY <3>1, LeastOf
  <2>2. n \in 0 .. Len(s) /\ n \in Nat /\ (\A y \in Bad : ~(y < n)) /\ ~Good(n)
    BY <2>1
  <2>3. CASE n = 0
    BY <1>3, <2>2, <2>3
  <2>4. CASE n # 0
    <3>1. n - 1 \in 0 .. Len(s) /\ n - 1 < n /\ n \in 1 .. Len(s)
      BY <2>2, <2>4
    <3>2. Good(n - 1)
      BY <2>2, <3>1
    <3>3. f[n] = f[n - 1] + s[n].ms
      BY <1>3, <2>2, <2>4
    <3>4. s[n].ms \in Nat /\ lo <= s[n].ms /\ s[n].ms <= hi
      BY <3>1
    <3>5. n * lo <= f[n - 1] + s[n].ms /\ f[n - 1] + s[n].ms <= n * hi
      BY <2>2, <2>4, <3>2, <3>4, OneMore
    <3>6. f[n] \in Nat
      <4>1. f[n - 1] \in Nat /\ s[n].ms \in Nat
        BY <3>2, <3>4, Zenon
      <4> HIDE DEF Good
      <4> QED BY <3>3, <4>1
    <3>7. n * lo <= f[n] /\ f[n] <= n * hi
      BY <3>3, <3>5, Zenon
    <3> QED BY <2>2, <3>6, <3>7, Zenon
  <2> QED BY <2>3, <2>4
<1>5. Len(s) \in 0 .. Len(s)
  OBVIOUS
<1> QED BY <1>2, <1>4, <1>5

(* A quotient between two multiples of its divisor.                        *)
LEMMA QuotientBetween ==
    ASSUME NEW n \in Nat, n # 0, NEW lo \in Nat, NEW hi \in Nat, NEW a \in Nat,
           n * lo <= a, a <= n * hi
    PROVE  lo <= a \div n /\ a \div n <= hi
  OBVIOUS

(* The log's invariant gives its properties.                               *)
LEMMA RingIsNewest ==
    ASSUME RingInv
    PROVE  LogIsNewestRun
<1>1. PICK n \in 0 .. Len(logged) : Suffix(entries, logged, n)
  BY DEF RingInv
<1>2. entries = SubSeq(logged, n + 1, Len(logged))
  BY <1>1, SuffixIsSubSeq DEF RingInv, RingTypes
<1> QED BY <1>2 DEF RingInv, LogIsNewestRun

LEMMA SummaryHolds ==
    ASSUME RingInv
    PROVE  SummaryCoherent
<1> SUFFICES ASSUME entries # <<>> PROVE SummaryCoherent
  BY DEF SummaryCoherent
<1>1. entries \in Seq(SlowEntry)
  BY DEF RingInv, RingTypes
<1>2. /\ Len(entries) \in Nat /\ Len(entries) # 0 /\ DOMAIN entries = 1 .. Len(entries)
      /\ \A i \in 1 .. Len(entries) : entries[i] \in SlowEntry
  BY <1>1, LenProperties, EmptySeq
<1>3. \A i \in 1 .. Len(entries) : entries[i].ms \in Nat /\ WorstIsLongest(entries[i])
  BY <1>2 DEF SlowEntry
<1> DEFINE times == {entries[i].ms : i \in DOMAIN entries}
           lo == CHOOSE x \in times : \A i \in DOMAIN entries : x <= entries[i].ms
           hi == CHOOSE x \in times : \A i \in DOMAIN entries : entries[i].ms <= x
<1>4. lo \in times /\ \A i \in DOMAIN entries : lo <= entries[i].ms
  <2>1. times \in SUBSET Nat /\ times # {} /\ \A i \in DOMAIN entries : entries[i].ms \in times
    BY <1>2, <1>3
  <2>2. \E x \in times : \A y \in times : x <= y
    BY <2>1, LeastOf
  <2>3. \E x \in times : \A i \in DOMAIN entries : x <= entries[i].ms
    BY <2>1, <2>2
  <2> QED BY <2>3, Zenon
<1>5. hi \in times /\ \A i \in DOMAIN entries : entries[i].ms <= hi
  <2> DEFINE ms == [i \in 1 .. Len(entries) |-> entries[i].ms]
  <2>1. ms \in Seq(Nat) /\ Len(ms) = Len(entries) /\ \A i \in 1 .. Len(entries) : ms[i] = entries[i].ms
    BY <1>2, <1>3
  <2> HIDE DEF ms
  <2>2. ms # <<>>
    BY <1>2, <2>1, EmptySeq
  <2>3. PICK k \in 1 .. Len(entries) : LastLargest(ms, k, Len(entries))
    BY <2>1, <2>2, LargestExists
  <2>4. \A i \in 1 .. Len(entries) : entries[i].ms < entries[k].ms \/ entries[i].ms = entries[k].ms
    BY <2>1, <2>3, Zenon DEF LastLargest
  <2>5. \A i \in 1 .. Len(entries) : entries[i].ms <= entries[k].ms
    BY <1>3, <2>4
  <2>6. \E x \in times : \A i \in DOMAIN entries : entries[i].ms <= x
    BY <1>2, <2>5
  <2> QED BY <2>6, Zenon
<1>6. lo \in Nat /\ hi \in Nat
  BY <1>2, <1>3, <1>4, <1>5
<1>7. /\ Summary(entries).min = lo /\ Summary(entries).max = hi
      /\ Summary(entries).avg = Total(entries) \div Len(entries)
  BY DEF Summary
<1> HIDE DEF lo, hi
<1>8. /\ Total(entries) \in Nat /\ Len(entries) * lo <= Total(entries) /\ Total(entries) <= Len(entries) * hi
  BY <1>2, <1>3, <1>4, <1>5, <1>6, TotalBetween
<1>9. lo <= Total(entries) \div Len(entries) /\ Total(entries) \div Len(entries) <= hi
  BY <1>2, <1>6, <1>8, QuotientBetween
<1>10. /\ {Summary(entries).min, Summary(entries).max} \subseteq times
       /\ Summary(entries).min <= Summary(entries).avg /\ Summary(entries).avg <= Summary(entries).max
  BY <1>4, <1>5, <1>7, <1>9, Zenon
<1>11. \A i \in DOMAIN entries : entries[i].times # <<>> =>
         \A k \in DOMAIN entries[i].times : entries[i].times[k] <= entries[i].times[entries[i].worst]
  BY <1>2, <1>3 DEF WorstIsLongest
<1> QED BY <1>10, <1>11 DEF SummaryCoherent

(* The planner's bounded buffers stay coherent: the plan cache within its  *)
(* limit with its two maps and its counters in step, though a prepare that *)
(* has looked inserts later and bumps the generation later still           *)
(* (prepared.rs), and the slow query log an unbroken run of the newest     *)
(* records, though a record trims by a limit read before it let the        *)
(* configuration go (slow_query.rs).                                       *)
THEOREM BuffersStayCoherent == Spec => []BuffersCoherent
<1>1. Init => CacheInv /\ RingInv
  BY CacheStart, RingStart DEF Init
<1>2. CacheInv /\ RingInv /\ [Next]_vars => CacheInv' /\ RingInv'
  BY FocusMoves, CacheStep, RingStep
<1>3. CacheInv /\ RingInv => BuffersCoherent
  BY RingIsNewest, SummaryHolds DEF CacheInv, BuffersCoherent
<1> QED BY <1>1, <1>2, <1>3, PTL DEF Spec

(* To make room, prepare drops only a statement that nobody used later     *)
(* than another, and what it stores is there (evict_lru_inner).            *)
LEMMA InsertDropsLeastRecent ==
    ASSUME CacheInv, CacheNext, NEW p \in Preparers,
           preparing[p].step = "insert", preparing'[p].step = "bump"
    PROVE  LET id == Fingerprint(preparing[p].text)
           IN  /\ id \in DOMAIN statements'
               /\ \A x \in Cached \ (DOMAIN statements' \cup {id}), y \in Cached :
                    statements[x].used <= statements[y].used
<1>0. preparing = [q \in Preparers |-> preparing[q]]
  BY DEF CacheInv, CacheTypes
<1>1. PrepareInserts(p)
  <2>1. UNCHANGED preparing => FALSE
    OBVIOUS
  <2>2. ASSUME NEW q \in Preparers, PrepareInserts(q) PROVE q = p
    BY <1>0, <2>2 DEF PrepareInserts
  <2>3. ASSUME NEW q \in Preparers, PrepareReturns(q) \/ PrepareRefreshes(q) PROVE FALSE
    <3>1. preparing' = [preparing EXCEPT ![q] = NoText]
      BY <2>3 DEF PrepareReturns, PrepareRefreshes
    <3> QED BY <1>0, <3>1 DEF NoText
  <2>4. ASSUME NEW q \in Preparers, NEW t \in Texts, PrepareLooks(q, t) PROVE FALSE
    <3>1. PICK w \in {"refresh", "insert"} : preparing' = [preparing EXCEPT ![q] = [step |-> w, text |-> t]]
      BY <2>4 DEF PrepareLooks
    <3> QED BY <1>0, <3>1
  <2>5. CASE \E q \in Preparers : PrepareInserts(q)
    BY <2>2, <2>5
  <2>6. CASE ~\E q \in Preparers : \/ PrepareInserts(q) \/ PrepareReturns(q) \/ PrepareRefreshes(q)
                                   \/ \E t \in Texts : PrepareLooks(q, t)
    <3>1. UNCHANGED preparing
      BY <2>6 DEF CacheNext, Get, ExecutePrepared, Invalidate, KeepPlan, LookupByQuery, InvalidateAll,
                  EvictExpired, EvictLru, CacheTick
    <3> QED BY <2>1, <3>1
  <2> QED BY <2>3, <2>4, <2>5, <2>6
<1> DEFINE id == Fingerprint(preparing[p].text)
<1>2. PICK gone \in Victims : DOMAIN statements' = (Cached \ gone) \cup {id}
  BY <1>1 DEF PrepareInserts, Without, Cached
<1>3. gone \subseteq LeastRecent(statements)
  BY DEF Victims
<1> HIDE DEF id
<1>4. \A x \in Cached \ (DOMAIN statements' \cup {id}) : x \in gone
  BY <1>2
<1>5. \A x \in gone, y \in Cached : statements[x].used <= statements[y].used
  BY <1>3 DEF LeastRecent, Cached
<1>6. /\ id \in DOMAIN statements'
      /\ \A x \in Cached \ (DOMAIN statements' \cup {id}), y \in Cached :
           statements[x].used <= statements[y].used
  BY <1>2, <1>4, <1>5
<1> QED BY <1>6 DEF id

(* A full cache gives up what was used least recently, and never the       *)
(* statement it is asked to store (prepared.rs, prepare).                  *)
THEOREM LeastRecentGiven == Spec => LeastRecentGoes
<1> DEFINE Goes(p) == LET id == Fingerprint(preparing[p].text)
                      IN  /\ id \in DOMAIN statements'
                          /\ \A x \in Cached \ (DOMAIN statements' \cup {id}), y \in Cached :
                               statements[x].used <= statements[y].used
           Action == \A p \in Preparers :
                       (preparing[p].step = "insert" /\ preparing'[p].step = "bump") => Goes(p)
<1>1. Init => CacheInv
  BY CacheStart DEF Init
<1>2. CacheInv /\ [Next]_vars => CacheInv'
  BY FocusMoves, CacheStep
<1>3. CacheInv /\ [Next]_vars => [Action]_cacheVars
  <2> SUFFICES ASSUME CacheInv, [Next]_vars, ~UNCHANGED cacheVars PROVE Action
    OBVIOUS
  <2>1. CacheNext
    BY FocusMoves
  <2> QED BY <2>1, InsertDropsLeastRecent
<1>4. Spec => [][Action]_cacheVars
  BY <1>1, <1>2, <1>3, PTL DEF Spec
<1> QED BY <1>4 DEF LeastRecentGoes

-----------------------------------------------------------------------------
(* The planner's operators on sequences                                    *)

(* Induction along an interval.                                            *)
LEMMA Along ==
    ASSUME NEW N \in Nat, NEW S, 0 \in S, \A i \in 1 .. N : i - 1 \in S => i \in S
    PROVE  N \in S /\ \A i \in 0 .. N : i \in S
<1> DEFINE Bad == {i \in 0 .. N : i \notin S}
<1>1. ASSUME Bad # {} PROVE FALSE
  <2>1. PICK k \in Bad : \A y \in Bad : k <= y
    <3>1. Bad \in SUBSET Nat
      OBVIOUS
    <3> HIDE DEF Bad
    <3> QED BY <1>1, <3>1, LeastOf
  <2>2. k \in 0 .. N /\ k \notin S
    BY <2>1, Zenon
  <2>3. k # 0
    BY <2>2
  <2>4. k - 1 \in 0 .. N /\ ~(k <= k - 1) /\ k \in 1 .. N
    BY <2>2, <2>3
  <2>5. k - 1 \in S
    BY <2>1, <2>4, Zenon
  <2> QED BY <2>2, <2>4, <2>5
<1>2. \A i \in 0 .. N : i \in S
  BY <1>1, Zenon
<1>3. N \in 0 .. N
  OBVIOUS
<1> QED BY <1>2, <1>3

Proceeds(f, V, a, step, N) ==
    f \in [0..N -> V] /\ f[0] = a /\ \A i \in 1..N : f[i] = step[<<i, f[i - 1]>>]

(* A function that is told where to start and how to go on exists: the     *)
(* recursive functions of the planner are what their definitions say.       *)
LEMMA Recurses ==
    ASSUME NEW V, NEW a \in V, NEW step \in [Nat \X V -> V], NEW N \in Nat
    PROVE  \E f : Proceeds(f, V, a, step, N)
<1> DEFINE Good(n) == \E f \in [0..n -> V] : f[0] = a /\ \A i \in 1..n : f[i] = step[<<i, f[i - 1]>>]
           Bad == {n \in Nat : ~Good(n)}
<1>1. ASSUME Bad # {} PROVE FALSE
  <2>1. PICK n \in Bad : \A y \in Bad : n <= y
    <3>1. Bad \in SUBSET Nat
      OBVIOUS
    <3> HIDE DEF Bad
    <3> QED BY <1>1, <3>1, LeastOf
  <2>2. n \in Nat /\ ~Good(n)
    BY <2>1
  <2>3. CASE n = 0
    <3> DEFINE g == [i \in 0..0 |-> a]
    <3>1. g \in [0..0 -> V] /\ g[0] = a
      OBVIOUS
    <3>2. \A i \in 1..0 : g[i] = step[<<i, g[i - 1]>>]
      OBVIOUS
    <3> HIDE DEF g
    <3>3. Good(0)
      BY <3>1, <3>2
    <3> QED BY <2>2, <2>3, <3>3
  <2>4. CASE n # 0
    <3>1. n - 1 \in Nat /\ ~(n <= n - 1)
      BY <2>2, <2>4
    <3>2. Good(n - 1)
      BY <2>1, <3>1
    <3>3. PICK f \in [0..(n - 1) -> V] : f[0] = a /\ \A i \in 1..(n - 1) : f[i] = step[<<i, f[i - 1]>>]
      BY <3>2
    <3> DEFINE g == [i \in 0..n |-> IF i = n THEN step[<<n, f[n - 1]>>] ELSE f[i]]
    <3>4. f[n - 1] \in V /\ step[<<n, f[n - 1]>>] \in V
      BY <2>2, <3>1, <3>3
    <3>5. g \in [0..n -> V]
      BY <2>2, <3>3, <3>4
    <3>6. \A i \in 0..n : g[i] = IF i = n THEN step[<<n, f[n - 1]>>] ELSE f[i]
      OBVIOUS
    <3> HIDE DEF g
    <3>7. g[0] = a
      BY <2>2, <2>4, <3>3, <3>6
    <3>8. \A i \in 1..n : g[i] = step[<<i, g[i - 1]>>]
      <4> SUFFICES ASSUME NEW i \in 1..n PROVE g[i] = step[<<i, g[i - 1]>>]
        OBVIOUS
      <4>1. g[i - 1] = f[i - 1]
        BY <2>2, <3>6
      <4>2. CASE i = n
        <5>1. g[n] = step[<<n, f[n - 1]>>]
          BY <2>2, <3>6
        <5> QED BY <4>1, <4>2, <5>1, Zenon
      <4>3. CASE i # n
        <5>1. i \in 1..(n - 1) /\ i \in 0..n
          BY <2>2, <4>3
        <5> QED BY <3>3, <3>6, <4>1, <4>3, <5>1
      <4> QED BY <4>2, <4>3
    <3>9. Good(n)
      BY <3>5, <3>7, <3>8
    <3> QED BY <2>2, <3>9
  <2> QED BY <2>3, <2>4
<1>2. Good(N)
  BY <1>1
<1> QED BY <1>2 DEF Proceeds

(* What stands at the chosen positions, and nothing else; once if it       *)
(* stands there once.                                                      *)
ChosenFn(s, at) ==
    CHOOSE f : f = [i \in 0 .. Len(s) |->
        IF i = 0 THEN <<>> ELSE IF i \in at THEN Append(f[i - 1], s[i]) ELSE f[i - 1]]

LEMMA ChosenFnIs ==
    ASSUME NEW X, NEW s \in Seq(X), NEW at
    PROVE  /\ KeptAt(s, at) = ChosenFn(s, at)[Len(s)] /\ ChosenFn(s, at)[0] = <<>>
           /\ \A i \in 1 .. Len(s) : ChosenFn(s, at)[i] = IF i \in at THEN Append(ChosenFn(s, at)[i - 1], s[i])
                                                       ELSE ChosenFn(s, at)[i - 1]
           /\ \A i \in 0 .. Len(s) : ChosenFn(s, at)[i] \in Seq(X)
<1> DEFINE V == Seq(X)
           step == [p \in Nat \X V |-> IF p[1] \in 1 .. Len(s) /\ p[1] \in at THEN Append(p[2], s[p[1]]) ELSE p[2]]
           N == Len(s)
<1>1. N \in Nat /\ <<>> \in V /\ \A i \in 1 .. N : s[i] \in X
  BY LenProperties, ElementOfSeq
<1>2. step \in [Nat \X V -> V]
  <2> SUFFICES ASSUME NEW p \in Nat \X V
               PROVE  (IF p[1] \in 1 .. N /\ p[1] \in at THEN Append(p[2], s[p[1]]) ELSE p[2]) \in V
    OBVIOUS
  <2>1. p[2] \in V
    OBVIOUS
  <2>2. CASE p[1] \in 1 .. N /\ p[1] \in at
    <3>1. s[p[1]] \in X
      BY <1>1, <2>2
    <3>2. Append(p[2], s[p[1]]) \in V
      BY <2>1, <3>1, AppendProperties
    <3> QED BY <2>2, <3>2
  <2> QED BY <2>1, <2>2
<1>3. \A i \in Nat, x \in V : step[<<i, x>>] = IF i \in 1 .. N /\ i \in at THEN Append(x, s[i]) ELSE x
  OBVIOUS
<1> HIDE DEF step, V
<1>4. PICK f : Proceeds(f, V, <<>>, step, N)
  BY <1>1, <1>2, Recurses
<1>5. f \in [0 .. N -> V] /\ f[0] = <<>> /\ \A i \in 1 .. N : f[i] = step[<<i, f[i - 1]>>]
  BY <1>4 DEF Proceeds
<1>6. ASSUME NEW i \in 1 .. N PROVE f[i] = IF i \in at THEN Append(f[i - 1], s[i]) ELSE f[i - 1]
  <2>1. i - 1 \in 0 .. N /\ i \in Nat
    BY <1>1
  <2>2. f[i - 1] \in V
    BY <1>5, <2>1
  <2> QED BY <1>3, <1>5, <2>1, <2>2
<1>7. f = [i \in 0 .. N |-> IF i = 0 THEN <<>> ELSE IF i \in at THEN Append(f[i - 1], s[i]) ELSE f[i - 1]]
  <2>1. ASSUME NEW i \in 0 .. N
        PROVE  f[i] = IF i = 0 THEN <<>> ELSE IF i \in at THEN Append(f[i - 1], s[i]) ELSE f[i - 1]
    <3>1. i # 0 => i \in 1 .. N
      BY <1>1
    <3> QED BY <1>5, <1>6, <3>1
  <2>2. f = [i \in 0 .. N |-> f[i]]
    BY <1>5
  <2>3. [i \in 0 .. N |-> f[i]] = [i \in 0 .. N |-> IF i = 0 THEN <<>> ELSE IF i \in at THEN Append(f[i - 1], s[i]) ELSE f[i - 1]]
    BY <2>1
  <2> QED BY <2>2, <2>3, Zenon
<1> DEFINE g == ChosenFn(s, at)
<1>8. g = [i \in 0 .. N |-> IF i = 0 THEN <<>> ELSE IF i \in at THEN Append(g[i - 1], s[i]) ELSE g[i - 1]]
  BY <1>7, Zenon DEF ChosenFn
<1>9. KeptAt(s, at) = g[N]
  BY DEF KeptAt, ChosenFn
<1> HIDE DEF g
<1>10. \A i \in 0 .. N : g[i] = IF i = 0 THEN <<>> ELSE IF i \in at THEN Append(g[i - 1], s[i]) ELSE g[i - 1]
  BY <1>8
<1>11. \A i \in 1 .. N : g[i] = IF i \in at THEN Append(g[i - 1], s[i]) ELSE g[i - 1]
  <2> SUFFICES ASSUME NEW i \in 1 .. N PROVE g[i] = IF i \in at THEN Append(g[i - 1], s[i]) ELSE g[i - 1]
    OBVIOUS
  <2>1. i \in 0 .. N /\ i # 0
    BY <1>1
  <2> QED BY <1>10, <2>1
<1>12. g[0] = <<>>
  <2>1. 0 \in 0 .. N
    BY <1>1
  <2> QED BY <1>10, <2>1
<1> DEFINE S == {i \in 0 .. N : g[i] \in V}
<1>13. 0 \in S
  BY <1>1, <1>12
<1>14. ASSUME NEW i \in 1 .. N, i - 1 \in S PROVE i \in S
  <2>1. g[i - 1] \in Seq(X) /\ s[i] \in X
    BY <1>1, <1>14 DEF V
  <2>2. Append(g[i - 1], s[i]) \in Seq(X)
    BY <2>1, AppendProperties
  <2>3. i \in 0 .. N
    BY <1>1
  <2> QED BY <1>11, <2>1, <2>2, <2>3 DEF V
<1>15. \A i \in 0 .. N : i \in S
  <2> HIDE DEF S
  <2> QED BY <1>1, <1>13, <1>14, Along
<1>16. \A i \in 0 .. N : g[i] \in Seq(X)
  BY <1>15 DEF V
<1> QED BY <1>9, <1>11, <1>12, <1>16 DEF g

Once(s) == \A i, j \in DOMAIN s : s[i] = s[j] => i = j

LEMMA KeptAtIs ==
    ASSUME NEW X, NEW s \in Seq(X), NEW at
    PROVE  /\ KeptAt(s, at) \in Seq(X)
           /\ ElemsOf(KeptAt(s, at)) = {s[i] : i \in {k \in DOMAIN s : k \in at}}
           /\ (\A i, j \in DOMAIN s : i \in at /\ j \in at /\ s[i] = s[j] => i = j) => Once(KeptAt(s, at))
<1> DEFINE g == ChosenFn(s, at)
           N == Len(s)
           Of(n) == {s[i] : i \in {k \in 1 .. n : k \in at}}
           Apart == \A i, j \in DOMAIN s : i \in at /\ j \in at /\ s[i] = s[j] => i = j
           Good(n) == ElemsOf(g[n]) = Of(n) /\ (Apart => Once(g[n]))
           S == {n \in 0 .. N : Good(n)}
<1>1. N \in Nat /\ DOMAIN s = 1 .. N
  BY LenProperties
<1>2. /\ KeptAt(s, at) = g[N] /\ g[0] = <<>>
      /\ \A i \in 1 .. N : g[i] = IF i \in at THEN Append(g[i - 1], s[i]) ELSE g[i - 1]
      /\ \A i \in 0 .. N : g[i] \in Seq(X)
  BY ChosenFnIs
<1> HIDE DEF g
<1>3. 0 \in S
  <2>1. DOMAIN g[0] = {}
    BY <1>2
  <2>2. ElemsOf(g[0]) = {} /\ Once(g[0])
    BY <2>1 DEF ElemsOf, Once
  <2>3. Of(0) = {}
    OBVIOUS
  <2> QED BY <1>1, <2>2, <2>3
<1>4. ASSUME NEW n \in 1 .. N, n - 1 \in S PROVE n \in S
  <2>1. n - 1 \in 0 .. N /\ n \in 0 .. N /\ n \in DOMAIN s /\ Good(n - 1)
    BY <1>1, <1>4
  <2>2. CASE n \notin at
    <3>1. g[n] = g[n - 1]
      BY <1>2, <2>2
    <3>2. Of(n) = Of(n - 1)
      <4>1. {k \in 1 .. n : k \in at} = {k \in 1 .. (n - 1) : k \in at}
        BY <1>1, <2>2
      <4> QED BY <4>1
    <3> QED BY <2>1, <3>1, <3>2
  <2>3. CASE n \in at
    <3> DEFINE h == g[n - 1]
               m == Len(h)
    <3>1. g[n] = Append(h, s[n])
      BY <1>2, <2>3
    <3>2. h \in Seq(X) /\ s[n] \in X
      BY <1>2, <2>1, ElementOfSeq
    <3>3. m \in Nat /\ DOMAIN h = 1 .. m
      BY <3>2, LenProperties
    <3>4. DOMAIN g[n] = 1 .. (m + 1) /\ g[n][m + 1] = s[n] /\ \A i \in 1 .. m : g[n][i] = h[i]
      <4>1. /\ Append(h, s[n]) \in Seq(X) /\ Len(Append(h, s[n])) = m + 1
            /\ Append(h, s[n])[m + 1] = s[n] /\ \A i \in 1 .. m : Append(h, s[n])[i] = h[i]
        BY <3>2, AppendProperties
      <4>2. DOMAIN Append(h, s[n]) = 1 .. (m + 1)
        BY <4>1, LenProperties
      <4> QED BY <3>1, <4>1, <4>2
    <3> HIDE DEF h, m
    <3>5. ElemsOf(h) = Of(n - 1) /\ (Apart => Once(h))
      BY <2>1 DEF h
    <3>6. ElemsOf(g[n]) = ElemsOf(h) \cup {s[n]}
      <4>1. 1 .. (m + 1) = 1 .. m \cup {m + 1}
        BY <3>3
      <4> HIDE DEF Good, S
      <4> QED BY <3>3, <3>4, <4>1 DEF ElemsOf
    <3>7. Of(n) = Of(n - 1) \cup {s[n]}
      <4>1. {k \in 1 .. n : k \in at} = {k \in 1 .. (n - 1) : k \in at} \cup {n}
        BY <1>1, <2>3
      <4> QED BY <4>1
    <3>8. ASSUME Apart PROVE Once(g[n])
      <4>1. ASSUME NEW i \in 1 .. m PROVE h[i] # s[n]
        <5>1. h[i] \in Of(n - 1)
          BY <3>3, <3>5, <4>1 DEF ElemsOf
        <5>2. PICK k \in 1 .. (n - 1) : k \in at /\ h[i] = s[k]
          BY <5>1
        <5>3. k \in DOMAIN s /\ k # n
          BY <1>1, <5>2
        <5> QED BY <2>1, <2>3, <3>8, <5>2, <5>3, Zenon
      <4>2. Once(h)
        BY <3>5, <3>8
      <4>3. ASSUME NEW i \in 1 .. (m + 1), NEW j \in 1 .. (m + 1), g[n][i] = g[n][j] PROVE i = j
        <5>1. (i \in 1 .. m \/ i = m + 1) /\ (j \in 1 .. m \/ j = m + 1)
          BY <3>3
        <5>2. CASE i \in 1 .. m /\ j \in 1 .. m
          <6>1. h[i] = h[j]
            BY <3>4, <4>3, <5>2
          <6> QED BY <3>3, <4>2, <5>2, <6>1 DEF Once
        <5>3. CASE i \in 1 .. m /\ j = m + 1
          BY <3>4, <4>1, <4>3, <5>3
        <5>4. CASE i = m + 1 /\ j \in 1 .. m
          BY <3>4, <4>1, <4>3, <5>4
        <5> QED BY <5>1, <5>2, <5>3, <5>4
      <4> QED BY <3>4, <4>3 DEF Once
    <3> QED BY <2>1, <3>5, <3>6, <3>7, <3>8
  <2> QED BY <2>2, <2>3
<1>5. N \in S
  <2> HIDE DEF S
  <2> QED BY <1>1, <1>3, <1>4, Along
<1>6. N \in 0 .. N
  BY <1>1
<1> QED BY <1>1, <1>2, <1>5, <1>6

ConcatFn(f, lists) == f = [i \in 0..Len(lists) |-> IF i = 0 THEN <<>> ELSE f[i - 1] \o lists[i]]

(* The members of two sequences together.                                  *)
LEMMA ConcatMembers ==
    ASSUME NEW X, NEW s \in Seq(X), NEW t \in Seq(X)
    PROVE  s \o t \in Seq(X) /\ ElemsOf(s \o t) = ElemsOf(s) \cup ElemsOf(t)
<1> DEFINE u == s \o t
<1>1. /\ u \in Seq(X) /\ Len(u) = Len(s) + Len(t)
      /\ \A i \in 1..(Len(s) + Len(t)) : u[i] = IF i <= Len(s) THEN s[i] ELSE t[i - Len(s)]
  BY ConcatProperties
<1>2. Len(s) \in Nat /\ Len(t) \in Nat /\ DOMAIN s = 1..Len(s) /\ DOMAIN t = 1..Len(t)
  BY LenProperties
<1> HIDE DEF u
<1>3. DOMAIN u = 1..(Len(s) + Len(t))
  BY <1>1, LenProperties
<1>4. \A i \in DOMAIN u : u[i] \in ElemsOf(s) \cup ElemsOf(t)
  <2> SUFFICES ASSUME NEW i \in DOMAIN u PROVE u[i] \in ElemsOf(s) \cup ElemsOf(t)
    OBVIOUS
  <2>1. CASE i <= Len(s)
    <3>1. i \in DOMAIN s /\ u[i] = s[i]
      BY <1>1, <1>2, <1>3, <2>1
    <3> QED BY <3>1 DEF ElemsOf
  <2>2. CASE ~(i <= Len(s))
    <3>1. i - Len(s) \in DOMAIN t /\ u[i] = t[i - Len(s)]
      BY <1>1, <1>2, <1>3, <2>2
    <3> QED BY <3>1 DEF ElemsOf
  <2> QED BY <2>1, <2>2
<1>5. \A i \in DOMAIN s : i \in DOMAIN u /\ u[i] = s[i]
  BY <1>1, <1>2, <1>3
<1>6. \A i \in DOMAIN t : i + Len(s) \in DOMAIN u /\ u[i + Len(s)] = t[i]
  <2> SUFFICES ASSUME NEW i \in DOMAIN t PROVE i + Len(s) \in DOMAIN u /\ u[i + Len(s)] = t[i]
    OBVIOUS
  <2>1. i + Len(s) \in 1..(Len(s) + Len(t)) /\ ~(i + Len(s) <= Len(s)) /\ (i + Len(s)) - Len(s) = i
    BY <1>2
  <2> QED BY <1>1, <1>3, <2>1
<1>7. ElemsOf(u) = ElemsOf(s) \cup ElemsOf(t)
  BY <1>4, <1>5, <1>6 DEF ElemsOf
<1> QED BY <1>1, <1>7 DEF u

(* The members of the joined lists are those of the lists.                 *)
LEMMA ConcatIs ==
    ASSUME NEW X, NEW lists \in Seq(Seq(X))
    PROVE  Concat(lists) \in Seq(X) /\ ElemsOf(Concat(lists)) = UNION {ElemsOf(lists[i]) : i \in 1..Len(lists)}
<1> DEFINE V == Seq(X)
           step == [p \in Nat \X V |-> IF p[1] \in 1..Len(lists) THEN p[2] \o lists[p[1]] ELSE p[2]]
<1>0. Len(lists) \in Nat /\ \A i \in 1..Len(lists) : lists[i] \in V
  BY LenProperties, ElementOfSeq
<1>1. step \in [Nat \X V -> V]
  <2> SUFFICES ASSUME NEW p \in Nat \X V
               PROVE  (IF p[1] \in 1..Len(lists) THEN p[2] \o lists[p[1]] ELSE p[2]) \in V
    OBVIOUS
  <2>1. p[2] \in V
    OBVIOUS
  <2>2. ASSUME p[1] \in 1..Len(lists) PROVE p[2] \o lists[p[1]] \in V
    BY <1>0, <2>1, <2>2, ConcatProperties
  <2> QED BY <2>1, <2>2
<1>2. <<>> \in V
  BY EmptySeq
<1>3. \A i \in 1..Len(lists) : \A x \in V : step[<<i, x>>] = x \o lists[i]
  <2> HIDE DEF V
  <2> SUFFICES ASSUME NEW i \in 1..Len(lists), NEW x \in V PROVE step[<<i, x>>] = x \o lists[i]
    OBVIOUS
  <2>1. <<i, x>> \in Nat \X V /\ <<i, x>>[1] = i /\ <<i, x>>[2] = x
    BY <1>0
  <2> QED BY <2>1, Zenon
<1> HIDE DEF step, V
<1>4. PICK f : Proceeds(f, V, <<>>, step, Len(lists))
  BY <1>0, <1>1, <1>2, Recurses
<1>5. f \in [0..Len(lists) -> V] /\ f[0] = <<>> /\ \A i \in 1..Len(lists) : f[i] = step[<<i, f[i - 1]>>]
  BY <1>4 DEF Proceeds
<1>6. ASSUME NEW i \in 1..Len(lists) PROVE f[i - 1] \in V /\ f[i] = f[i - 1] \o lists[i]
  <2>0. i - 1 \in 0..Len(lists)
    BY <1>0
  <2>1. f[i - 1] \in V
    BY <1>5, <2>0, Zenon
  <2> QED BY <1>3, <1>5, <2>1
<1>7. ConcatFn(f, lists)
  <2>1. ASSUME NEW i \in 0..Len(lists) PROVE f[i] = IF i = 0 THEN <<>> ELSE f[i - 1] \o lists[i]
    <3>1. CASE i = 0
      BY <1>5, <3>1
    <3>2. CASE i # 0
      <4>1. i \in 1..Len(lists)
        BY <1>0, <3>2
      <4> QED BY <1>6, <3>2, <4>1
    <3> QED BY <3>1, <3>2
  <2> QED BY <1>5, <2>1 DEF ConcatFn
<1> DEFINE g == CHOOSE h : ConcatFn(h, lists)
<1>8. ConcatFn(g, lists)
  BY <1>7
<1>9. Concat(lists) = g[Len(lists)]
  BY DEF Concat, ConcatFn
<1> HIDE DEF g
<1>10. \A i \in 0..Len(lists) : g[i] = IF i = 0 THEN <<>> ELSE g[i - 1] \o lists[i]
  BY <1>8 DEF ConcatFn
<1> DEFINE Good(n) == g[n] \in V /\ ElemsOf(g[n]) = UNION {ElemsOf(lists[i]) : i \in 1..n}
           Bad == {n \in 0..Len(lists) : ~Good(n)}
<1>11. ASSUME Bad # {} PROVE FALSE
  <2>1. PICK n \in Bad : \A y \in Bad : n <= y
    <3>1. Bad \in SUBSET Nat
      <4>1. \A i \in 0..Len(lists) : i \in Nat
        BY <1>0
      <4> QED BY <4>1, Zenon
    <3> HIDE DEF Bad
    <3> QED BY <1>11, <3>1, LeastOf
  <2>2. n \in 0..Len(lists) /\ ~Good(n)
    BY <2>1, Zenon
  <2>3. CASE n = 0
    <3>1. g[n] = <<>> /\ 1..n = {}
      BY <1>0, <1>10, <2>2, <2>3
    <3>2. DOMAIN <<>> = {}
      OBVIOUS
    <3>3. ElemsOf(<<>>) = {}
      BY <3>2 DEF ElemsOf
    <3>4. ElemsOf(g[n]) = UNION {ElemsOf(lists[i]) : i \in 1..n}
      BY <3>1, <3>3
    <3> QED BY <1>2, <2>2, <3>1, <3>4
  <2>4. CASE n # 0
    <3>1. n \in 1..Len(lists) /\ n - 1 \in 0..Len(lists) /\ ~(n <= n - 1) /\ 1..n = 1..(n - 1) \cup {n}
      BY <1>0, <2>2, <2>4
    <3>2. Good(n - 1)
      BY <2>1, <3>1, Zenon
    <3>3. g[n] = g[n - 1] \o lists[n] /\ lists[n] \in V
      BY <1>0, <1>10, <2>2, <2>4, <3>1
    <3>4. g[n] \in V /\ ElemsOf(g[n]) = ElemsOf(g[n - 1]) \cup ElemsOf(lists[n])
      BY <3>2, <3>3, ConcatMembers DEF V
    <3>5. ElemsOf(g[n]) = UNION {ElemsOf(lists[i]) : i \in 1..n}
      BY <3>1, <3>2, <3>4, Zenon
    <3> QED BY <2>2, <3>4, <3>5, Zenon
  <2> QED BY <2>3, <2>4
<1>12. Good(Len(lists))
  <2>1. Len(lists) \in 0..Len(lists)
    BY <1>0
  <2> QED BY <1>11, <2>1, Zenon
<1> HIDE DEF Good
<1> QED BY <1>9, <1>12 DEF Good, V

(* A sort is a rearrangement in the order of the keys.                     *)
Rearranges(p, n) ==
    /\ p \in [1 .. n -> 1 .. n]
    /\ \A i, j \in 1 .. n : p[i] = p[j] => i = j
    /\ \A k \in 1 .. n : \E i \in 1 .. n : p[i] = k

Before(key, j, i) == key[j] < key[i] \/ (key[j] = key[i] /\ j < i)

RankOf(key, n, i) == Cardinality({j \in 1 .. n : Before(key, j, i)})

LEMMA RanksDiffer ==
    ASSUME NEW n \in Nat, NEW key \in [1 .. n -> Int]
    PROVE  /\ \A k \in 1 .. n : \E i \in 1 .. n : RankOf(key, n, i) = k - 1
           /\ \A i, j \in 1 .. n : Before(key, i, j) => RankOf(key, n, i) < RankOf(key, n, j)
           /\ \A i, j \in 1 .. n : RankOf(key, n, i) = RankOf(key, n, j) => i = j
<1> DEFINE K == 1 .. n
           Below(i) == {j \in K : Before(key, j, i)}
           f == [i \in K |-> RankOf(key, n, i)]
<1>0. IsFiniteSet(K) /\ Cardinality(K) = n
  <2>1. (IF 1 > n THEN 0 ELSE n - 1 + 1) = n
    OBVIOUS
  <2> QED BY <2>1, FS_Interval
<1>1. ASSUME NEW i \in K PROVE Below(i) \in SUBSET (K \ {i}) /\ IsFiniteSet(Below(i)) /\ RankOf(key, n, i) \in 0 .. (n - 1)
  <2>1. Below(i) \in SUBSET (K \ {i})
    BY DEF Before
  <2>2. IsFiniteSet(K \ {i}) /\ Cardinality(K \ {i}) = n - 1
    BY <1>0, FS_RemoveElement
  <2>3. IsFiniteSet(Below(i)) /\ Cardinality(Below(i)) <= Cardinality(K \ {i})
    BY <2>1, <2>2, FS_Subset
  <2>4. Cardinality(Below(i)) \in Nat
    BY <2>3, FS_CardinalityType
  <2>5. Cardinality(Below(i)) \in 0 .. (n - 1)
    BY <2>2, <2>3, <2>4
  <2> QED BY <2>1, <2>3, <2>5 DEF RankOf
<1>2. ASSUME NEW i \in K, NEW j \in K, Before(key, i, j) PROVE RankOf(key, n, i) < RankOf(key, n, j)
  <2>1. Below(i) \in SUBSET Below(j)
    BY <1>2 DEF Before
  <2>2. i \in Below(j) /\ i \notin Below(i)
    BY <1>2 DEF Before
  <2>3. Below(i) # Below(j)
    BY <2>2
  <2>4. Cardinality(Below(i)) <= Cardinality(Below(j)) /\ Cardinality(Below(j)) # Cardinality(Below(i))
    BY <1>1, <2>1, <2>3, FS_Subset
  <2>5. Cardinality(Below(i)) \in Nat /\ Cardinality(Below(j)) \in Nat
    BY <1>1, FS_CardinalityType
  <2> QED BY <2>4, <2>5 DEF RankOf
<1>3. ASSUME NEW i \in K, NEW j \in K, i # j PROVE RankOf(key, n, i) # RankOf(key, n, j)
  <2>1. Before(key, i, j) \/ Before(key, j, i)
    BY <1>3 DEF Before
  <2>2. RankOf(key, n, i) < RankOf(key, n, j) \/ RankOf(key, n, j) < RankOf(key, n, i)
    BY <1>2, <2>1
  <2>3. RankOf(key, n, i) \in 0 .. (n - 1) /\ RankOf(key, n, j) \in 0 .. (n - 1)
    BY <1>1, Zenon
  <2> QED BY <2>2, <2>3
<1>4. f \in Injection(K, 0 .. (n - 1))
  <2>1. f \in [K -> 0 .. (n - 1)]
    BY <1>1
  <2>2. \A i, j \in K : f[i] = f[j] => i = j
    BY <1>3
  <2> HIDE DEF f
  <2> QED BY <2>1, <2>2 DEF Injection, IsInjective
<1>5. IsFiniteSet(0 .. (n - 1)) /\ Cardinality(0 .. (n - 1)) = n
  <2>1. n - 1 \in Int /\ (IF 0 > n - 1 THEN 0 ELSE n - 1 - 0 + 1) = n
    OBVIOUS
  <2> QED BY <2>1, FS_Interval
<1>6. f \in Surjection(K, 0 .. (n - 1))
  BY <1>0, <1>4, <1>5, FS_Injection
<1>7. ASSUME NEW k \in 1 .. n PROVE \E i \in K : RankOf(key, n, i) = k - 1
  <2>1. k - 1 \in 0 .. (n - 1)
    OBVIOUS
  <2>2. PICK i \in K : f[i] = k - 1
    BY <1>6, <2>1 DEF Surjection
  <2> QED BY <2>2
<1> QED BY <1>2, <1>3, <1>7

LEMMA SortedByIs ==
    ASSUME NEW n \in Nat, NEW s, DOMAIN s = 1 .. n, NEW key \in [1 .. n -> Int]
    PROVE  \E p : /\ Rearranges(p, n)
                  /\ SortedBy(s, key) = [k \in 1 .. n |-> s[p[k]]]
                  /\ \A i, j \in 1 .. n : i < j => key[p[i]] <= key[p[j]]
<1> DEFINE p == [k \in 1 .. n |-> CHOOSE i \in 1 .. n : RankOf(key, n, i) = k - 1]
<1>1. /\ \A k \in 1 .. n : \E i \in 1 .. n : RankOf(key, n, i) = k - 1
      /\ \A i, j \in 1 .. n : Before(key, i, j) => RankOf(key, n, i) < RankOf(key, n, j)
      /\ \A i, j \in 1 .. n : RankOf(key, n, i) = RankOf(key, n, j) => i = j
  BY RanksDiffer
<1>2. ASSUME NEW k \in 1 .. n PROVE p[k] \in 1 .. n /\ RankOf(key, n, p[k]) = k - 1
  <2> DEFINE c == CHOOSE i \in 1 .. n : RankOf(key, n, i) = k - 1
  <2>1. c \in 1 .. n /\ RankOf(key, n, c) = k - 1
    BY <1>1, Zenon
  <2>2. p[k] = c
    OBVIOUS
  <2> QED BY <2>1, <2>2, Zenon
<1>3. SortedBy(s, key) = [k \in 1 .. n |-> s[p[k]]]
  <2>1. DOMAIN s = 1 .. n
    OBVIOUS
  <2>2. SortedBy(s, key) = [k \in 1 .. n |-> s[CHOOSE i \in 1 .. n : RankOf(key, n, i) = k - 1]]
    BY <2>1 DEF SortedBy, RankOf, Before
  <2> QED BY <2>2
<1>4. p \in [1 .. n -> 1 .. n]
  <2>1. \A k \in 1 .. n : p[k] \in 1 .. n
    BY <1>2
  <2>2. p = [k \in 1 .. n |-> p[k]]
    OBVIOUS
  <2> HIDE DEF p
  <2> QED BY <2>1, <2>2
<1> HIDE DEF p
<1>5. ASSUME NEW i \in 1 .. n, NEW j \in 1 .. n, p[i] = p[j] PROVE i = j
  <2>1. i - 1 = j - 1
    BY <1>2, <1>5
  <2> QED BY <2>1
<1>6. ASSUME NEW k \in 1 .. n PROVE \E i \in 1 .. n : p[i] = k
  <2>1. IsFiniteSet(1 .. n) /\ Cardinality(1 .. n) = n
    <3>1. (IF 1 > n THEN 0 ELSE n - 1 + 1) = n
      OBVIOUS
    <3> QED BY <3>1, FS_Interval
  <2> DEFINE g == [i \in 1 .. n |-> p[i]]
  <2>2. g \in Injection(1 .. n, 1 .. n)
    <3>1. g \in [1 .. n -> 1 .. n] /\ \A i, j \in 1 .. n : g[i] = g[j] => i = j
      BY <1>4, <1>5
    <3> HIDE DEF g
    <3> QED BY <3>1 DEF Injection, IsInjective
  <2>3. g \in Surjection(1 .. n, 1 .. n)
    BY <2>1, <2>2, FS_Injection
  <2>4. PICK i \in 1 .. n : g[i] = k
    BY <2>3 DEF Surjection
  <2> QED BY <2>4
<1>7. ASSUME NEW i \in 1 .. n, NEW j \in 1 .. n, i < j PROVE key[p[i]] <= key[p[j]]
  <2>1. p[i] \in 1 .. n /\ p[j] \in 1 .. n /\ RankOf(key, n, p[i]) = i - 1 /\ RankOf(key, n, p[j]) = j - 1
    BY <1>2
  <2>2. ~Before(key, p[j], p[i])
    BY <1>1, <1>7, <2>1, SMTT(60)
  <2>3. key[p[i]] \in Int /\ key[p[j]] \in Int
    BY <2>1
  <2> QED BY <2>2, <2>3 DEF Before
<1>8. Rearranges(p, n)
  BY <1>4, <1>5, <1>6, Zenon DEF Rearranges
<1> QED BY <1>3, <1>7, <1>8, Zenon

-----------------------------------------------------------------------------
(* Sums                                                                    *)

(* f holds the sums of the first elements of s.                            *)
Sums(f, s, n) == f \in [0 .. n -> Int] /\ f[0] = 0 /\ \A i \in 1 .. n : f[i] = f[i - 1] + s[i]

LEMMA SumIs ==
    ASSUME NEW n \in Nat, NEW s \in [1 .. n -> Int]
    PROVE  \E f : Sums(f, s, n) /\ SumOf(s) = f[n]
<1> DEFINE step == [p \in Nat \X Int |-> IF p[1] \in 1 .. n THEN p[2] + s[p[1]] ELSE p[2]]
           F(f) == f = [i \in 0 .. n |-> IF i = 0 THEN 0 ELSE f[i - 1] + s[i]]
<1>1. step \in [Nat \X Int -> Int]
  OBVIOUS
<1>2. \A i \in 1 .. n, x \in Int : step[<<i, x>>] = x + s[i]
  OBVIOUS
<1> HIDE DEF step
<1>3. PICK f : Proceeds(f, Int, 0, step, n)
  <2>1. 0 \in Int
    OBVIOUS
  <2> QED BY <1>1, <2>1, Recurses, Zenon
<1>4. f \in [0 .. n -> Int] /\ f[0] = 0 /\ \A i \in 1 .. n : f[i] = step[<<i, f[i - 1]>>]
  BY <1>3 DEF Proceeds
<1>5. ASSUME NEW i \in 1 .. n PROVE f[i] = f[i - 1] + s[i]
  <2>1. i - 1 \in 0 .. n
    OBVIOUS
  <2>2. f[i - 1] \in Int
    BY <1>4, <2>1
  <2> QED BY <1>2, <1>4, <2>2
<1>6. F(f)
  <2>1. ASSUME NEW i \in 0 .. n PROVE f[i] = IF i = 0 THEN 0 ELSE f[i - 1] + s[i]
    <3>1. i # 0 => i \in 1 .. n
      OBVIOUS
    <3> QED BY <1>4, <1>5, <3>1
  <2>2. f = [i \in 0 .. n |-> f[i]]
    BY <1>4
  <2>3. [i \in 0 .. n |-> f[i]] = [i \in 0 .. n |-> IF i = 0 THEN 0 ELSE f[i - 1] + s[i]]
    BY <2>1
  <2> QED BY <2>2, <2>3, Zenon
<1> DEFINE g == CHOOSE h : F(h)
<1>7. F(g)
  BY <1>6, Zenon
<1>8. Len(s) = n
  OBVIOUS
<1>9. SumOf(s) = g[n]
  BY <1>8 DEF SumOf
<1> HIDE DEF g
<1>10. \A i \in 0 .. n : g[i] = IF i = 0 THEN 0 ELSE g[i - 1] + s[i]
  BY <1>7
<1> DEFINE S == {i \in 0 .. n : g[i] = f[i]}
<1>11. 0 \in S
  BY <1>4, <1>10
<1>12. ASSUME NEW i \in 1 .. n, i - 1 \in S PROVE i \in S
  <2>1. i \in 0 .. n /\ i # 0 /\ g[i - 1] = f[i - 1]
    BY <1>12
  <2> QED BY <1>5, <1>10, <2>1
<1>13. n \in S
  <2> HIDE DEF S
  <2> QED BY <1>11, <1>12, Along
<1>14. Sums(f, s, n)
  BY <1>4, <1>5 DEF Sums
<1> QED BY <1>9, <1>13, <1>14

LEMMA SumsAgree ==
    ASSUME NEW n \in Nat, NEW s, NEW f, NEW g, Sums(f, s, n), Sums(g, s, n)
    PROVE  f[n] = g[n]
<1> DEFINE S == {i \in 0 .. n : f[i] = g[i]}
<1>1. 0 \in S
  BY DEF Sums
<1>2. ASSUME NEW i \in 1 .. n, i - 1 \in S PROVE i \in S
  <2>1. i \in 0 .. n
    OBVIOUS
  <2> QED BY <1>2, <2>1 DEF Sums
<1>3. n \in S
  <2> HIDE DEF S
  <2> QED BY <1>1, <1>2, Along
<1> QED BY <1>3

(* Whatever holds the sums ends in the sum.                                *)
LEMMA SumEnds ==
    ASSUME NEW n \in Nat, NEW s \in [1 .. n -> Int], NEW f, Sums(f, s, n)
    PROVE  SumOf(s) = f[n]
<1>1. PICK g : Sums(g, s, n) /\ SumOf(s) = g[n]
  BY SumIs
<1> QED BY <1>1, SumsAgree

(* A sum of natural numbers covers each of them.                           *)
LEMMA SumCovers ==
    ASSUME NEW n \in Nat, NEW s \in [1 .. n -> Nat]
    PROVE  SumOf(s) \in Nat /\ \A i \in 1 .. n : s[i] <= SumOf(s)
<1>0. s \in [1 .. n -> Int]
  OBVIOUS
<1>1. PICK f : Sums(f, s, n) /\ SumOf(s) = f[n]
  BY <1>0, SumIs
<1> DEFINE Good(k) == f[k] \in Nat /\ \A i \in 1 .. k : s[i] <= f[k]
           S == {k \in 0 .. n : Good(k)}
<1>2. 0 \in S
  BY <1>1 DEF Sums
<1>3. ASSUME NEW k \in 1 .. n, k - 1 \in S PROVE k \in S
  <2>1. k \in 0 .. n /\ f[k] = f[k - 1] + s[k] /\ f[k - 1] \in Nat /\ s[k] \in Nat
    BY <1>1, <1>3 DEF Sums
  <2>2. ASSUME NEW i \in 1 .. k PROVE s[i] <= f[k]
    <3>1. s[i] \in Nat /\ (i = k \/ i \in 1 .. (k - 1))
      OBVIOUS
    <3>2. i \in 1 .. (k - 1) => s[i] <= f[k - 1]
      BY <1>3
    <3> HIDE DEF S
    <3> QED BY <2>1, <3>1, <3>2
  <2>3. f[k] \in Nat
    BY <2>1
  <2> QED BY <2>1, <2>2, <2>3
<1>4. n \in S
  <2> HIDE DEF S
  <2> QED BY <1>2, <1>3, Along
<1> QED BY <1>1, <1>4

LEMMA TwiceBoth ==
    ASSUME NEW a \in Int, NEW b \in Int, NEW c \in Int, NEW d \in Int, a <= 2 * b, c <= 2 * d
    PROVE  a + c <= 2 * (b + d)
OBVIOUS

(* What is at most twice its like in every place is so in the sum.         *)
LEMMA SumsCompare ==
    ASSUME NEW n \in Nat, NEW a \in [1 .. n -> Nat], NEW b \in [1 .. n -> Nat], \A i \in 1 .. n : a[i] <= 2 * b[i]
    PROVE  SumOf(a) <= 2 * SumOf(b)
<1>0. a \in [1 .. n -> Int] /\ b \in [1 .. n -> Int]
  OBVIOUS
<1>1. PICK f : Sums(f, a, n) /\ SumOf(a) = f[n]
  BY <1>0, SumIs
<1>2. PICK g : Sums(g, b, n) /\ SumOf(b) = g[n]
  BY <1>0, SumIs
<1> DEFINE S == {k \in 0 .. n : f[k] <= 2 * g[k]}
<1>3. 0 \in S
  BY <1>1, <1>2 DEF Sums
<1>4. ASSUME NEW k \in 1 .. n, k - 1 \in S PROVE k \in S
  <2>1. k \in 0 .. n /\ k - 1 \in 0 .. n
    OBVIOUS
  <2>2. f[k] = f[k - 1] + a[k] /\ g[k] = g[k - 1] + b[k] /\ f[k - 1] \in Int /\ g[k - 1] \in Int
    BY <1>1, <1>2, <2>1 DEF Sums
  <2>3. a[k] \in Nat /\ b[k] \in Nat /\ a[k] <= 2 * b[k]
    OBVIOUS
  <2>4. f[k - 1] <= 2 * g[k - 1]
    BY <1>4
  <2>5. f[k - 1] + a[k] <= 2 * (g[k - 1] + b[k])
    <3>1. a[k] \in Int /\ b[k] \in Int
      BY <2>3
    <3> HIDE DEF S
    <3> QED BY <2>2, <2>3, <2>4, <3>1, TwiceBoth, Zenon
  <2> QED BY <2>1, <2>2, <2>5
<1>5. n \in S
  <2> HIDE DEF S
  <2> QED BY <1>3, <1>4, Along
<1> QED BY <1>1, <1>2, <1>5

(* Replacing one summand.                                                  *)
LEMMA SumReplaced ==
    ASSUME NEW n \in Nat, NEW s \in [1 .. n -> Int], NEW j \in 1 .. n, NEW v \in Int
    PROVE  SumOf([s EXCEPT ![j] = v]) = SumOf(s) - s[j] + v
<1> DEFINE t == [s EXCEPT ![j] = v]
<1>1. PICK f : Sums(f, s, n) /\ SumOf(s) = f[n]
  BY SumIs
<1> DEFINE g == [i \in 0 .. n |-> IF i < j THEN f[i] ELSE f[i] - s[j] + v]
<1>2. t \in [1 .. n -> Int] /\ \A i \in 1 .. n : t[i] = IF i = j THEN v ELSE s[i]
  OBVIOUS
<1>3. f \in [0 .. n -> Int] /\ f[0] = 0 /\ \A i \in 1 .. n : f[i] = f[i - 1] + s[i]
  BY <1>1 DEF Sums
<1>4. g \in [0 .. n -> Int] /\ \A i \in 0 .. n : g[i] = IF i < j THEN f[i] ELSE f[i] - s[j] + v
  BY <1>3, SMTT(60)
<1> HIDE DEF t, g
<1>5. ASSUME NEW i \in 1 .. n PROVE g[i] = g[i - 1] + t[i]
  <2>1. /\ i \in 0 .. n /\ i - 1 \in 0 .. n /\ f[i - 1] \in Int /\ f[i] \in Int
        /\ s[i] \in Int /\ s[j] \in Int /\ f[i] = f[i - 1] + s[i]
    BY <1>3
  <2>2. CASE i < j
    BY <1>2, <1>4, <2>1, <2>2
  <2>3. CASE i = j
    <3>1. g[i - 1] = f[i - 1] /\ g[i] = f[i] - s[j] + v /\ t[i] = v
      BY <1>2, <1>4, <2>1, <2>3
    <3> QED BY <2>1, <2>3, <3>1
  <2>4. CASE i > j
    <3>1. g[i - 1] = f[i - 1] - s[j] + v /\ g[i] = f[i] - s[j] + v /\ t[i] = s[i]
      <4>1. ~(i - 1 < j) /\ ~(i < j) /\ i # j
        BY <2>4
      <4> QED BY <1>2, <1>4, <2>1, <4>1
    <3> QED BY <2>1, <3>1
  <2> QED BY <2>2, <2>3, <2>4
<1>6. g[0] = 0
  BY <1>3, <1>4
<1>7. Sums(g, t, n)
  BY <1>4, <1>5, <1>6 DEF Sums
<1>8. SumOf(t) = g[n]
  BY <1>2, <1>7, SumEnds
<1>9. g[n] = f[n] - s[j] + v
  <2>1. n \in 0 .. n /\ ~(n < j)
    OBVIOUS
  <2> QED BY <1>4, <2>1
<1> QED BY <1>1, <1>8, <1>9 DEF t

(* The last summand.                                                       *)
LEMMA SumLast ==
    ASSUME NEW n \in Nat, n # 0, NEW s \in [1 .. n -> Int]
    PROVE  SumOf(s) = SumOf([i \in 1 .. (n - 1) |-> s[i]]) + s[n]
<1> DEFINE t == [i \in 1 .. (n - 1) |-> s[i]]
<1>1. PICK f : Sums(f, s, n) /\ SumOf(s) = f[n]
  BY SumIs
<1>2. t \in [1 .. (n - 1) -> Int] /\ \A i \in 1 .. (n - 1) : t[i] = s[i]
  OBVIOUS
<1> DEFINE g == [i \in 0 .. (n - 1) |-> f[i]]
<1>3. f \in [0 .. n -> Int] /\ f[0] = 0 /\ \A i \in 1 .. n : f[i] = f[i - 1] + s[i]
  BY <1>1 DEF Sums
<1>4. g \in [0 .. (n - 1) -> Int] /\ \A i \in 0 .. (n - 1) : g[i] = f[i]
  BY <1>3
<1> HIDE DEF t, g
<1>5. Sums(g, t, n - 1)
  BY <1>2, <1>3, <1>4 DEF Sums
<1>6. n - 1 \in Nat
  OBVIOUS
<1>7. SumOf(t) = g[n - 1]
  BY <1>2, <1>5, <1>6, SumEnds
<1>8. g[n - 1] = f[n - 1] /\ f[n] = f[n - 1] + s[n]
  BY <1>3, <1>4, <1>6
<1> QED BY <1>1, <1>7, <1>8 DEF t

(* A rearrangement does not change the sum.                                *)
LEMMA RearrangedLast ==
    ASSUME NEW n \in Nat, n # 0, NEW p, Rearranges(p, n), p[n] = n
    PROVE  Rearranges([i \in 1 .. (n - 1) |-> p[i]], n - 1)
<1> DEFINE q == [i \in 1 .. (n - 1) |-> p[i]]
<1>1. /\ p \in [1 .. n -> 1 .. n] /\ \A i, j \in 1 .. n : p[i] = p[j] => i = j
      /\ \A k \in 1 .. n : \E i \in 1 .. n : p[i] = k
  BY DEF Rearranges
<1>2. \A i \in 1 .. (n - 1) : i \in 1 .. n /\ i # n /\ n \in 1 .. n /\ p[i] # n
  BY <1>1
<1>3. ASSUME NEW i \in 1 .. (n - 1) PROVE q[i] = p[i] /\ q[i] \in 1 .. (n - 1)
  <2>1. q[i] = p[i]
    OBVIOUS
  <2>2. p[i] \in 1 .. n /\ p[i] # n
    BY <1>1, <1>2
  <2> HIDE DEF q
  <2> QED BY <2>1, <2>2
<1>4. q \in [1 .. (n - 1) -> 1 .. (n - 1)]
  BY <1>3
<1> HIDE DEF q
<1>5. \A i, j \in 1 .. (n - 1) : q[i] = q[j] => i = j
  BY <1>1, <1>2, <1>3
<1>6. ASSUME NEW k \in 1 .. (n - 1) PROVE \E i \in 1 .. (n - 1) : q[i] = k
  <2>1. k \in 1 .. n /\ k # n
    OBVIOUS
  <2>2. PICK i \in 1 .. n : p[i] = k
    BY <1>1, <2>1
  <2>3. i # n
    BY <2>1, <2>2
  <2>4. i \in 1 .. (n - 1)
    BY <2>3
  <2> QED BY <1>3, <2>2, <2>4
<1>7. Rearranges(q, n - 1)
  BY <1>4, <1>5, <1>6 DEF Rearranges
<1> QED BY <1>7 DEF q

LEMMA RearrangedSwap ==
    ASSUME NEW n \in Nat, NEW p, Rearranges(p, n), NEW j \in 1 .. n, NEW m \in 1 .. n
    PROVE  Rearranges([i \in 1 .. n |-> IF i = j THEN p[m] ELSE IF i = m THEN p[j] ELSE p[i]], n)
<1> DEFINE q == [i \in 1 .. n |-> IF i = j THEN p[m] ELSE IF i = m THEN p[j] ELSE p[i]]
<1>1. /\ p \in [1 .. n -> 1 .. n] /\ \A i, k \in 1 .. n : p[i] = p[k] => i = k
      /\ \A k \in 1 .. n : \E i \in 1 .. n : p[i] = k
  BY DEF Rearranges
<1>2. q \in [1 .. n -> 1 .. n] /\ \A i \in 1 .. n : q[i] = IF i = j THEN p[m] ELSE IF i = m THEN p[j] ELSE p[i]
  BY <1>1
<1> HIDE DEF q
<1>3. \A i, k \in 1 .. n : q[i] = q[k] => i = k
  BY <1>1, <1>2, ZenonT(60)
<1>4. ASSUME NEW k \in 1 .. n PROVE \E i \in 1 .. n : q[i] = k
  <2>1. PICK i \in 1 .. n : p[i] = k
    BY <1>1
  <2>2. CASE i = j
    <3>1. q[m] = k
      BY <1>2, <2>1, <2>2
    <3> QED BY <3>1
  <2>3. CASE i = m
    <3>1. q[j] = k
      BY <1>2, <2>1, <2>3
    <3> QED BY <3>1
  <2>4. CASE i # j /\ i # m
    <3>1. q[i] = k
      BY <1>2, <2>1, <2>4
    <3> QED BY <3>1
  <2> QED BY <2>2, <2>3, <2>4
<1>5. Rearranges(q, n)
  BY <1>2, <1>3, <1>4 DEF Rearranges
<1> QED BY <1>5 DEF q

(* Exchanging two summands.                                                *)
LEMMA SumSwapped ==
    ASSUME NEW n \in Nat, NEW t \in [1 .. n -> Int], NEW j \in 1 .. n, NEW m \in 1 .. n
    PROVE  SumOf([i \in 1 .. n |-> IF i = j THEN t[m] ELSE IF i = m THEN t[j] ELSE t[i]]) = SumOf(t)
<1> DEFINE u == [i \in 1 .. n |-> IF i = j THEN t[m] ELSE IF i = m THEN t[j] ELSE t[i]]
           a == [t EXCEPT ![j] = t[m]]
           b == [a EXCEPT ![m] = t[j]]
<1>1. CASE j = m
  <2>1. u = t
    <3>1. \A i \in 1 .. n : u[i] = t[i]
      BY <1>1
    <3>2. u \in [1 .. n -> Int]
      OBVIOUS
    <3> HIDE DEF u
    <3> QED BY <3>1, <3>2
  <2> QED BY <2>1
<1>2. CASE j # m
  <2>1. a \in [1 .. n -> Int] /\ a[m] = t[m] /\ t[m] \in Int /\ t[j] \in Int
    BY <1>2
  <2>2. u = b
    <3>1. \A i \in 1 .. n : u[i] = b[i]
      BY <1>2
    <3>2. u \in [1 .. n -> Int] /\ b \in [1 .. n -> Int]
      BY <2>1
    <3> HIDE DEF u, b
    <3> QED BY <3>1, <3>2
  <2>3. SumOf(a) = SumOf(t) - t[j] + t[m]
    BY <2>1, SumReplaced
  <2> HIDE DEF a
  <2>4. SumOf(b) = SumOf(a) - a[m] + t[j]
    BY <2>1, SumReplaced
  <2>5. SumOf(t) \in Int
    <3>1. PICK f : Sums(f, t, n) /\ SumOf(t) = f[n]
      BY SumIs
    <3>2. n \in 0 .. n
      OBVIOUS
    <3> QED BY <3>1, <3>2 DEF Sums
  <2>6. SumOf(b) = SumOf(t)
    <3> HIDE DEF b
    <3> QED BY <2>1, <2>3, <2>4, <2>5
  <2> HIDE DEF b, u
  <2>7. SumOf(u) = SumOf(t)
    BY <2>2, <2>6, Zenon
  <2> QED BY <2>7, Zenon DEF u
<1> QED BY <1>1, <1>2

LEMMA SumRearranged ==
    ASSUME NEW N \in Nat, NEW S \in [1 .. N -> Int], NEW P, Rearranges(P, N)
    PROVE  SumOf([i \in 1 .. N |-> S[P[i]]]) = SumOf(S)
<1> DEFINE Same(n, s, p) == SumOf([i \in 1 .. n |-> s[p[i]]]) = SumOf(s)
           Good == {n \in 0 .. N : \A s \in [1 .. n -> Int] : \A p \in [1 .. n -> 1 .. n] :
                      Rearranges(p, n) => Same(n, s, p)}
<1>1. 0 \in Good
  <2>1. ASSUME NEW s \in [1 .. 0 -> Int], NEW p PROVE Same(0, s, p)
    <3>1. [i \in 1 .. 0 |-> s[p[i]]] = s
      OBVIOUS
    <3> QED BY <3>1
  <2> QED BY <2>1
<1>2. ASSUME NEW n \in 1 .. N, n - 1 \in Good PROVE n \in Good
  <2>0. n \in Nat /\ n # 0 /\ n - 1 \in Nat /\ n \in 0 .. N /\ n \in 1 .. n
    OBVIOUS
  <2>1. ASSUME NEW s \in [1 .. n -> Int], NEW p \in [1 .. n -> 1 .. n], Rearranges(p, n) PROVE Same(n, s, p)
    <3>1. PICK j \in 1 .. n : p[j] = n
      BY <2>0, <2>1 DEF Rearranges
    <3> DEFINE q == [i \in 1 .. n |-> IF i = j THEN p[n] ELSE IF i = n THEN p[j] ELSE p[i]]
               t == [i \in 1 .. n |-> s[p[i]]]
               u == [i \in 1 .. n |-> s[q[i]]]
               r == [i \in 1 .. (n - 1) |-> q[i]]
               v == [i \in 1 .. (n - 1) |-> s[i]]
               w == [i \in 1 .. (n - 1) |-> v[r[i]]]
    <3>2. Rearranges(q, n)
      BY <2>0, <2>1, RearrangedSwap
    <3>3. q \in [1 .. n -> 1 .. n] /\ q[n] = n
      BY <2>0, <3>1, <3>2 DEF Rearranges
    <3>4. t \in [1 .. n -> Int] /\ u \in [1 .. n -> Int]
      BY <3>3
    <3>5. u = [i \in 1 .. n |-> IF i = j THEN t[n] ELSE IF i = n THEN t[j] ELSE t[i]]
      BY <2>0
    <3> HIDE DEF Good, q
    <3>6. SumOf(u) = SumOf(t)
      <4> HIDE DEF u, t
      <4> QED BY <2>0, <3>4, <3>5, SumSwapped, ZenonT(60)
    <3>7. Rearranges(r, n - 1)
      BY <2>0, <3>2, <3>3, RearrangedLast
    <3>8. v \in [1 .. (n - 1) -> Int] /\ r \in [1 .. (n - 1) -> 1 .. (n - 1)]
      <4>1. \A i \in 1 .. (n - 1) : i \in 1 .. n
        BY <2>0
      <4>2. v \in [1 .. (n - 1) -> Int]
        BY <4>1
      <4> HIDE DEF r, v
      <4> QED BY <3>7, <4>2 DEF Rearranges
    <3>9. SumOf(w) = SumOf(v)
      <4> HIDE DEF v, r
      <4> QED BY <1>2, <3>7, <3>8 DEF Good
    <3>10. [i \in 1 .. (n - 1) |-> u[i]] = w
      <4>1. ASSUME NEW i \in 1 .. (n - 1) PROVE u[i] = v[r[i]]
        <5>1. i \in 1 .. n
          BY <2>0
        <5>2. r[i] \in 1 .. (n - 1)
          <6> HIDE DEF r
          <6> QED BY <3>8
        <5>3. r[i] = q[i]
          OBVIOUS
        <5>4. u[i] = s[q[i]]
          BY <5>1
        <5>5. v[r[i]] = s[r[i]]
          <6> HIDE DEF r
          <6> QED BY <5>2
        <5> HIDE DEF u, v, r
        <5> QED BY <5>3, <5>4, <5>5
      <4> HIDE DEF u, v, r
      <4>2. [i \in 1 .. (n - 1) |-> u[i]] = [i \in 1 .. (n - 1) |-> v[r[i]]]
        BY <4>1
      <4> QED BY <4>2
    <3>11. SumOf(u) = SumOf([i \in 1 .. (n - 1) |-> u[i]]) + u[n]
      <4> HIDE DEF u
      <4> QED BY <2>0, <3>4, SumLast
    <3>12. SumOf(s) = SumOf(v) + s[n]
      BY <2>0, SumLast
    <3>13. u[n] = s[n]
      BY <2>0, <3>3
    <3>14. SumOf(t) = SumOf(s)
      <4> HIDE DEF t, u, v, w
      <4> QED BY <3>6, <3>9, <3>10, <3>11, <3>12, <3>13
    <3> QED BY <3>14
  <2> QED BY <2>0, <2>1
<1>3. N \in Good
  <2> HIDE DEF Good
  <2> QED BY <1>1, <1>2, Along
<1>4. P \in [1 .. N -> 1 .. N]
  BY DEF Rearranges
<1> QED BY <1>3, <1>4

-----------------------------------------------------------------------------
(* From the syntax tree to the nodes of the logical plan                   *)

LEMMA ModalitiesAre ==
    /\ PlanModalities = {"graph", "vector", "tensor", "semantic", "document", "temporal"}
    /\ AllModalities \in Seq(PlanModalities) /\ ElemsOf(AllModalities) = PlanModalities
<1>1. DOMAIN AllModalities = 1 .. 6
  BY DEF AllModalities
<1>2. 1 .. 6 = {1, 2, 3, 4, 5, 6}
  OBVIOUS
<1>3. ElemsOf(AllModalities) = {AllModalities[1], AllModalities[2], AllModalities[3],
                               AllModalities[4], AllModalities[5], AllModalities[6]}
  BY <1>1, <1>2 DEF ElemsOf
<1>4. ElemsOf(AllModalities) = {"graph", "vector", "tensor", "semantic", "document", "temporal"}
  BY <1>3 DEF AllModalities
<1>5. AllModalities \in Seq({"graph", "vector", "tensor", "semantic", "document", "temporal"})
  BY DEF AllModalities
<1> QED BY <1>4, <1>5 DEF PlanModalities

AskedIn(ms, m) == m \in PlanModalities /\ \E i \in DOMAIN ms : ms[i] \in {m, "All"}

(* The modalities of a query, All expanded, each once.                     *)
LEMMA ResolvedModalities ==
    ASSUME NEW ms \in Seq(STRING), ms # <<>>, \A i \in DOMAIN ms : ParsesModality(ms[i])
    PROVE  /\ ResolveModalities(ms) \in Seq(PlanModalities) /\ Once(ResolveModalities(ms))
           /\ ElemsOf(ResolveModalities(ms)) = {m \in PlanModalities : AskedIn(ms, m)}
           /\ ElemsOf(ResolveModalities(ms)) # {}
<1> DEFINE X == PlanModalities
           Wide(i) == IF ms[i] = "All" THEN AllModalities ELSE <<ms[i]>>
           lists == [i \in DOMAIN ms |-> Wide(i)]
           wide == Concat(lists)
           firsts == {i \in DOMAIN wide : \A j \in 1 .. i - 1 : wide[j] # wide[i]}
           r == ResolveModalities(ms)
<1>1. Len(ms) \in Nat /\ DOMAIN ms = 1 .. Len(ms) /\ Len(ms) # 0
  BY LenProperties, EmptySeq
<1>2. ASSUME NEW i \in DOMAIN ms
      PROVE  Wide(i) \in Seq(X) /\ ElemsOf(Wide(i)) = {m \in X : ms[i] \in {m, "All"}} /\ ElemsOf(Wide(i)) # {}
  <2>1. ms[i] \in X \cup {"All"}
    BY <1>2 DEF ParsesModality, PlanModalities
  <2>2. CASE ms[i] = "All"
    <3>1. Wide(i) = AllModalities
      BY <2>2
    <3>2. {m \in X : ms[i] \in {m, "All"}} = X
      BY <2>2
    <3> QED BY <3>1, <3>2, ModalitiesAre
  <2>3. CASE ms[i] # "All"
    <3>1. Wide(i) = <<ms[i]>> /\ ms[i] \in X
      BY <2>1, <2>3
    <3>2. DOMAIN <<ms[i]>> = {1} /\ <<ms[i]>>[1] = ms[i] /\ <<ms[i]>> \in Seq(X)
      BY <3>1
    <3>3. ElemsOf(<<ms[i]>>) = {ms[i]}
      BY <3>2 DEF ElemsOf
    <3>4. {m \in X : ms[i] \in {m, "All"}} = {ms[i]}
      BY <2>3, <3>1
    <3> QED BY <3>1, <3>2, <3>3, <3>4
  <2> QED BY <2>2, <2>3
<1>3. lists \in Seq(Seq(X)) /\ Len(lists) = Len(ms) /\ \A i \in 1 .. Len(ms) : lists[i] = Wide(i)
  <2>1. lists \in [1 .. Len(ms) -> Seq(X)]
    BY <1>1, <1>2
  <2>2. \A i \in 1 .. Len(ms) : lists[i] = Wide(i)
    BY <1>1
  <2> HIDE DEF lists
  <2> QED BY <1>1, <2>1, <2>2
<1> HIDE DEF lists
<1>4. wide \in Seq(X) /\ ElemsOf(wide) = UNION {ElemsOf(lists[i]) : i \in 1 .. Len(ms)}
  BY <1>3, ConcatIs
<1>5. r = KeptAt(wide, firsts)
  BY DEF ResolveModalities, lists
<1> HIDE DEF wide
<1>6. Len(wide) \in Nat /\ DOMAIN wide = 1 .. Len(wide)
  BY <1>4, LenProperties
<1>7. /\ r \in Seq(X) /\ ElemsOf(r) = {wide[i] : i \in {k \in DOMAIN wide : k \in firsts}}
      /\ (\A i, j \in DOMAIN wide : i \in firsts /\ j \in firsts /\ wide[i] = wide[j] => i = j) => Once(r)
  <2> HIDE DEF firsts, r
  <2> QED BY <1>4, <1>5, KeptAtIs
<1>8. Once(r)
  <2>1. ASSUME NEW i \in DOMAIN wide, NEW j \in DOMAIN wide, i \in firsts, j \in firsts, wide[i] = wide[j]
        PROVE  i = j
    <3>1. i < j => i \in 1 .. j - 1
      BY <1>6, <2>1
    <3>2. j < i => j \in 1 .. i - 1
      BY <1>6, <2>1
    <3>3. ~(i < j) /\ ~(j < i)
      BY <2>1, <3>1, <3>2
    <3> QED BY <1>6, <2>1, <3>3
  <2> HIDE DEF r, firsts
  <2> QED BY <1>7, <2>1
<1>9. ElemsOf(r) = ElemsOf(wide)
  <2>1. ASSUME NEW k \in DOMAIN wide PROVE \E i \in DOMAIN wide : i \in firsts /\ wide[i] = wide[k]
    <3> DEFINE At == {i \in DOMAIN wide : wide[i] = wide[k]}
    <3>1. At \in SUBSET Nat /\ At # {}
      BY <1>6, <2>1
    <3>2. PICK i \in At : \A y \in At : i <= y
      <4> HIDE DEF At
      <4> QED BY <3>1, LeastOf
    <3>3. ASSUME NEW j \in 1 .. i - 1 PROVE wide[j] # wide[i]
      <4>1. j \in DOMAIN wide /\ ~(i <= j)
        BY <1>6
      <4>2. j \notin At
        BY <3>2, <4>1
      <4> QED BY <4>1, <4>2
    <3> QED BY <3>2, <3>3
  <2> HIDE DEF firsts, r
  <2> QED BY <1>7, <2>1 DEF ElemsOf
<1> HIDE DEF r
<1>10. ASSUME NEW m \in X PROVE m \in ElemsOf(wide) <=> AskedIn(ms, m)
  <2>1. m \in ElemsOf(wide) <=> \E i \in 1 .. Len(ms) : m \in ElemsOf(Wide(i))
    BY <1>3, <1>4
  <2> HIDE DEF Wide
  <2>2. \A i \in 1 .. Len(ms) : m \in ElemsOf(Wide(i)) <=> ms[i] \in {m, "All"}
    BY <1>1, <1>2
  <2> QED BY <1>1, <2>1, <2>2 DEF AskedIn
<1>11. ElemsOf(wide) \in SUBSET X
  BY <1>4, <1>6, ElementOfSeq DEF ElemsOf
<1>12. ElemsOf(wide) # {}
  <2>1. 1 \in 1 .. Len(ms) /\ ElemsOf(lists[1]) = ElemsOf(Wide(1))
    BY <1>1, <1>3
  <2> HIDE DEF Wide
  <2>2. ElemsOf(lists[1]) # {}
    BY <1>1, <1>2, <2>1
  <2> QED BY <1>4, <2>1, <2>2
<1>13. ElemsOf(wide) = {m \in X : AskedIn(ms, m)}
  BY <1>10, <1>11
<1> QED BY <1>7, <1>8, <1>9, <1>12, <1>13 DEF r

(* The conditions of a node: typed, and with every conjunct aimed at the   *)
(* node, at nothing, or at a modality the query does not have.             *)
Proofs == [tag : {"Proof"}, type : ProofTypes]

IsKind(c) == (c.kind = "similarity" => c.of.k \in Nat) /\ (c.kind = "proof" => c.of.type \in ProofTypes)

Reaches(c, m, active) == TargetOf(c) \in {m, "none"} \/ TargetOf(c) \notin active

NodeConditions(m, active, q) == ConditionsOn(m, active, q.where) \o ProofsOn(m, q.proof)

LEMMA KindsOf ==
    ASSUME NEW c PROVE KindOf(c) # "proof"
<1>1. KindOf(c) \in {"fulltext", "similarity", "traversal", "equality", "range", "predicate"}
  BY DEF KindOf
<1> QED BY <1>1

LEMMA CarriedIs ==
    ASSUME NEW c \in Conditions PROVE Carried(c).k \in Nat
<1>1. c.k \in Nat
  BY DEF Conditions
<1>2. [c EXCEPT !.op = "none"].k = c.k
  BY DEF Conditions
<1>3. Carried(c) = [c EXCEPT !.op = "none"] \/ Carried(c) = c
  BY Zenon DEF Carried
<1> QED BY <1>1, <1>2, <1>3, Zenon

LEMMA KindRecord ==
    ASSUME NEW x, NEW y, NEW r, r = [kind |-> x, of |-> y]
    PROVE  r.kind = x /\ r.of = y
OBVIOUS

AreConditions(c, m, active, where) ==
    /\ (\E S : c \in Seq(S)) /\ \A i \in 1 .. Len(c) : IsKind(c[i])
    /\ \A i \in DOMAIN where : Reaches(where[i], m, active) => \E k \in DOMAIN c : c[k].of = Carried(where[i])

LEMMA NodeConditionsAre ==
    ASSUME NEW q, q.where \in Seq(Conditions), q.proof \in Seq(Proofs), NEW m, NEW active
    PROVE  AreConditions(NodeConditions(m, active, q), m, active, q.where)
<1> DEFINE w == q.where
           P == {i \in DOMAIN w : TargetOf(w[i]) \in {m, "none"} \/ TargetOf(w[i]) \notin active}
           here == KeptAt(w, P)
           kind(c) == IF TargetOf(c) \notin active \cup {"none"} THEN "predicate" ELSE KindOf(c)
           a == [i \in DOMAIN here |-> [kind |-> kind(here[i]), of |-> Carried(here[i])]]
           pr == IF m = "semantic" THEN q.proof ELSE <<>>
           b == [i \in DOMAIN pr |-> [kind |-> "proof", of |-> q.proof[i]]]
           T == {a[i] : i \in DOMAIN here} \cup {b[i] : i \in DOMAIN pr}
<1>1. ConditionsOn(m, active, w) = a
  BY DEF ConditionsOn
<1>2. ProofsOn(m, q.proof) = b
  BY DEF ProofsOn
<1>3. here \in Seq(Conditions) /\ ElemsOf(here) = {w[i] : i \in {k \in DOMAIN w : k \in P}}
  <2> HIDE DEF P
  <2> QED BY KeptAtIs
<1> HIDE DEF here
<1>4. Len(here) \in Nat /\ DOMAIN here = 1 .. Len(here) /\ \A i \in 1 .. Len(here) : here[i] \in Conditions
  BY <1>3, LenProperties, ElementOfSeq
<1>5. ASSUME NEW c \in Conditions PROVE kind(c) # "proof" /\ Carried(c).k \in Nat
  <2>1. Carried(c).k \in Nat
    BY CarriedIs
  <2>2. CASE TargetOf(c) \notin active \cup {"none"}
    BY <2>1, <2>2
  <2>3. CASE ~(TargetOf(c) \notin active \cup {"none"})
    <3>1. kind(c) = KindOf(c)
      BY <2>3
    <3> QED BY <2>1, <3>1, KindsOf
  <2> QED BY <2>2, <2>3
<1>6. /\ a \in Seq(T) /\ Len(a) = Len(here) /\ \A i \in 1 .. Len(a) : IsKind(a[i]) /\ a[i].of = Carried(here[i])
  <2> HIDE DEF kind
  <2>1. \A i \in 1 .. Len(here) : a[i] = [kind |-> kind(here[i]), of |-> Carried(here[i])]
    BY <1>4
  <2>2. \A i \in 1 .. Len(here) : a[i] \in T
    <3> HIDE DEF a, b, pr
    <3> QED BY <1>4
  <2>3. a = [i \in 1 .. Len(here) |-> a[i]]
    BY <1>4
  <2> HIDE DEF a
  <2>4. a \in [1 .. Len(here) -> T]
    <3> HIDE DEF T
    <3> QED BY <2>2, <2>3
  <2>5. a \in Seq(T) /\ Len(a) = Len(here)
    <3> HIDE DEF T
    <3> QED BY <1>4, <2>4
  <2>6. ASSUME NEW i \in 1 .. Len(here) PROVE IsKind(a[i]) /\ a[i].of = Carried(here[i])
    <3>1. a[i].kind = kind(here[i]) /\ a[i].of = Carried(here[i])
      <4> DEFINE x == kind(here[i])
                 y == Carried(here[i])
      <4>1. a[i] = [kind |-> x, of |-> y]
        BY <2>1, Zenon
      <4> HIDE DEF x, y, a
      <4>2. a[i].kind = x /\ a[i].of = y
        BY <4>1, KindRecord
      <4> QED BY <4>2 DEF x, y
    <3> QED BY <1>4, <1>5, <3>1 DEF IsKind
  <2> QED BY <2>5, <2>6
<1>7. pr \in Seq(Proofs) /\ (m = "semantic" \/ Len(pr) = 0)
  BY EmptySeq
<1>8. Len(pr) \in Nat /\ DOMAIN pr = 1 .. Len(pr) /\ \A i \in 1 .. Len(pr) : q.proof[i] \in Proofs
  <2>1. Len(pr) \in Nat /\ DOMAIN pr = 1 .. Len(pr) /\ \A i \in 1 .. Len(pr) : pr[i] \in Proofs
    BY <1>7, LenProperties, ElementOfSeq
  <2>2. CASE m = "semantic"
    BY <2>1, <2>2
  <2>3. CASE m # "semantic"
    <3>1. Len(pr) = 0
      BY <1>7, <2>3
    <3> HIDE DEF pr
    <3> QED BY <2>1, <3>1
  <2> QED BY <2>2, <2>3
<1> HIDE DEF pr
<1>9. b \in Seq(T) /\ \A i \in 1 .. Len(b) : IsKind(b[i])
  <2>1. \A i \in 1 .. Len(pr) : b[i] = [kind |-> "proof", of |-> q.proof[i]]
    BY <1>8
  <2>2. \A i \in 1 .. Len(pr) : b[i] \in T
    <3> HIDE DEF a, b
    <3> QED BY <1>8
  <2>3. b = [i \in 1 .. Len(pr) |-> b[i]]
    BY <1>8
  <2> HIDE DEF b
  <2>4. b \in [1 .. Len(pr) -> T]
    <3> HIDE DEF T
    <3> QED BY <2>2, <2>3
  <2>5. b \in Seq(T) /\ Len(b) = Len(pr)
    <3> HIDE DEF T
    <3> QED BY <1>8, <2>4
  <2>6. ASSUME NEW i \in 1 .. Len(pr) PROVE IsKind(b[i])
    <3>1. b[i].kind = "proof" /\ b[i].of = q.proof[i] /\ q.proof[i] \in Proofs
      <4>1. b[i] = [kind |-> "proof", of |-> q.proof[i]] /\ q.proof[i] \in Proofs
        BY <1>8, <2>1, Zenon
      <4>2. b[i].kind = "proof" /\ b[i].of = q.proof[i]
        BY <4>1, KindRecord
      <4> QED BY <4>1, <4>2
    <3> QED BY <3>1 DEF IsKind, Proofs
  <2> QED BY <2>5, <2>6
<1> DEFINE n == NodeConditions(m, active, q)
<1>10. n = a \o b
  BY <1>1, <1>2 DEF NodeConditions
<1> HIDE DEF a, b, T, n
<1>11. /\ n \in Seq(T) /\ Len(n) = Len(a) + Len(b)
       /\ \A i \in 1 .. (Len(a) + Len(b)) : n[i] = IF i <= Len(a) THEN a[i] ELSE b[i - Len(a)]
  <2>1. a \in Seq(T) /\ b \in Seq(T)
    BY <1>6, <1>9, Zenon
  <2>2. /\ (a \o b) \in Seq(T) /\ Len(a \o b) = Len(a) + Len(b)
        /\ \A i \in 1 .. (Len(a) + Len(b)) : (a \o b)[i] = IF i <= Len(a) THEN a[i] ELSE b[i - Len(a)]
    BY <2>1, ConcatProperties
  <2> QED BY <1>10, <2>2, Zenon
<1>12. Len(a) \in Nat /\ Len(b) \in Nat /\ DOMAIN n = 1 .. Len(n)
  BY <1>6, <1>9, <1>11, LenProperties
<1>13. ASSUME NEW i \in 1 .. Len(n) PROVE IsKind(n[i])
  <2>1. CASE i <= Len(a)
    BY <1>6, <1>11, <1>12, <2>1, SMTT(60)
  <2>2. CASE ~(i <= Len(a))
    <3>1. i - Len(a) \in 1 .. Len(b) /\ n[i] = b[i - Len(a)]
      BY <1>11, <1>12, <2>2
    <3> QED BY <1>9, <3>1
  <2> QED BY <2>1, <2>2
<1>14. ASSUME NEW i \in DOMAIN w, Reaches(w[i], m, active) PROVE \E k \in DOMAIN n : n[k].of = Carried(w[i])
  <2>1. w[i] \in ElemsOf(here)
    BY <1>3, <1>14 DEF Reaches
  <2>2. PICK k \in 1 .. Len(here) : here[k] = w[i]
    BY <1>4, <2>1 DEF ElemsOf
  <2>3. k \in 1 .. Len(a) /\ k \in DOMAIN n /\ n[k] = a[k] /\ a[k].of = Carried(here[k])
    BY <1>4, <1>6, <1>11, <1>12, <2>2
  <2> QED BY <2>2, <2>3
<1>15. NodeConditions(m, active, q) = n
  BY DEF n
<1> QED BY <1>11, <1>13, <1>14, <1>15 DEF AreConditions

(* A query that arrives.                                                   *)
IsQuery(q) ==
    /\ DOMAIN q = QueryFields /\ q.modalities \in Seq(STRING) /\ q.where \in Seq(Conditions)
    /\ q.proof \in Seq(Proofs) /\ q.group_by \in BOOLEAN /\ q.order_by \in BOOLEAN
    /\ q.limit \in Nat \cup {NoLimit} /\ q.offset \in 0 .. MaxCount

(* One node per modality of the query, with its conditions.                *)
ActiveOf(q) == {m \in PlanModalities : AskedIn(q.modalities, m)}

IsNodes(nodes, n, q) ==
    /\ n \in Nat /\ n # 0 /\ DOMAIN nodes = 1 .. n /\ nodes = [i \in 1 .. n |-> nodes[i]]
    /\ \A i \in 1 .. n : nodes[i].modality \in ActiveOf(q)
    /\ \A i, j \in 1 .. n : nodes[i].modality = nodes[j].modality => i = j
    /\ \A m \in ActiveOf(q) : \E i \in 1 .. n : nodes[i].modality = m
    /\ \A i \in 1 .. n : nodes[i].conditions = NodeConditions(nodes[i].modality, ActiveOf(q), q)

LEMMA PriorityType == \A m \in PlanModalities : Priority[m] \in Nat
  BY ModalitiesAre DEF Priority

LEMMA PrioritiesDiffer == \A l, m \in PlanModalities : Priority[l] = Priority[m] => l = m
  BY ModalitiesAre DEF Priority

LEMMA NodesAre ==
    ASSUME NEW q, IsQuery(q), Plans(q)
    PROVE  \E n : IsNodes(ToLogicalPlan(q).nodes, n, q) /\ ToLogicalPlan(q).post = PostProcessing(q)
<1> DEFINE ms == ResolveModalities(q.modalities)
           n == Len(ms)
           active == ElemsOf(ms)
           Node(m) == [modality |-> m,
                       conditions |-> ConditionsOn(m, active, q.where) \o ProofsOn(m, q.proof),
                       projections |-> ProjectionsOn(m, q.projections)]
           s == [i \in DOMAIN ms |-> Node(ms[i])]
           key == [i \in DOMAIN ms |-> Priority[ms[i]]]
           nodes == SortedBy(s, key)
<1>1. ToLogicalPlan(q) = [source |-> q.source, nodes |-> nodes, post |-> PostProcessing(q)]
  BY DEF ToLogicalPlan
<1>2. ToLogicalPlan(q).nodes = nodes /\ ToLogicalPlan(q).post = PostProcessing(q)
  <2> HIDE DEF nodes
  <2> QED BY <1>1
<1>3. /\ ms \in Seq(PlanModalities) /\ Once(ms) /\ active = ActiveOf(q) /\ active # {}
  BY ResolvedModalities DEF IsQuery, Plans, FromJson, ActiveOf
<1> HIDE DEF ms
<1>4. n \in Nat /\ DOMAIN ms = 1 .. n /\ \A i \in 1 .. n : ms[i] \in PlanModalities
  BY <1>3, LenProperties, ElementOfSeq
<1>5. n # 0
  BY <1>3, <1>4 DEF ElemsOf
<1> HIDE DEF n
<1>6. key \in [1 .. n -> Int]
  BY <1>4, PriorityType
<1>7. DOMAIN s = 1 .. n /\ \A i \in 1 .. n : s[i] = Node(ms[i])
  <2> HIDE DEF Node
  <2> QED BY <1>4
<1> HIDE DEF s, key
<1>8. PICK p : Rearranges(p, n) /\ nodes = [k \in 1 .. n |-> s[p[k]]]
  <2>1. \E p : /\ Rearranges(p, n) /\ SortedBy(s, key) = [k \in 1 .. n |-> s[p[k]]]
              /\ \A i, j \in 1 .. n : i < j => key[p[i]] <= key[p[j]]
    <3>1. n \in Nat /\ DOMAIN s = 1 .. n /\ key \in [1 .. n -> Int]
      BY <1>4, <1>6, <1>7, Zenon
    <3> HIDE DEF Node
    <3> QED BY <3>1, SortedByIs, ZenonT(60)
  <2> QED BY <2>1, Zenon
<1> HIDE DEF nodes
<1>9. /\ p \in [1 .. n -> 1 .. n] /\ \A i, j \in 1 .. n : p[i] = p[j] => i = j
      /\ \A k \in 1 .. n : \E i \in 1 .. n : p[i] = k
  BY <1>8 DEF Rearranges
<1>10. ASSUME NEW i \in 1 .. n
       PROVE  /\ nodes[i] = Node(ms[p[i]]) /\ nodes[i].modality = ms[p[i]] /\ ms[p[i]] \in ActiveOf(q)
              /\ nodes[i].conditions = NodeConditions(nodes[i].modality, ActiveOf(q), q)
  <2>1. p[i] \in 1 .. n
    BY <1>9
  <2>2. nodes[i] = Node(ms[p[i]])
    <3> HIDE DEF Node
    <3> QED BY <1>7, <1>8, <2>1
  <2>3. ms[p[i]] \in active
    BY <1>4, <2>1 DEF ElemsOf
  <2>4. /\ nodes[i].modality = ms[p[i]]
        /\ nodes[i].conditions = ConditionsOn(ms[p[i]], active, q.where) \o ProofsOn(ms[p[i]], q.proof)
    BY <2>2
  <2> HIDE DEF active, Node
  <2> QED BY <1>3, <2>2, <2>3, <2>4 DEF NodeConditions
<1>11. ASSUME NEW i \in 1 .. n, NEW j \in 1 .. n, nodes[i].modality = nodes[j].modality PROVE i = j
  <2>1. p[i] \in 1 .. n /\ p[j] \in 1 .. n
    BY <1>9
  <2>2. ms[p[i]] = ms[p[j]]
    <3> HIDE DEF Node
    <3> QED BY <1>10, <1>11, Zenon
  <2>3. p[i] = p[j]
    <3> HIDE DEF Node
    <3> QED BY <1>3, <1>4, <2>1, <2>2, Zenon DEF Once
  <2> QED BY <1>9, <2>3
<1>12. ASSUME NEW m \in ActiveOf(q) PROVE \E i \in 1 .. n : nodes[i].modality = m
  <2>1. PICK k \in 1 .. n : ms[k] = m
    BY <1>3, <1>4 DEF ElemsOf
  <2>2. PICK i \in 1 .. n : p[i] = k
    BY <1>9
  <2> HIDE DEF Node
  <2> QED BY <1>10, <2>1, <2>2
<1>13. DOMAIN nodes = 1 .. n /\ nodes = [i \in 1 .. n |-> nodes[i]]
  BY <1>8
<1>14. IsNodes(nodes, n, q)
  <2> HIDE DEF Node
  <2> QED BY <1>4, <1>5, <1>10, <1>11, <1>12, <1>13 DEF IsNodes
<1> QED BY <1>2, <1>14

-----------------------------------------------------------------------------
(* Costs                                                                   *)

LEMMA NatProduct ==
    ASSUME NEW a \in Nat, NEW b \in Nat PROVE a * b \in Nat
OBVIOUS

LEMMA NatQuotient ==
    ASSUME NEW a \in Nat, NEW b \in Nat, b > 0 PROVE a \div b \in Nat
OBVIOUS

Costs == [time : Nat, selectivity : Nat, proof : Nat]

LEMMA AdjustedByType ==
    ASSUME NEW c \in Costs, NEW k, IsKind(k)
    PROVE  AdjustedBy(c, k) \in Costs
<1>1. c.time \in Nat /\ c.selectivity \in Nat /\ c.proof \in Nat
      /\ c = [time |-> c.time, selectivity |-> c.selectivity, proof |-> c.proof]
  BY DEF Costs
<1>2. /\ c.selectivity \div 10 \in Nat /\ (c.time * 7) \div 10 \in Nat /\ (c.selectivity * 3) \div 10 \in Nat
      /\ (c.time * 8) \div 10 \in Nat /\ (c.time * 6) \div 10 \in Nat
  BY <1>1
<1>3. CASE k.kind = "equality"
  <2>1. AdjustedBy(c, k) = [c EXCEPT !.selectivity = @ \div 10, !.time = (@ * 7) \div 10]
    BY <1>3 DEF AdjustedBy
  <2> QED BY <1>2, <2>1 DEF Costs
<1>4. CASE k.kind = "range"
  <2>1. AdjustedBy(c, k) = [c EXCEPT !.selectivity = (@ * 3) \div 10, !.time = (@ * 8) \div 10]
    BY <1>4 DEF AdjustedBy
  <2> QED BY <1>2, <2>1 DEF Costs
<1>5. CASE k.kind = "similarity"
  <2>1. AdjustedBy(c, k) = [c EXCEPT !.selectivity = AtMost(k.of.k, 10000)]
    BY <1>5 DEF AdjustedBy
  <2>2. AtMost(k.of.k, 10000) \in Nat
    BY <1>5 DEF IsKind, AtMost
  <2> QED BY <2>1, <2>2 DEF Costs
<1>6. CASE k.kind = "fulltext"
  <2>1. AdjustedBy(c, k) = [c EXCEPT !.time = (@ * 6) \div 10]
    BY <1>6 DEF AdjustedBy
  <2> QED BY <1>2, <2>1 DEF Costs
<1>7. CASE k.kind = "proof"
  <2>1. AdjustedBy(c, k) = [c EXCEPT !.proof = @ + ProofTime[k.of.type]]
    BY <1>7 DEF AdjustedBy
  <2>2. ProofTime[k.of.type] \in Nat
    BY <1>7 DEF IsKind, ProofTypes, ProofTime
  <2>3. c.proof + ProofTime[k.of.type] \in Nat
    BY <1>1, <2>2
  <2> QED BY <2>1, <2>3 DEF Costs
<1>8. CASE k.kind \notin {"equality", "range", "similarity", "fulltext", "proof"}
  <2>1. AdjustedBy(c, k) = c
    BY <1>8 DEF AdjustedBy
  <2> QED BY <2>1
<1> QED BY <1>3, <1>4, <1>5, <1>6, <1>7, <1>8

LEMMA AdjustedType ==
    ASSUME NEW cost \in Costs, NEW conditions, NEW S, conditions \in Seq(S),
           \A i \in 1 .. Len(conditions) : IsKind(conditions[i])
    PROVE  Adjusted(cost, conditions) \in Costs
<1> DEFINE n == Len(conditions)
           step == [p \in Nat \X Costs |-> IF p[1] \in 1 .. n THEN AdjustedBy(p[2], conditions[p[1]]) ELSE p[2]]
           F(f) == f = [i \in 0 .. n |-> IF i = 0 THEN cost ELSE AdjustedBy(f[i - 1], conditions[i])]
<1>0. n \in Nat
  BY LenProperties
<1>1. step \in [Nat \X Costs -> Costs]
  <2> SUFFICES ASSUME NEW p \in Nat \X Costs
               PROVE  (IF p[1] \in 1 .. n THEN AdjustedBy(p[2], conditions[p[1]]) ELSE p[2]) \in Costs
    OBVIOUS
  <2>1. p[2] \in Costs
    OBVIOUS
  <2> QED BY <2>1, AdjustedByType
<1>2. \A i \in 1 .. n, x \in Costs : step[<<i, x>>] = AdjustedBy(x, conditions[i])
  <2> SUFFICES ASSUME NEW i \in 1 .. n, NEW x \in Costs PROVE step[<<i, x>>] = AdjustedBy(x, conditions[i])
    OBVIOUS
  <2>1. <<i, x>> \in Nat \X Costs /\ <<i, x>>[1] = i /\ <<i, x>>[2] = x
    BY <1>0
  <2> QED BY <2>1, Zenon
<1> HIDE DEF step
<1>3. PICK f : Proceeds(f, Costs, cost, step, n)
  BY <1>0, <1>1, Recurses
<1>4. f \in [0 .. n -> Costs] /\ f[0] = cost /\ \A i \in 1 .. n : f[i] = step[<<i, f[i - 1]>>]
  BY <1>3 DEF Proceeds
<1>5. ASSUME NEW i \in 1 .. n PROVE f[i] = AdjustedBy(f[i - 1], conditions[i])
  <2>1. i - 1 \in 0 .. n
    BY <1>0
  <2>2. f[i - 1] \in Costs
    BY <1>4, <2>1
  <2> QED BY <1>2, <1>4, <2>2
<1>6. F(f)
  <2>1. ASSUME NEW i \in 0 .. n PROVE f[i] = IF i = 0 THEN cost ELSE AdjustedBy(f[i - 1], conditions[i])
    <3>1. i # 0 => i \in 1 .. n
      BY <1>0
    <3> QED BY <1>4, <1>5, <3>1
  <2>2. f = [i \in 0 .. n |-> f[i]]
    BY <1>4
  <2>3. [i \in 0 .. n |-> f[i]] = [i \in 0 .. n |-> IF i = 0 THEN cost ELSE AdjustedBy(f[i - 1], conditions[i])]
    BY <2>1
  <2> QED BY <2>2, <2>3, Zenon
<1> DEFINE g == CHOOSE h : F(h)
<1>7. F(g)
  BY <1>6, Zenon
<1>8. Adjusted(cost, conditions) = g[n]
  BY DEF Adjusted
<1> HIDE DEF g, n
<1>9. \A i \in 0 .. n : g[i] = IF i = 0 THEN cost ELSE AdjustedBy(g[i - 1], conditions[i])
  BY <1>7
<1> DEFINE G == {i \in 0 .. n : g[i] \in Costs}
<1>10. 0 \in G
  <2>1. 0 \in 0 .. n
    BY <1>0
  <2>2. g[0] = cost
    BY <1>9, <2>1
  <2> QED BY <2>1, <2>2
<1>11. ASSUME NEW i \in 1 .. n, i - 1 \in G PROVE i \in G
  <2>1. i \in 0 .. n /\ i # 0 /\ g[i - 1] \in Costs
    BY <1>0, <1>11
  <2>2. g[i] = AdjustedBy(g[i - 1], conditions[i])
    BY <1>9, <2>1
  <2>3. IsKind(conditions[i])
    BY DEF n
  <2>4. g[i] \in Costs
    BY <2>1, <2>2, <2>3, AdjustedByType
  <2> QED BY <2>1, <2>4
<1>12. n \in G
  <2> HIDE DEF G
  <2> QED BY <1>0, <1>10, <1>11, Along
<1> QED BY <1>8, <1>12

Modes == {"conservative", "balanced", "aggressive"}
StoreStats == [total : Nat, latency : Nat, returned : Nat, count : Nat]

PlannerTypes == modes \in [PlanModalities -> Modes] /\ stats \in [PlanModalities -> StoreStats]

LEMMA BlendType ==
    ASSUME NEW a \in Nat, NEW b \in Nat
    PROVE  Blend(a, b) \in Nat
<1>1. Weight \in 0 .. 10
  BY PlannerAssumption
<1>2. 10 - Weight \in Nat /\ Weight \in Nat
  BY <1>1
<1>3. a * (10 - Weight) \in Nat /\ b * Weight \in Nat
  BY <1>2, NatProduct
<1>4. a * (10 - Weight) + b * Weight \in Nat
  BY <1>3
<1> DEFINE x == a * (10 - Weight) + b * Weight
<1> HIDE DEF x
<1>5. x \div 10 \in Nat
  BY <1>4 DEF x
<1> QED BY <1>5 DEF Blend, x

LEMMA EstimateType ==
    ASSUME PlannerTypes, NEW node, node.modality \in PlanModalities, NEW S, node.conditions \in Seq(S),
           \A i \in 1 .. Len(node.conditions) : IsKind(node.conditions[i])
    PROVE  Estimate(node).time \in Nat /\ Estimate(node).rows \in Nat
<1> DEFINE m == node.modality
           s == stats[m]
           time == (BaseTime[m] * CostMultiplier[modes[m]]) \div 10
           sel == AtMost((BaseSelectivity[m] * SelectivityMultiplier[modes[m]]) \div 10, 10000)
           t == IF s.count > 0 THEN Blend(time, s.latency) ELSE time
           l == IF s.count > 0 /\ s.total > 0 THEN Blend(sel, (10000 * s.returned) \div s.total) ELSE sel
           base == [time |-> t, selectivity |-> l, proof |-> 0]
           c == Adjusted(base, node.conditions)
           r == (s.total * c.selectivity) \div 10000
<1>1. s \in StoreStats /\ modes[m] \in Modes
  BY DEF PlannerTypes
<1>2. s.total \in Nat /\ s.latency \in Nat /\ s.returned \in Nat /\ s.count \in Nat
  BY <1>1 DEF StoreStats
<1>3. BaseTime[m] \in Nat /\ BaseSelectivity[m] \in Nat
  BY ModalitiesAre, SMTT(60) DEF BaseTime, BaseSelectivity
<1>4. CostMultiplier[modes[m]] \in Nat /\ SelectivityMultiplier[modes[m]] \in Nat
  BY <1>1 DEF Modes, CostMultiplier, SelectivityMultiplier
<1>5. time \in Nat
  <2>1. BaseTime[m] * CostMultiplier[modes[m]] \in Nat
    BY <1>3, <1>4, NatProduct
  <2> QED BY <2>1, NatQuotient
<1>6. sel \in Nat
  <2>1. BaseSelectivity[m] * SelectivityMultiplier[modes[m]] \in Nat
    BY <1>3, <1>4, NatProduct
  <2>2. (BaseSelectivity[m] * SelectivityMultiplier[modes[m]]) \div 10 \in Nat
    BY <2>1, NatQuotient
  <2> QED BY <2>2 DEF AtMost
<1> HIDE DEF s, time, sel
<1>7. t \in Nat
  BY <1>2, <1>5, BlendType
<1>8. l \in Nat
  <2>1. CASE s.count > 0 /\ s.total > 0
    <3>1. 10000 * s.returned \in Nat
      BY <1>2
    <3>2. (10000 * s.returned) \div s.total \in Nat
      <4> DEFINE x == 10000 * s.returned
                 y == s.total
      <4>1. x \in Nat /\ y \in Nat /\ y > 0
        BY <1>2, <2>1, <3>1
      <4> HIDE DEF x, y
      <4>2. x \div y \in Nat
        BY <4>1, NatQuotient
      <4> QED BY <4>2 DEF x, y
    <3>3. Blend(sel, (10000 * s.returned) \div s.total) \in Nat
      <4> DEFINE z == (10000 * s.returned) \div s.total
      <4>1. sel \in Nat /\ z \in Nat
        BY <1>6, <3>2
      <4> HIDE DEF z
      <4>2. Blend(sel, z) \in Nat
        BY <4>1, BlendType
      <4> QED BY <4>2 DEF z
    <3> QED BY <2>1, <3>3
  <2>2. CASE ~(s.count > 0 /\ s.total > 0)
    BY <1>6, <2>2
  <2> QED BY <2>1, <2>2
<1> HIDE DEF t, l
<1>9. base \in Costs
  BY <1>7, <1>8 DEF Costs
<1> HIDE DEF base
<1>10. c \in Costs
  BY <1>9, AdjustedType
<1>11. Estimate(node) = [time |-> c.time + c.proof, selectivity |-> c.selectivity, rows |-> AtLeast(r, 1)]
  BY DEF Estimate, s, time, sel, t, l, base
<1> HIDE DEF c
<1>12. c.time \in Nat /\ c.selectivity \in Nat /\ c.proof \in Nat
  BY <1>10 DEF Costs
<1>13. r \in Nat
  <2>1. s.total * c.selectivity \in Nat
    BY <1>2, <1>12, NatProduct
  <2> QED BY <2>1, NatQuotient
<1> HIDE DEF r
<1>14. Estimate(node).time = c.time + c.proof /\ Estimate(node).rows = AtLeast(r, 1)
  BY <1>11
<1> QED BY <1>12, <1>13, <1>14 DEF AtLeast

(* The operations after the steps.  A LIMIT is followed by nothing that    *)
(* makes more rows.                                                        *)
Ops == [op : {"group_by", "order_by", "limit", "offset", "project"}, count : Int]

Ends(s, x) ==
    \E k \in 1 .. Len(s) : s[k] = x /\ \A j \in 1 .. Len(s) : j > k => s[j].op \in {"offset", "project"}

LEMMA ConcatEnds ==
    ASSUME NEW s \in Seq(Ops), NEW t \in Seq(Ops), NEW x, Ends(s, x), \A j \in 1 .. Len(t) : t[j].op \in {"offset", "project"}
    PROVE  s \o t \in Seq(Ops) /\ Ends(s \o t, x)
<1> DEFINE u == s \o t
<1>1. /\ u \in Seq(Ops) /\ Len(u) = Len(s) + Len(t)
      /\ \A i \in 1 .. (Len(s) + Len(t)) : u[i] = IF i <= Len(s) THEN s[i] ELSE t[i - Len(s)]
  BY ConcatProperties
<1>2. Len(s) \in Nat /\ Len(t) \in Nat
  BY LenProperties
<1> HIDE DEF u
<1>3. PICK k \in 1 .. Len(s) : s[k] = x /\ \A j \in 1 .. Len(s) : j > k => s[j].op \in {"offset", "project"}
  BY DEF Ends
<1>4. k \in 1 .. Len(u) /\ u[k] = x
  BY <1>1, <1>2, <1>3
<1>5. ASSUME NEW j \in 1 .. Len(u), j > k PROVE u[j].op \in {"offset", "project"}
  <2>1. CASE j <= Len(s)
    BY <1>1, <1>2, <1>3, <1>5, <2>1, SMTT(60)
  <2>2. CASE ~(j <= Len(s))
    <3>1. j - Len(s) \in 1 .. Len(t) /\ u[j] = t[j - Len(s)]
      BY <1>1, <1>2, <2>2
    <3> QED BY <3>1
  <2> QED BY <2>1, <2>2
<1>6. Ends(u, x)
  BY <1>4, <1>5 DEF Ends
<1> QED BY <1>1, <1>6 DEF u

LEMMA AppendEnds ==
    ASSUME NEW s \in Seq(Ops), NEW x \in Ops
    PROVE  s \o <<x>> \in Seq(Ops) /\ Ends(s \o <<x>>, x)
<1> DEFINE t == <<x>>
           u == s \o t
<1>1. t \in Seq(Ops) /\ Len(t) = 1 /\ t[1] = x
  OBVIOUS
<1>2. /\ u \in Seq(Ops) /\ Len(u) = Len(s) + Len(t)
      /\ \A i \in 1 .. (Len(s) + Len(t)) : u[i] = IF i <= Len(s) THEN s[i] ELSE t[i - Len(s)]
  <2> HIDE DEF t
  <2> QED BY <1>1, ConcatProperties
<1>3. Len(s) \in Nat
  BY LenProperties
<1> HIDE DEF t, u
<1>4. Len(s) + 1 \in 1 .. Len(u) /\ u[Len(s) + 1] = x /\ \A j \in 1 .. Len(u) : ~(j > Len(s) + 1)
  BY <1>1, <1>2, <1>3
<1>5. Ends(u, x)
  BY <1>4 DEF Ends
<1> QED BY <1>2, <1>5 DEF u, t

LEMMA OneOp ==
    ASSUME NEW o \in {"group_by", "order_by", "limit", "offset", "project"}, NEW c \in Int
    PROVE  /\ [op |-> o, count |-> c] \in Ops /\ <<[op |-> o, count |-> c]>> \in Seq(Ops) /\ <<>> \in Seq(Ops)
           /\ Len(<<[op |-> o, count |-> c]>>) = 1 /\ <<[op |-> o, count |-> c]>>[1].op = o
<1> DEFINE r == [op |-> o, count |-> c]
<1>1. r \in Ops
  BY DEF Ops
<1>2. r.op = o
  OBVIOUS
<1> HIDE DEF r
<1>3. <<r>> \in Seq(Ops) /\ Len(<<r>>) = 1 /\ <<r>>[1] = r /\ <<>> \in Seq(Ops)
  BY <1>1
<1> QED BY <1>1, <1>2, <1>3 DEF r

LEMMA PostProcessingIs ==
    ASSUME NEW q, IsQuery(q)
    PROVE  /\ PostProcessing(q) \in Seq(Ops)
           /\ q.limit # NoLimit => Ends(PostProcessing(q), [op |-> "limit", count |-> q.limit])
<1> DEFINE G == IF q.group_by THEN <<[op |-> "group_by", count |-> 0]>> ELSE <<>>
           O == IF q.order_by THEN <<[op |-> "order_by", count |-> 0]>> ELSE <<>>
           x == [op |-> "limit", count |-> q.limit]
           L == IF q.limit # NoLimit THEN <<x>> ELSE <<>>
           C == IF q.limit = NoLimit THEN <<[op |-> "limit", count |-> MaxCount - q.offset]>> ELSE <<>>
           o == <<[op |-> "offset", count |-> q.offset]>>
           F == IF q.offset = 0 THEN <<>> ELSE C \o o
           P == IF ~q.group_by /\ q.projections # <<>> THEN <<[op |-> "project", count |-> 0]>> ELSE <<>>
<1>0. q.limit \in Int /\ q.offset \in Int /\ MaxCount - q.offset \in Int
  <2>1. q.limit \in Nat \cup {NoLimit} /\ q.offset \in 0 .. MaxCount
    BY DEF IsQuery
  <2>2. MaxCount \in Nat
    BY DEF MaxCount
  <2>3. q.limit \in Int
    BY <2>1 DEF NoLimit
  <2> QED BY <2>1, <2>2, <2>3
<1>1. PostProcessing(q) = G \o O \o L \o F \o P
  BY DEF PostProcessing
<1>2. G \in Seq(Ops) /\ O \in Seq(Ops)
  <2>1. 0 \in Int /\ "group_by" \in {"group_by", "order_by", "limit", "offset", "project"}
        /\ "order_by" \in {"group_by", "order_by", "limit", "offset", "project"}
    OBVIOUS
  <2> QED BY <2>1, OneOp, Zenon
<1>3. x \in Ops /\ L \in Seq(Ops)
  <2>1. "limit" \in {"group_by", "order_by", "limit", "offset", "project"}
    OBVIOUS
  <2> QED BY <1>0, <2>1, OneOp, Zenon
<1>4. C \in Seq(Ops) /\ o \in Seq(Ops)
  <2>1. "limit" \in {"group_by", "order_by", "limit", "offset", "project"}
        /\ "offset" \in {"group_by", "order_by", "limit", "offset", "project"}
    OBVIOUS
  <2> QED BY <1>0, <2>1, OneOp, Zenon
<1>5. P \in Seq(Ops) /\ \A j \in 1 .. Len(P) : P[j].op \in {"offset", "project"}
  <2> DEFINE r == <<[op |-> "project", count |-> 0]>>
  <2>1. 0 \in Int /\ "project" \in {"group_by", "order_by", "limit", "offset", "project"}
    OBVIOUS
  <2>2. r \in Seq(Ops) /\ <<>> \in Seq(Ops) /\ Len(r) = 1 /\ r[1].op = "project"
    BY <2>1, OneOp, Zenon
  <2>3. P = r \/ P = <<>>
    OBVIOUS
  <2> HIDE DEF r, P
  <2>4. Len(<<>>) = 0
    OBVIOUS
  <2>5. CASE P = r
    <3>1. \A j \in 1 .. Len(P) : j = 1
      <4>1. Len(P) = 1
        BY <2>2, <2>5, Zenon
      <4>2. \A j \in 1 .. 1 : j = 1
        OBVIOUS
      <4> QED BY <4>1, <4>2, Zenon
    <3>2. P[1].op = "project"
      BY <2>2, <2>5, Zenon
    <3>3. \A j \in 1 .. Len(P) : P[j].op \in {"offset", "project"}
      BY <3>1, <3>2, Zenon
    <3> QED BY <2>2, <2>5, <3>3, Zenon
  <2>6. CASE P = <<>>
    <3>1. \A j \in 1 .. Len(P) : FALSE
      BY <2>4, <2>6
    <3> QED BY <2>2, <2>6, <3>1, Zenon
  <2> QED BY <2>3, <2>5, <2>6, Zenon
<1>6. F \in Seq(Ops)
  <2>1. C \o o \in Seq(Ops)
    <3> HIDE DEF C, o
    <3> QED BY <1>4, ConcatProperties
  <2> HIDE DEF C, o
  <2> QED BY <2>1, EmptySeq
<1>7. ASSUME q.limit # NoLimit PROVE \A j \in 1 .. Len(F) : F[j].op \in {"offset", "project"}
  <2>1. C = <<>>
    BY <1>7
  <2>2. C \o o = o
    <3> HIDE DEF C
    <3> QED BY <1>4, <2>1, ConcatEmptySeq
  <2>3. F = <<>> \/ F = o
    <3> HIDE DEF C, o
    <3> QED BY <2>2
  <2>4. Len(o) = 1 /\ o[1].op = "offset" /\ Len(<<>>) = 0
    OBVIOUS
  <2> HIDE DEF F, o
  <2> QED BY <2>3, <2>4
<1> DEFINE GO == G \o O
           GOL == GO \o L
           GOLF == GOL \o F
<1> HIDE DEF G, O, F, P, C, o
<1>8. GO \in Seq(Ops)
  BY <1>2, ConcatProperties
<1> HIDE DEF GO
<1>9. GOL \in Seq(Ops)
  <2> HIDE DEF L
  <2> QED BY <1>3, <1>8, ConcatProperties
<1>10. ASSUME q.limit # NoLimit PROVE Ends(GOL, x)
  <2>1. L = <<x>>
    BY <1>10
  <2> HIDE DEF x, L
  <2> QED BY <1>3, <1>8, <2>1, AppendEnds
<1> HIDE DEF GOL, x, L
<1>11. GOLF \in Seq(Ops)
  BY <1>6, <1>9, ConcatProperties
<1>12. ASSUME q.limit # NoLimit PROVE Ends(GOLF, x)
  <2>1. Ends(GOL, x) /\ \A j \in 1 .. Len(F) : F[j].op \in {"offset", "project"}
    BY <1>7, <1>10, <1>12
  <2> QED BY <1>6, <1>9, <2>1, ConcatEnds
<1> HIDE DEF GOLF
<1>13. GOLF \o P \in Seq(Ops)
  BY <1>5, <1>11, ConcatProperties
<1>14. ASSUME q.limit # NoLimit PROVE Ends(GOLF \o P, x)
  <2>1. Ends(GOLF, x)
    BY <1>12, <1>14
  <2> QED BY <1>5, <1>11, <2>1, ConcatEnds
<1>15. PostProcessing(q) = GOLF \o P
  BY <1>1 DEF GOLF, GOL, GO
<1> QED BY <1>13, <1>14, <1>15, Zenon DEF x

(* Rows flow through the operations: none takes back time, a limit holds   *)
(* from where it stands.                                                   *)
Flows == [time : Nat, rows : Int]

Passed(c, p) == [time |-> c.time + PostCost(p, c.rows).time, rows |-> PostCost(p, c.rows).rows]

LEMMA PassedType ==
    ASSUME NEW c \in Flows, NEW p \in Ops
    PROVE  /\ Passed(c, p) \in Flows /\ c.time <= Passed(c, p).time
           /\ p.op = "limit" => Passed(c, p).rows <= p.count
           /\ p.op \in {"offset", "project"} => Passed(c, p).rows = c.rows
<1> DEFINE t == PostCost(p, c.rows).time
           r == PostCost(p, c.rows).rows
           n == AtLeast(c.rows, 1)
<1>1. c.time \in Nat /\ c.rows \in Int /\ p.count \in Int
      /\ p.op \in {"group_by", "order_by", "limit", "offset", "project"}
  BY DEF Flows, Ops
<1>2. n \in Nat /\ 3 * n \in Nat /\ AtLeast(n \div 10, 1) \in Int
  BY <1>1 DEF AtLeast
<1>3. AtMost(c.rows, p.count) \in Int /\ AtMost(c.rows, p.count) <= p.count
  BY <1>1 DEF AtMost
<1>4. /\ t \in Nat /\ r \in Int /\ (p.op = "limit" => r <= p.count)
      /\ (p.op \in {"offset", "project"} => r = c.rows)
  <2> HIDE DEF n
  <2>1. CASE p.op = "order_by"
    <3>1. PostCost(p, c.rows) = [time |-> n, rows |-> c.rows]
      BY <2>1 DEF PostCost, n
    <3> QED BY <1>1, <1>2, <2>1, <3>1
  <2>2. CASE p.op = "limit"
    <3>1. PostCost(p, c.rows) = [time |-> 100, rows |-> AtMost(c.rows, p.count)]
      BY <2>2 DEF PostCost
    <3> QED BY <1>3, <2>2, <3>1
  <2>3. CASE p.op = "group_by"
    <3>1. PostCost(p, c.rows) = [time |-> 3 * n, rows |-> AtLeast(n \div 10, 1)]
      BY <2>3 DEF PostCost, n
    <3> QED BY <1>2, <2>3, <3>1
  <2>4. CASE p.op \in {"offset", "project"}
    <3>1. PostCost(p, c.rows) = [time |-> 0, rows |-> c.rows]
      BY <2>4 DEF PostCost
    <3> QED BY <1>1, <2>4, <3>1
  <2> QED BY <1>1, <2>1, <2>2, <2>3, <2>4
<1> HIDE DEF t, r
<1>5. Passed(c, p) = [time |-> c.time + t, rows |-> r]
  BY DEF Passed, t, r
<1>6. Passed(c, p).time = c.time + t /\ Passed(c, p).rows = r
  BY <1>5
<1>7. Passed(c, p) \in Flows
  BY <1>1, <1>4, <1>5 DEF Flows
<1> QED BY <1>1, <1>4, <1>6, <1>7

LEMMA PostFlow ==
    ASSUME NEW cost \in Flows, NEW post \in Seq(Ops)
    PROVE  /\ WithPostProcessing(cost, post) \in Flows /\ cost.time <= WithPostProcessing(cost, post).time
           /\ \A x \in Ops : Ends(post, x) /\ x.op = "limit" => WithPostProcessing(cost, post).rows <= x.count
<1> DEFINE n == Len(post)
           step == [p \in Nat \X Flows |-> IF p[1] \in 1 .. n THEN Passed(p[2], post[p[1]]) ELSE p[2]]
           F(f) == f = [i \in 0 .. n |-> IF i = 0 THEN cost ELSE
                          LET c == PostCost(post[i], f[i - 1].rows)
                          IN  [time |-> f[i - 1].time + c.time, rows |-> c.rows]]
<1>0. n \in Nat /\ \A i \in 1 .. n : post[i] \in Ops
  BY LenProperties, ElementOfSeq
<1>1. step \in [Nat \X Flows -> Flows]
  <2> SUFFICES ASSUME NEW p \in Nat \X Flows
               PROVE  (IF p[1] \in 1 .. n THEN Passed(p[2], post[p[1]]) ELSE p[2]) \in Flows
    OBVIOUS
  <2>1. p[2] \in Flows
    OBVIOUS
  <2> QED BY <1>0, <2>1, PassedType
<1>2. \A i \in 1 .. n, x \in Flows : step[<<i, x>>] = Passed(x, post[i])
  <2> SUFFICES ASSUME NEW i \in 1 .. n, NEW x \in Flows PROVE step[<<i, x>>] = Passed(x, post[i])
    OBVIOUS
  <2>1. <<i, x>> \in Nat \X Flows /\ <<i, x>>[1] = i /\ <<i, x>>[2] = x
    BY <1>0
  <2> QED BY <2>1, Zenon
<1> HIDE DEF step
<1>3. PICK f : Proceeds(f, Flows, cost, step, n)
  BY <1>0, <1>1, Recurses
<1>4. f \in [0 .. n -> Flows] /\ f[0] = cost /\ \A i \in 1 .. n : f[i] = step[<<i, f[i - 1]>>]
  BY <1>3 DEF Proceeds
<1>5. ASSUME NEW i \in 1 .. n PROVE f[i] = Passed(f[i - 1], post[i])
  <2>1. i - 1 \in 0 .. n
    BY <1>0
  <2>2. f[i - 1] \in Flows
    BY <1>4, <2>1
  <2> QED BY <1>2, <1>4, <2>2
<1>6. F(f)
  <2>1. ASSUME NEW i \in 0 .. n PROVE f[i] = IF i = 0 THEN cost ELSE Passed(f[i - 1], post[i])
    <3>1. i # 0 => i \in 1 .. n
      BY <1>0
    <3> QED BY <1>4, <1>5, <3>1
  <2>2. f = [i \in 0 .. n |-> f[i]]
    BY <1>4
  <2>3. [i \in 0 .. n |-> f[i]] = [i \in 0 .. n |-> IF i = 0 THEN cost ELSE Passed(f[i - 1], post[i])]
    BY <2>1
  <2> QED BY <2>2, <2>3, Zenon DEF Passed
<1> DEFINE g == CHOOSE h : F(h)
<1>7. F(g)
  BY <1>6, Zenon
<1>8. WithPostProcessing(cost, post) = g[n]
  BY SMTT(60) DEF WithPostProcessing
<1> HIDE DEF g, n
<1>9. \A i \in 0 .. n : g[i] = IF i = 0 THEN cost ELSE Passed(g[i - 1], post[i])
  BY <1>7 DEF Passed
<1>10. g[0] = cost /\ \A i \in 1 .. n : g[i] = Passed(g[i - 1], post[i])
  <2>1. 0 \in 0 .. n /\ \A i \in 1 .. n : i \in 0 .. n /\ i # 0
    BY <1>0
  <2> QED BY <1>9, <2>1
<1> DEFINE G == {i \in 0 .. n : g[i] \in Flows /\ cost.time <= g[i].time}
<1>11. 0 \in G
  BY <1>0, <1>10 DEF Flows
<1>12. ASSUME NEW i \in 1 .. n, i - 1 \in G PROVE i \in G
  <2>1. i \in 0 .. n /\ g[i - 1] \in Flows /\ cost.time <= g[i - 1].time
    BY <1>0, <1>12
  <2>2. g[i] = Passed(g[i - 1], post[i]) /\ g[i] \in Flows /\ g[i - 1].time <= g[i].time
    BY <1>0, <1>10, <2>1, PassedType
  <2>3. g[i].time \in Nat /\ g[i - 1].time \in Nat /\ cost.time \in Nat
    BY <2>1, <2>2 DEF Flows
  <2> QED BY <2>1, <2>2, <2>3
<1>13. n \in G /\ \A i \in 0 .. n : i \in G
  <2> HIDE DEF G
  <2> QED BY <1>0, <1>11, <1>12, Along
<1>14. ASSUME NEW x \in Ops, Ends(post, x), x.op = "limit" PROVE g[n].rows <= x.count
  <2>1. PICK k \in 1 .. n : post[k] = x /\ \A j \in 1 .. n : j > k => post[j].op \in {"offset", "project"}
    BY <1>14 DEF Ends, n
  <2> DEFINE H == {i \in 0 .. n : i >= k => g[i].rows <= x.count}
  <2>2. 0 \in H
    BY <1>0
  <2>3. ASSUME NEW i \in 1 .. n, i - 1 \in H PROVE i \in H
    <3>1. i \in 0 .. n /\ i - 1 \in 0 .. n /\ (i - 1 >= k => g[i - 1].rows <= x.count)
      BY <1>0, <2>3
    <3>2. g[i - 1] \in Flows /\ post[i] \in Ops /\ g[i] = Passed(g[i - 1], post[i])
      BY <1>0, <1>10, <1>13, <3>1
    <3>3. CASE i < k
      BY <3>1, <3>3
    <3>4. CASE i = k
      <4>1. g[i].rows <= x.count
        BY <1>14, <2>1, <3>2, <3>4, PassedType
      <4> QED BY <3>1, <4>1
    <3>5. CASE i > k
      <4>1. post[i].op \in {"offset", "project"} /\ i - 1 >= k
        BY <2>1, <3>5
      <4>2. g[i].rows = g[i - 1].rows
        BY <3>2, <4>1, PassedType
      <4> QED BY <3>1, <4>1, <4>2
    <3> QED BY <3>3, <3>4, <3>5
  <2>4. n \in H
    <3> HIDE DEF H
    <3> QED BY <1>0, <2>2, <2>3, Along
  <2> QED BY <1>0, <2>4
<1> QED BY <1>8, <1>13, <1>14

(* The largest of several numbers.                                         *)
LEMMA LargestIs ==
    ASSUME NEW n \in Nat, n # 0, NEW f \in [1 .. n -> Nat], NEW T, T = {f[i] : i \in 1 .. n}
    PROVE  Largest(T) \in Nat /\ \A i \in 1 .. n : f[i] <= Largest(T)
<1>1. f \in Seq(Nat) /\ Len(f) = n
  OBVIOUS
<1>2. f # <<>>
  BY <1>1
<1>3. PICK i \in 1 .. n : LastLargest(f, i, n)
  BY <1>1, <1>2, LargestExists
<1>4. f[i] \in T /\ \A y \in T : y <= f[i]
  BY <1>3 DEF LastLargest
<1>5. Largest(T) \in T /\ \A y \in T : y <= Largest(T)
  BY <1>4, Zenon DEF Largest
<1> QED BY <1>5

(* A step for each node: in order of priority, costed, with the node's     *)
(* conditions.                                                             *)
IsSteps(steps, n, q) ==
    /\ n \in Nat /\ n # 0 /\ DOMAIN steps = 1 .. n /\ steps = [i \in 1 .. n |-> steps[i]] /\ Len(steps) = n
    /\ \A i \in 1 .. n : steps[i].modality \in ActiveOf(q) /\ steps[i].time \in Nat /\ steps[i].rows \in Nat
    /\ \A i, j \in 1 .. n : steps[i].modality = steps[j].modality => i = j
    /\ \A m \in ActiveOf(q) : \E i \in 1 .. n : steps[i].modality = m
    /\ \A i \in 1 .. n : steps[i].pushed = NodeConditions(steps[i].modality, ActiveOf(q), q)

(* A sort of the steps is again a step for each node.                      *)
LEMMA SortedSteps ==
    ASSUME NEW q, NEW s, NEW n, IsSteps(s, n, q), NEW key \in [1 .. n -> Int]
    PROVE  /\ IsSteps(SortedBy(s, key), n, q)
           /\ \E p : /\ Rearranges(p, n) /\ SortedBy(s, key) = [k \in 1 .. n |-> s[p[k]]]
                     /\ \A i, j \in 1 .. n : i < j => key[p[i]] <= key[p[j]]
<1> DEFINE t == SortedBy(s, key)
<1>1. n \in Nat /\ DOMAIN s = 1 .. n
  BY DEF IsSteps
<1>2. PICK p : /\ Rearranges(p, n) /\ t = [k \in 1 .. n |-> s[p[k]]]
               /\ \A i, j \in 1 .. n : i < j => key[p[i]] <= key[p[j]]
  BY <1>1, SortedByIs, ZenonT(60)
<1> HIDE DEF t
<1>3. /\ p \in [1 .. n -> 1 .. n] /\ \A i, j \in 1 .. n : p[i] = p[j] => i = j
      /\ \A k \in 1 .. n : \E i \in 1 .. n : p[i] = k
  BY <1>2 DEF Rearranges
<1>4. \A i \in 1 .. n : p[i] \in 1 .. n /\ t[i] = s[p[i]]
  BY <1>2, <1>3
<1>5. DOMAIN t = 1 .. n /\ t = [i \in 1 .. n |-> t[i]] /\ Len(t) = n
  BY <1>1, <1>2
<1>6. \A i \in 1 .. n : /\ t[i].modality \in ActiveOf(q) /\ t[i].time \in Nat /\ t[i].rows \in Nat
                        /\ t[i].pushed = NodeConditions(t[i].modality, ActiveOf(q), q)
  <2> SUFFICES ASSUME NEW i \in 1 .. n
               PROVE  /\ t[i].modality \in ActiveOf(q) /\ t[i].time \in Nat /\ t[i].rows \in Nat
                      /\ t[i].pushed = NodeConditions(t[i].modality, ActiveOf(q), q)
    BY Zenon
  <2>1. p[i] \in 1 .. n /\ t[i] = s[p[i]]
    BY <1>4
  <2>2. \A k \in 1 .. n : /\ s[k].modality \in ActiveOf(q) /\ s[k].time \in Nat /\ s[k].rows \in Nat
                          /\ s[k].pushed = NodeConditions(s[k].modality, ActiveOf(q), q)
    BY Zenon DEF IsSteps
  <2> QED BY <2>1, <2>2, Zenon
<1>7. ASSUME NEW i \in 1 .. n, NEW j \in 1 .. n, t[i].modality = t[j].modality PROVE i = j
  <2>1. s[p[i]].modality = s[p[j]].modality /\ p[i] \in 1 .. n /\ p[j] \in 1 .. n
    BY <1>4, <1>7
  <2>2. p[i] = p[j]
    BY <2>1, SMTT(60) DEF IsSteps
  <2> QED BY <1>3, <2>2
<1>8. ASSUME NEW m \in ActiveOf(q) PROVE \E i \in 1 .. n : t[i].modality = m
  <2>1. PICK k \in 1 .. n : s[k].modality = m
    BY DEF IsSteps
  <2>2. PICK i \in 1 .. n : p[i] = k
    BY <1>3
  <2> QED BY <1>4, <2>1, <2>2
<1>9. n # 0
  BY DEF IsSteps
<1>10. IsSteps(t, n, q)
  BY <1>1, <1>5, <1>6, <1>7, <1>8, <1>9 DEF IsSteps
<1> QED BY <1>2, <1>10 DEF t

(* What a plan for q is: its steps in order of priority, an estimate that  *)
(* covers them, and rows within the limit.                                 *)
IsPlan(p, q) ==
    /\ p.query = q /\ p.strategy \in {"parallel", "sequential"} /\ p.time \in Nat /\ p.rows \in Int
    /\ \E n : IsSteps(p.steps, n, q)
    /\ \A i, j \in DOMAIN p.steps : i < j => Priority[p.steps[i].modality] < Priority[p.steps[j].modality]
    /\ \A i \in DOMAIN p.steps : p.steps[i].time <= p.time
    /\ p.strategy = "sequential" => StepTime(p) <= p.time
    /\ q.limit # NoLimit => p.rows <= q.limit

LEMMA OptimizeIs ==
    ASSUME PlannerTypes, NEW q, IsQuery(q), Plans(q)
    PROVE  IsPlan(Optimize(q), q)
<1> DEFINE nodes == ToLogicalPlan(q).nodes
           post == ToLogicalPlan(q).post
           Step(x) == [modality |-> x.modality, pushed |-> x.conditions,
                       time |-> Estimate(x).time, rows |-> Estimate(x).rows,
                       selectivity |-> Estimate(x).selectivity]
           costed == [i \in DOMAIN nodes |-> Step(nodes[i])]
           cheap == SortedBy(costed, [i \in DOMAIN costed |-> costed[i].time])
           steps == SortedBy(cheap, [i \in DOMAIN cheap |-> Priority[cheap[i].modality]])
           parallel == Len(steps) >= ParallelThreshold
           total == WithPostProcessing(Combine(steps, parallel), post)
           strategy == IF parallel THEN "parallel" ELSE "sequential"
           p == [query |-> q, steps |-> steps, strategy |-> strategy, time |-> total.time, rows |-> total.rows]
<1>1. Optimize(q) = p
  BY DEF Optimize
<1>2. PICK n : IsNodes(nodes, n, q) /\ post = PostProcessing(q)
  <2> HIDE DEF nodes, post
  <2>1. \E n : IsNodes(ToLogicalPlan(q).nodes, n, q) /\ ToLogicalPlan(q).post = PostProcessing(q)
    BY NodesAre
  <2> QED BY <2>1 DEF nodes, post
<1> HIDE DEF nodes, post
<1>3. n \in Nat /\ n # 0 /\ DOMAIN nodes = 1 .. n
  BY <1>2 DEF IsNodes
<1>4. ASSUME NEW i \in 1 .. n
      PROVE  /\ costed[i].modality = nodes[i].modality /\ costed[i].pushed = nodes[i].conditions
             /\ costed[i].time \in Nat /\ costed[i].rows \in Nat
  <2>1. nodes[i].modality \in ActiveOf(q) /\ nodes[i].conditions = NodeConditions(nodes[i].modality, ActiveOf(q), q)
    BY <1>2 DEF IsNodes
  <2>2. nodes[i].modality \in PlanModalities
    BY <2>1 DEF ActiveOf
  <2> DEFINE c == NodeConditions(nodes[i].modality, ActiveOf(q), q)
  <2>3. (\E S : c \in Seq(S)) /\ \A k \in 1 .. Len(c) : IsKind(c[k])
    BY NodeConditionsAre DEF IsQuery, AreConditions
  <2> HIDE DEF c
  <2>4. PICK S : c \in Seq(S)
    BY <2>3
  <2>5. nodes[i].conditions = c
    BY <2>1 DEF c
  <2>6. Estimate(nodes[i]).time \in Nat /\ Estimate(nodes[i]).rows \in Nat
    BY <2>2, <2>3, <2>4, <2>5, EstimateType
  <2>7. costed[i] = Step(nodes[i])
    BY <1>3
  <2> HIDE DEF costed
  <2> QED BY <2>6, <2>7
<1>5. DOMAIN costed = 1 .. n /\ costed = [i \in 1 .. n |-> costed[i]] /\ Len(costed) = n
  <2> HIDE DEF Step
  <2> QED BY <1>3
<1> HIDE DEF costed
<1>6. IsSteps(costed, n, q)
  BY <1>2, <1>3, <1>4, <1>5, SMTT(60) DEF IsSteps, IsNodes
<1>7. IsSteps(cheap, n, q)
  <2> DEFINE key == [i \in DOMAIN costed |-> costed[i].time]
  <2>1. key \in [1 .. n -> Int]
    BY <1>4, <1>5
  <2> HIDE DEF key
  <2>2. IsSteps(SortedBy(costed, key), n, q)
    BY <1>6, <2>1, SortedSteps
  <2> QED BY <2>2 DEF key
<1> HIDE DEF cheap
<1>8. IsSteps(steps, n, q) /\ \A i, j \in 1 .. n : i < j => Priority[steps[i].modality] < Priority[steps[j].modality]
  <2> DEFINE key == [i \in DOMAIN cheap |-> Priority[cheap[i].modality]]
  <2>0. DOMAIN cheap = 1 .. n /\ \A i \in 1 .. n : cheap[i].modality \in PlanModalities
    BY <1>7 DEF IsSteps, ActiveOf
  <2>1. key \in [1 .. n -> Int] /\ \A i \in 1 .. n : key[i] = Priority[cheap[i].modality]
    BY <2>0, PriorityType
  <2> HIDE DEF key
  <2>2. /\ IsSteps(SortedBy(cheap, key), n, q)
        /\ \E r : /\ Rearranges(r, n) /\ SortedBy(cheap, key) = [k \in 1 .. n |-> cheap[r[k]]]
                  /\ \A i, j \in 1 .. n : i < j => key[r[i]] <= key[r[j]]
    BY <1>7, <2>1, SortedSteps, ZenonT(60)
  <2>3. steps = SortedBy(cheap, key)
    BY DEF key
  <2> HIDE DEF steps
  <2>4. PICK r : /\ Rearranges(r, n) /\ steps = [k \in 1 .. n |-> cheap[r[k]]]
                 /\ \A i, j \in 1 .. n : i < j => key[r[i]] <= key[r[j]]
    BY <2>2, <2>3
  <2>5. IsSteps(steps, n, q)
    BY <2>2, <2>3
  <2>6. ASSUME NEW i \in 1 .. n, NEW j \in 1 .. n, i < j
        PROVE  Priority[steps[i].modality] < Priority[steps[j].modality]
    <3>1. r[i] \in 1 .. n /\ r[j] \in 1 .. n
      BY <2>4 DEF Rearranges
    <3>2. steps[i] = cheap[r[i]] /\ steps[j] = cheap[r[j]]
      BY <2>4
    <3>3. Priority[steps[i].modality] <= Priority[steps[j].modality]
      BY <2>1, <2>4, <2>6, <3>1, <3>2
    <3>4. steps[i].modality \in PlanModalities /\ steps[j].modality \in PlanModalities
      BY <2>0, <3>1, <3>2
    <3>5. steps[i].modality # steps[j].modality
      BY <2>5, <2>6 DEF IsSteps
    <3>6. Priority[steps[i].modality] \in Nat /\ Priority[steps[j].modality] \in Nat
      BY <3>4, PriorityType
    <3>7. Priority[steps[i].modality] # Priority[steps[j].modality]
      BY <3>4, <3>5, PrioritiesDiffer
    <3> QED BY <3>3, <3>6, <3>7
  <2> QED BY <2>5, <2>6
<1> HIDE DEF steps
<1>9. /\ DOMAIN steps = 1 .. n /\ Len(steps) = n /\ \A i \in 1 .. n : steps[i].time \in Nat /\ steps[i].rows \in Nat
  BY <1>8 DEF IsSteps
<1> DEFINE times == [i \in DOMAIN steps |-> steps[i].time]
           rows == [i \in DOMAIN steps |-> steps[i].rows]
           T == {steps[i].time : i \in DOMAIN steps}
           R == {steps[i].rows : i \in DOMAIN steps}
           cost == Combine(steps, parallel)
<1>10. times \in [1 .. n -> Nat] /\ rows \in [1 .. n -> Nat]
  BY <1>9
<1>11. /\ \A i \in 1 .. n : times[i] = steps[i].time
       /\ T = {times[i] : i \in 1 .. n} /\ R = {rows[i] : i \in 1 .. n}
  BY <1>9
<1> HIDE DEF times, rows, T, R
<1>12. Largest(T) \in Nat /\ (\A i \in 1 .. n : times[i] <= Largest(T)) /\ Largest(R) \in Nat
  BY <1>3, <1>10, <1>11, LargestIs
<1>13. SumOf(times) \in Nat /\ \A i \in 1 .. n : times[i] <= SumOf(times)
  BY <1>3, <1>10, SumCovers
<1>14. cost = [time |-> IF parallel THEN Largest(T) ELSE SumOf(times), rows |-> Largest(R)]
  BY DEF Combine, T, R, times
<1> HIDE DEF parallel
<1>15. parallel \in BOOLEAN
  BY DEF parallel
<1> DEFINE ct == IF parallel THEN Largest(T) ELSE SumOf(times)
<1>16. ct \in Nat /\ (\A i \in 1 .. n : times[i] <= ct) /\ (~parallel => ct = SumOf(times))
  BY <1>12, <1>13, <1>15
<1> HIDE DEF ct
<1>17. cost = [time |-> ct, rows |-> Largest(R)] /\ cost \in Flows /\ cost.time = ct
  <2>1. cost = [time |-> ct, rows |-> Largest(R)]
    BY <1>14 DEF ct
  <2> HIDE DEF cost
  <2> QED BY <1>12, <1>16, <2>1 DEF Flows
<1> HIDE DEF cost
<1>18. post \in Seq(Ops) /\ (q.limit # NoLimit => Ends(post, [op |-> "limit", count |-> q.limit]))
  BY <1>2, PostProcessingIs
<1>19. /\ total \in Flows /\ ct <= total.time
       /\ \A x \in Ops : Ends(post, x) /\ x.op = "limit" => total.rows <= x.count
  BY <1>17, <1>18, PostFlow DEF cost
<1> HIDE DEF total
<1>20. total.time \in Nat /\ total.rows \in Int
  BY <1>19 DEF Flows
<1>21. ASSUME q.limit # NoLimit PROVE total.rows <= q.limit
  <2> DEFINE x == [op |-> "limit", count |-> q.limit]
  <2>1. q.limit \in Int
    BY <1>21 DEF IsQuery
  <2>2. x \in Ops /\ x.op = "limit" /\ x.count = q.limit
    BY <2>1 DEF Ops
  <2>3. Ends(post, x)
    BY <1>18, <1>21
  <2> HIDE DEF x
  <2>4. total.rows <= x.count
    BY <1>19, <2>2, <2>3
  <2> QED BY <2>2, <2>4
<1>22. /\ p.query = q /\ p.steps = steps /\ p.time = total.time /\ p.rows = total.rows
       /\ p.strategy \in {"parallel", "sequential"} /\ (p.strategy = "sequential" => ~parallel)
  BY <1>15
<1> HIDE DEF p
<1>23. StepTime(p) = SumOf(times)
  BY <1>22 DEF StepTime, times
<1>24. ASSUME NEW i \in DOMAIN p.steps PROVE p.steps[i].time <= p.time
  <2>1. i \in 1 .. n /\ p.steps[i].time = times[i] /\ times[i] \in Nat
    BY <1>9, <1>10, <1>11, <1>22
  <2>2. times[i] <= ct
    BY <1>16, <2>1
  <2> QED BY <1>16, <1>19, <1>20, <1>22, <2>1, <2>2
<1>25. p.strategy = "sequential" => StepTime(p) <= p.time
  BY <1>16, <1>19, <1>22, <1>23
<1>26. IsPlan(p, q)
  BY <1>8, <1>9, <1>20, <1>21, <1>22, <1>24, <1>25 DEF IsPlan
<1> QED BY <1>1, <1>26, SMTT(60)

(* A condition that reaches the node of a step is pushed to that step.     *)
LEMMA ReachedIsPushed ==
    ASSUME NEW q, IsQuery(q), NEW n, IsSteps(plan.steps, n, q), NEW j \in 1 .. n, NEW i \in DOMAIN q.where,
           Reaches(q.where[i], plan.steps[j].modality, ActiveOf(q))
    PROVE  Carried(q.where[i]) \in Pushed(plan.steps[j].modality)
<1> DEFINE m == plan.steps[j].modality
           c == NodeConditions(m, ActiveOf(q), q)
<1>1. q.where \in Seq(Conditions) /\ q.proof \in Seq(Proofs)
  BY DEF IsQuery
<1>2. \E k \in DOMAIN c : c[k].of = Carried(q.where[i])
  <2>1. AreConditions(c, m, ActiveOf(q), q.where)
    BY <1>1, NodeConditionsAre
  <2> QED BY <2>1, Zenon DEF AreConditions
<1>3. PICK k \in DOMAIN c : c[k].of = Carried(q.where[i])
  BY <1>2
<1>4. plan.steps[j].pushed = c /\ DOMAIN plan.steps = 1 .. n
  BY Zenon DEF IsSteps
<1> DEFINE at == {x \in DOMAIN plan.steps : plan.steps[x].modality = m}
           of == {plan.steps[j].pushed[x].of : x \in DOMAIN plan.steps[j].pushed}
<1>5. j \in at
  BY <1>4
<1>6. Carried(q.where[i]) \in of
  BY <1>3, <1>4, Zenon
<1>7. of \in {{plan.steps[x].pushed[y].of : y \in DOMAIN plan.steps[x].pushed} : x \in at}
  BY <1>5, Zenon
<1> QED BY <1>6, <1>7, Zenon DEF Pushed

(* A plan of a query keeps its conditions, orders its steps and covers     *)
(* them with its estimate.                                                 *)
LEMMA PlanAnswers ==
    ASSUME NEW q, IsQuery(q), IsPlan(plan, q)
    PROVE  ConditionsKept /\ StepsOrdered /\ RowsWithinLimit /\ CostCoversSteps
<1>1. PICK n : IsSteps(plan.steps, n, q)
  BY DEF IsPlan
<1>2. DOMAIN plan.steps = 1 .. n /\ plan.query = q
  BY <1>1 DEF IsSteps, IsPlan
<1>3. \A m : Asked(m) <=> m \in ActiveOf(q)
  BY <1>2 DEF Asked, ActiveOf, AskedIn
<1>4. \A j \in 1 .. n : plan.steps[j].modality \in ActiveOf(q)
  BY <1>1, Zenon DEF IsSteps
<1>5. ConditionsKept
  <2> SUFFICES ASSUME NEW i \in DOMAIN q.where
               PROVE  IF q.where[i].tag \in SimpleTags /\ Asked(TargetOf(q.where[i]))
                      THEN Carried(q.where[i]) \in Pushed(TargetOf(q.where[i]))
                      ELSE \A j \in DOMAIN plan.steps : Carried(q.where[i]) \in Pushed(plan.steps[j].modality)
    BY <1>2, Zenon DEF ConditionsKept
  <2> DEFINE c == q.where[i]
  <2>1. CASE c.tag \in SimpleTags /\ Asked(TargetOf(c))
    <3>1. TargetOf(c) \in ActiveOf(q)
      BY <1>3, <2>1, Zenon
    <3>2. PICK j \in 1 .. n : plan.steps[j].modality = TargetOf(c)
      BY <1>1, <3>1, Zenon DEF IsSteps
    <3>3. Reaches(c, plan.steps[j].modality, ActiveOf(q))
      BY <3>2, Zenon DEF Reaches
    <3>4. Carried(c) \in Pushed(plan.steps[j].modality)
      BY <1>1, <3>3, ReachedIsPushed
    <3>5. Carried(c) \in Pushed(TargetOf(c))
      BY <3>2, <3>4, Zenon
    <3> QED BY <2>1, <3>5, Zenon
  <2>2. CASE ~(c.tag \in SimpleTags /\ Asked(TargetOf(c)))
    <3>1. ASSUME NEW j \in DOMAIN plan.steps PROVE Carried(c) \in Pushed(plan.steps[j].modality)
      <4>1. TargetOf(c) = "none" \/ TargetOf(c) \notin ActiveOf(q)
        <5>1. CASE c.tag \in SimpleTags
          BY <1>3, <2>2, <5>1, Zenon
        <5>2. CASE c.tag \notin SimpleTags
          BY <5>2 DEF TargetOf, SimpleTags
        <5> QED BY <5>1, <5>2
      <4>2. Reaches(c, plan.steps[j].modality, ActiveOf(q))
        BY <4>1, Zenon DEF Reaches
      <4>3. j \in 1 .. n
        BY <1>2, <3>1
      <4> QED BY <1>1, <4>2, <4>3, ReachedIsPushed
    <3> QED BY <2>2, <3>1, Zenon
  <2> QED BY <2>1, <2>2, Zenon
<1>6. StepsOrdered
  <2>1. ASSUME NEW m \in PlanModalities
        PROVE  Cardinality({i \in DOMAIN plan.steps : plan.steps[i].modality = m}) = IF Asked(m) THEN 1 ELSE 0
    <3> DEFINE at == {i \in DOMAIN plan.steps : plan.steps[i].modality = m}
    <3>1. CASE Asked(m)
      <4>1. m \in ActiveOf(q)
        BY <1>3, <3>1, Zenon
      <4>2. PICK j \in 1 .. n : plan.steps[j].modality = m
        BY <1>1, <4>1, Zenon DEF IsSteps
      <4>3. \A k \in 1 .. n : plan.steps[k].modality = plan.steps[j].modality => k = j
        BY <1>1, Zenon DEF IsSteps
      <4>4. at = {j}
        BY <1>2, <4>2, <4>3
      <4> QED BY <3>1, <4>4, FS_Singleton, Zenon
    <3>2. CASE ~Asked(m)
      <4>1. at = {}
        BY <1>2, <1>3, <1>4, <3>2
      <4> QED BY <3>2, <4>1, FS_EmptySet, Zenon
    <3> QED BY <3>1, <3>2
  <2>2. \A i, j \in DOMAIN plan.steps :
           i < j => Priority[plan.steps[i].modality] < Priority[plan.steps[j].modality]
    BY Zenon DEF IsPlan
  <2> QED BY <2>1, <2>2, Zenon DEF StepsOrdered
<1>7. RowsWithinLimit
  BY <1>2, Zenon DEF IsPlan, RowsWithinLimit
<1>8. CostCoversSteps
  BY Zenon DEF IsPlan, CostCoversSteps
<1> QED BY <1>5, <1>6, <1>7, <1>8

(* The steps' parts of the whole, rounded down, add up to the whole but    *)
(* for less than one each.                                                 *)
LEMMA Rounded ==
    ASSUME NEW a \in Nat, NEW t \in Nat, t > 0
    PROVE  a \div t \in Nat /\ t * (a \div t) <= a /\ a <= t * (a \div t) + (t - 1)
OBVIOUS

LEMMA TimesAtMost ==
    ASSUME NEW a \in Int, NEW b \in Int, NEW t \in Nat, a <= b
    PROVE  t * a <= t * b
OBVIOUS

LEMMA TimesSum ==
    ASSUME NEW a \in Int, NEW b \in Int, NEW t \in Int
    PROVE  t * (a + b) = t * a + t * b /\ t * a \in Int
OBVIOUS

(* One more part: T times the parts so far stays within 1000 times the     *)
(* times so far, less than T a step below.                                 *)
LEMMA OneMorePart ==
    ASSUME NEW T \in Nat, T > 0, NEW a \in Int, NEW x \in Nat, NEW h \in Int, NEW i \in Nat,
           T * h <= 1000 * a, 1000 * a <= T * h + i * (T - 1), NEW g \in Nat, g = (1000 * x) \div T
    PROVE  T * (h + g) <= 1000 * (a + x) /\ 1000 * (a + x) <= T * (h + g) + (i + 1) * (T - 1)
<1>1. T * g <= 1000 * x /\ 1000 * x <= T * g + (T - 1)
  BY Rounded
<1>2. T * (h + g) = T * h + T * g /\ T * h \in Int /\ T * g \in Int
  BY TimesSum
<1>3. (i + 1) * (T - 1) = i * (T - 1) + (T - 1) /\ i * (T - 1) \in Int
  OBVIOUS
<1> DEFINE u == T * h
           v == T * g
           w == i * (T - 1)
           y == (i + 1) * (T - 1)
           z == T * (h + g)
<1>4. u \in Int /\ v \in Int /\ w \in Int /\ z = u + v /\ y = w + (T - 1)
  BY <1>2, <1>3
<1>5. u <= 1000 * a /\ 1000 * a <= u + w /\ v <= 1000 * x /\ 1000 * x <= v + (T - 1)
  BY <1>1
<1>6. z <= 1000 * (a + x) /\ 1000 * (a + x) <= z + y
  <2> HIDE DEF u, v, w, y, z
  <2> QED BY <1>4, <1>5
<1> QED BY <1>6

PartOf(x, T) == (1000 * x) \div T

PartsFit(T, h, a, i) == T * h <= 1000 * a /\ 1000 * a <= T * h + i * (T - 1)

AlmostAll(h, n) == h <= 1000 /\ h > 1000 - n

LEMMA PartsAtTheEnd ==
    \A T \in Nat, h \in Int, n \in Nat : T > 0 /\ n # 0 /\ PartsFit(T, h, T, n) => AlmostAll(h, n)
<1> SUFFICES ASSUME NEW T \in Nat, T > 0, NEW h \in Int, NEW n \in Nat, n # 0, PartsFit(T, h, T, n)
             PROVE  AlmostAll(h, n)
  BY Zenon
<1>0. T * h <= 1000 * T /\ 1000 * T <= T * h + n * (T - 1)
  BY Zenon DEF PartsFit
<1>1. ASSUME h > 1000 PROVE FALSE
  <2>1. T * 1001 <= T * h
    BY <1>1, TimesAtMost
  <2> DEFINE u == T * h
  <2>2. T * 1001 <= u /\ u <= 1000 * T /\ u \in Int
    BY <1>0, <2>1
  <2> HIDE DEF u
  <2> QED BY <2>2
<1>2. ASSUME h <= 1000 - n PROVE FALSE
  <2>1. T * h <= T * (1000 - n)
    BY <1>2, TimesAtMost
  <2>2. T * (1000 - n) = 1000 * T - T * n /\ n * (T - 1) = T * n - n /\ T * n \in Int
    OBVIOUS
  <2> DEFINE u == T * h
             v == T * n
             w == n * (T - 1)
  <2>3. u <= 1000 * T - v /\ w = v - n /\ 1000 * T <= u + w /\ u \in Int /\ v \in Int /\ w \in Int
    BY <1>0, <2>1, <2>2
  <2> HIDE DEF u, v, w
  <2> QED BY <2>3
<1>3. h <= 1000 /\ h > 1000 - n
  BY <1>1, <1>2
<1> QED BY <1>3, Zenon DEF AlmostAll

LEMMA PartsGoOn ==
    ASSUME NEW T \in Nat, T > 0, NEW a \in Int, NEW x \in Nat, NEW h \in Int, NEW i \in Nat, i > 0,
           PartsFit(T, h, a, i - 1), NEW g \in Nat, g = PartOf(x, T), NEW b, b = a + x, NEW k, k = h + g
    PROVE  PartsFit(T, k, b, i)
<1>1. i - 1 \in Nat /\ (i - 1) + 1 = i
  OBVIOUS
<1>2. T * h <= 1000 * a /\ 1000 * a <= T * h + (i - 1) * (T - 1)
  BY Zenon DEF PartsFit
<1>3. T * (h + g) <= 1000 * (a + x) /\ 1000 * (a + x) <= T * (h + g) + ((i - 1) + 1) * (T - 1)
  <2>1. g = (1000 * x) \div T
    BY DEF PartOf
  <2> QED BY <1>1, <1>2, <2>1, OneMorePart
<1>4. PartsFit(T, h + g, a + x, (i - 1) + 1)
  BY <1>3, ZenonT(60) DEF PartsFit
<1> QED BY <1>1, <1>4, Zenon

AreParts(g, t, T, n) == \A i \in 1 .. n : g[i] = PartOf(t[i], T)

LEMMA PartsAddUp ==
    ASSUME NEW n \in Nat, n # 0, NEW t \in [1 .. n -> Nat], NEW T, T = SumOf(t), T > 0,
           NEW g \in [1 .. n -> Nat], AreParts(g, t, T, n)
    PROVE  AlmostAll(SumOf(g), n)
<1>0. T \in Nat /\ t \in [1 .. n -> Int] /\ g \in [1 .. n -> Int]
  <2>1. T \in Nat
    BY SumCovers
  <2>2. t \in [1 .. n -> Int] /\ g \in [1 .. n -> Int]
    OBVIOUS
  <2> QED BY <2>1, <2>2
<1>3. PICK a : Sums(a, t, n) /\ SumOf(t) = a[n]
  <2>1. \E a : Sums(a, t, n) /\ SumOf(t) = a[n]
    BY <1>0, SumIs
  <2> QED BY <2>1, Zenon
<1>4. PICK h : Sums(h, g, n) /\ SumOf(g) = h[n]
  <2>1. \E h : Sums(h, g, n) /\ SumOf(g) = h[n]
    BY <1>0, SumIs
  <2> QED BY <2>1, Zenon
<1>5. a \in [0 .. n -> Int] /\ a[0] = 0 /\ \A i \in 1 .. n : a[i] = a[i - 1] + t[i]
  BY <1>3, Zenon DEF Sums
<1>6. h \in [0 .. n -> Int] /\ h[0] = 0 /\ \A i \in 1 .. n : h[i] = h[i - 1] + g[i]
  BY <1>4, Zenon DEF Sums
<1> DEFINE G == {i \in 0 .. n : PartsFit(T, h[i], a[i], i)}
<1>7. 0 \in G
  <2>1. T * 0 <= 1000 * 0 /\ 1000 * 0 <= T * 0 + 0 * (T - 1) /\ 0 \in 0 .. n
    BY <1>0
  <2>2. PartsFit(T, h[0], a[0], 0)
    <3>1. PartsFit(T, 0, 0, 0)
      BY <2>1, Zenon DEF PartsFit
    <3> QED BY <1>5, <1>6, <3>1, Zenon
  <2> QED BY <2>1, <2>2, Zenon
<1>8. ASSUME NEW i \in 1 .. n, i - 1 \in G PROVE i \in G
  <2>1. i - 1 \in 0 .. n /\ i \in 0 .. n /\ i \in Nat /\ i > 0
    OBVIOUS
  <2>2. PartsFit(T, h[i - 1], a[i - 1], i - 1)
    BY <1>8, Zenon
  <2>3. a[i - 1] \in Int /\ h[i - 1] \in Int /\ t[i] \in Nat /\ g[i] \in Nat
    <3> HIDE DEF G
    <3> QED BY <1>5, <1>6, <2>1
  <2>4. a[i] = a[i - 1] + t[i] /\ h[i] = h[i - 1] + g[i] /\ g[i] = PartOf(t[i], T)
    BY <1>5, <1>6, Zenon DEF AreParts
  <2> HIDE DEF G
  <2> DEFINE a0 == a[i - 1]
             h0 == h[i - 1]
             x == t[i]
             y == g[i]
             b == a[i]
             k == h[i]
  <2>5. a0 \in Int /\ h0 \in Int /\ x \in Nat /\ y \in Nat /\ b = a0 + x /\ k = h0 + y
        /\ y = PartOf(x, T) /\ PartsFit(T, h0, a0, i - 1)
    BY <2>2, <2>3, <2>4, Zenon
  <2>6. PartsFit(T, k, b, i)
    <3> HIDE DEF a0, h0, x, y, b, k
    <3> QED BY <1>0, <2>1, <2>5, PartsGoOn
  <2> QED BY <2>1, <2>6, Zenon DEF G
<1>9. n \in G
  <2> HIDE DEF G
  <2> QED BY <1>7, <1>8, Along
<1>10. PartsFit(T, h[n], T, n)
  BY <1>3, <1>9, Zenon
<1>11. h[n] \in Int
  <2>1. n \in 0 .. n
    OBVIOUS
  <2> HIDE DEF G
  <2> QED BY <1>6, <2>1
<1> DEFINE e == h[n]
<1>12. e \in Int /\ PartsFit(T, e, T, n) /\ SumOf(g) = e
  BY <1>4, <1>10, <1>11, Zenon
<1> HIDE DEF e, G
<1>13. AlmostAll(e, n)
  BY <1>0, <1>12, PartsAtTheEnd, Zenon
<1> QED BY <1>12, <1>13, Zenon

(* The parts of the steps of a plan.                                       *)
LEMMA SharesAre ==
    ASSUME NEW q, NEW n, IsSteps(plan.steps, n, q)
    PROVE  /\ StepTime(plan) \in Nat /\ Shares(plan) \in [1 .. n -> Nat] /\ SumOf(Shares(plan)) <= 1000
           /\ StepTime(plan) > 0 => SumOf(Shares(plan)) > 1000 - n
<1> DEFINE t == [i \in DOMAIN plan.steps |-> plan.steps[i].time]
           T == StepTime(plan)
           g == Shares(plan)
<1>1. n \in Nat /\ n # 0 /\ DOMAIN plan.steps = 1 .. n /\ \A i \in 1 .. n : plan.steps[i].time \in Nat
  BY Zenon DEF IsSteps
<1>2. t \in [1 .. n -> Nat] /\ \A i \in 1 .. n : t[i] = plan.steps[i].time
  BY <1>1
<1>3. T = SumOf(t)
  BY Zenon DEF StepTime
<1>4. g = [i \in 1 .. n |-> IF T > 0 THEN PartOf(plan.steps[i].time, T) ELSE 0]
  BY <1>1, Zenon DEF Shares, PartOf
<1> HIDE DEF t, T, g
<1>5. T \in Nat
  BY <1>1, <1>2, <1>3, SumCovers
<1>6. \A i \in 1 .. n : g[i] = IF T > 0 THEN PartOf(t[i], T) ELSE 0
  BY <1>2, <1>4, Zenon
<1>7. \A i \in 1 .. n : T > 0 => PartOf(t[i], T) \in Nat
  BY <1>2, <1>5, Rounded DEF PartOf
<1>8. g \in [1 .. n -> Nat]
  BY <1>4, <1>6, <1>7
<1>9. CASE T > 0
  <2>1. AreParts(g, t, T, n)
    BY <1>6, <1>9, Zenon DEF AreParts
  <2>2. SumOf(g) <= 1000 /\ SumOf(g) > 1000 - n
    <3>1. AlmostAll(SumOf(g), n)
      BY <1>1, <1>2, <1>3, <1>8, <1>9, <2>1, PartsAddUp
    <3> QED BY <3>1, Zenon DEF AlmostAll
  <2> QED BY <1>5, <1>8, <2>2 DEF T, g
<1>10. CASE T = 0
  <2>1. \A i \in 1 .. n : g[i] <= 2 * t[i]
    BY <1>2, <1>6, <1>10
  <2>2. SumOf(g) <= 2 * SumOf(t)
    BY <1>1, <1>2, <1>8, <2>1, SumsCompare
  <2>3. SumOf(g) \in Nat
    BY <1>1, <1>8, SumCovers
  <2>4. SumOf(g) <= 1000
    BY <1>3, <1>10, <2>2, <2>3
  <2> QED BY <1>5, <1>8, <1>10, <2>4 DEF T, g
<1> QED BY <1>5, <1>9, <1>10

(* EXPLAIN accounts for every step of a plan.                              *)
LEMMA PlanExplained ==
    ASSUME NEW q, IsPlan(plan, q)
    PROVE  ExplainAccounts
<1>1. PICK n : IsSteps(plan.steps, n, q)
  BY DEF IsPlan
<1>2. n \in Nat /\ n # 0 /\ DOMAIN plan.steps = 1 .. n
  BY <1>1, Zenon DEF IsSteps
<1> DEFINE g == Shares(plan)
           lines == [i \in DOMAIN plan.steps |-> [modality |-> plan.steps[i].modality, share |-> g[i]]]
           key == [i \in DOMAIN plan.steps |-> -g[i]]
           b == SortedBy(lines, key)
           S == [i \in DOMAIN b |-> b[i].share]
<1>3. StepTime(plan) \in Nat /\ g \in [1 .. n -> Nat] /\ SumOf(g) <= 1000 /\ (StepTime(plan) > 0 => SumOf(g) > 1000 - n)
  BY <1>1, SharesAre
<1>4. Explain(plan).breakdown = b
  BY DEF Explain
<1> HIDE DEF g
<1>5. /\ \A i \in 1 .. n : lines[i].modality = plan.steps[i].modality /\ lines[i].share = g[i]
      /\ DOMAIN lines = 1 .. n
  BY <1>2
<1>6. key \in [1 .. n -> Int] /\ \A i \in 1 .. n : key[i] = -g[i]
  BY <1>2, <1>3
<1> HIDE DEF lines, key
<1>7. PICK p : /\ Rearranges(p, n) /\ b = [k \in 1 .. n |-> lines[p[k]]]
               /\ \A i, j \in 1 .. n : i < j => key[p[i]] <= key[p[j]]
  <2>1. \E p : /\ Rearranges(p, n) /\ b = [k \in 1 .. n |-> lines[p[k]]]
               /\ \A i, j \in 1 .. n : i < j => key[p[i]] <= key[p[j]]
    <3>1. n \in Nat /\ DOMAIN lines = 1 .. n /\ key \in [1 .. n -> Int]
      BY <1>2, <1>5, <1>6
    <3>2. \E p : /\ Rearranges(p, n) /\ SortedBy(lines, key) = [k \in 1 .. n |-> lines[p[k]]]
                 /\ \A i, j \in 1 .. n : i < j => key[p[i]] <= key[p[j]]
      BY <3>1, SortedByIs, ZenonT(60)
    <3> QED BY <3>2, Zenon
  <2> QED BY <2>1, Zenon
<1> HIDE DEF b
<1>8. p \in [1 .. n -> 1 .. n] /\ \A k \in 1 .. n : \E i \in 1 .. n : p[i] = k
  BY <1>7, Zenon DEF Rearranges
<1>9. DOMAIN b = 1 .. n /\ Len(b) = n
  BY <1>2, <1>7
<1>10. \A i \in 1 .. n : p[i] \in 1 .. n /\ b[i].modality = plan.steps[p[i]].modality /\ b[i].share = g[p[i]]
  <2> SUFFICES ASSUME NEW i \in 1 .. n
               PROVE  p[i] \in 1 .. n /\ b[i].modality = plan.steps[p[i]].modality /\ b[i].share = g[p[i]]
    OBVIOUS
  <2>1. p[i] \in 1 .. n
    BY <1>8
  <2>2. b[i] = lines[p[i]]
    BY <1>7
  <2> QED BY <1>5, <2>1, <2>2, Zenon
<1>11. {b[i].modality : i \in DOMAIN b} = {plan.steps[i].modality : i \in DOMAIN plan.steps}
  <2>1. ASSUME NEW i \in DOMAIN b PROVE b[i].modality \in {plan.steps[j].modality : j \in DOMAIN plan.steps}
    BY <1>2, <1>9, <1>10, <2>1, Zenon
  <2>2. ASSUME NEW j \in DOMAIN plan.steps PROVE plan.steps[j].modality \in {b[i].modality : i \in DOMAIN b}
    <3>1. PICK i \in 1 .. n : p[i] = j
      BY <1>2, <1>8, <2>2, Zenon
    <3> QED BY <1>9, <1>10, <3>1, Zenon
  <2> QED BY <2>1, <2>2, Zenon
<1>12. SumOf(S) = SumOf(g)
  <2>1. S = [i \in 1 .. n |-> g[p[i]]]
    BY <1>9, <1>10
  <2>2. g \in [1 .. n -> Int]
    BY <1>3
  <2>3. SumOf([i \in 1 .. n |-> g[p[i]]]) = SumOf(g)
    BY <1>2, <1>7, <2>2, SumRearranged
  <2> QED BY <2>1, <2>3, Zenon
<1> HIDE DEF S
<1>13. ASSUME NEW i \in DOMAIN plan.steps PROVE g[i] <= b[1].share
  <2>1. PICK k \in 1 .. n : p[k] = i
    BY <1>2, <1>8, <1>13, Zenon
  <2>2. 1 \in 1 .. n /\ p[1] \in 1 .. n /\ b[1].share = g[p[1]] /\ i \in 1 .. n
    BY <1>2, <1>10, <1>13
  <2>3. g[p[1]] \in Nat /\ g[i] \in Nat
    BY <1>3, <2>2
  <2>4. CASE k = 1
    BY <2>1, <2>2, <2>3, <2>4
  <2>5. CASE k # 1
    <3>1. key[p[1]] <= key[p[k]]
      BY <1>2, <1>7, <2>2, <2>5
    <3>2. key[p[1]] = -g[p[1]] /\ key[p[k]] = -g[i]
      BY <1>6, <2>1, <2>2
    <3> QED BY <2>2, <2>3, <3>1, <3>2
  <2> QED BY <2>4, <2>5
<1>14. plan.time > SlowPlan => Explain(plan).hints # {}
  <2> DEFINE Over == {x \in {plan.time} : x > SlowPlan}
             E == {<<"add_limit", 0>> : t \in Over}
  <2>1. plan.time > SlowPlan => plan.time \in Over
    BY SMT
  <2>2. E \subseteq Explain(plan).hints
    <3> HIDE DEF Over
    <3>1. Explain(plan).hints = E \cup (Explain(plan).hints \ E)
      BY SMT DEF Explain, Over
    <3> QED BY <3>1, SMT
  <2> HIDE DEF Over
  <2>3. plan.time \in Over => <<"add_limit", 0>> \in E
    BY SMT
  <2> HIDE DEF E
  <2> QED BY <2>1, <2>2, <2>3, SMT
<1>15. SumOf(S) <= 1000 /\ (StepTime(plan) > 0 => SumOf(S) > 1000 - Len(b))
  BY <1>3, <1>9, <1>12
<1>16. Explain(plan).breakdown = b /\ S = [i \in DOMAIN b |-> b[i].share]
  BY <1>4, Zenon DEF S
<1> HIDE DEF b
<1>17. \A i \in DOMAIN plan.steps : Shares(plan)[i] <= b[1].share
  BY <1>13, Zenon DEF g
<1> DEFINE B == Explain(plan).breakdown
           U == SumOf([i \in DOMAIN B |-> B[i].share])
<1>18. B = b /\ U = SumOf(S)
  BY <1>16
<1> HIDE DEF B, U
<1>19. /\ {B[i].modality : i \in DOMAIN B} = {plan.steps[i].modality : i \in DOMAIN plan.steps}
       /\ U <= 1000 /\ (StepTime(plan) > 0 => U > 1000 - Len(B))
       /\ \A i \in DOMAIN plan.steps : Shares(plan)[i] <= B[1].share
       /\ (plan.time > SlowPlan => Explain(plan).hints # {})
  BY <1>11, <1>14, <1>15, <1>17, <1>18, ZenonT(60)
<1> QED BY <1>19, Zenon DEF ExplainAccounts, B, U

(* What was recorded of the steps of a plan.                               *)
Records == recorded \in [DOMAIN plan.steps -> Measurements \cup {NotRun}]

LEMMA ActualType ==
    ASSUME Records, NEW i \in DOMAIN plan.steps
    PROVE  Actual(i).ms \in Nat /\ Actual(i).rows \in Nat
<1>1. recorded[i] \in Measurements \cup {NotRun}
  BY DEF Records
<1>2. CASE recorded[i] = NotRun
  BY <1>2 DEF Actual
<1>3. CASE recorded[i] # NotRun
  <2>1. recorded[i] \in Measurements /\ Actual(i) = recorded[i]
    BY <1>1, <1>3, Zenon DEF Actual
  <2>2. \A x \in Measurements : x.ms \in Nat /\ x.rows \in Nat
    BY PlannerAssumption, Zenon DEF PlannerAssumption
  <2> QED BY <2>1, <2>2, Zenon
<1> QED BY <1>2, <1>3

(* The hints of a profile explain one another.                             *)
HintsOf(pr) ==
    pr.overall \in {"slow", "fast"} =>
        \E i \in DOMAIN pr.steps :
            \/ pr.steps[i].time = pr.overall
            \/ pr.overall = "slow" /\ pr.steps[i].time = "unrated"

LEMMA HintIs ==
    ASSUME NEW a \in Nat, NEW e \in Nat
    PROVE  /\ TimeHint(a, e) = "slow" => a > 2 * e
           /\ TimeHint(a, e) = "fast" => 2 * a < e
           /\ TimeHint(a, e) \notin {"slow", "unrated"} => a <= 2 * e
           /\ TimeHint(a, e) # "fast" => e <= 2 * a
BY DEF TimeHint

LEMMA ProfileExplained ==
    ASSUME NEW q, IsPlan(plan, q), Records
    PROVE  HintsOf(Profiled(plan))
<1>1. PICK n : IsSteps(plan.steps, n, q)
  BY DEF IsPlan
<1>2. n \in Nat /\ DOMAIN plan.steps = 1 .. n /\ \A i \in 1 .. n : plan.steps[i].time \in Nat
  BY <1>1, Zenon DEF IsSteps
<1> DEFINE a == [i \in DOMAIN plan.steps |-> Actual(i).ms]
           e == [i \in DOMAIN plan.steps |-> plan.steps[i].time]
           pr == Profiled(plan)
<1>3. \A i \in 1 .. n : Actual(i).ms \in Nat
  BY <1>2, ActualType
<1>4. a \in [1 .. n -> Nat] /\ e \in [1 .. n -> Nat]
  BY <1>2, <1>3
<1>5. \A i \in 1 .. n : a[i] = Actual(i).ms /\ e[i] = plan.steps[i].time
  BY <1>2
<1>6. pr.overall = TimeHint(SumOf(a), SumOf(e)) /\ DOMAIN pr.steps = 1 .. n
  BY <1>2 DEF Profiled, StepTime
<1>7. ASSUME NEW i \in 1 .. n PROVE pr.steps[i].time = TimeHint(a[i], e[i])
  <2>1. pr.steps[i].time = TimeHint(Actual(i).ms, plan.steps[i].time)
    BY <1>2, <1>7 DEF Profiled
  <2> HIDE DEF a, e, pr
  <2> QED BY <1>5, <2>1, Zenon
<1> HIDE DEF a, e, pr
<1>8. SumOf(a) \in Nat /\ SumOf(e) \in Nat
  BY <1>2, <1>4, SumCovers
<1>9. CASE pr.overall = "slow"
  <2>1. SumOf(a) > 2 * SumOf(e)
    BY <1>6, <1>8, <1>9, HintIs
  <2>2. PICK i \in 1 .. n : ~(a[i] <= 2 * e[i])
    <3>1. ASSUME \A i \in 1 .. n : a[i] <= 2 * e[i] PROVE FALSE
      <4>1. SumOf(a) <= 2 * SumOf(e)
        BY <1>2, <1>4, <3>1, SumsCompare
      <4> QED BY <1>8, <2>1, <4>1
    <3> QED BY <3>1, Zenon
  <2>3. TimeHint(a[i], e[i]) \in {"slow", "unrated"}
    <3>1. a[i] \in Nat /\ e[i] \in Nat
      BY <1>4
    <3> QED BY <2>2, <3>1, HintIs
  <2>4. pr.steps[i].time \in {"slow", "unrated"}
    BY <1>7, <2>3, Zenon
  <2> QED BY <1>6, <1>9, <2>4 DEF HintsOf, pr
<1>10. CASE pr.overall = "fast"
  <2>1. 2 * SumOf(a) < SumOf(e)
    BY <1>6, <1>8, <1>10, HintIs
  <2>2. PICK i \in 1 .. n : ~(e[i] <= 2 * a[i])
    <3>1. ASSUME \A i \in 1 .. n : e[i] <= 2 * a[i] PROVE FALSE
      <4>1. SumOf(e) <= 2 * SumOf(a)
        BY <1>2, <1>4, <3>1, SumsCompare
      <4> QED BY <1>8, <2>1, <4>1
    <3> QED BY <3>1, Zenon
  <2>3. TimeHint(a[i], e[i]) = "fast"
    <3>1. a[i] \in Nat /\ e[i] \in Nat
      BY <1>4
    <3> QED BY <2>2, <3>1, HintIs
  <2>4. pr.steps[i].time = "fast"
    BY <1>7, <2>3, Zenon
  <2> QED BY <1>6, <1>10, <2>4 DEF HintsOf, pr
<1>11. CASE pr.overall \notin {"slow", "fast"}
  BY <1>11 DEF HintsOf, pr
<1> QED BY <1>9, <1>10, <1>11

(* Outside of the bands in which it alternates, the tuner settles.         *)
Choice(l, c, b, a, mode) ==
    LET estimated == IF mode = "conservative" THEN c ELSE IF mode = "balanced" THEN b ELSE a
    IN  IF 2 * l < estimated THEN "aggressive" ELSE IF l > 2 * estimated THEN "conservative" ELSE "balanced"

LEMMA ChoicesSettle ==
    ASSUME NEW l \in Nat, NEW B \in Nat, NEW c \in Nat, NEW b \in Nat, NEW a \in Nat,
           10 * c = 15 * B, b = B, 10 * a = 8 * B, NEW mode \in Modes,
           ~(10 * l >= 4 * B /\ 10 * l < 5 * B), ~(10 * l > 20 * B /\ 10 * l <= 30 * B),
           NEW two, two = Choice(l, c, b, a, Choice(l, c, b, a, mode))
    PROVE  Choice(l, c, b, a, two) = two
BY DEF Choice, Modes

LEMMA ExpectedTimes ==
    ASSUME NEW m \in PlanModalities
    PROVE  /\ BaseTime[m] \in Nat
           /\ 10 * ((BaseTime[m] * CostMultiplier["conservative"]) \div 10) = 15 * BaseTime[m]
           /\ (BaseTime[m] * CostMultiplier["balanced"]) \div 10 = BaseTime[m]
           /\ 10 * ((BaseTime[m] * CostMultiplier["aggressive"]) \div 10) = 8 * BaseTime[m]
           /\ (BaseTime[m] * CostMultiplier["conservative"]) \div 10 \in Nat
           /\ (BaseTime[m] * CostMultiplier["aggressive"]) \div 10 \in Nat
<1>1. m \in {"graph", "vector", "tensor", "semantic", "document", "temporal"}
  BY ModalitiesAre
<1>2. /\ CostMultiplier["conservative"] = 15 /\ CostMultiplier["balanced"] = 10
      /\ CostMultiplier["aggressive"] = 8
  BY SMT DEF CostMultiplier
<1>3. BaseTime[m] \in {150000, 50000, 200000, 300000, 80000, 30000}
  BY <1>1, SMT DEF BaseTime
<1> QED BY <1>2, <1>3, SMT

LEMMA TunerDoesSettle ==
    ASSUME PlannerTypes
    PROVE  TunerSettles
<1> SUFFICES ASSUME NEW m \in PlanModalities,
                    ~(10 * stats[m].latency >= 4 * BaseTime[m] /\ 10 * stats[m].latency < 5 * BaseTime[m]),
                    ~(10 * stats[m].latency > 20 * BaseTime[m] /\ 10 * stats[m].latency <= 30 * BaseTime[m])
             PROVE  LET two == Suggested(m, Suggested(m, modes[m])) IN Suggested(m, two) = two
  BY Zenon DEF TunerSettles
<1> DEFINE l == stats[m].latency
           B == BaseTime[m]
           c == (BaseTime[m] * CostMultiplier["conservative"]) \div 10
           b == (BaseTime[m] * CostMultiplier["balanced"]) \div 10
           a == (BaseTime[m] * CostMultiplier["aggressive"]) \div 10
<1>1. modes[m] \in Modes /\ l \in Nat
  BY DEF PlannerTypes, StoreStats
<1>2. B \in Nat /\ c \in Nat /\ a \in Nat /\ 10 * c = 15 * B /\ b = B /\ 10 * a = 8 * B
  BY ExpectedTimes
<1>3. CASE stats[m].count < MinSamples
  <2>1. \A x : Suggested(m, x) = x
    BY <1>3 DEF Suggested
  <2> QED BY <2>1, Zenon
<1>4. CASE ~(stats[m].count < MinSamples)
  <2>1. \A x \in Modes : Suggested(m, x) = Choice(l, c, b, a, x)
    <3> SUFFICES ASSUME NEW x \in Modes PROVE Suggested(m, x) = Choice(l, c, b, a, x)
      OBVIOUS
    <3> DEFINE e == (BaseTime[m] * CostMultiplier[x]) \div 10
    <3>1. e = IF x = "conservative" THEN c ELSE IF x = "balanced" THEN b ELSE a
      BY DEF Modes
    <3>2. Suggested(m, x) = IF 2 * l < e THEN "aggressive" ELSE IF l > 2 * e THEN "conservative" ELSE "balanced"
      BY <1>4, Zenon DEF Suggested
    <3> HIDE DEF e, c, b, a, l
    <3> QED BY <3>1, <3>2, Zenon DEF Choice
  <2> HIDE DEF l, B, c, b, a
  <2>2. \A x \in Modes : Choice(l, c, b, a, x) \in Modes
    BY DEF Choice, Modes
  <2> DEFINE one == Suggested(m, modes[m])
             two == Suggested(m, one)
  <2>3. one \in Modes /\ one = Choice(l, c, b, a, modes[m])
    BY <1>1, <2>1, <2>2, Zenon
  <2>4. two \in Modes /\ two = Choice(l, c, b, a, one)
    BY <2>1, <2>2, <2>3, Zenon
  <2>5. ~(10 * l >= 4 * B /\ 10 * l < 5 * B) /\ ~(10 * l > 20 * B /\ 10 * l <= 30 * B)
    BY DEF l, B
  <2> HIDE DEF one, two
  <2>6. two = Choice(l, c, b, a, Choice(l, c, b, a, modes[m]))
    BY <2>3, <2>4, Zenon
  <2>7. Choice(l, c, b, a, two) = two
    BY <1>1, <1>2, <2>5, <2>6, ChoicesSettle
  <2>8. Suggested(m, two) = two
    BY <2>1, <2>4, <2>7, Zenon
  <2> QED BY <2>8, Zenon DEF one, two
<1> QED BY <1>3, <1>4

(* A moving average stays between the smallest and the largest of what was *)
(* averaged.                                                               *)
LEMMA AverageBetween ==
    ASSUME NEW x \in Nat, NEW l \in Nat, NEW a \in Nat, NEW b \in Nat, a <= l, l <= b
    PROVE  /\ (x + 9 * l) \div 10 \in Nat
           /\ x < a => x <= (x + 9 * l) \div 10
           /\ x >= a => a <= (x + 9 * l) \div 10
           /\ x > b => (x + 9 * l) \div 10 <= x
           /\ x <= b => (x + 9 * l) \div 10 <= b
OBVIOUS

Observed(S, l) == \E a, b \in S : a <= l /\ l <= b

LEMMA ExecutedStats ==
    ASSUME NEW s \in StoreStats, NEW ms \in Nat, NEW rows \in Nat, NEW S \in SUBSET Nat,
           s.count > 0 => Observed(S, s.latency), NEW T, S \cup {ms} \subseteq T
    PROVE  /\ Executed(s, ms, rows) \in StoreStats /\ Executed(s, ms, rows).count = s.count + 1
           /\ Observed(T, Executed(s, ms, rows).latency)
<1> DEFINE e == Executed(s, ms, rows)
<1>0. s.total \in Nat /\ s.latency \in Nat /\ s.returned \in Nat /\ s.count \in Nat
  BY DEF StoreStats
<1>1. CASE s.count = 0
  <2>1. e = [s EXCEPT !.count = 1, !.latency = ms, !.returned = rows]
    BY <1>1 DEF Executed
  <2> HIDE DEF e
  <2>2. e \in StoreStats /\ e.count = 1 /\ e.latency = ms
    <3>1. e = [total |-> s.total, latency |-> ms, returned |-> rows, count |-> 1]
      BY <2>1 DEF StoreStats
    <3> QED BY <1>0, <3>1 DEF StoreStats
  <2>3. ms \in T /\ ms <= ms
    OBVIOUS
  <2>4. Observed(T, ms)
    BY <2>3 DEF Observed
  <2> QED BY <1>1, <2>2, <2>4 DEF e
<1>2. CASE s.count # 0
  <2> DEFINE l == (ms + 9 * s.latency) \div 10
             r == (rows + 9 * s.returned) \div 10
  <2>1. e = [s EXCEPT !.count = @ + 1, !.latency = l, !.returned = r]
    BY <1>2 DEF Executed
  <2>2. l \in Nat /\ r \in Nat
    BY <1>0
  <2> HIDE DEF l, r
  <2> HIDE DEF e
  <2>3. e \in StoreStats /\ e.count = s.count + 1 /\ e.latency = l
    <3>1. e = [total |-> s.total, latency |-> l, returned |-> r, count |-> s.count + 1]
      BY <2>1 DEF StoreStats
    <3> QED BY <1>0, <2>2, <3>1 DEF StoreStats
  <2>4. PICK a \in S, b \in S : a <= s.latency /\ s.latency <= b
    BY <1>0, <1>2 DEF Observed
  <2>5. a \in Nat /\ b \in Nat
    OBVIOUS
  <2>6. /\ (ms < a => ms <= l) /\ (ms >= a => a <= l)
        /\ (ms > b => l <= ms) /\ (ms <= b => l <= b)
    BY <1>0, <2>4, <2>5, AverageBetween DEF l
  <2>7. Observed(T, l)
    <3>1. PICK x \in T : x <= l
      BY <2>5, <2>6
    <3>2. PICK y \in T : l <= y
      BY <2>5, <2>6
    <3> QED BY <3>1, <3>2, Zenon DEF Observed
  <2> QED BY <2>3, <2>7 DEF e
<1> QED BY <1>1, <1>2

(* The sum of six.                                                         *)
LEMMA SumOfSix ==
    ASSUME NEW s \in [1 .. 6 -> Int]
    PROVE  SumOf(s) = s[1] + s[2] + s[3] + s[4] + s[5] + s[6]
<1>1. PICK f : Sums(f, s, 6) /\ SumOf(s) = f[6]
  <2>1. \E f : Sums(f, s, 6) /\ SumOf(s) = f[6]
    BY SumIs
  <2> QED BY <2>1, Zenon
<1>2. f[0] = 0 /\ \A i \in 1 .. 6 : f[i] = f[i - 1] + s[i]
  BY <1>1, Zenon DEF Sums
<1>3. /\ f[1] = f[0] + s[1] /\ f[2] = f[1] + s[2] /\ f[3] = f[2] + s[3]
      /\ f[4] = f[3] + s[4] /\ f[5] = f[4] + s[5] /\ f[6] = f[5] + s[6]
  BY <1>2
<1>4. s[1] \in Int /\ s[2] \in Int /\ s[3] \in Int /\ s[4] \in Int /\ s[5] \in Int /\ s[6] \in Int
  OBVIOUS
<1> QED BY <1>1, <1>2, <1>3, <1>4

(* Counting a set of modalities one by one.                                *)
One(C, x) == IF x \in C THEN 1 ELSE 0

LEMMA CountOne ==
    ASSUME NEW C, NEW S, NEW x, x \notin S, IsFiniteSet(C \cap S)
    PROVE  /\ IsFiniteSet(C \cap (S \cup {x}))
           /\ Cardinality(C \cap (S \cup {x})) = Cardinality(C \cap S) + One(C, x)
           /\ Cardinality(C \cap S) \in Nat
<1>1. Cardinality(C \cap S) \in Nat
  BY FS_CardinalityType
<1>2. CASE x \in C
  <2>1. C \cap (S \cup {x}) = (C \cap S) \cup {x} /\ x \notin C \cap S
    BY <1>2
  <2>2. One(C, x) = 1
    BY <1>2 DEF One
  <2> QED BY <1>1, <2>1, <2>2, FS_AddElement
<1>3. CASE x \notin C
  <2>1. C \cap (S \cup {x}) = C \cap S
    BY <1>3
  <2>2. One(C, x) = 0
    BY <1>3 DEF One
  <2>3. IsFiniteSet(C \cap (S \cup {x})) /\ Cardinality(C \cap (S \cup {x})) = Cardinality(C \cap S)
    BY <2>1, Zenon
  <2>4. Cardinality(C \cap S) = Cardinality(C \cap S) + One(C, x)
    BY <1>1, <2>2
  <2> QED BY <1>1, <2>3, <2>4, Zenon
<1> QED BY <1>2, <1>3

LEMMA CountModalities ==
    ASSUME NEW C \in SUBSET PlanModalities
    PROVE  Cardinality(C) = One(C, "graph") + One(C, "vector") + One(C, "tensor")
                            + One(C, "semantic") + One(C, "document") + One(C, "temporal")
<1> DEFINE S1 == {} \cup {"graph"}
           S2 == S1 \cup {"vector"}
           S3 == S2 \cup {"tensor"}
           S4 == S3 \cup {"semantic"}
           S5 == S4 \cup {"document"}
           S6 == S5 \cup {"temporal"}
<1>0. C \cap {} = {} /\ IsFiniteSet(C \cap {}) /\ Cardinality(C \cap {}) = 0
  BY FS_EmptySet
<1>1. /\ "graph" \notin {} /\ "vector" \notin S1 /\ "tensor" \notin S2 /\ "semantic" \notin S3
      /\ "document" \notin S4 /\ "temporal" \notin S5 /\ C \cap S6 = C
  BY ModalitiesAre
<1>2. IsFiniteSet(C \cap S1) /\ Cardinality(C \cap S1) = Cardinality(C \cap {}) + One(C, "graph")
  BY <1>0, <1>1, CountOne
<1> HIDE DEF S1
<1>3. IsFiniteSet(C \cap S2) /\ Cardinality(C \cap S2) = Cardinality(C \cap S1) + One(C, "vector")
  BY <1>1, <1>2, CountOne
<1> HIDE DEF S2
<1>4. IsFiniteSet(C \cap S3) /\ Cardinality(C \cap S3) = Cardinality(C \cap S2) + One(C, "tensor")
  BY <1>1, <1>3, CountOne
<1> HIDE DEF S3
<1>5. IsFiniteSet(C \cap S4) /\ Cardinality(C \cap S4) = Cardinality(C \cap S3) + One(C, "semantic")
  BY <1>1, <1>4, CountOne
<1> HIDE DEF S4
<1>6. IsFiniteSet(C \cap S5) /\ Cardinality(C \cap S5) = Cardinality(C \cap S4) + One(C, "document")
  BY <1>1, <1>5, CountOne
<1> HIDE DEF S5
<1>7. IsFiniteSet(C \cap S6) /\ Cardinality(C \cap S6) = Cardinality(C \cap S5) + One(C, "temporal")
  BY <1>1, <1>6, CountOne
<1> HIDE DEF S6
<1>8. \A x : One(C, x) \in Nat
  BY DEF One
<1> DEFINE c1 == Cardinality(C \cap S1)
           c2 == Cardinality(C \cap S2)
           c3 == Cardinality(C \cap S3)
           c4 == Cardinality(C \cap S4)
           c5 == Cardinality(C \cap S5)
           o1 == One(C, "graph")
           o2 == One(C, "vector")
           o3 == One(C, "tensor")
           o4 == One(C, "semantic")
           o5 == One(C, "document")
           o6 == One(C, "temporal")
<1>9. /\ c1 = 0 + o1 /\ c2 = c1 + o2 /\ c3 = c2 + o3 /\ c4 = c3 + o4 /\ c5 = c4 + o5
      /\ Cardinality(C) = c5 + o6
  BY <1>0, <1>1, <1>2, <1>3, <1>4, <1>5, <1>6, <1>7, Zenon
<1>10. o1 \in Nat /\ o2 \in Nat /\ o3 \in Nat /\ o4 \in Nat /\ o5 \in Nat /\ o6 \in Nat
  BY <1>8, Zenon
<1>11. Cardinality(C) = o1 + o2 + o3 + o4 + o5 + o6
  <2> HIDE DEF c1, c2, c3, c4, c5, o1, o2, o3, o4, o5, o6
  <2> QED BY <1>9, <1>10
<1> QED BY <1>11

(* A plan has as many steps as modalities.                                 *)
LEMMA StepsCounted ==
    ASSUME NEW q, NEW n, IsSteps(plan.steps, n, q), NEW C, C = {plan.steps[i].modality : i \in DOMAIN plan.steps}
    PROVE  C \in SUBSET PlanModalities /\ Cardinality(C) = n
<1>1. n \in Nat /\ DOMAIN plan.steps = 1 .. n /\ \A i \in 1 .. n : plan.steps[i].modality \in ActiveOf(q)
  BY Zenon DEF IsSteps
<1>2. \A i, j \in 1 .. n : plan.steps[i].modality = plan.steps[j].modality => i = j
  BY Zenon DEF IsSteps
<1> DEFINE f == [i \in 1 .. n |-> plan.steps[i].modality]
<1>3. f \in [1 .. n -> C] /\ \A i \in 1 .. n : f[i] = plan.steps[i].modality
  BY <1>1
<1>4. \A x \in C : \E i \in 1 .. n : f[i] = x
  BY <1>1
<1> HIDE DEF f
<1>5. f \in Bijection(1 .. n, C)
  <2>1. DOMAIN f = 1 .. n /\ \A i, j \in 1 .. n : f[i] = f[j] => i = j
    BY <1>2, <1>3
  <2>2. f \in Injection(1 .. n, C)
    BY <1>3, <2>1, Zenon DEF Injection, IsInjective
  <2>3. f \in Surjection(1 .. n, C)
    BY <1>3, <1>4, Zenon DEF Surjection
  <2> QED BY <2>2, <2>3, Zenon DEF Bijection
<1>6. ExistsBijection(1 .. n, C)
  BY <1>5 DEF ExistsBijection
<1>7. Cardinality(C) = n
  BY <1>1, <1>6, FS_CountingElements
<1>8. C \in SUBSET PlanModalities
  BY <1>1 DEF ActiveOf
<1> QED BY <1>7, <1>8

LEMMA CountsOf ==
    ASSUME NEW st \in [PlanModalities -> StoreStats]
    PROVE  /\ SumOf([i \in 1 .. 6 |-> st[AllModalities[i]].count])
                = st["graph"].count + st["vector"].count + st["tensor"].count
                  + st["semantic"].count + st["document"].count + st["temporal"].count
           /\ \A m \in PlanModalities : st[m].count \in Nat
<1> DEFINE s == [i \in 1 .. 6 |-> st[AllModalities[i]].count]
<1>1. \A m \in PlanModalities : st[m].count \in Nat
  BY DEF StoreStats
<1>2. /\ AllModalities[1] = "graph" /\ AllModalities[2] = "vector" /\ AllModalities[3] = "tensor"
      /\ AllModalities[4] = "semantic" /\ AllModalities[5] = "document" /\ AllModalities[6] = "temporal"
  BY DEF AllModalities
<1>3. \A i \in 1 .. 6 : AllModalities[i] \in PlanModalities
  BY <1>2, ModalitiesAre
<1>4. s \in [1 .. 6 -> Int]
  BY <1>1, <1>3
<1>5. /\ s[1] = st["graph"].count /\ s[2] = st["vector"].count /\ s[3] = st["tensor"].count
      /\ s[4] = st["semantic"].count /\ s[5] = st["document"].count /\ s[6] = st["temporal"].count
  BY <1>2
<1> HIDE DEF s
<1>6. SumOf(s) = s[1] + s[2] + s[3] + s[4] + s[5] + s[6]
  BY <1>4, SumOfSix
<1>7. SumOf(s) = st["graph"].count + st["vector"].count + st["tensor"].count
                 + st["semantic"].count + st["document"].count + st["temporal"].count
  BY <1>5, <1>6, Zenon
<1> QED BY <1>1, <1>7 DEF s

(* Finishing a plan counts every step once for its store and keeps the     *)
(* averages within what was measured.                                      *)
LEMMA FinishCounts ==
    ASSUME PlannerTypes, NEW q, IsPlan(plan, q), Records, seen \in [PlanModalities -> SUBSET Nat],
           finished \in Nat, StatsWithinObserved, Finish
    PROVE  /\ PlannerTypes' /\ seen' \in [PlanModalities -> SUBSET Nat] /\ finished' \in Nat
           /\ StatsWithinObserved'
<1>1. PICK n : IsSteps(plan.steps, n, q)
  BY DEF IsPlan
<1>2. n \in Nat /\ DOMAIN plan.steps = 1 .. n /\ Len(plan.steps) = n
  BY <1>1, Zenon DEF IsSteps
<1> DEFINE C == {plan.steps[i].modality : i \in DOMAIN plan.steps}
           StepOf(m) == {i \in DOMAIN plan.steps : plan.steps[i].modality = m}
           i0(m) == CHOOSE x \in StepOf(m) : TRUE
<1>3. C \in SUBSET PlanModalities /\ Cardinality(C) = n
  BY <1>1, StepsCounted
<1>4. \A m : StepOf(m) # {} <=> m \in C
  OBVIOUS
<1>5. stats' = [m \in PlanModalities |-> IF StepOf(m) = {} THEN stats[m]
                                         ELSE Executed(stats[m], Actual(i0(m)).ms, Actual(i0(m)).rows)]
  BY Zenon DEF Finish
<1>6. seen' = [m \in PlanModalities |-> seen[m] \cup {Actual(i).ms : i \in StepOf(m)}]
  BY Zenon DEF Finish
<1>7. finished' = finished + n /\ modes' = modes
  BY <1>2, Zenon DEF Finish
<1>8. modes \in [PlanModalities -> Modes] /\ stats \in [PlanModalities -> StoreStats]
  BY Zenon DEF PlannerTypes
<1>9. \A m \in PlanModalities : stats[m].count > 0 => Observed(seen[m], stats[m].latency)
  BY Zenon DEF StatsWithinObserved, Observed
<1>10. ASSUME NEW m \in PlanModalities
       PROVE  /\ stats'[m] \in StoreStats /\ stats'[m].count = stats[m].count + One(C, m)
              /\ seen'[m] \in SUBSET Nat
              /\ stats'[m].count > 0 => Observed(seen'[m], stats'[m].latency)
  <2>0. stats[m] \in StoreStats /\ seen[m] \in SUBSET Nat /\ stats[m].count \in Nat
    BY <1>8 DEF StoreStats
  <2>1. seen'[m] = seen[m] \cup {Actual(i).ms : i \in StepOf(m)}
    BY <1>6, Zenon
  <2>2. \A i \in StepOf(m) : Actual(i).ms \in Nat /\ Actual(i).rows \in Nat
    BY ActualType
  <2>3. CASE m \notin C
    <3>1. StepOf(m) = {}
      BY <1>4, <2>3
    <3>2. stats'[m] = stats[m] /\ seen'[m] = seen[m] /\ One(C, m) = 0
      <4>1. stats'[m] = stats[m]
        BY <1>5, <3>1, Zenon
      <4>2. seen'[m] = seen[m]
        <5> HIDE DEF StepOf
        <5> QED BY <2>1, <3>1
      <4> QED BY <2>3, <4>1, <4>2 DEF One
    <3> HIDE DEF C, StepOf
    <3> QED BY <1>9, <2>0, <3>2
  <2>4. CASE m \in C
    <3>1. StepOf(m) # {} /\ One(C, m) = 1
      BY <1>4, <2>4 DEF One
    <3> DEFINE i == i0(m)
    <3>2. i \in StepOf(m)
      BY <3>1, Zenon
    <3>3. stats'[m] = Executed(stats[m], Actual(i).ms, Actual(i).rows)
      BY <1>5, <3>1, Zenon
    <3>4. Actual(i).ms \in Nat /\ Actual(i).rows \in Nat
      BY <2>2, <3>2, Zenon
    <3>5. seen[m] \cup {Actual(i).ms} \subseteq seen'[m] /\ seen'[m] \in SUBSET Nat
      <4> HIDE DEF StepOf, i
      <4> QED BY <2>0, <2>1, <2>2, <3>2
    <3>6. stats[m].count > 0 => Observed(seen[m], stats[m].latency)
      BY <1>9, Zenon
    <3> DEFINE s == stats[m]
               S == seen[m]
               T == seen'[m]
               ms == Actual(i).ms
               rows == Actual(i).rows
    <3>7. /\ s \in StoreStats /\ S \in SUBSET Nat /\ ms \in Nat /\ rows \in Nat /\ S \cup {ms} \subseteq T
          /\ (s.count > 0 => Observed(S, s.latency))
      BY <2>0, <3>4, <3>5, <3>6, Zenon
    <3>8. /\ Executed(s, ms, rows) \in StoreStats /\ Executed(s, ms, rows).count = s.count + 1
          /\ Observed(T, Executed(s, ms, rows).latency)
      <4> HIDE DEF s, S, T, ms, rows, C, i
      <4> QED BY <3>7, ExecutedStats
    <3> QED BY <3>1, <3>3, <3>5, <3>8, Zenon
  <2> QED BY <2>3, <2>4, Zenon
<1>11. stats' \in [PlanModalities -> StoreStats] /\ seen' \in [PlanModalities -> SUBSET Nat]
  <2>1. stats' = [m \in PlanModalities |-> stats'[m]] /\ seen' = [m \in PlanModalities |-> seen'[m]]
    <3> HIDE DEF StepOf, i0
    <3>1. DOMAIN stats' = PlanModalities /\ DOMAIN seen' = PlanModalities
      BY <1>5, <1>6, Zenon
    <3> QED BY <1>5, <1>6, <3>1
  <2> HIDE DEF C, StepOf
  <2> QED BY <1>10, <2>1
<1>12. PlannerTypes'
  BY <1>7, <1>8, <1>11, Zenon DEF PlannerTypes
<1> HIDE DEF C, StepOf
<1>13. finished' \in Nat
  BY <1>2, <1>7
<1>14. SumOf([i \in 1 .. 6 |-> stats'[AllModalities[i]].count]) = finished'
  <2> DEFINE o(x) == One(C, x)
             a(x) == stats[x].count
             b(x) == stats'[x].count
  <2>1. SumOf([i \in 1 .. 6 |-> stats[AllModalities[i]].count]) = finished
    BY Zenon DEF StatsWithinObserved
  <2>2. /\ finished = a("graph") + a("vector") + a("tensor") + a("semantic") + a("document") + a("temporal")
        /\ \A m \in PlanModalities : a(m) \in Nat
    BY <1>8, <2>1, CountsOf
  <2>3. SumOf([i \in 1 .. 6 |-> stats'[AllModalities[i]].count])
          = b("graph") + b("vector") + b("tensor") + b("semantic") + b("document") + b("temporal")
    BY <1>11, CountsOf
  <2>4. n = o("graph") + o("vector") + o("tensor") + o("semantic") + o("document") + o("temporal")
    BY <1>3, CountModalities
  <2>5. \A m \in PlanModalities : b(m) = a(m) + o(m) /\ o(m) \in Nat /\ a(m) \in Nat
    BY <1>10, <2>2 DEF One
  <2>6. /\ "graph" \in PlanModalities /\ "vector" \in PlanModalities /\ "tensor" \in PlanModalities
        /\ "semantic" \in PlanModalities /\ "document" \in PlanModalities /\ "temporal" \in PlanModalities
    BY ModalitiesAre
  <2> HIDE DEF o, a, b
  <2>7. b("graph") + b("vector") + b("tensor") + b("semantic") + b("document") + b("temporal") = finished'
    BY <1>7, <2>2, <2>4, <2>5, <2>6
  <2> QED BY <2>3, <2>7, Zenon
<1>15. \A m \in PlanModalities : stats'[m].count > 0 => \E a, b \in seen'[m] : a <= stats'[m].latency /\ stats'[m].latency <= b
  BY <1>10, Zenon DEF Observed
<1>16. StatsWithinObserved'
  BY <1>14, <1>15, Zenon DEF StatsWithinObserved
<1> QED BY <1>11, <1>12, <1>13, <1>16

(* The planner's inductive invariant.                                      *)
PlannerInv ==
    /\ PlannerTypes /\ seen \in [PlanModalities -> SUBSET Nat] /\ finished \in Nat
    /\ StatsWithinObserved /\ HintsExplained
    /\ \/ plan = NoPlan /\ recorded = <<>>
       \/ (\E q : IsQuery(q) /\ IsPlan(plan, q)) /\ Records

LEMMA PlannerInvSuffices ==
    ASSUME PlannerInv PROVE PlansSound
<1>1. TunerSettles /\ StatsWithinObserved /\ HintsExplained
  BY TunerDoesSettle DEF PlannerInv
<1>2. CASE plan = NoPlan
  <2>1. ~Planned
    BY <1>2 DEF Planned, NoPlan
  <2>2. ConditionsKept /\ StepsOrdered /\ RowsWithinLimit /\ CostCoversSteps /\ ExplainAccounts
    BY <2>1, Zenon DEF ConditionsKept, StepsOrdered, RowsWithinLimit, CostCoversSteps, ExplainAccounts
  <2> QED BY <1>1, <2>2, Zenon DEF PlansSound
<1>3. CASE plan # NoPlan
  <2>1. PICK q : IsQuery(q) /\ IsPlan(plan, q)
    BY <1>3, Zenon DEF PlannerInv
  <2>2. ConditionsKept /\ StepsOrdered /\ RowsWithinLimit /\ CostCoversSteps
    BY <2>1, PlanAnswers
  <2>3. ExplainAccounts
    BY <2>1, PlanExplained
  <2> QED BY <1>1, <2>2, <2>3, Zenon DEF PlansSound
<1> QED BY <1>2, <1>3

LEMMA PlannerInitially ==
    ASSUME PlannerInit PROVE PlannerInv
<1>1. modes \in [PlanModalities -> Modes]
  <2>1. \A m \in PlanModalities :
          (CASE m = "vector" -> "aggressive" [] m \in {"graph", "semantic"} -> "conservative"
             [] OTHER -> "balanced") \in Modes
    BY DEF Modes
  <2> QED BY <2>1 DEF PlannerInit
<1> DEFINE zero == [total |-> 0, latency |-> 0, returned |-> 0, count |-> 0]
<1>2. zero \in StoreStats /\ zero.count = 0
  BY DEF StoreStats
<1>3. stats = [m \in PlanModalities |-> zero]
  BY DEF PlannerInit
<1> HIDE DEF zero
<1>4. stats \in [PlanModalities -> StoreStats] /\ \A m \in PlanModalities : stats[m].count = 0
  BY <1>2, <1>3
<1>5. seen \in [PlanModalities -> SUBSET Nat] /\ finished = 0 /\ plan = NoPlan /\ recorded = <<>>
  BY DEF PlannerInit
<1>6. StatsWithinObserved
  <2>1. SumOf([i \in 1 .. 6 |-> stats[AllModalities[i]].count])
          = stats["graph"].count + stats["vector"].count + stats["tensor"].count
            + stats["semantic"].count + stats["document"].count + stats["temporal"].count
    BY <1>4, CountsOf
  <2>2. /\ stats["graph"].count = 0 /\ stats["vector"].count = 0 /\ stats["tensor"].count = 0
        /\ stats["semantic"].count = 0 /\ stats["document"].count = 0 /\ stats["temporal"].count = 0
    BY <1>4, ModalitiesAre
  <2>3. SumOf([i \in 1 .. 6 |-> stats[AllModalities[i]].count]) = finished
    BY <1>5, <2>1, <2>2
  <2>4. \A m \in PlanModalities : ~(stats[m].count > 0)
    BY <1>4
  <2> QED BY <2>3, <2>4, Zenon DEF StatsWithinObserved
<1>7. HintsExplained
  <2>1. profile.overall = "none"
    BY DEF PlannerInit
  <2> QED BY <2>1 DEF HintsExplained
<1> QED BY <1>1, <1>4, <1>5, <1>6, <1>7 DEF PlannerInv, PlannerTypes

(* The queries that arrive are queries.                                    *)
LEMMA QueriesAre == \A q \in Queries : IsQuery(q)
<1> SUFFICES ASSUME NEW q \in Queries PROVE IsQuery(q)
  OBVIOUS
<1> QED BY PlannerAssumption, Zenon DEF PlannerAssumption, IsQuery, Proofs

LEMMA PlannerSteps ==
    ASSUME PlannerInv, PlannerNext \/ UNCHANGED plannerVars
    PROVE  PlannerInv'
<1>0. /\ PlannerTypes /\ seen \in [PlanModalities -> SUBSET Nat] /\ finished \in Nat
      /\ StatsWithinObserved /\ HintsExplained
  BY Zenon DEF PlannerInv
<1>1. ASSUME NEW q \in Queries, PlanQuery(q) PROVE PlannerInv'
  <2>1. UNCHANGED <<modes, stats, profile, finished, seen>>
    BY <1>1, Zenon DEF PlanQuery
  <2>2. /\ PlannerTypes' /\ seen' \in [PlanModalities -> SUBSET Nat] /\ finished' \in Nat
        /\ StatsWithinObserved' /\ HintsExplained'
    BY <1>0, <2>1, Zenon DEF PlannerTypes, StatsWithinObserved, HintsExplained
  <2>3. CASE Plans(q)
    <3>1. plan' = Optimize(q) /\ recorded' = [i \in DOMAIN Optimize(q).steps |-> NotRun]
      BY <1>1, <2>3, Zenon DEF PlanQuery
    <3>2. IsQuery(q) /\ IsPlan(Optimize(q), q)
      BY <1>0, <2>3, QueriesAre, OptimizeIs
    <3>3. IsPlan(plan', q)
      BY <3>1, <3>2, Zenon
    <3>4. Records'
      <4>1. recorded' = [i \in DOMAIN plan'.steps |-> NotRun]
        BY <3>1, Zenon
      <4> QED BY <4>1 DEF Records
    <3>5. IsPlan(plan, q)'
      BY <3>3 DEF IsPlan, StepTime
    <3> QED BY <2>2, <3>2, <3>4, <3>5 DEF PlannerInv
  <2>4. CASE ~Plans(q)
    <3>1. UNCHANGED <<plan, recorded>>
      BY <1>1, <2>4, Zenon DEF PlanQuery
    <3> QED BY <2>2, <3>1 DEF PlannerInv, Records, IsPlan, StepTime
  <2> QED BY <2>3, <2>4
<1>2. ASSUME NEW i \in DOMAIN recorded, NEW x \in Measurements, RecordStep(i, x) PROVE PlannerInv'
  <2>1. UNCHANGED <<modes, stats, plan, profile, finished, seen>> /\ recorded' = [recorded EXCEPT ![i] = x]
    BY <1>2, Zenon DEF RecordStep
  <2>2. /\ PlannerTypes' /\ seen' \in [PlanModalities -> SUBSET Nat] /\ finished' \in Nat
        /\ StatsWithinObserved' /\ HintsExplained'
    BY <1>0, <2>1, Zenon DEF PlannerTypes, StatsWithinObserved, HintsExplained
  <2>3. recorded # <<>>
    OBVIOUS
  <2>4. (\E q : IsQuery(q) /\ IsPlan(plan, q)) /\ Records
    BY <2>3, Zenon DEF PlannerInv
  <2>5. Records'
    BY <2>1, <2>4 DEF Records
  <2>6. (\E q : IsQuery(q) /\ IsPlan(plan, q))'
    BY <2>1, <2>4 DEF IsPlan, StepTime
  <2> QED BY <2>2, <2>5, <2>6 DEF PlannerInv
<1>3. ASSUME Finish PROVE PlannerInv'
  <2>1. plan # NoPlan
    BY <1>3 DEF Finish, Planned, NoPlan
  <2>2. (\E q : IsQuery(q) /\ IsPlan(plan, q)) /\ Records
    BY <2>1, Zenon DEF PlannerInv
  <2>3. PICK q : IsPlan(plan, q)
    BY <2>2, Zenon
  <2>4. /\ PlannerTypes' /\ seen' \in [PlanModalities -> SUBSET Nat] /\ finished' \in Nat
        /\ StatsWithinObserved'
    BY <1>0, <1>3, <2>2, <2>3, FinishCounts
  <2>5. HintsOf(Profiled(plan))
    BY <2>2, <2>3, ProfileExplained
  <2>6. plan' = NoPlan /\ recorded' = <<>> /\ profile' = Profiled(plan)
    BY <1>3, Zenon DEF Finish
  <2>7. HintsExplained'
    BY <2>5, <2>6, Zenon DEF HintsExplained, HintsOf
  <2>8. (plan = NoPlan /\ recorded = <<>>)'
    BY <2>6 DEF NoPlan
  <2> QED BY <2>4, <2>7, <2>8 DEF PlannerInv
<1>4. ASSUME NEW m \in Counted, NEW k \in RowCounts, UpdateRowCount(m, k) PROVE PlannerInv'
  <2>1. stats' = [stats EXCEPT ![m].total = k] /\ UNCHANGED <<modes, plan, recorded, profile, finished, seen>>
    BY <1>4, Zenon DEF UpdateRowCount
  <2>2. m \in PlanModalities /\ k \in Nat
    BY PlannerAssumption DEF PlannerAssumption, PlanModalities
  <2>3. stats \in [PlanModalities -> StoreStats]
    BY <1>0 DEF PlannerTypes
  <2>4. ASSUME NEW x \in PlanModalities
        PROVE  stats'[x] \in StoreStats /\ stats'[x].count = stats[x].count /\ stats'[x].latency = stats[x].latency
    <3>1. stats[x] \in StoreStats
      BY <2>3
    <3>2. CASE x = m
      <4>1. stats'[x] = [stats[x] EXCEPT !.total = k]
        BY <2>1, <2>3, <3>2
      <4> QED BY <2>2, <3>1, <4>1 DEF StoreStats
    <3>3. CASE x # m
      <4>1. stats'[x] = stats[x]
        BY <2>1, <2>3, <3>3
      <4> QED BY <3>1, <4>1
    <3> QED BY <3>2, <3>3
  <2>5. stats' \in [PlanModalities -> StoreStats]
    <3>1. stats' = [x \in PlanModalities |-> stats'[x]]
      BY <2>1, <2>3
    <3> QED BY <2>4, <3>1
  <2>6. PlannerTypes'
    BY <1>0, <2>1, <2>5 DEF PlannerTypes
  <2>7. StatsWithinObserved'
    <3>1. \A x \in PlanModalities : stats'[x].count > 0 =>
            \E a, b \in seen'[x] : a <= stats'[x].latency /\ stats'[x].latency <= b
      BY <1>0, <2>1, <2>4, Zenon DEF StatsWithinObserved
    <3>2. \A j \in 1 .. 6 : AllModalities[j] \in PlanModalities
      BY DEF PlanModalities, ElemsOf, AllModalities
    <3>3. [j \in 1 .. 6 |-> stats'[AllModalities[j]].count] = [j \in 1 .. 6 |-> stats[AllModalities[j]].count]
      BY <2>4, <3>2
    <3>4. SumOf([j \in 1 .. 6 |-> stats[AllModalities[j]].count]) = finished
      BY <1>0, Zenon DEF StatsWithinObserved
    <3>5. SumOf([j \in 1 .. 6 |-> stats'[AllModalities[j]].count]) = finished'
      BY <2>1, <3>3, <3>4, Zenon
    <3> QED BY <3>1, <3>5, Zenon DEF StatsWithinObserved
  <2>8. HintsExplained' /\ seen' \in [PlanModalities -> SUBSET Nat] /\ finished' \in Nat
    BY <1>0, <2>1, Zenon DEF HintsExplained
  <2>9. (plan = NoPlan /\ recorded = <<>>)' \/ ((\E q : IsQuery(q) /\ IsPlan(plan, q)) /\ Records)'
    BY <2>1 DEF PlannerInv, NoPlan, Records, IsPlan, StepTime
  <2> QED BY <2>6, <2>7, <2>8, <2>9 DEF PlannerInv
<1>5. ASSUME Tune PROVE PlannerInv'
  <2>1. modes' = [m \in PlanModalities |-> Suggested(m, modes[m])] /\ UNCHANGED <<stats, plan, recorded, profile, finished, seen>>
    BY <1>5, Zenon DEF Tune
  <2>2. \A m \in PlanModalities : Suggested(m, modes[m]) \in Modes
    BY <1>0 DEF PlannerTypes, Suggested, Modes
  <2>3. PlannerTypes'
    BY <1>0, <2>1, <2>2 DEF PlannerTypes
  <2>4. seen' \in [PlanModalities -> SUBSET Nat] /\ finished' \in Nat /\ StatsWithinObserved' /\ HintsExplained'
    BY <1>0, <2>1, Zenon DEF StatsWithinObserved, HintsExplained
  <2>5. (plan = NoPlan /\ recorded = <<>>)' \/ ((\E q : IsQuery(q) /\ IsPlan(plan, q)) /\ Records)'
    BY <2>1 DEF PlannerInv, NoPlan, Records, IsPlan, StepTime
  <2> QED BY <2>3, <2>4, <2>5 DEF PlannerInv
<1>6. CASE UNCHANGED plannerVars
  <2>1. UNCHANGED <<modes, stats, plan, recorded, profile, finished, seen>>
    BY <1>6, Zenon DEF plannerVars
  <2>2. /\ PlannerTypes' /\ seen' \in [PlanModalities -> SUBSET Nat] /\ finished' \in Nat
        /\ StatsWithinObserved' /\ HintsExplained'
    BY <1>0, <2>1, Zenon DEF PlannerTypes, StatsWithinObserved, HintsExplained
  <2>3. (plan = NoPlan /\ recorded = <<>>)' \/ ((\E q : IsQuery(q) /\ IsPlan(plan, q)) /\ Records)'
    BY <2>1 DEF PlannerInv, NoPlan, Records, IsPlan, StepTime
  <2> QED BY <2>2, <2>3 DEF PlannerInv
<1> QED BY <1>1, <1>2, <1>3, <1>4, <1>5, <1>6, Zenon DEF PlannerNext

(* For all queries, measurements, statistics and settings, a plan answers  *)
(* its query (to_logical_plan, optimize), its EXPLAIN accounts for it, and *)
(* statistics, hints and modes follow from what was measured               *)
(* (Profiler::finish, record_execution, AdaptiveTuner).                    *)
THEOREM PlansAreSound == Spec => []PlansSound
<1>1. Init => PlannerInv
  BY PlannerInitially DEF Init
<1>2. PlannerInv /\ [Next]_vars => PlannerInv'
  BY FocusMoves, PlannerSteps
<1>3. PlannerInv => PlansSound
  BY PlannerInvSuffices
<1> QED BY <1>1, <1>2, <1>3, PTL DEF Spec
=============================================================================
