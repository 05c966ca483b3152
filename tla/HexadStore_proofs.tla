-------------------------- MODULE HexadStore_proofs --------------------------
(***************************************************************************)
(* Proofs about HexadStore, for every set of hexads, tasks, readers and    *)
(* modalities and every bound on the operations.                           *)
(***************************************************************************)
EXTENDS HexadStore, FiniteSetTheorems, TLAPS

(* The modalities that can have a lock, and the elements of a sequence.    *)
Mods == Used \cup {"temporal"}
Elems(s) == {s[i] : i \in DOMAIN s}

(* What an operation has still to lock or to write ends in the version     *)
(* history, which stands nowhere else in the list.                         *)
Ends(s) ==
    /\ s \in Seq(Mods) /\ s # <<>>
    /\ \A i \in DOMAIN s : s[i] = "temporal" <=> i = Len(s)

Kinds == {"none", "create", "update", "delete"}
TaskRec ==
    [op : Nat, kind : Kinds, at : {"idle", "intent", "lock", "write", "register", "mark"},
     id : Ids, input : SUBSET Used, bad : Failing \cup {"none"},
     todo : Seq(Mods \cup Erased), flags : SUBSET Mods, version : Nat]
ReadRec ==
    [at : {"idle", "load"}, found : SUBSET Ids, id : Ids, flags : SUBSET Mods,
     todo : Seq(Mods), got : SUBSET Mods]
Entry ==
    [op : Nat, kind : Kinds, id : Ids, input : SUBSET Used, version : Nat, ok : BOOLEAN]

(* The types, with numbers that have no bound but ops.                     *)
Types ==
    /\ registry \in [Ids -> [version : Nat, flags : SUBSET Mods]]
    /\ data \in [Modalities -> [Ids -> Seq(Nat)]]
    /\ phase \in [Ops -> {"new", "running", "finished"}]
    /\ held \in [Keys -> [Ops -> SUBSET Locks!Modes]]
    /\ wal \in [intents : SUBSET [op : Nat, id : Ids], committed : [Ids -> Nat]]
    /\ ops \in 0 .. MaxOps
    /\ task \in [Tasks -> TaskRec]
    /\ reads \in [Readers -> ReadRec]
    /\ log \in SUBSET Entry

(* A task that is inside an operation.                                     *)
Busy(c) == task[c].at # "idle"

(* An operation belongs to one task, and to none once it has returned.     *)
OpsApart ==
    /\ \A c \in Tasks : Busy(c) => task[c].op \in 1 .. ops /\ task[c].kind # "none"
    /\ \A c, d \in Tasks : Busy(c) /\ Busy(d) /\ task[c].op = task[d].op => c = d
    /\ \A e \in log : e.op \in 1 .. ops
    /\ \A e \in log, c \in Tasks : Busy(c) => task[c].op # e.op
    /\ \A e, f \in log : e.op = f.op => e = f

(* The transaction of an operation runs from its intent to its commit.     *)
PhasesFollow ==
    /\ \A n \in Ops : n > ops => phase[n] = "new"
    /\ \A c \in Tasks : task[c].at = "intent" => phase[task[c].op] = "new"
    /\ \A c \in Tasks : task[c].at \in {"lock", "write"} => phase[task[c].op] = "running"

(* What is left of the lists of locks and of writes.                       *)
TodoFollows ==
    \A c \in Tasks :
        /\ task[c].at \notin {"lock", "write"} => task[c].todo = <<>>
        /\ task[c].at = "lock" => Ends(task[c].todo)
        /\ task[c].at = "write" /\ task[c].kind # "delete" =>
             task[c].todo = <<>> \/ Ends(task[c].todo)
        /\ task[c].at = "write" /\ task[c].kind = "delete" =>
             task[c].todo \in Seq(Erased)

(* Locks exclude one another, and a writer holds the version history.      *)
LocksFollow ==
    /\ \A k \in Keys, m, n \in Ops : held[k][m] # {} /\ held[k][n] # {} => m = n
    /\ \A c \in Tasks : task[c].at = "write" =>
         held[<<task[c].id, "temporal">>][task[c].op] # {}

(* The inductive invariant of the locks.                                   *)
LockInv == OpsApart /\ PhasesFollow /\ TodoFollows /\ LocksFollow /\ NoLeakedLock
-----------------------------------------------------------------------------
(* Lists of modalities.                                                    *)

(* A concatenation has the elements of its parts.                          *)
LEMMA ConcatElems ==
    ASSUME NEW X, NEW s \in Seq(X), NEW t \in Seq(X)
    PROVE  s \o t \in Seq(X) /\ Elems(s \o t) = Elems(s) \cup Elems(t)
<1>1. s \o t \in Seq(X)
  OBVIOUS
<1>2. \A i \in DOMAIN (s \o t) : (s \o t)[i] \in Elems(s) \cup Elems(t)
  BY DEF Elems
<1>3. \A i \in DOMAIN s : i \in DOMAIN (s \o t) /\ (s \o t)[i] = s[i]
  OBVIOUS
<1>4. \A i \in DOMAIN t : /\ i + Len(s) \in DOMAIN (s \o t)
                          /\ (s \o t)[i + Len(s)] = t[i]
  OBVIOUS
<1>5. Elems(s) \subseteq Elems(s \o t)
  BY <1>3 DEF Elems
<1>6. Elems(t) \subseteq Elems(s \o t)
  BY <1>4 DEF Elems
<1>7. Elems(s \o t) \subseteq Elems(s) \cup Elems(t)
  BY <1>2 DEF Elems
<1>8. QED
  BY <1>1, <1>5, <1>6, <1>7

(* An option holds the modality or nothing.                                *)
LEMMA ThenSomeElems ==
    ASSUME NEW S, NEW m
    PROVE  ThenSome(S, m) \in Seq(S) /\ Elems(ThenSome(S, m)) = S \cap {m}
<1>1. CASE m \in S
  <2>1. ThenSome(S, m) = <<m>>
    BY <1>1 DEF ThenSome
  <2>2. <<m>> \in Seq(S) /\ DOMAIN <<m>> = {1} /\ <<m>>[1] = m
    BY <1>1
  <2>3. QED
    BY <1>1, <2>1, <2>2 DEF Elems
<1>2. CASE m \notin S
  <2>1. ThenSome(S, m) = <<>>
    BY <1>2 DEF ThenSome
  <2>2. <<>> \in Seq(S) /\ DOMAIN <<>> = {}
    OBVIOUS
  <2>3. QED
    BY <1>2, <2>1, <2>2 DEF Elems
<1>3. QED
  BY <1>1, <1>2

(* The options before the version history, flattened.                      *)
Front(S) ==
    ThenSome(S, "graph") \o ThenSome(S, "vector") \o ThenSome(S, "document")
      \o ThenSome(S, "tensor") \o ThenSome(S, "semantic") \o ThenSome(S, "provenance")
      \o ThenSome(S, "spatial")

(* They list the elements of S other than the version history.             *)
LEMMA FrontElems ==
    ASSUME NEW S
    PROVE  /\ Front(S) \in Seq(S)
           /\ Elems(Front(S)) = S \cap (Modalities \ {"temporal"})
<1> DEFINE T(m) == ThenSome(S, m)
           f2 == T("graph") \o T("vector")
           f3 == f2 \o T("document")
           f4 == f3 \o T("tensor")
           f5 == f4 \o T("semantic")
           f6 == f5 \o T("provenance")
           f7 == f6 \o T("spatial")
<1>0. \A m : T(m) \in Seq(S) /\ Elems(T(m)) = S \cap {m}
  BY ThenSomeElems
<1> HIDE DEF T
<1>2. f2 \in Seq(S) /\ Elems(f2) = S \cap {"graph", "vector"}
  <2>1. f2 \in Seq(S) /\ Elems(f2) = Elems(T("graph")) \cup Elems(T("vector"))
    BY <1>0, ConcatElems
  <2>2. QED
    BY <1>0, <2>1
<1> HIDE DEF f2
<1>3. f3 \in Seq(S) /\ Elems(f3) = S \cap {"graph", "vector", "document"}
  <2>1. f3 \in Seq(S) /\ Elems(f3) = Elems(f2) \cup Elems(T("document"))
    BY <1>0, <1>2, ConcatElems
  <2>2. QED
    BY <1>0, <1>2, <2>1
<1> HIDE DEF f3
<1>4. f4 \in Seq(S) /\ Elems(f4) = S \cap {"graph", "vector", "document", "tensor"}
  <2>1. f4 \in Seq(S) /\ Elems(f4) = Elems(f3) \cup Elems(T("tensor"))
    BY <1>0, <1>3, ConcatElems
  <2>2. QED
    BY <1>0, <1>3, <2>1
<1> HIDE DEF f4
<1>5. /\ f5 \in Seq(S)
      /\ Elems(f5) = S \cap {"graph", "vector", "document", "tensor", "semantic"}
  <2>1. f5 \in Seq(S) /\ Elems(f5) = Elems(f4) \cup Elems(T("semantic"))
    BY <1>0, <1>4, ConcatElems
  <2>2. QED
    BY <1>0, <1>4, <2>1
<1> HIDE DEF f5
<1>6. /\ f6 \in Seq(S)
      /\ Elems(f6) =
           S \cap {"graph", "vector", "document", "tensor", "semantic", "provenance"}
  <2>1. f6 \in Seq(S) /\ Elems(f6) = Elems(f5) \cup Elems(T("provenance"))
    BY <1>0, <1>5, ConcatElems
  <2>2. QED
    BY <1>0, <1>5, <2>1
<1> HIDE DEF f6
<1>7. f7 \in Seq(S) /\ Elems(f7) = S \cap (Modalities \ {"temporal"})
  <2>1. f7 \in Seq(S) /\ Elems(f7) = Elems(f6) \cup Elems(T("spatial"))
    BY <1>0, <1>6, ConcatElems
  <2>2. QED
    BY <1>0, <1>6, <2>1 DEF Modalities
<1>8. Front(S) = f7
  BY DEF Front, f2, f3, f4, f5, f6, T
<1>9. QED
  BY <1>7, <1>8

(* InOrder lists the modalities of S, ...                                  *)
LEMMA InOrderElems ==
    ASSUME NEW S
    PROVE  InOrder(S) \in Seq(S) /\ Elems(InOrder(S)) = S \cap Modalities
<1>1. InOrder(S) = Front(S) \o ThenSome(S, "temporal")
  BY DEF InOrder, Front
<1>2. /\ InOrder(S) \in Seq(S)
      /\ Elems(InOrder(S)) = Elems(Front(S)) \cup Elems(ThenSome(S, "temporal"))
  BY <1>1, FrontElems, ThenSomeElems, ConcatElems
<1>3. QED
  BY <1>2, FrontElems, ThenSomeElems DEF Modalities

(* ... and the version history comes last.                                 *)
LEMMA InOrderEnds ==
    ASSUME NEW S \in SUBSET Mods, "temporal" \in S
    PROVE  Ends(InOrder(S))
<1> DEFINE f == Front(S)
<1>1. InOrder(S) = f \o <<"temporal">>
  BY DEF InOrder, Front, ThenSome
<1>2. f \in Seq(S) /\ Elems(f) = S \cap (Modalities \ {"temporal"})
  BY FrontElems
<1> HIDE DEF f
<1>3. \A i \in DOMAIN f : f[i] # "temporal"
  BY <1>2 DEF Elems
<1>4. f \in Seq(Mods)
  BY <1>2
<1>5. "temporal" \in Mods
  BY DEF Mods
<1>6. QED
  BY <1>1, <1>3, <1>4, <1>5 DEF Ends

(* What is left after the first element of such a list.                    *)
LEMMA EndsTail ==
    ASSUME NEW s, Ends(s)
    PROVE  /\ Head(s) \in Mods /\ Tail(s) \in Seq(Mods)
           /\ Tail(s) = <<>> <=> Head(s) = "temporal"
           /\ Tail(s) # <<>> => Ends(Tail(s))
           /\ Elems(s) = {Head(s)} \cup Elems(Tail(s))
<1> DEFINE t == Tail(s)
<1>1. s \in Seq(Mods) /\ s # <<>> /\ Len(s) \in Nat /\ Len(s) >= 1
  BY DEF Ends
<1>2. Head(s) = s[1] /\ Len(t) = Len(s) - 1 /\ t \in Seq(Mods)
  BY <1>1
<1>3. \A i \in 1 .. Len(s) - 1 : t[i] = s[i + 1]
  BY <1>1
<1> HIDE DEF t
<1>4. t = <<>> <=> Len(s) = 1
  BY <1>1, <1>2
<1>5. Head(s) = "temporal" <=> 1 = Len(s)
  <2>1. 1 \in DOMAIN s
    BY <1>1
  <2>2. s[1] = "temporal" <=> 1 = Len(s)
    BY <2>1 DEF Ends
  <2>3. QED
    BY <1>2, <2>2
<1>6. ASSUME t # <<>> PROVE Ends(t)
  <2>1. DOMAIN t = 1 .. Len(s) - 1 /\ DOMAIN s = 1 .. Len(s)
    BY <1>1, <1>2
  <2>2. \A i \in 1 .. Len(s) - 1 : s[i + 1] = "temporal" <=> i + 1 = Len(s)
    <3>1. \A i \in 1 .. Len(s) - 1 : i + 1 \in DOMAIN s
      BY <1>1, <2>1
    <3>2. QED
      BY <3>1, Zenon DEF Ends
  <2>3. \A i \in DOMAIN t : t[i] = "temporal" <=> i = Len(t)
    BY <1>1, <1>2, <1>3, <2>1, <2>2
  <2>4. QED
    BY <1>2, <1>6, <2>3 DEF Ends
<1>7. Elems(s) = {Head(s)} \cup Elems(t)
  <2>1. DOMAIN t = 1 .. Len(s) - 1 /\ DOMAIN s = 1 .. Len(s)
    BY <1>1, <1>2
  <2>2. \A i \in DOMAIN s : i = 1 \/ (i - 1 \in DOMAIN t /\ t[i - 1] = s[i])
    BY <1>1, <1>3, <2>1
  <2>3. \A i \in DOMAIN t : i + 1 \in DOMAIN s /\ t[i] = s[i + 1]
    BY <1>1, <1>3, <2>1
  <2>4. Elems(s) \subseteq {Head(s)} \cup Elems(t)
    BY <1>2, <2>2 DEF Elems
  <2>5. 1 \in DOMAIN s
    BY <1>1, <2>1
  <2>6. Elems(t) \subseteq Elems(s) /\ Head(s) \in Elems(s)
    BY <1>2, <2>3, <2>5 DEF Elems
  <2>7. QED
    BY <2>4, <2>6
<1>8. Head(s) \in Mods
  BY <1>1, <1>2
<1>9. QED
  BY <1>2, <1>4, <1>5, <1>6, <1>7, <1>8 DEF t
-----------------------------------------------------------------------------
(* Types.                                                                  *)

(* What a process call leaves in a store is a sequence of operations.      *)
LEMMA ProcessedType ==
    ASSUME NEW m, NEW s \in Seq(Nat), NEW n \in Nat
    PROVE  /\ Processed(m, s, n) \in Seq(Nat)
           /\ Processed(m, s, n) # <<>>
           /\ LeftBy(m, s, n) \subseteq Seq(Nat)
<1>1. Append(s, n) \in Seq(Nat) /\ <<n>> \in Seq(Nat) /\ Append(s, n) # <<>> /\ <<n>> # <<>>
  BY SMTT(30)
<1>2. QED
  BY <1>1 DEF Processed, LeftBy

(* Emptying some stores of a hexad keeps the type of the stores.           *)
LEMMA EraseType ==
    ASSUME NEW d \in [Modalities -> [Ids -> Seq(Nat)]], NEW ms, NEW id \in Ids
    PROVE  Erase(d, ms, id) \in [Modalities -> [Ids -> Seq(Nat)]]
<1>1. <<>> \in Seq(Nat)
  OBVIOUS
<1>2. \A m \in Modalities : [d[m] EXCEPT ![id] = <<>>] \in [Ids -> Seq(Nat)]
  BY <1>1
<1>3. QED
  BY <1>2 DEF Erase

(* An operation starts with inputs of their types.                         *)
StartsSome(c) ==
    \E kind \in {"create", "update", "delete"}, id \in Ids, input \in SUBSET Used,
       bad \in Failing \cup {"none"} :
        /\ kind = "create" => id \notin UsedIds
        /\ kind # "create" => Live(id)
        /\ Starts(c, kind, id, input, bad)

(* The steps of the store, create, update and delete together where they   *)
(* do the same.                                                            *)
LEMMA StepCases ==
    ASSUME [Next]_vars
    PROVE  \/ \E c \in Tasks : \/ StartsSome(c) \/ Intent(c) \/ IntentFails(c) \/ LockOne(c)
                               \/ LockRefused(c) \/ CreateWrites(c) \/ CreateFails(c)
                               \/ UpdateWrites(c) \/ UpdateFails(c) \/ DeleteErases(c)
                               \/ Commit(c) \/ Register(c) \/ Mark(c)
           \/ \E c \in Tasks, id \in Ids : NotFound(c, id)
           \/ \E r \in Readers : ReadStart(r) \/ Load(r)
           \/ UNCHANGED vars
<1>1. \A i \in Calls : i.input \in SUBSET Used /\ i.bad \in Failing \cup {"none"}
  BY StoreAssumption DEF StoreAssumption, Calls
<1>2. ASSUME NEW c \in Tasks, NEW id \in Ids, NEW i \in Calls,
             CreateStart(c, id, i.input, i.bad)
      PROVE  StartsSome(c)
  BY <1>1, <1>2 DEF CreateStart, StartsSome
<1>3. ASSUME NEW c \in Tasks, NEW id \in Ids, NEW i \in Calls,
             UpdateStart(c, id, i.input, i.bad)
      PROVE  StartsSome(c)
  BY <1>1, <1>3 DEF UpdateStart, StartsSome
<1>4. ASSUME NEW c \in Tasks, NEW id \in Ids, DeleteStart(c, id)
      PROVE  StartsSome(c)
  BY <1>4 DEF DeleteStart, StartsSome
<1>5. QED
  BY <1>2, <1>3, <1>4 DEF Next, Step

(* A task that returns is idle again and leaves an entry in the history.   *)
LEMMA ReturnsType ==
    ASSUME Types, NEW c \in Tasks, NEW ok \in BOOLEAN, Returns(c, ok)
    PROVE  task' \in [Tasks -> TaskRec] /\ log' \in SUBSET Entry
<1>1. Idle \in TaskRec
  BY StoreAssumption DEF StoreAssumption, Idle, TaskRec, Kinds
<1>2. [op |-> task[c].op, kind |-> task[c].kind, id |-> task[c].id, input |-> task[c].input,
       version |-> task[c].version, ok |-> ok] \in Entry
  BY DEF Types, TaskRec, Entry
<1>3. task' \in [Tasks -> TaskRec]
  BY <1>1 DEF Types, Returns
<1>4. QED
  BY <1>2, <1>3 DEF Types, Returns

(* The locks keep their types.                                             *)
LEMMA FinishType ==
    ASSUME Types, NEW n, Locks!Finish(n)
    PROVE  /\ phase' \in [Ops -> {"new", "running", "finished"}]
           /\ held' \in [Keys -> [Ops -> SUBSET Locks!Modes]]
  BY DEF Types, Locks!Finish

(* Every step keeps the types.                                             *)
LEMMA TypesStep ==
    ASSUME Types, TodoFollows, OpsApart, [Next]_vars
    PROVE  Types'
<1>0. "temporal" \in Modalities /\ Mods \subseteq Modalities /\ Used \subseteq Modalities
  BY StoreAssumption DEF StoreAssumption, Mods, Modalities
<1>1. ASSUME NEW c \in Tasks, StartsSome(c) PROVE Types'
  <2>1. PICK kind \in {"create", "update", "delete"}, id \in Ids, input \in SUBSET Used,
             bad \in Failing \cup {"none"} :
          Starts(c, kind, id, input, bad)
    BY <1>1 DEF StartsSome
  <2>2. <<>> \in Seq(Mods \cup Erased)
    OBVIOUS
  <2>3. task' \in [Tasks -> TaskRec]
    BY <2>1, <2>2 DEF Starts, Types, TaskRec, Kinds
  <2>4. ops' \in 0 .. MaxOps
    BY <2>1, StoreAssumption DEF Starts, Types, StoreAssumption
  <2>5. QED
    BY <2>1, <2>3, <2>4 DEF Starts, Types
<1>2. ASSUME NEW c \in Tasks, Intent(c) PROVE Types'
  <2>1. task[c].id \in Ids /\ task[c].op \in Nat /\ task[c] \in TaskRec
    BY DEF Types, TaskRec
  <2>2. wal' \in [intents : SUBSET [op : Nat, id : Ids], committed : [Ids -> Nat]]
    <3>1. /\ wal \in [intents : SUBSET [op : Nat, id : Ids], committed : [Ids -> Nat]]
          /\ wal' = [wal EXCEPT !.intents = @ \cup {[op |-> task[c].op, id |-> task[c].id]}]
      BY <1>2 DEF Intent, Types
    <3>2. QED
      BY <2>1, <3>1
  <2>3. LockList(task[c]) \in Seq(Mods \cup Erased)
    <3> DEFINE S == (IF task[c].kind = "delete" THEN task[c].flags ELSE task[c].input)
                      \cup {"temporal"}
    <3>1. S \subseteq Mods
      BY <2>1 DEF TaskRec, Mods
    <3>2. InOrder(S) \in Seq(S)
      BY InOrderElems
    <3>3. QED
      BY <3>1, <3>2 DEF LockList
  <2>4. task' \in [Tasks -> TaskRec]
    BY <1>2, <2>1, <2>3 DEF Intent, Types, TaskRec
  <2>5. phase' \in [Ops -> {"new", "running", "finished"}] /\ held' = held
    BY <1>2 DEF Intent, Locks!Begin, Types
  <2>6. QED
    BY <1>2, <2>2, <2>4, <2>5 DEF Intent, Types
<1>3. ASSUME NEW c \in Tasks, IntentFails(c) PROVE Types'
  BY <1>3, ReturnsType DEF IntentFails, Types
<1>4. ASSUME NEW c \in Tasks, LockOne(c) PROVE Types'
  <2> DEFINE o == task[c]
             next == InOrder(IF o.kind = "delete" THEN Erased ELSE o.input \cup {"temporal"})
             todo == IF Tail(o.todo) = <<>> THEN next ELSE Tail(o.todo)
  <2>1. o \in TaskRec /\ Ends(o.todo)
    BY <1>4 DEF LockOne, Types, TodoFollows
  <2>2. next \in Seq(Mods \cup Erased)
    <3>1. o.input \cup {"temporal"} \subseteq Mods
      BY <2>1 DEF TaskRec, Mods
    <3>2. InOrder(o.input \cup {"temporal"}) \in Seq(o.input \cup {"temporal"})
      BY InOrderElems
    <3>3. InOrder(o.input \cup {"temporal"}) \in Seq(Mods \cup Erased)
      BY <3>1, <3>2
    <3>4. InOrder(Erased) \in Seq(Mods \cup Erased)
      <4>1. InOrder(Erased) \in Seq(Erased)
        BY InOrderElems
      <4>2. QED
        BY <4>1
    <3>5. QED
      BY <3>3, <3>4
  <2>3. todo \in Seq(Mods \cup Erased)
    <3>1. Tail(o.todo) \in Seq(Mods)
      BY <2>1, EndsTail
    <3> HIDE DEF next
    <3>2. Tail(o.todo) \in Seq(Mods \cup Erased)
      BY <3>1
    <3>3. QED
      BY <2>2, <3>2
  <2>4. task' = [task EXCEPT ![c].todo = todo,
                             ![c].at = IF Tail(o.todo) = <<>> THEN "write" ELSE "lock",
                             ![c].flags = IF o.kind = "create" THEN {} ELSE @]
    BY <1>4 DEF LockOne
  <2> HIDE DEF todo
  <2>5. task' \in [Tasks -> TaskRec]
    BY <2>1, <2>3, <2>4 DEF Types, TaskRec
  <2>6. phase' = phase /\ held' \in [Keys -> [Ops -> SUBSET Locks!Modes]]
    BY <1>4 DEF LockOne, Locks!Grant, Types, Locks!Modes
  <2>7. QED
    BY <1>4, <2>5, <2>6 DEF LockOne, Types
<1>5. ASSUME NEW c \in Tasks, LockRefused(c) PROVE Types'
  BY <1>5, ReturnsType, FinishType DEF LockRefused, Types
<1>6. ASSUME NEW c \in Tasks, NEW m \in Modalities, NEW flags \in SUBSET Mods, Writing(c, m),
             task[c].kind # "delete", Write(c, m, flags)
      PROVE  Types'
  <2>1. task[c] \in TaskRec /\ Ends(task[c].todo) /\ task[c].id \in Ids /\ task[c].op \in Nat
    BY <1>6 DEF Writing, Types, TodoFollows, TaskRec
  <2>2. Tail(task[c].todo) \in Seq(Mods \cup Erased)
    <3>1. Tail(task[c].todo) \in Seq(Mods)
      BY <2>1, EndsTail
    <3>2. QED
      BY <3>1
  <2>3. Len(data[m][task[c].id]) + 1 \in Nat /\ data[m][task[c].id] \in Seq(Nat)
    BY <2>1 DEF Types
  <2>4. task' \in [Tasks -> TaskRec]
    BY <1>6, <2>1, <2>2, <2>3 DEF Write, Types, TaskRec
  <2>5. Processed(m, data[m][task[c].id], task[c].op) \in Seq(Nat)
    BY <2>1, <2>3, ProcessedType
  <2>6. data' \in [Modalities -> [Ids -> Seq(Nat)]]
    BY <1>6, <2>1, <2>5 DEF Write, Types
  <2>7. QED
    BY <1>6, <2>4, <2>6 DEF Write, Types
<1>7. ASSUME NEW c \in Tasks, CreateWrites(c) \/ UpdateWrites(c) PROVE Types'
  <2>1. PICK m, flags :
          /\ m \in Modalities /\ Writing(c, m) /\ task[c].kind # "delete"
          /\ flags \in {task[c].flags \cup {m}, task[c].flags \cup ({m} \ {"temporal"})}
          /\ Write(c, m, flags)
    BY <1>7 DEF CreateWrites, UpdateWrites
  <2>2. m \in Mods
    <3>1. Ends(task[c].todo)
      BY <2>1 DEF Writing, TodoFollows
    <3>2. QED
      BY <2>1, <3>1, EndsTail DEF Writing
  <2>3. flags \in SUBSET Mods
    BY <2>1, <2>2 DEF Types, TaskRec
  <2>4. QED
    BY <1>6, <2>1, <2>3
<1>8. ASSUME NEW c \in Tasks, CreateFails(c) \/ UpdateFails(c) PROVE Types'
  <2> DEFINE o == task[c]
  <2>1. o.id \in Ids /\ o.op \in Nat
    BY DEF Types, TaskRec
  <2>2. o.bad \in Modalities
    <3>1. task[c].kind # "delete" /\ Writing(c, o.bad)
      BY <1>8 DEF CreateFails, UpdateFails
    <3>2. Ends(task[c].todo)
      BY <3>1 DEF Writing, TodoFollows
    <3>3. QED
      BY <1>0, <3>1, <3>2, EndsTail DEF Writing
  <2>3. PICK s \in LeftBy(o.bad, data[o.bad][o.id], o.op) :
          \/ data' \in RollbackCreate([data EXCEPT ![o.bad][o.id] = s], o)
          \/ data' = [data EXCEPT ![o.bad][o.id] = s]
    BY <1>8 DEF CreateFails, UpdateFails
  <2>4. data[o.bad][o.id] \in Seq(Nat)
    BY <2>1, <2>2 DEF Types
  <2>5. s \in Seq(Nat)
    BY <2>1, <2>4, ProcessedType
  <2>6. [data EXCEPT ![o.bad][o.id] = s] \in [Modalities -> [Ids -> Seq(Nat)]]
    BY <2>1, <2>2, <2>5 DEF Types
  <2>7. data' \in [Modalities -> [Ids -> Seq(Nat)]]
    <3> DEFINE d == [data EXCEPT ![o.bad][o.id] = s]
    <3> HIDE DEF d
    <3>1. d \in [Modalities -> [Ids -> Seq(Nat)]]
      BY <2>6 DEF d
    <3>2. RollbackCreate(d, o) \subseteq [Modalities -> [Ids -> Seq(Nat)]]
      <4>1. \A ms : Erase(d, ms, o.id) \in [Modalities -> [Ids -> Seq(Nat)]]
        BY <2>1, <3>1, EraseType, Zenon
      <4>2. QED
        BY <4>1 DEF RollbackCreate
    <3>3. data' \in RollbackCreate(d, o) \/ data' = d
      BY <2>3 DEF d
    <3>4. QED
      BY <3>1, <3>2, <3>3
  <2>8. QED
    BY <1>8, <2>7, ReturnsType, FinishType DEF CreateFails, UpdateFails, Types
<1>9. ASSUME NEW c \in Tasks, DeleteErases(c) PROVE Types'
  <2> DEFINE rest == Tail(task[c].todo)
  <2>1. data' \in [Modalities -> [Ids -> Seq(Nat)]]
    <3>1. data \in [Modalities -> [Ids -> Seq(Nat)]] /\ task[c].id \in Ids
      BY DEF Types, TaskRec
    <3>2. Erase(data, {Head(task[c].todo)}, task[c].id) \in [Modalities -> [Ids -> Seq(Nat)]]
      BY <3>1, EraseType, Zenon
    <3>3. QED
      BY <1>9, <3>1, <3>2 DEF DeleteErases
  <2>2. rest \in Seq(Mods \cup Erased)
    <3>1. task[c].todo \in Seq(Mods \cup Erased) /\ task[c].todo # <<>>
      BY <1>9 DEF DeleteErases, Types, TaskRec
    <3>2. QED
      BY <3>1
  <2>3. task' \in [Tasks -> TaskRec]
    <3>1. task \in [Tasks -> TaskRec] /\ task' = [task EXCEPT ![c].todo = rest]
      BY <1>9 DEF DeleteErases, Types
    <3> HIDE DEF rest
    <3>2. QED
      BY <2>2, <3>1, ZenonT(30) DEF TaskRec
  <2>4. QED
    BY <1>9, <2>1, <2>3 DEF DeleteErases, Types
<1>10. ASSUME NEW c \in Tasks, Commit(c) PROVE Types'
  <2>1. task' \in [Tasks -> TaskRec]
    <3>1. task \in [Tasks -> TaskRec] /\ task' = [task EXCEPT ![c].at = "register"]
      BY <1>10 DEF Commit, Types
    <3>2. QED
      BY <3>1, ZenonT(30) DEF TaskRec
  <2>2. QED
    BY <1>10, <2>1, FinishType DEF Commit, Types
<1>11. ASSUME NEW c \in Tasks, Register(c) PROVE Types'
  <2>1. task' \in [Tasks -> TaskRec]
    <3>1. task \in [Tasks -> TaskRec] /\ task' = [task EXCEPT ![c].at = "mark"]
      BY <1>11 DEF Register, Types
    <3>2. QED
      BY <3>1, ZenonT(30) DEF TaskRec
  <2>2. registry' \in [Ids -> [version : Nat, flags : SUBSET Mods]]
    BY <1>11 DEF Register, Types, TaskRec, Absent
  <2>3. QED
    BY <1>11, <2>1, <2>2 DEF Register, Types
<1>12. ASSUME NEW c \in Tasks, Mark(c) PROVE Types'
  <2>1. wal' \in [intents : SUBSET [op : Nat, id : Ids], committed : [Ids -> Nat]]
    <3>1. wal' = wal \/ wal' = [wal EXCEPT !.committed[task[c].id] = @ + 1]
      BY <1>12 DEF Mark, Marker
    <3>2. wal \in [intents : SUBSET [op : Nat, id : Ids], committed : [Ids -> Nat]]
      BY DEF Types
    <3>3. QED
      BY <3>1, <3>2
  <2>2. QED
    BY <1>12, <2>1, ReturnsType DEF Mark, Types
<1>13. ASSUME NEW c \in Tasks, NEW id \in Ids, NotFound(c, id) PROVE Types'
  BY <1>13, StoreAssumption DEF NotFound, Types, StoreAssumption
<1>14. ASSUME NEW r \in Readers, ReadStart(r) \/ Load(r) PROVE Types'
  <2>1. NoRead \in ReadRec
    BY StoreAssumption DEF StoreAssumption, NoRead, ReadRec
  <2>2. CASE ReadStart(r)
    <3>1. PICK found : /\ found \in Given \cup AtTime \cup Similar \cup Matching \cup Related \cup Listed
                       /\ reads' = [reads EXCEPT ![r] = [NoRead EXCEPT !.at = "load", !.found = found]]
      BY <2>2 DEF ReadStart
    <3>2. found \subseteq Ids
      BY <3>1 DEF Given, AtTime, Similar, Matching, Related, Listed
    <3>3. [NoRead EXCEPT !.at = "load", !.found = found] \in ReadRec
      BY <2>1, <3>2 DEF ReadRec
    <3>4. reads' \in [Readers -> ReadRec]
      BY <3>1, <3>3 DEF Types
    <3>5. QED
      BY <2>2, <3>4 DEF ReadStart, Types
  <2>3. ASSUME NEW id \in Ids, LoadStatus(r, id) PROVE Types'
    <3>1. InOrder(registry[id].flags \cap Loaded) \in Seq(Mods)
      <4>1. registry[id].flags \cap Loaded \subseteq Mods
        BY DEF Types
      <4>2. QED
        BY <4>1, InOrderElems
    <3>2. reads' \in [Readers -> ReadRec]
      <4> DEFINE flags == registry[id].flags
                 todo == InOrder(flags \cap Loaded)
                 new == [reads[r] EXCEPT !.found = @ \ {id}, !.id = id, !.got = {},
                                         !.flags = flags, !.todo = todo]
      <4>1. /\ reads \in [Readers -> ReadRec] /\ flags \in SUBSET Mods
            /\ todo \in Seq(Mods)
        BY <3>1 DEF Types
      <4>2. reads' = [reads EXCEPT ![r] = new]
        BY <2>3, <4>1 DEF LoadStatus
      <4> HIDE DEF flags, todo
      <4>3. new \in ReadRec
        BY <4>1 DEF ReadRec
      <4> HIDE DEF new
      <4>4. QED
        BY <4>1, <4>2, <4>3
    <3>3. QED
      BY <2>3, <3>2 DEF LoadStatus, Types
  <2>4. CASE LoadModality(r)
    <3>1. /\ reads[r].todo \in Seq(Mods) /\ reads[r].todo # <<>>
          /\ Head(reads[r].todo) \in Mods /\ Tail(reads[r].todo) \in Seq(Mods)
      BY <2>4 DEF LoadModality, Types, ReadRec
    <3>2. reads' \in [Readers -> ReadRec]
      <4> DEFINE m == Head(reads[r].todo)
                 got == IF data[m][reads[r].id] = <<>> THEN reads[r].got ELSE reads[r].got \cup {m}
      <4>1. /\ reads \in [Readers -> ReadRec]
            /\ reads' = [reads EXCEPT ![r].todo = Tail(@), ![r].got = got]
        BY <2>4 DEF LoadModality, Types
      <4>2. got \in SUBSET Mods
        BY <3>1, <4>1 DEF ReadRec
      <4> HIDE DEF got
      <4>3. QED
        BY <3>1, <4>1, <4>2 DEF ReadRec
    <3>3. QED
      BY <2>4, <3>2 DEF LoadModality, Types
  <2>5. CASE ReadDone(r)
    BY <2>1, <2>5 DEF ReadDone, Types
  <2>6. QED
    BY <1>14, <2>2, <2>3, <2>4, <2>5 DEF Load
<1>15. CASE UNCHANGED vars
  BY <1>15 DEF vars, Types
<1>16. QED
  BY <1>1, <1>2, <1>3, <1>4, <1>5, <1>7, <1>8, <1>9, <1>10, <1>11, <1>12, <1>13, <1>14,
     <1>15, StepCases
-----------------------------------------------------------------------------
(* What a step of one task does to the tasks.                              *)
Others(c) == \A d \in Tasks : d # c => task'[d] = task[d]

SameOp(c) ==
    /\ task'[c].op = task[c].op /\ task'[c].kind = task[c].kind
    /\ task'[c].id = task[c].id /\ task'[c].input = task[c].input
    /\ task'[c].bad = task[c].bad

(* The operation goes on from one place to another.                        *)
Moves(c, from, to) ==
    /\ Others(c) /\ SameOp(c)
    /\ task[c].at = from /\ task'[c].at = to

(* It returns.                                                             *)
Gone(c, ok) ==
    /\ Others(c) /\ Busy(c) /\ task'[c] = Idle /\ task'[c].at = "idle"
    /\ log' = log \cup {[op |-> task[c].op, kind |-> task[c].kind, id |-> task[c].id,
                         input |-> task[c].input, version |-> task[c].version, ok |-> ok]}

(* An operation starts at its intent.                                      *)
LEMMA StartMoves ==
    ASSUME Types, NEW c \in Tasks, NEW kind, NEW id, NEW input, NEW bad,
           Starts(c, kind, id, input, bad)
    PROVE  /\ Others(c) /\ ~Busy(c) /\ task'[c].at = "intent" /\ ops' = ops + 1
           /\ task'[c].op = ops + 1 /\ task'[c].kind = kind /\ task'[c].id = id
           /\ task'[c].input = input /\ task'[c].todo = <<>> /\ task'[c].bad = bad
           /\ task'[c].flags = registry[id].flags /\ task'[c].version = registry[id].version
           /\ UNCHANGED <<registry, data, phase, held, wal, reads, log>>
  BY DEF Starts, Types, Others, Busy

(* From the intent to the locks.                                           *)
LEMMA IntentMoves ==
    ASSUME Types, NEW c \in Tasks, Intent(c)
    PROVE  /\ Moves(c, "intent", "lock")
           /\ task'[c].todo = LockList(task[c])
           /\ task'[c].flags = task[c].flags /\ task'[c].version = task[c].version
<1>1. task \in [Tasks -> TaskRec] /\ task[c].at = "intent"
  BY DEF Types, Intent
<1>2. task' = [task EXCEPT ![c].at = "lock", ![c].todo = LockList(task[c])]
  BY DEF Intent
<1> DEFINE L == LockList(task[c])
<1> HIDE DEF L
<1>3. task' = [task EXCEPT ![c].at = "lock", ![c].todo = L]
  BY <1>2 DEF L
<1>4. task'[c].todo = L
  BY <1>1, <1>3 DEF TaskRec
<1>5. Moves(c, "intent", "lock") /\ task'[c].flags = task[c].flags
       /\ task'[c].version = task[c].version
  BY <1>1, <1>3 DEF TaskRec, Moves, Others, SameOp
<1>6. QED
  BY <1>4, <1>5 DEF L

(* What comes after the last lock.                                         *)
FirstWrites(o) ==
    InOrder(IF o.kind = "delete" THEN Erased ELSE o.input \cup {"temporal"})

(* A lock, and the first write once they are all held.                     *)
LEMMA LockMoves ==
    ASSUME Types, NEW c \in Tasks, LockOne(c)
    PROVE  /\ \/ /\ Tail(task[c].todo) = <<>>
                 /\ Moves(c, "lock", "write") /\ task'[c].todo = FirstWrites(task[c])
              \/ /\ Tail(task[c].todo) # <<>>
                 /\ Moves(c, "lock", "lock") /\ task'[c].todo = Tail(task[c].todo)
           /\ task'[c].flags = IF task[c].kind = "create" THEN {} ELSE task[c].flags
           /\ task'[c].version = task[c].version
<1> DEFINE o == task[c]
           rest == Tail(o.todo)
           F == FirstWrites(o)
<1>1. task \in [Tasks -> TaskRec] /\ task[c].at = "lock"
  BY DEF Types, LockOne
<1>2. task' = [task EXCEPT ![c].todo = IF rest = <<>> THEN F ELSE rest,
                           ![c].at = IF rest = <<>> THEN "write" ELSE "lock",
                           ![c].flags = IF o.kind = "create" THEN {} ELSE @]
  BY DEF LockOne, FirstWrites
<1> HIDE DEF rest, F
<1>3. /\ task'[c].todo = IF rest = <<>> THEN F ELSE rest
      /\ task'[c].flags = IF task[c].kind = "create" THEN {} ELSE task[c].flags
      /\ task'[c].version = task[c].version
      /\ Moves(c, "lock", IF rest = <<>> THEN "write" ELSE "lock")
  BY <1>1, <1>2 DEF TaskRec, Moves, Others, SameOp
<1>4. QED
  BY <1>3 DEF rest, F

(* The write of one modality by a create or an update.                     *)
Writes(c, m) ==
    /\ m \in Mods /\ m # task[c].bad /\ task[c].kind \in {"create", "update"}
    /\ Ends(task[c].todo) /\ m = Head(task[c].todo)
    /\ Moves(c, "write", "write") /\ task'[c].todo = Tail(task[c].todo)
    /\ task'[c].flags = task[c].flags \cup
                          (IF task[c].kind = "create" THEN {m} ELSE {m} \ {"temporal"})
    /\ task'[c].version = IF m = "temporal" THEN Len(data[m][task[c].id]) + 1
                          ELSE task[c].version
    /\ data' = [data EXCEPT ![m][task[c].id] = Processed(m, @, task[c].op)]
    /\ UNCHANGED <<registry, phase, held, wal, ops, reads, log>>

(* create and update write their modalities this way.                      *)
LEMMA WriteMoves ==
    ASSUME Types, TodoFollows, NEW c \in Tasks, CreateWrites(c) \/ UpdateWrites(c)
    PROVE  \E m : Writes(c, m)
<1>1. PICK m, flags :
        /\ m \in Modalities /\ m # task[c].bad /\ task[c].kind \in {"create", "update"}
        /\ Writing(c, m) /\ Write(c, m, flags)
        /\ flags = task[c].flags \cup
                     (IF task[c].kind = "create" THEN {m} ELSE {m} \ {"temporal"})
  BY DEF CreateWrites, UpdateWrites
<1>2. Ends(task[c].todo) /\ m = Head(task[c].todo) /\ task[c].at = "write"
  BY <1>1 DEF Writing, TodoFollows
<1>3. m \in Mods
  BY <1>2, EndsTail
<1> DEFINE v == IF m = "temporal" THEN Len(data[m][task[c].id]) + 1 ELSE task[c].version
           rest == Tail(task[c].todo)
<1>4. /\ task \in [Tasks -> TaskRec]
      /\ task' = [task EXCEPT ![c].todo = rest, ![c].flags = flags, ![c].version = v]
  BY <1>1 DEF Types, Write
<1> HIDE DEF v, rest
<1>5. /\ Moves(c, "write", "write") /\ task'[c].todo = rest
      /\ task'[c].flags = flags /\ task'[c].version = v
  BY <1>2, <1>4 DEF TaskRec, Moves, Others, SameOp
<1>6. QED
  BY <1>1, <1>2, <1>3, <1>5 DEF Write, Writes, v, rest

(* delete empties a store, and goes on with the next.                      *)
LEMMA EraseMoves ==
    ASSUME Types, TodoFollows, NEW c \in Tasks, DeleteErases(c)
    PROVE  /\ Moves(c, "write", "write") /\ task[c].kind = "delete"
           /\ task'[c].todo = Tail(task[c].todo) /\ Tail(task[c].todo) \in Seq(Erased)
           /\ Head(task[c].todo) \in Erased
           /\ task'[c].flags = task[c].flags /\ task'[c].version = task[c].version
<1> DEFINE rest == Tail(task[c].todo)
<1>1. /\ task \in [Tasks -> TaskRec] /\ task' = [task EXCEPT ![c].todo = rest]
      /\ task[c].at = "write" /\ task[c].kind = "delete" /\ task[c].todo # <<>>
  BY DEF Types, DeleteErases
<1>2. task[c].todo \in Seq(Erased)
  BY <1>1 DEF TodoFollows
<1>3. Head(task[c].todo) \in Erased /\ rest \in Seq(Erased)
  BY <1>1, <1>2
<1> HIDE DEF rest
<1>4. /\ Moves(c, "write", "write") /\ task'[c].todo = rest
      /\ task'[c].flags = task[c].flags /\ task'[c].version = task[c].version
  BY <1>1 DEF TaskRec, Moves, Others, SameOp
<1>5. QED
  BY <1>1, <1>3, <1>4 DEF rest

(* From the last write to the registry and to the marker.                  *)
LEMMA CommitMoves ==
    ASSUME Types, NEW c \in Tasks
    PROVE  /\ Commit(c) => /\ Moves(c, "write", "register")
                           /\ task[c].todo = <<>> /\ task'[c].todo = <<>>
                           /\ task'[c].flags = task[c].flags /\ task'[c].version = task[c].version
           /\ Register(c) => /\ Moves(c, "register", "mark")
                             /\ task'[c].todo = task[c].todo
                             /\ task'[c].flags = task[c].flags /\ task'[c].version = task[c].version
<1>1. ASSUME Commit(c)
      PROVE  /\ Moves(c, "write", "register")
             /\ task[c].todo = <<>> /\ task'[c].todo = <<>>
             /\ task'[c].flags = task[c].flags /\ task'[c].version = task[c].version
  <2>1. /\ task \in [Tasks -> TaskRec] /\ task' = [task EXCEPT ![c].at = "register"]
        /\ task[c].at = "write" /\ task[c].todo = <<>>
    BY <1>1 DEF Types, Commit
  <2>2. QED
    BY <2>1 DEF TaskRec, Moves, Others, SameOp
<1>2. ASSUME Register(c)
      PROVE  /\ Moves(c, "register", "mark")
             /\ task'[c].todo = task[c].todo
             /\ task'[c].flags = task[c].flags /\ task'[c].version = task[c].version
  <2>1. /\ task \in [Tasks -> TaskRec] /\ task' = [task EXCEPT ![c].at = "mark"]
        /\ task[c].at = "register"
    BY <1>2 DEF Types, Register
  <2>2. QED
    BY <2>1 DEF TaskRec, Moves, Others, SameOp
<1>3. QED
  BY <1>1, <1>2

(* The returns.                                                            *)
LEMMA ReturnMoves ==
    ASSUME Types, NEW c \in Tasks, NEW ok, Returns(c, ok), Busy(c)
    PROVE  Gone(c, ok)
<1>1. task \in [Tasks -> TaskRec] /\ task' = [task EXCEPT ![c] = Idle] /\ Idle.at = "idle"
  BY DEF Types, Returns, Idle
<1>2. task'[c] = Idle /\ Others(c)
  BY <1>1 DEF Others
<1>3. QED
  BY <1>1, <1>2 DEF Gone, Returns

(* A failed operation returns, after its intent with its locks given back. *)
FailsAt(c) ==
    \/ IntentFails(c)
    \/ LockRefused(c)
    \/ CreateFails(c)
    \/ UpdateFails(c)

(* Where an operation may fail, and what it leaves alone.                  *)
LEMMA FailMoves ==
    ASSUME Types, NEW c \in Tasks, FailsAt(c)
    PROVE  /\ Gone(c, FALSE) /\ UNCHANGED <<registry, wal, ops, reads>>
           /\ \/ task[c].at = "intent" /\ UNCHANGED <<phase, held, data>>
              \/ task[c].at \in {"lock", "write"} /\ Locks!Finish(task[c].op)
<1>1. Busy(c)
  BY DEF FailsAt, IntentFails, LockRefused, CreateFails, UpdateFails, Writing, Busy
<1>2. Gone(c, FALSE)
  <2>1. Returns(c, FALSE)
    BY DEF FailsAt, IntentFails, LockRefused, CreateFails, UpdateFails
  <2>2. QED
    BY <1>1, <2>1, ReturnMoves
<1>3. QED
  BY <1>2 DEF FailsAt, IntentFails, LockRefused, CreateFails, UpdateFails, Writing
-----------------------------------------------------------------------------
(* The locks.  Every step starts an operation, goes on with one, ends one  *)
(* or leaves the tasks alone.                                              *)
Goes(c) ==
    /\ Others(c) /\ SameOp(c)
    /\ Busy(c) /\ task[c].at # "mark"
    /\ task'[c].at # "idle" /\ task'[c].at # "intent"
    /\ UNCHANGED <<ops, log>>

(* The four ways in which a step may change the tasks.                     *)
LEMMA Shapes ==
    ASSUME Types, TodoFollows, [Next]_vars
    PROVE  \/ \E c \in Tasks : StartsSome(c)
           \/ \E c \in Tasks : Goes(c)
           \/ \E c \in Tasks, ok \in BOOLEAN :
                Gone(c, ok) /\ ops' = ops /\ (ok <=> task[c].at = "mark")
           \/ task' = task /\ log' = log /\ (ops' = ops \/ ops' = ops + 1)
<1>1. ASSUME NEW c \in Tasks, Intent(c) PROVE Goes(c)
  BY <1>1, IntentMoves DEF Intent, Moves, Goes, Busy
<1>2. ASSUME NEW c \in Tasks, LockOne(c) PROVE Goes(c)
  BY <1>2, LockMoves DEF LockOne, Moves, Goes, Busy
<1>3. ASSUME NEW c \in Tasks, CreateWrites(c) \/ UpdateWrites(c) PROVE Goes(c)
  BY <1>3, WriteMoves DEF Writes, Moves, Goes, Busy
<1>4. ASSUME NEW c \in Tasks, DeleteErases(c) PROVE Goes(c)
  BY <1>4, EraseMoves DEF DeleteErases, Moves, Goes, Busy
<1>5. ASSUME NEW c \in Tasks, Commit(c) \/ Register(c) PROVE Goes(c)
  BY <1>5, CommitMoves DEF Commit, Register, Moves, Goes, Busy
<1>6. ASSUME NEW c \in Tasks, FailsAt(c)
      PROVE  Gone(c, FALSE) /\ ops' = ops /\ task[c].at # "mark"
  BY <1>6, FailMoves
<1>7. ASSUME NEW c \in Tasks, Mark(c)
      PROVE  Gone(c, TRUE) /\ ops' = ops /\ task[c].at = "mark"
  BY <1>7, ReturnMoves DEF Mark, Busy
<1>8. ASSUME NEW c \in Tasks, NEW id \in Ids, NotFound(c, id)
      PROVE  task' = task /\ log' = log /\ ops' = ops + 1
  BY <1>8 DEF NotFound
<1>9. ASSUME NEW r \in Readers, ReadStart(r) \/ Load(r)
      PROVE  task' = task /\ log' = log /\ ops' = ops
  BY <1>9 DEF ReadStart, Load, LoadStatus, LoadModality, ReadDone
<1>10. CASE UNCHANGED vars
  BY <1>10 DEF vars
<1>11. QED
  BY <1>1, <1>2, <1>3, <1>4, <1>5, <1>6, <1>7, <1>8, <1>9, <1>10, StepCases DEF FailsAt

(* Operations keep belonging to one task.                                  *)
LEMMA OpsApartStep ==
    ASSUME Types, TodoFollows, OpsApart, [Next]_vars
    PROVE  OpsApart'
<1>0. ops \in Nat /\ \A c \in Tasks : task[c].op \in Nat
  BY StoreAssumption DEF Types, TaskRec, StoreAssumption
<1>1. ASSUME NEW c \in Tasks, StartsSome(c) PROVE OpsApart'
  <2>1. /\ Others(c) /\ ~Busy(c) /\ ops' = ops + 1 /\ log' = log
        /\ task'[c].op = ops + 1 /\ task'[c].kind # "none"
    BY <1>1, StartMoves DEF StartsSome
  <2>2. \A e \in log : e.op \in 1 .. ops' /\ e.op # ops + 1
    BY <1>0, <2>1 DEF OpsApart
  <2>3. \A d \in Tasks : d # c => (Busy(d)' <=> Busy(d)) /\ task'[d] = task[d]
    BY <2>1 DEF Others, Busy
  <2>4. \A d \in Tasks : d # c /\ Busy(d) => /\ task[d].op \in 1 .. ops'
                                             /\ task[d].op # ops + 1 /\ task[d].kind # "none"
    BY <1>0, <2>1 DEF OpsApart
  <2>5. ops + 1 \in 1 .. ops'
    BY <1>0, <2>1
  <2>6. QED
    BY <2>1, <2>2, <2>3, <2>4, <2>5 DEF OpsApart
<1>2. ASSUME NEW c \in Tasks, Goes(c) PROVE OpsApart'
  <2>1. \A d \in Tasks : /\ Busy(d)' <=> Busy(d)
                         /\ task'[d].op = task[d].op /\ task'[d].kind = task[d].kind
    BY <1>2 DEF Goes, Others, SameOp, Busy
  <2>2. ops' = ops /\ log' = log
    BY <1>2 DEF Goes
  <2>3. QED
    BY <2>1, <2>2 DEF OpsApart
<1>3. ASSUME NEW c \in Tasks, NEW ok \in BOOLEAN, Gone(c, ok), ops' = ops PROVE OpsApart'
  <2>1. \A d \in Tasks : Busy(d)' => Busy(d) /\ d # c /\ task'[d] = task[d]
    BY <1>3 DEF Gone, Others, Busy
  <2>2. PICK e : e.op = task[c].op /\ log' = log \cup {e}
    BY <1>3 DEF Gone
  <2>3. e.op \in 1 .. ops /\ \A f \in log : f.op # e.op
    BY <1>3, <2>2 DEF OpsApart, Gone
  <2>4. \A d \in Tasks : Busy(d)' => task'[d].op # e.op
    BY <1>3, <2>1, <2>2 DEF OpsApart, Gone
  <2>5. QED
    BY <1>3, <2>1, <2>2, <2>3, <2>4 DEF OpsApart
<1>4. ASSUME task' = task, log' = log, ops' = ops \/ ops' = ops + 1 PROVE OpsApart'
  <2>1. \A n \in 1 .. ops : n \in 1 .. ops'
    BY <1>0, <1>4
  <2>2. QED
    BY <1>4, <2>1 DEF OpsApart, Busy
<1>5. QED
  BY <1>1, <1>2, <1>3, <1>4, Shapes

(* The lists keep their form.                                              *)
LEMMA TodoStep ==
    ASSUME Types, TodoFollows, [Next]_vars
    PROVE  TodoFollows'
<1> DEFINE Todo(o) == /\ o.at \notin {"lock", "write"} => o.todo = <<>>
                      /\ o.at = "lock" => Ends(o.todo)
                      /\ o.at = "write" /\ o.kind # "delete" => o.todo = <<>> \/ Ends(o.todo)
                      /\ o.at = "write" /\ o.kind = "delete" => o.todo \in Seq(Erased)
<1>0. ASSUME NEW c \in Tasks, Others(c), Todo(task'[c]) PROVE TodoFollows'
  BY <1>0 DEF TodoFollows, Others
<1>1. ASSUME NEW c \in Tasks, StartsSome(c) PROVE TodoFollows'
  BY <1>0, <1>1, StartMoves DEF StartsSome
<1>2. ASSUME NEW c \in Tasks, Intent(c) PROVE TodoFollows'
  <2>1. Ends(LockList(task[c]))
    <3> DEFINE S == (IF task[c].kind = "delete" THEN task[c].flags ELSE task[c].input)
                      \cup {"temporal"}
    <3>1. S \in SUBSET Mods /\ "temporal" \in S
      BY DEF Types, TaskRec, Mods
    <3>2. Ends(InOrder(S))
      BY <3>1, InOrderEnds
    <3>3. QED
      BY <3>2 DEF LockList
  <2>2. QED
    BY <1>0, <1>2, <2>1, IntentMoves DEF Moves
<1>3. ASSUME NEW c \in Tasks, LockOne(c) PROVE TodoFollows'
  <2>1. Ends(task[c].todo)
    BY <1>3 DEF LockOne, TodoFollows
  <2>2. task[c].kind # "delete" => Ends(FirstWrites(task[c]))
    <3>1. task[c].input \cup {"temporal"} \in SUBSET Mods
      BY DEF Types, TaskRec, Mods
    <3>2. Ends(InOrder(task[c].input \cup {"temporal"}))
      BY <3>1, InOrderEnds
    <3>3. QED
      BY <3>2 DEF FirstWrites
  <2>3. task[c].kind = "delete" => FirstWrites(task[c]) \in Seq(Erased)
    BY InOrderElems DEF FirstWrites
  <2>4. Tail(task[c].todo) # <<>> => Ends(Tail(task[c].todo))
    BY <2>1, EndsTail
  <2>5. Todo(task'[c]) /\ Others(c)
    BY <1>3, <2>2, <2>3, <2>4, LockMoves DEF Moves, SameOp
  <2>6. QED
    BY <1>0, <2>5
<1>4. ASSUME NEW c \in Tasks, CreateWrites(c) \/ UpdateWrites(c) PROVE TodoFollows'
  <2>1. PICK m : Writes(c, m)
    BY <1>4, WriteMoves
  <2>2. Tail(task[c].todo) = <<>> \/ Ends(Tail(task[c].todo))
    BY <2>1, EndsTail DEF Writes
  <2>3. QED
    BY <1>0, <2>1, <2>2 DEF Writes, Moves, SameOp
<1>5. ASSUME NEW c \in Tasks, DeleteErases(c) PROVE TodoFollows'
  BY <1>0, <1>5, EraseMoves DEF Moves, SameOp
<1>6. ASSUME NEW c \in Tasks, Commit(c) \/ Register(c) PROVE TodoFollows'
  BY <1>0, <1>6, CommitMoves DEF Moves, TodoFollows
<1>7. ASSUME NEW c \in Tasks, NEW ok \in BOOLEAN, Gone(c, ok) PROVE TodoFollows'
  <2>1. task'[c].at = "idle" /\ task'[c].todo = <<>>
    BY <1>7 DEF Gone, Idle
  <2>2. QED
    BY <1>0, <1>7, <2>1 DEF Gone
<1>8. ASSUME task' = task PROVE TodoFollows'
  BY <1>8 DEF TodoFollows
<1>9. ASSUME NEW c \in Tasks, FailsAt(c) PROVE Gone(c, FALSE)
  BY <1>9, FailMoves
<1>10. ASSUME NEW c \in Tasks, Mark(c) PROVE Gone(c, TRUE)
  BY <1>10, ReturnMoves DEF Mark, Busy
<1>11. QED
  <2>1. ASSUME NEW r \in Readers, ReadStart(r) \/ Load(r) PROVE task' = task
    BY <2>1 DEF ReadStart, Load, LoadStatus, LoadModality, ReadDone
  <2>2. ASSUME NEW c \in Tasks, NEW id \in Ids, NotFound(c, id) PROVE task' = task
    BY <2>2 DEF NotFound
  <2>3. ASSUME UNCHANGED vars PROVE task' = task
    BY <2>3 DEF vars
  <2>4. QED
    BY <1>1, <1>2, <1>3, <1>4, <1>5, <1>6, <1>7, <1>8, <1>9, <1>10, <2>1, <2>2, <2>3,
       StepCases DEF FailsAt

(* An exclusive grant finds nobody else on the key and adds one holder.    *)
LEMMA GrantHolds ==
    ASSUME Types, NEW n \in Ops, NEW k \in Keys, Locks!Grant(n, k, "exclusive")
    PROVE  /\ phase[n] = "running" /\ phase' = phase
           /\ \A m \in Ops : m # n => held[k][m] = {}
           /\ \A j \in Keys, m \in Ops :
                held'[j][m] # {} <=> held[j][m] # {} \/ (j = k /\ m = n)
<1>1. held \in [Keys -> [Ops -> SUBSET Locks!Modes]]
  BY DEF Types
<1>2. \A m \in Ops : m # n => held[k][m] = {}
  BY DEF Locks!Grant, Locks!Grantable
<1>3. PICK S : S # {} /\ held' = [held EXCEPT ![k][n] = S]
  BY DEF Locks!Grant
<1>4. \A j \in Keys, m \in Ops : held'[j][m] = IF j = k /\ m = n THEN S ELSE held[j][m]
  BY <1>1, <1>3
<1>5. QED
  BY <1>2, <1>3, <1>4 DEF Locks!Grant

(* The end of a transaction takes its locks and no other.                  *)
LEMMA FinishHolds ==
    ASSUME Types, NEW n \in Ops, Locks!Finish(n)
    PROVE  /\ \A m \in Ops : phase'[m] = IF m = n THEN "finished" ELSE phase[m]
           /\ \A j \in Keys, m \in Ops : held'[j][m] # {} <=> held[j][m] # {} /\ m # n
  BY DEF Types, Locks!Finish

(* What is left of an operation's lock on a hexad.                         *)
LEMMA LockKeys ==
    ASSUME NEW id \in Ids, NEW m \in Mods
    PROVE  <<id, m>> \in Keys /\ <<id, m>>[1] = id
  BY DEF Keys, Mods

(* Locks are held for the operation under way and exclude one another.     *)
LEMMA LocksStep ==
    ASSUME Types, LockInv, [Next]_vars
    PROVE  PhasesFollow' /\ LocksFollow' /\ NoLeakedLock'
<1> USE DEF LockInv
<1>0. \A c \in Tasks : /\ Busy(c) => task[c].op \in Ops
                       /\ task[c].id \in Ids /\ task[c].op \in Nat
  BY StoreAssumption DEF OpsApart, Types, TaskRec, Ops, StoreAssumption
<1>a. \A c \in Tasks : task[c].at \in {"intent", "lock", "write", "register", "mark"} => Busy(c)
  BY DEF Busy
<1>1. ASSUME NEW c \in Tasks, StartsSome(c)
      PROVE  PhasesFollow' /\ LocksFollow' /\ NoLeakedLock'
  <2>1. /\ Others(c) /\ ~Busy(c) /\ task'[c].at = "intent" /\ ops' = ops + 1
        /\ task'[c].op = ops + 1 /\ phase' = phase /\ held' = held /\ ops < MaxOps
    <3>1. PICK kind, id, input, bad : Starts(c, kind, id, input, bad)
      BY <1>1 DEF StartsSome
    <3>2. QED
      BY <3>1, StartMoves DEF Starts
  <2>2. ops \in Nat /\ ops + 1 \in Ops
    BY <2>1, StoreAssumption DEF Types, StoreAssumption, Ops
  <2>3. PhasesFollow'
    <3>1. \A n \in Ops : n > ops' => phase[n] = "new"
      BY <2>1, <2>2 DEF PhasesFollow, Ops
    <3>2. phase[ops + 1] = "new"
      BY <2>2 DEF PhasesFollow
    <3>3. QED
      BY <2>1, <3>1, <3>2 DEF PhasesFollow, Others
  <2>4. LocksFollow'
    BY <2>1 DEF LocksFollow, Others
  <2>5. NoLeakedLock'
    BY <2>1 DEF NoLeakedLock, Others, Busy
  <2>6. QED
    BY <2>3, <2>4, <2>5
<1>2. ASSUME NEW c \in Tasks, Intent(c)
      PROVE  PhasesFollow' /\ LocksFollow' /\ NoLeakedLock'
  <2>1. Moves(c, "intent", "lock") /\ task[c].op \in Ops /\ ops' = ops
    BY <1>0, <1>2, IntentMoves DEF Moves, Busy, Intent
  <2>2. /\ held' = held
        /\ \A n \in Ops : phase'[n] = IF n = task[c].op THEN "running" ELSE phase[n]
    BY <1>2, <2>1 DEF Intent, Locks!Begin, Types
  <2>3. task[c].op <= ops
    BY <2>1 DEF OpsApart, Moves, Busy
  <2>4. \A d \in Tasks : d # c /\ Busy(d) => task[d].op # task[c].op
    BY <2>1 DEF OpsApart, Moves, Busy
  <2>5. PhasesFollow'
    <3>1. \A n \in Ops : n > ops' => phase'[n] = "new"
      BY <2>1, <2>2, <2>3, StoreAssumption DEF PhasesFollow, Types, Ops, StoreAssumption
    <3>2. \A d \in Tasks : d # c => task'[d] = task[d]
      BY <2>1 DEF Moves, Others
    <3>3. \A d \in Tasks : d # c /\ Busy(d) => phase'[task[d].op] = phase[task[d].op]
      BY <1>0, <2>2, <2>4
    <3>4. \A d \in Tasks : d # c => /\ task'[d].at = "intent" => phase'[task'[d].op] = "new"
                                    /\ task'[d].at \in {"lock", "write"} =>
                                         phase'[task'[d].op] = "running"
      BY <1>a, <3>2, <3>3 DEF PhasesFollow
    <3>5. phase'[task'[c].op] = "running" /\ task'[c].at = "lock"
      BY <2>1, <2>2 DEF Moves, SameOp
    <3>6. QED
      BY <3>1, <3>4, <3>5 DEF PhasesFollow
  <2>6. LocksFollow'
    BY <2>1, <2>2, ZenonT(30) DEF LocksFollow, Moves, Others
  <2>7. NoLeakedLock'
    BY <2>1, <2>2 DEF NoLeakedLock, Moves, Others, SameOp
  <2>8. QED
    BY <2>5, <2>6, <2>7
<1>3. ASSUME NEW c \in Tasks, LockOne(c)
      PROVE  PhasesFollow' /\ LocksFollow' /\ NoLeakedLock'
  <2> DEFINE n == task[c].op
             k == <<task[c].id, Head(task[c].todo)>>
  <2>1. /\ Others(c) /\ SameOp(c) /\ task[c].at = "lock" /\ ops' = ops
        /\ task'[c].at = IF Tail(task[c].todo) = <<>> THEN "write" ELSE "lock"
    BY <1>3, LockMoves DEF Moves, LockOne
  <2>2. n \in Ops /\ Ends(task[c].todo)
    BY <1>0, <2>1 DEF Busy, TodoFollows
  <2>3. /\ Head(task[c].todo) \in Mods
        /\ Tail(task[c].todo) = <<>> <=> Head(task[c].todo) = "temporal"
    BY <2>2, EndsTail
  <2>4. k \in Keys /\ k[1] = task[c].id /\ task[c].id \in Ids
    BY <1>0, <2>3, LockKeys
  <2>5. Locks!Grant(n, k, "exclusive")
    BY <1>3 DEF LockOne
  <2> HIDE DEF k
  <2>6. /\ phase[n] = "running" /\ phase' = phase
        /\ \A m \in Ops : m # n => held[k][m] = {}
        /\ \A j \in Keys, m \in Ops :
             held'[j][m] # {} <=> held[j][m] # {} \/ (j = k /\ m = n)
    BY <2>2, <2>4, <2>5, GrantHolds
  <2>7. PhasesFollow'
    BY <2>1, <2>6 DEF PhasesFollow, Others, SameOp
  <2>8. LocksFollow'
    <3>1. \A j \in Keys, l, m \in Ops : held'[j][l] # {} /\ held'[j][m] # {} => l = m
      BY <2>6 DEF LocksFollow
    <3>2. ASSUME NEW d \in Tasks, task'[d].at = "write"
          PROVE  held'[<<task'[d].id, "temporal">>][task'[d].op] # {}
      <4>1. CASE d = c
        <5>1. k = <<task'[d].id, "temporal">> /\ n = task'[d].op
          BY <2>1, <2>3, <3>2, <4>1 DEF SameOp, k
        <5>2. QED
          BY <2>2, <2>4, <2>6, <5>1
      <4>2. CASE d # c
        <5>1. task'[d] = task[d]
          BY <2>1, <4>2 DEF Others
        <5>2. task[d].op \in Ops /\ <<task[d].id, "temporal">> \in Keys
          BY <1>0, <1>a, <3>2, <5>1, LockKeys DEF Mods
        <5>3. held[<<task[d].id, "temporal">>][task[d].op] # {}
          BY <3>2, <5>1 DEF LocksFollow
        <5>4. QED
          BY <2>6, <5>1, <5>2, <5>3
      <4>3. QED
        BY <4>1, <4>2
    <3>3. QED
      BY <3>1, <3>2 DEF LocksFollow
  <2>9. NoLeakedLock'
    <3> SUFFICES ASSUME NEW j \in Keys, NEW m \in Ops, held'[j][m] # {}
                 PROVE  \E d \in Tasks : /\ task'[d].op = m /\ task'[d].id = j[1]
                                         /\ task'[d].at \in {"lock", "write"}
      BY DEF NoLeakedLock
    <3>1. CASE j = k /\ m = n
      <4>1. task'[c].op = n /\ task'[c].id = k[1] /\ task'[c].at \in {"lock", "write"}
        BY <2>1, <2>4 DEF SameOp
      <4>2. QED
        BY <3>1, <4>1
    <3>2. CASE held[j][m] # {}
      <4>1. PICK d \in Tasks : task[d].op = m /\ task[d].at \in {"lock", "write"} /\ task[d].id = j[1]
        BY <3>2 DEF NoLeakedLock
      <4>2. QED
        BY <2>1, <4>1 DEF Others, SameOp
    <3>3. QED
      BY <2>6, <3>1, <3>2
  <2>10. QED
    BY <2>7, <2>8, <2>9
<1>4. ASSUME NEW c \in Tasks, Locks!Finish(task[c].op), Others(c), Busy(c), ops' = ops,
             task'[c].at \in {"idle", "register"}
      PROVE  PhasesFollow' /\ LocksFollow' /\ NoLeakedLock'
  <2> DEFINE n == task[c].op
  <2>1. /\ n \in Ops /\ n \in 1 .. ops
        /\ \A d \in Tasks : d # c /\ Busy(d) => task[d].op # n
    BY <1>0, <1>4 DEF OpsApart
  <2>2. /\ \A m \in Ops : phase'[m] = IF m = n THEN "finished" ELSE phase[m]
        /\ \A j \in Keys, m \in Ops : held'[j][m] # {} <=> held[j][m] # {} /\ m # n
    BY <1>4, <2>1, FinishHolds
  <2> HIDE DEF n
  <2>3. PhasesFollow'
    <3>1. \A m \in Ops : m > ops' => m # n /\ phase'[m] = "new"
      BY <1>4, <2>1, <2>2, StoreAssumption DEF PhasesFollow, Types, Ops, StoreAssumption
    <3>2. \A d \in Tasks : d # c /\ Busy(d) => /\ task'[d] = task[d]
                                               /\ phase'[task[d].op] = phase[task[d].op]
      BY <1>0, <1>4, <2>1, <2>2 DEF Others
    <3>3. \A d \in Tasks : d # c /\ ~Busy(d) => task'[d].at = "idle"
      BY <1>4 DEF Others, Busy
    <3>4. \A d \in Tasks : /\ task'[d].at = "intent" => phase'[task'[d].op] = "new"
                           /\ task'[d].at \in {"lock", "write"} =>
                                phase'[task'[d].op] = "running"
      BY <1>4, <3>2, <3>3 DEF PhasesFollow
    <3>5. QED
      BY <3>1, <3>4 DEF PhasesFollow
  <2>4. LocksFollow'
    <3>1. ASSUME NEW d \in Tasks, task'[d].at = "write"
          PROVE  held'[<<task'[d].id, "temporal">>][task'[d].op] # {}
      <4>1. d # c /\ task'[d] = task[d] /\ Busy(d)
        BY <1>4, <3>1 DEF Others, Busy
      <4>2. task[d].op \in Ops /\ <<task[d].id, "temporal">> \in Keys /\ task[d].op # n
        BY <1>0, <2>1, <4>1, LockKeys DEF Mods
      <4>3. QED
        BY <2>2, <3>1, <4>1, <4>2 DEF LocksFollow
    <3>2. QED
      BY <2>2, <3>1 DEF LocksFollow
  <2>5. NoLeakedLock'
    <3> SUFFICES ASSUME NEW j \in Keys, NEW m \in Ops, held'[j][m] # {}
                 PROVE  \E d \in Tasks : /\ task'[d].op = m /\ task'[d].id = j[1]
                                         /\ task'[d].at \in {"lock", "write"}
      BY DEF NoLeakedLock
    <3>1. held[j][m] # {} /\ m # n
      BY <2>2
    <3>2. PICK d \in Tasks : task[d].op = m /\ task[d].at \in {"lock", "write"} /\ task[d].id = j[1]
      BY <3>1 DEF NoLeakedLock
    <3>3. d # c
      BY <3>1, <3>2 DEF n
    <3>4. QED
      BY <1>4, <3>2, <3>3 DEF Others
  <2>6. QED
    BY <2>3, <2>4, <2>5
<1>5. ASSUME NEW c \in Tasks, Others(c), phase' = phase, held' = held, ops' = ops,
             \/ SameOp(c) /\ task'[c].at = task[c].at
             \/ task[c].at \notin {"lock", "write"} /\ task'[c].at \in {"idle", "register", "mark"}
      PROVE  PhasesFollow' /\ LocksFollow' /\ NoLeakedLock'
  <2>1. PhasesFollow'
    BY <1>5 DEF PhasesFollow, Others, SameOp
  <2>2. LocksFollow'
    <3>1. \A d \in Tasks : task'[d].at = "write" =>
            task[d].at = "write" /\ task'[d].id = task[d].id /\ task'[d].op = task[d].op
      BY <1>5 DEF Others, SameOp
    <3>2. QED
      BY <1>5, <3>1 DEF LocksFollow
  <2>3. NoLeakedLock'
    BY <1>5 DEF NoLeakedLock, Others, SameOp
  <2>4. QED
    BY <2>1, <2>2, <2>3
<1>6. ASSUME NEW c \in Tasks, FailsAt(c)
      PROVE  PhasesFollow' /\ LocksFollow' /\ NoLeakedLock'
  <2>1. /\ Others(c) /\ Busy(c) /\ task'[c].at = "idle" /\ ops' = ops
        /\ \/ task[c].at = "intent" /\ UNCHANGED <<phase, held, data>>
           \/ Locks!Finish(task[c].op)
    BY <1>6, FailMoves DEF Gone
  <2>2. QED
    BY <1>4, <1>5, <2>1
<1>7. ASSUME NEW c \in Tasks, Commit(c)
      PROVE  PhasesFollow' /\ LocksFollow' /\ NoLeakedLock'
  <2>1. Locks!Finish(task[c].op) /\ ops' = ops /\ Moves(c, "write", "register")
    BY <1>7, CommitMoves DEF Commit
  <2>2. QED
    BY <1>4, <2>1 DEF Moves, Busy
<1>8. ASSUME NEW c \in Tasks, CreateWrites(c) \/ UpdateWrites(c)
      PROVE  PhasesFollow' /\ LocksFollow' /\ NoLeakedLock'
  BY <1>5, <1>8, WriteMoves DEF Writes, Moves
<1>9. ASSUME NEW c \in Tasks, DeleteErases(c)
      PROVE  PhasesFollow' /\ LocksFollow' /\ NoLeakedLock'
  BY <1>5, <1>9, EraseMoves DEF DeleteErases, Moves
<1>10. ASSUME NEW c \in Tasks, Register(c)
       PROVE  PhasesFollow' /\ LocksFollow' /\ NoLeakedLock'
  BY <1>5, <1>10, CommitMoves DEF Register, Moves
<1>11. ASSUME NEW c \in Tasks, Mark(c)
       PROVE  PhasesFollow' /\ LocksFollow' /\ NoLeakedLock'
  <2>1. Gone(c, TRUE)
    BY <1>11, ReturnMoves DEF Mark, Busy
  <2>2. QED
    BY <1>5, <1>11, <2>1 DEF Mark, Gone
<1>12. ASSUME task' = task, phase' = phase, held' = held, ops' = ops \/ ops' = ops + 1
       PROVE  PhasesFollow' /\ LocksFollow' /\ NoLeakedLock'
  <2>1. \A m \in Ops : m > ops' => m > ops
    BY <1>12, StoreAssumption DEF Types, Ops, StoreAssumption
  <2>2. PhasesFollow'
    BY <1>12, <2>1 DEF PhasesFollow
  <2>3. LocksFollow' /\ NoLeakedLock'
    BY <1>12 DEF LocksFollow, NoLeakedLock
  <2>4. QED
    BY <2>2, <2>3
<1>13. QED
  <2>1. ASSUME NEW r \in Readers, ReadStart(r) \/ Load(r)
        PROVE  UNCHANGED <<task, phase, held, ops>>
    BY <2>1 DEF ReadStart, Load, LoadStatus, LoadModality, ReadDone
  <2>2. ASSUME NEW c \in Tasks, NEW id \in Ids, NotFound(c, id)
        PROVE  UNCHANGED <<task, phase, held>> /\ ops' = ops + 1
    BY <2>2 DEF NotFound
  <2>3. ASSUME UNCHANGED vars PROVE UNCHANGED <<task, phase, held, ops>>
    BY <2>3 DEF vars
  <2>4. QED
    BY <1>1, <1>2, <1>3, <1>6, <1>7, <1>8, <1>9, <1>10, <1>11, <1>12, <2>1, <2>2, <2>3,
       StepCases DEF FailsAt

(* The types and the invariant of the locks hold in every reachable state. *)
THEOREM LocksSound == Spec => [](Types /\ LockInv)
<1>1. Init => Types /\ LockInv
  <2> SUFFICES ASSUME Init PROVE Types /\ LockInv
    OBVIOUS
  <2>1. Idle \in TaskRec /\ NoRead \in ReadRec
    BY StoreAssumption DEF StoreAssumption, Idle, NoRead, TaskRec, ReadRec, Kinds
  <2>2. Idle.at = "idle" /\ Idle.todo = <<>>
    BY DEF Idle
  <2>3. <<>> \in Seq(Nat)
    OBVIOUS
  <2>4. Types
    BY <2>1, <2>3, StoreAssumption
    DEF Init, Types, Locks!LockInit, Absent, StoreAssumption, Ops
  <2>5. \A c \in Tasks : task[c].at = "idle" /\ task[c].todo = <<>>
    BY <2>2 DEF Init
  <2>6. /\ \A k \in Keys, n \in Ops : held[k][n] = {}
        /\ \A n \in Ops : phase[n] = "new"
    BY DEF Init, Locks!LockInit
  <2>7. log = {}
    BY DEF Init
  <2>8. OpsApart
    BY <2>5, <2>7 DEF OpsApart, Busy
  <2>9. PhasesFollow /\ TodoFollows
    BY <2>5, <2>6 DEF PhasesFollow, TodoFollows
  <2>10. LocksFollow
    <3>1. \A c \in Tasks : task[c].at # "write"
      BY <2>5
    <3>2. QED
      BY <2>6, <3>1 DEF LocksFollow
  <2>11. NoLeakedLock
    BY <2>6 DEF NoLeakedLock
  <2>12. QED
    BY <2>4, <2>8, <2>9, <2>10, <2>11 DEF LockInv
<1>2. Types /\ LockInv /\ [Next]_vars => Types' /\ LockInv'
  BY TypesStep, OpsApartStep, TodoStep, LocksStep DEF LockInv
<1>3. QED
  BY <1>1, <1>2, PTL DEF Spec

(* No two operations write to one hexad at the same time and every path    *)
(* through create, update and delete gives back the locks it took: each of *)
(* them locks the version history last, whatever else it locks.            *)
THEOREM WritersExcluded == Spec => []WritersExclude
<1>1. Types /\ LockInv => WritersExclude
  <2> SUFFICES ASSUME Types, LockInv, NEW c \in Tasks, NEW d \in Tasks,
                      task[c].at = "write", task[d].at = "write", task[c].id = task[d].id
               PROVE  c = d
    BY DEF WritersExclude, OneWriterPerHexad, LockInv
  <2>1. Busy(c) /\ Busy(d)
    BY DEF Busy
  <2>2. task[c].op \in Ops /\ task[d].op \in Ops
    BY <2>1, StoreAssumption DEF LockInv, OpsApart, Types, Ops, StoreAssumption
  <2>3. <<task[c].id, "temporal">> \in Keys
    BY LockKeys DEF Types, TaskRec, Mods
  <2>4. task[c].op = task[d].op
    BY <2>2, <2>3 DEF LockInv, LocksFollow
  <2>5. QED
    BY <2>1, <2>4 DEF LockInv, OpsApart
<1>2. QED
  BY <1>1, LocksSound, PTL
-----------------------------------------------------------------------------
(* Registry, stores and log.  A hexad whose create went through: nothing   *)
(* takes that back.                                                        *)
Made(id) ==
    \/ \E e \in log : e.kind = "create" /\ e.ok /\ e.id = id
    \/ \E c \in Tasks : task[c].kind = "create" /\ task[c].at = "mark" /\ task[c].id = id

Creating(c, id) == Busy(c) /\ task[c].kind = "create" /\ task[c].id = id

(* The modality stores that have data of a hexad.                          *)
Stored(id) == {m \in Modalities : data[m][id] # <<>>}

(* Identifiers are created once, and whoever knows of a hexad has learnt   *)
(* of it after its create went through.                                    *)
CreatesApart ==
    /\ \A id \in Ids, c, d \in Tasks : Creating(c, id) /\ Creating(d, id) => c = d
    /\ \A e \in log, c \in Tasks : e.kind = "create" => ~Creating(c, e.id)
    /\ \A e, f \in log : e.kind = "create" /\ f.kind = "create" /\ e.id = f.id => e = f
    /\ \A id \in Ids : Live(id) => Made(id)
    /\ \A c \in Tasks : Busy(c) /\ task[c].kind # "create" => Made(task[c].id)
    /\ \A r \in Readers : reads[r].flags # {} => Made(reads[r].id)

(* What is in the stores that can delete belongs to a create that went     *)
(* through or to one that will roll it back.                               *)
CleanedUp ==
    \A id \in Ids, m \in Erased : m \in Stored(id) =>
        \/ Made(id)
        \/ m \in Failing
        \/ \E c \in Tasks : /\ Creating(c, id) /\ task[c].at \in {"write", "register"}
                            /\ m \in task[c].flags

(* Every copy of a status is backed by the stores, until a delete erases.  *)
Backed ==
    \A id \in Ids : ~Deleted(id) =>
        /\ registry[id].flags \subseteq Stored(id)
        /\ \A c \in Tasks : Busy(c) /\ task[c].id = id => task[c].flags \subseteq Stored(id)
        /\ \A r \in Readers : reads[r].id = id => reads[r].flags \subseteq Stored(id)

(* A reader has loaded, or has still to load, what its status announces.   *)
Loading ==
    \A r \in Readers : reads[r].at = "load" /\ ~Deleted(reads[r].id) =>
        reads[r].flags \cap Loaded \subseteq reads[r].got \cup Elems(reads[r].todo)

(* Past its intent an operation is in the log.                             *)
Logged ==
    /\ \A c \in Tasks : task[c].at \in {"lock", "write", "register", "mark"} =>
         [op |-> task[c].op, id |-> task[c].id] \in wal.intents
    /\ \A e \in log : e.ok => [op |-> e.op, id |-> e.id] \in wal.intents

(* The operations on a hexad that returned Ok, one marker each at most.    *)
Done(id) == {n \in Ops : \E e \in log : e.op = n /\ e.ok /\ e.id = id}

Marked == \A id \in Ids : wal.committed[id] <= Cardinality(Done(id))

StoreInv == CreatesApart /\ CleanedUp /\ Backed /\ Loading /\ Logged /\ IntentFirst /\ Marked

(* Versions.  An operation that has taken its snapshot owns it.            *)
Owns(id, version, n) ==
    /\ version \in DOMAIN data["temporal"][id]
    /\ data["temporal"][id][version] = n

Snapshots ==
    /\ \A c \in Tasks :
         (/\ task[c].at \in {"write", "register", "mark"}
          /\ task[c].kind # "delete" /\ task[c].todo = <<>>) =>
            Owns(task[c].id, task[c].version, task[c].op)
    /\ AckedVersion

(* Whose writes can be told apart: an operation writes what it was given.  *)
Traced ==
    /\ \A c \in Tasks : ~Busy(c) => task[c] = Idle
    /\ \A c \in Tasks : task[c].at = "write" /\ task[c].kind # "delete" =>
         Elems(task[c].todo) \subseteq task[c].input \cup {"temporal"}
    /\ \A id \in Ids : \A i \in DOMAIN data["temporal"][id] :
         data["temporal"][id][i] \in 1 .. ops

(* Nobody has failed on the hexad and no delete has begun to erase it.     *)
Quiet(id) == (\A e \in log : e.id = id => e.ok) /\ ~Deleted(id)

(* The versions that carry a modality, and a store that holds the newest.  *)
Carriers(id, m) ==
    {i \in DOMAIN data["temporal"][id] : WroteIt(data["temporal"][id][i], id, m)}

Newest(id, m) ==
    \/ Carriers(id, m) = {}
    \/ \E i \in Carriers(id, m) :
         /\ \A j \in Carriers(id, m) : j <= i
         /\ data[m][id] = <<data["temporal"][id][i]>>

(* A store holds the newest version or, until its snapshot is taken, what  *)
(* the one writer of the hexad has put there.                              *)
WritesTo(c, id) == task[c].id = id /\ task[c].at = "write"

HasPut(c, id, m) ==
    \/ task[c].todo = <<>> /\ Newest(id, m)
    \/ /\ task[c].todo # <<>>
       /\ m \in task[c].input => m \in Elems(task[c].todo) \/ data[m][id] = <<task[c].op>>
       /\ Newest(id, m) \/ (m \in task[c].input /\ data[m][id] = <<task[c].op>>)

StoreOrder ==
    \A id \in Ids, m \in Used \ Growing : Quiet(id) =>
        /\ (\A c \in Tasks : ~WritesTo(c, id)) => Newest(id, m)
        /\ \A c \in Tasks : WritesTo(c, id) => HasPut(c, id, m)

VersionInv == Snapshots /\ Traced /\ StoreOrder
-----------------------------------------------------------------------------
(* A create that went through stays so.                                    *)
LEMMA MadeStable ==
    ASSUME Types, TodoFollows, [Next]_vars, NEW id, Made(id)
    PROVE  Made(id)'
<1>1. ASSUME NEW e \in log, e.kind = "create", e.ok, e.id = id PROVE Made(id)'
  <2>1. e \in log'
    BY Shapes, StartMoves DEF StartsSome, Goes, Gone
  <2>2. QED
    BY <1>1, <2>1 DEF Made
<1>2. ASSUME NEW c \in Tasks, task[c].kind = "create", task[c].at = "mark", task[c].id = id
      PROVE  Made(id)'
  <2>1. ASSUME NEW d \in Tasks, StartsSome(d) \/ Goes(d) PROVE task'[c] = task[c]
    <3>1. Others(d) /\ d # c
      BY <1>2, <2>1, StartMoves DEF StartsSome, Goes, Busy
    <3>2. QED
      BY <3>1 DEF Others
  <2>2. ASSUME NEW d \in Tasks, NEW ok \in BOOLEAN, Gone(d, ok), ok <=> task[d].at = "mark"
        PROVE  Made(id)'
    <3>1. CASE d # c
      <4>1. task'[c] = task[c]
        BY <2>2, <3>1 DEF Gone, Others
      <4>2. QED
        BY <1>2, <4>1 DEF Made
    <3>2. CASE d = c
      <4> DEFINE e == [op |-> task[c].op, kind |-> task[c].kind, id |-> task[c].id,
                       input |-> task[c].input, version |-> task[c].version, ok |-> ok]
      <4>1. e \in log' /\ ok
        BY <1>2, <2>2, <3>2 DEF Gone
      <4>2. e.kind = "create" /\ e.ok /\ e.id = id
        BY <1>2, <4>1
      <4> HIDE DEF e
      <4>3. QED
        BY <4>1, <4>2 DEF Made
    <3>3. QED
      BY <3>1, <3>2
  <2>3. QED
    BY <1>2, <2>1, <2>2, Shapes DEF Made
<1>3. QED
  BY <1>1, <1>2 DEF Made

(* Nobody else knows of a hexad that is being created.                     *)
LEMMA NotMade ==
    ASSUME CreatesApart, NEW c \in Tasks, NEW id \in Ids, Creating(c, id), task[c].at # "mark"
    PROVE  /\ ~Made(id)
           /\ \A d \in Tasks : Busy(d) /\ task[d].id = id => d = c
           /\ ~Live(id) /\ registry[id].flags = {}
           /\ \A r \in Readers : reads[r].id = id => reads[r].flags = {}
<1>1. ~Made(id)
  BY DEF CreatesApart, Made, Creating, Busy
<1>2. \A d \in Tasks : Busy(d) /\ task[d].id = id => d = c
  BY <1>1 DEF CreatesApart, Creating
<1>3. ~Live(id) /\ registry[id].flags = {}
  BY <1>1 DEF CreatesApart, Live, Absent
<1>4. \A r \in Readers : reads[r].id = id => reads[r].flags = {}
  BY <1>1 DEF CreatesApart
<1>5. QED
  BY <1>1, <1>2, <1>3, <1>4

(* Only Register changes the registry, only readers change what they read. *)
LEMMA RegistrySteps ==
    ASSUME [Next]_vars
    PROVE  /\ registry' = registry \/ \E c \in Tasks : Register(c)
           /\ reads' = reads \/ \E r \in Readers : ReadStart(r) \/ Load(r)
<1>1. ASSUME NEW c \in Tasks, StartsSome(c) PROVE UNCHANGED <<registry, reads>>
  BY <1>1 DEF StartsSome, Starts
<1>2. ASSUME NEW c \in Tasks, Intent(c) \/ IntentFails(c) \/ LockOne(c) \/ LockRefused(c)
      PROVE  UNCHANGED <<registry, reads>>
  BY <1>2 DEF Intent, IntentFails, LockOne, LockRefused
<1>3. ASSUME NEW c \in Tasks, CreateWrites(c) \/ CreateFails(c) \/ UpdateWrites(c) \/ UpdateFails(c)
      PROVE  UNCHANGED <<registry, reads>>
  BY <1>3 DEF CreateWrites, CreateFails, UpdateWrites, UpdateFails, Write
<1>4. ASSUME NEW c \in Tasks, DeleteErases(c) \/ Commit(c) \/ Mark(c)
      PROVE  UNCHANGED <<registry, reads>>
  BY <1>4 DEF DeleteErases, Commit, Mark
<1>5. ASSUME NEW c \in Tasks, Register(c) PROVE reads' = reads
  BY <1>5 DEF Register
<1>6. ASSUME NEW c \in Tasks, NEW id \in Ids, NotFound(c, id)
      PROVE  UNCHANGED <<registry, reads>>
  BY <1>6 DEF NotFound
<1>7. ASSUME NEW r \in Readers, ReadStart(r) \/ Load(r) PROVE registry' = registry
  BY <1>7 DEF ReadStart, Load, LoadStatus, LoadModality, ReadDone
<1>8. CASE UNCHANGED vars
  BY <1>8 DEF vars
<1>9. QED
  BY <1>1, <1>2, <1>3, <1>4, <1>5, <1>6, <1>7, <1>8, StepCases

(* What a reader's step leaves in its own copy of a status.                *)
LEMMA ReadMoves ==
    ASSUME Types, NEW r \in Readers, ReadStart(r) \/ Load(r)
    PROVE  /\ \A q \in Readers : q # r => reads'[q] = reads[q]
           /\ \/ reads'[r].flags = {} /\ reads'[r].todo = <<>>
              \/ \E id \in Ids : /\ reads'[r].id = id /\ reads'[r].flags = registry[id].flags
                                 /\ reads'[r].got = {}
                                 /\ reads'[r].todo = InOrder(registry[id].flags \cap Loaded)
              \/ /\ reads'[r].id = reads[r].id /\ reads'[r].flags = reads[r].flags
                 /\ reads'[r].at = reads[r].at
                 /\ LoadModality(r)
           /\ UNCHANGED <<registry, data, phase, held, wal, ops, task, log>>
<1>1. reads \in [Readers -> ReadRec]
  BY DEF Types
<1>2. ASSUME NEW x, x.flags = {}, x.todo = <<>>, reads' = [reads EXCEPT ![r] = x]
      PROVE  /\ \A q \in Readers : q # r => reads'[q] = reads[q]
             /\ reads'[r].flags = {} /\ reads'[r].todo = <<>>
  BY <1>1, <1>2
<1>3. CASE ReadStart(r)
  <2>1. PICK found : reads' = [reads EXCEPT ![r] = [NoRead EXCEPT !.at = "load", !.found = found]]
    BY <1>3 DEF ReadStart
  <2> DEFINE x == [NoRead EXCEPT !.at = "load", !.found = found]
  <2>2. x.flags = {} /\ x.todo = <<>>
    BY DEF NoRead
  <2> HIDE DEF x
  <2>3. reads' = [reads EXCEPT ![r] = x]
    BY <2>1 DEF x
  <2>4. QED
    BY <1>2, <1>3, <2>2, <2>3 DEF ReadStart
<1>4. CASE ReadDone(r)
  <2>1. NoRead.flags = {} /\ NoRead.todo = <<>>
    BY DEF NoRead
  <2>2. QED
    BY <1>2, <1>4, <2>1 DEF ReadDone
<1>5. ASSUME NEW id \in Ids, LoadStatus(r, id)
      PROVE  /\ \A q \in Readers : q # r => reads'[q] = reads[q]
             /\ reads'[r].id = id /\ reads'[r].flags = registry[id].flags
             /\ reads'[r].got = {}
             /\ reads'[r].todo = InOrder(registry[id].flags \cap Loaded)
  <2> DEFINE flags == registry[id].flags
             todo == InOrder(flags \cap Loaded)
  <2>1. reads' = [reads EXCEPT ![r].found = @ \ {id}, ![r].id = id, ![r].got = {},
                               ![r].flags = flags, ![r].todo = todo]
    BY <1>5 DEF LoadStatus
  <2> HIDE DEF flags, todo
  <2>2. /\ \A q \in Readers : q # r => reads'[q] = reads[q]
        /\ reads'[r].id = id /\ reads'[r].flags = flags
        /\ reads'[r].got = {} /\ reads'[r].todo = todo
    BY <1>1, <2>1 DEF ReadRec
  <2>3. QED
    BY <2>2 DEF flags, todo
<1>6. ASSUME LoadModality(r)
      PROVE  /\ \A q \in Readers : q # r => reads'[q] = reads[q]
             /\ reads'[r].id = reads[r].id /\ reads'[r].flags = reads[r].flags
             /\ reads'[r].at = reads[r].at
  <2>1. PICK todo, got : reads' = [reads EXCEPT ![r].todo = todo, ![r].got = got]
    BY <1>6 DEF LoadModality
  <2>2. QED
    BY <1>1, <2>1 DEF ReadRec
<1>7. UNCHANGED <<registry, data, phase, held, wal, ops, task, log>>
  BY DEF ReadStart, Load, LoadStatus, LoadModality, ReadDone
<1>8. QED
  BY <1>3, <1>4, <1>5, <1>6, <1>7 DEF Load

(* Identifiers stay apart.                                                 *)
LEMMA CreatesApartStep ==
    ASSUME Types, TodoFollows, CreatesApart, [Next]_vars
    PROVE  CreatesApart'
<1>0. \A id : Made(id) => Made(id)'
  BY MadeStable
<1>1. /\ \A id \in Ids, c, d \in Tasks : Creating(c, id)' /\ Creating(d, id)' => c = d
      /\ \A e \in log', c \in Tasks : e.kind = "create" => ~Creating(c, e.id)'
      /\ \A e, f \in log' : e.kind = "create" /\ f.kind = "create" /\ e.id = f.id => e = f
      /\ \A c \in Tasks : Busy(c)' /\ task'[c].kind # "create" => Made(task[c].id)'
  <2>1. ASSUME NEW c \in Tasks, StartsSome(c) PROVE <1>1!:
    <3>1. PICK kind \in {"create", "update", "delete"}, id \in Ids, input \in SUBSET Used,
               bad \in Failing \cup {"none"} :
            /\ kind = "create" => id \notin UsedIds
            /\ kind # "create" => Live(id)
            /\ Starts(c, kind, id, input, bad)
      BY <2>1 DEF StartsSome
    <3>2. /\ Others(c) /\ ~Busy(c) /\ task'[c].kind = kind /\ task'[c].id = id /\ log' = log
      BY <3>1, StartMoves
    <3>3. \A i : \A d \in Tasks : Creating(d, i)' => Creating(d, i) \/ (d = c /\ i = id /\ kind = "create")
      BY <3>2 DEF Others, Creating, Busy
    <3>4. kind = "create" => /\ \A d \in Tasks : ~Creating(d, id)
                             /\ \A e \in log : e.id # id
      BY <3>1 DEF UsedIds, Creating, Busy
    <3>5. \A d \in Tasks : Busy(d)' /\ task'[d].kind # "create" => Made(task[d].id)'
      <4>1. ASSUME NEW d \in Tasks, d # c, Busy(d)', task'[d].kind # "create"
            PROVE  Made(task[d].id)'
        <5>1. task'[d] = task[d]
          BY <3>2, <4>1 DEF Others
        <5>2. Made(task[d].id)
          BY <4>1, <5>1 DEF CreatesApart, Busy
        <5>3. QED
          BY <1>0, <5>1, <5>2
      <4>2. kind # "create" => Made(id)'
        BY <1>0, <3>1 DEF CreatesApart
      <4>3. QED
        BY <3>2, <4>1, <4>2
    <3>6. QED
      BY <3>2, <3>3, <3>4, <3>5 DEF CreatesApart
  <2>2. ASSUME NEW c \in Tasks, Goes(c) PROVE <1>1!:
    <3>1. \A d \in Tasks : /\ Busy(d)' <=> Busy(d)
                           /\ task'[d].id = task[d].id /\ task'[d].kind = task[d].kind
      BY <2>2 DEF Goes, Others, SameOp, Busy
    <3>2. \A i : \A d \in Tasks : Creating(d, i)' <=> Creating(d, i)
      BY <3>1 DEF Creating
    <3>3. \A d \in Tasks : Busy(d)' /\ task'[d].kind # "create" => Made(task[d].id)'
      BY <1>0, <3>1 DEF CreatesApart
    <3>4. log' = log
      BY <2>2 DEF Goes
    <3>5. QED
      BY <3>2, <3>3, <3>4 DEF CreatesApart
  <2>3. ASSUME NEW c \in Tasks, NEW ok \in BOOLEAN, Gone(c, ok) PROVE <1>1!:
    <3>1. \A d \in Tasks : Busy(d)' => Busy(d) /\ d # c /\ task'[d] = task[d]
      BY <2>3 DEF Gone, Others, Busy
    <3>2. \A i : \A d \in Tasks : Creating(d, i)' => Creating(d, i) /\ d # c
      BY <3>1 DEF Creating
    <3>3. PICK e : e.kind = task[c].kind /\ e.id = task[c].id /\ log' = log \cup {e}
      BY <2>3 DEF Gone
    <3>4. e.kind = "create" => Creating(c, e.id)
      BY <2>3, <3>3 DEF Creating, Gone
    <3>5. task[c].id \in Ids
      BY DEF Types, TaskRec
    <3>6. \A d \in Tasks : Busy(d)' /\ task'[d].kind # "create" => Made(task[d].id)'
      BY <1>0, <3>1 DEF CreatesApart
    <3>7. QED
      BY <3>2, <3>3, <3>4, <3>5, <3>6 DEF CreatesApart
  <2>4. ASSUME task' = task, log' = log PROVE <1>1!:
    BY <1>0, <2>4 DEF CreatesApart, Creating, Busy
  <2>5. QED
    BY <2>1, <2>2, <2>3, <2>4, Shapes
<1>2. \A id \in Ids : Live(id)' => Made(id)'
  <2>1. CASE registry' = registry
    BY <1>0, <2>1 DEF CreatesApart, Live
  <2>2. ASSUME NEW c \in Tasks, Register(c), NEW id \in Ids, Live(id)' PROVE Made(id)'
    <3>1. CASE id # task[c].id
      <4>1. registry'[id] = registry[id]
        BY <2>2, <3>1 DEF Register, Types
      <4>2. QED
        BY <1>0, <2>2, <4>1 DEF CreatesApart, Live
    <3>2. CASE id = task[c].id /\ task[c].kind # "create"
      BY <1>0, <2>2, <3>2 DEF CreatesApart, Register, Busy
    <3>3. CASE id = task[c].id /\ task[c].kind = "create"
      BY <2>2, <3>3, CommitMoves DEF Made, Moves, SameOp
    <3>4. QED
      BY <3>1, <3>2, <3>3
  <2>3. QED
    BY <2>1, <2>2, RegistrySteps
<1>3. \A r \in Readers : reads'[r].flags # {} => Made(reads[r].id)'
  <2>1. CASE reads' = reads
    BY <1>0, <2>1 DEF CreatesApart
  <2>2. ASSUME NEW r \in Readers, ReadStart(r) \/ Load(r), NEW q \in Readers,
               reads'[q].flags # {}
        PROVE  Made(reads[q].id)'
    <3>1. \A id \in Ids : registry[id].flags # {} => Made(id)
      BY DEF CreatesApart, Live, Absent
    <3>2. \/ reads'[q].id \in Ids /\ registry[reads'[q].id].flags # {}
          \/ reads'[q].id = reads[q].id /\ reads'[q].flags = reads[q].flags
      BY <2>2, ReadMoves
    <3>3. QED
      BY <1>0, <2>2, <3>1, <3>2 DEF CreatesApart
  <2>3. QED
    BY <2>1, <2>2, RegistrySteps
<1>4. QED
  BY <1>1, <1>2, <1>3 DEF CreatesApart

(* What a write, a failed write and a delete do to the stores.             *)
LEMMA WriteData ==
    ASSUME Types, NEW c \in Tasks, NEW m, Writes(c, m)
    PROVE  \A n \in Modalities, id \in Ids :
             data'[n][id] = IF n = m /\ id = task[c].id
                            THEN Processed(m, data[m][id], task[c].op) ELSE data[n][id]
<1>1. data \in [Modalities -> [Ids -> Seq(Nat)]] /\ task[c].id \in Ids /\ m \in Modalities
  BY StoreAssumption DEF Types, TaskRec, Writes, StoreAssumption, Mods, Modalities
<1> DEFINE P == Processed(m, data[m][task[c].id], task[c].op)
<1>2. data' = [data EXCEPT ![m][task[c].id] = P]
  BY DEF Writes
<1> HIDE DEF P
<1>3. \A n \in Modalities, id \in Ids :
        data'[n][id] = IF n = m /\ id = task[c].id THEN P ELSE data[n][id]
  BY <1>1, <1>2
<1>4. QED
  BY <1>3 DEF P

(* A failure leaves what LeftBy allows, and create rolls back.             *)
LEMMA LeftData ==
    ASSUME Types, TodoFollows, NEW c \in Tasks, CreateFails(c) \/ UpdateFails(c)
    PROVE  /\ task[c].at = "write" /\ task[c].bad \in Failing \cap Mods
           /\ task[c].bad = Head(task[c].todo) /\ Ends(task[c].todo)
           /\ \A n \in Modalities, id \in Ids :
                \/ data'[n][id] = data[n][id]
                \/ /\ id = task[c].id /\ n = task[c].bad /\ n \in {"graph", "document"}
                   /\ data'[n][id] = Processed(n, data[n][id], task[c].op)
                \/ /\ CreateFails(c) /\ id = task[c].id /\ n \in task[c].flags \cap Erased
                   /\ data'[n][id] = <<>>
           /\ CreateFails(c) =>
                \A n \in (task[c].flags \cap Erased) \ Failing : data'[n][task[c].id] = <<>>
<1> DEFINE o == task[c]
<1>1. o \in TaskRec /\ data \in [Modalities -> [Ids -> Seq(Nat)]]
  BY DEF Types
<1>2. Writing(c, o.bad) /\ o.kind \in {"create", "update"}
  BY DEF CreateFails, UpdateFails
<1>3. Ends(o.todo) /\ o.bad = Head(o.todo) /\ o.at = "write"
  BY <1>2 DEF Writing, TodoFollows
<1>4. o.bad \in Mods
  BY <1>3, EndsTail
<1>5. o.bad \in Failing /\ o.bad \in Modalities /\ o.id \in Ids
  <2>1. "none" \notin Mods /\ Mods \subseteq Modalities
    BY StoreAssumption DEF StoreAssumption, Mods, Modalities
  <2>2. QED
    BY <1>1, <1>4, <2>1 DEF TaskRec
<1>6. PICK s \in LeftBy(o.bad, data[o.bad][o.id], o.op) :
        \/ CreateFails(c) /\ data' \in RollbackCreate([data EXCEPT ![o.bad][o.id] = s], o)
        \/ UpdateFails(c) /\ ~CreateFails(c) /\ data' = [data EXCEPT ![o.bad][o.id] = s]
  BY DEF CreateFails, UpdateFails
<1> DEFINE D == [data EXCEPT ![o.bad][o.id] = s]
<1>7. \/ s = data[o.bad][o.id]
      \/ /\ o.bad \in {"graph", "document"}
         /\ s = Processed(o.bad, data[o.bad][o.id], o.op)
  BY <1>6 DEF LeftBy
<1>8. \A n \in Modalities, id \in Ids :
        D[n][id] = IF n = o.bad /\ id = o.id THEN s ELSE data[n][id]
  BY <1>1, <1>5
<1>9. \A n \in Modalities : D[n] \in [Ids -> {D[n][id] : id \in Ids}]
  BY <1>1, <1>5
<1> HIDE DEF D
<1>10. ASSUME CreateFails(c)
       PROVE  \E kept \in SUBSET Failing : \A n \in Modalities, id \in Ids :
                data'[n][id] = IF n \in (o.flags \cap Erased) \ kept /\ id = o.id
                               THEN <<>> ELSE D[n][id]
  <2>1. PICK kept \in SUBSET Failing : data' = Erase(D, (o.flags \cap Erased) \ kept, o.id)
    BY <1>6, <1>10 DEF RollbackCreate, D
  <2>2. \A n \in Modalities, id \in Ids :
          data'[n][id] = IF n \in (o.flags \cap Erased) \ kept /\ id = o.id
                         THEN <<>> ELSE D[n][id]
    BY <1>9, <2>1 DEF Erase
  <2>3. QED
    BY <2>2
<1>11. ~CreateFails(c) => data' = D
  BY <1>6 DEF D
<1>12. Erased \subseteq Modalities
  BY DEF Erased, Modalities
<1>13. \A n \in Modalities, id \in Ids :
         \/ data'[n][id] = data[n][id]
         \/ /\ id = task[c].id /\ n = task[c].bad /\ n \in {"graph", "document"}
            /\ data'[n][id] = Processed(n, data[n][id], task[c].op)
         \/ /\ CreateFails(c) /\ id = task[c].id /\ n \in task[c].flags \cap Erased
            /\ data'[n][id] = <<>>
  BY <1>7, <1>8, <1>10, <1>11
<1>14. ASSUME CreateFails(c), NEW n \in (task[c].flags \cap Erased) \ Failing
       PROVE  data'[n][task[c].id] = <<>>
  BY <1>5, <1>10, <1>12, <1>14
<1>15. QED
  BY <1>3, <1>4, <1>5, <1>13, <1>14

(* delete empties one of three stores, or none.                            *)
LEMMA EraseData ==
    ASSUME Types, TodoFollows, NEW c \in Tasks, DeleteErases(c)
    PROVE  \A n \in Modalities, id \in Ids :
             \/ data'[n][id] = data[n][id]
             \/ n \in Erased /\ id = task[c].id /\ data'[n][id] = <<>>
<1>1. Head(task[c].todo) \in Erased
  BY EraseMoves
<1>2. data \in [Modalities -> [Ids -> Seq(Nat)]]
  BY DEF Types
<1>3. data' = data \/ data' = Erase(data, {Head(task[c].todo)}, task[c].id)
  BY DEF DeleteErases
<1>4. QED
  BY <1>1, <1>2, <1>3 DEF Erase

(* Nothing else touches them.                                              *)
LEMMA DataSteps ==
    ASSUME Types, TodoFollows, [Next]_vars
    PROVE  \/ data' = data
           \/ \E c \in Tasks, m \in Mods : Writes(c, m)
           \/ \E c \in Tasks : CreateFails(c) \/ UpdateFails(c) \/ DeleteErases(c)
<1>1. ASSUME NEW c \in Tasks, StartsSome(c) PROVE data' = data
  BY <1>1 DEF StartsSome, Starts
<1>2. ASSUME NEW c \in Tasks, Intent(c) \/ IntentFails(c) \/ LockOne(c) \/ LockRefused(c)
      PROVE  data' = data
  BY <1>2 DEF Intent, IntentFails, LockOne, LockRefused
<1>3. ASSUME NEW c \in Tasks, CreateWrites(c) \/ UpdateWrites(c)
      PROVE  \E m \in Mods : Writes(c, m)
  BY <1>3, WriteMoves DEF Writes
<1>4. ASSUME NEW c \in Tasks, Commit(c) \/ Register(c) \/ Mark(c) PROVE data' = data
  BY <1>4 DEF Commit, Register, Mark
<1>5. ASSUME NEW c \in Tasks, NEW id \in Ids, NotFound(c, id) PROVE data' = data
  BY <1>5 DEF NotFound
<1>6. ASSUME NEW r \in Readers, ReadStart(r) \/ Load(r) PROVE data' = data
  BY <1>6 DEF ReadStart, Load, LoadStatus, LoadModality, ReadDone
<1>7. CASE UNCHANGED vars
  BY <1>7 DEF vars
<1>8. QED
  BY <1>1, <1>2, <1>3, <1>4, <1>5, <1>6, <1>7, StepCases

(* The stores of a hexad keep what they have, unless a create of it fails  *)
(* or a delete empties them.                                               *)
LEMMA StoredGrows ==
    ASSUME Types, TodoFollows, [Next]_vars, NEW id \in Ids, ~Deleted(id),
           \A c \in Tasks : task[c].id = id => ~CreateFails(c)
    PROVE  Stored(id) \subseteq Stored(id)'
<1>1. data \in [Modalities -> [Ids -> Seq(Nat)]] /\ \A c \in Tasks : task[c].op \in Nat
  BY DEF Types, TaskRec
<1>2. \A n \in Modalities, k \in Nat : Processed(n, data[n][id], k) # <<>>
  <2>1. \A n \in Modalities, k \in Nat : data[n][id] \in Seq(Nat)
    BY <1>1
  <2>2. QED
    BY <2>1 DEF Processed
<1>3. ASSUME NEW c \in Tasks, NEW m \in Mods, Writes(c, m) PROVE Stored(id) \subseteq Stored(id)'
  BY <1>1, <1>2, <1>3, WriteData, SMTT(30) DEF Stored
<1>4. ASSUME NEW c \in Tasks, CreateFails(c) \/ UpdateFails(c)
      PROVE  Stored(id) \subseteq Stored(id)'
  <2>1. \A n \in Modalities : \/ data'[n][id] = data[n][id]
                              \/ data'[n][id] = Processed(n, data[n][id], task[c].op)
    BY <1>4, LeftData
  <2>2. QED
    BY <1>1, <1>2, <2>1 DEF Stored
<1>5. ASSUME NEW c \in Tasks, DeleteErases(c) PROVE Stored(id) \subseteq Stored(id)'
  <2>1. task[c].id # id
    BY <1>5, EraseMoves DEF Moves, Deleted, Erasing
  <2>2. QED
    BY <1>5, <2>1, EraseData DEF Stored
<1>6. CASE data' = data
  BY <1>6 DEF Stored
<1>7. QED
  BY <1>3, <1>4, <1>5, <1>6, DataSteps

(* What can become of a task in a step: nothing, unless the step is its    *)
(* own.                                                                    *)
LEMMA OwnSteps ==
    ASSUME Types, TodoFollows, [Next]_vars, NEW c \in Tasks
    PROVE  \/ task'[c] = task[c]
           \/ StartsSome(c) \/ Intent(c) \/ FailsAt(c) \/ LockOne(c) \/ DeleteErases(c)
           \/ Commit(c) \/ Register(c) \/ Mark(c)
           \/ \E m \in Mods : Writes(c, m)
<1>0. \A d \in Tasks : Others(d) => d = c \/ task'[c] = task[c]
  BY DEF Others
<1>1. ASSUME NEW d \in Tasks, StartsSome(d) PROVE d = c \/ task'[c] = task[c]
  BY <1>0, <1>1, StartMoves DEF StartsSome
<1>2. ASSUME NEW d \in Tasks, Intent(d) \/ LockOne(d) PROVE d = c \/ task'[c] = task[c]
  BY <1>0, <1>2, IntentMoves, LockMoves DEF Moves
<1>3. ASSUME NEW d \in Tasks, FailsAt(d) PROVE d = c \/ task'[c] = task[c]
  BY <1>0, <1>3, FailMoves DEF Gone
<1>4. ASSUME NEW d \in Tasks, CreateWrites(d) \/ UpdateWrites(d)
      PROVE  task'[c] = task[c] \/ \E m \in Mods : Writes(c, m)
  BY <1>0, <1>4, WriteMoves DEF Writes, Moves
<1>5. ASSUME NEW d \in Tasks, DeleteErases(d) PROVE d = c \/ task'[c] = task[c]
  BY <1>0, <1>5, EraseMoves DEF Moves
<1>6. ASSUME NEW d \in Tasks, Commit(d) \/ Register(d) PROVE d = c \/ task'[c] = task[c]
  BY <1>0, <1>6, CommitMoves DEF Moves
<1>7. ASSUME NEW d \in Tasks, Mark(d) PROVE d = c \/ task'[c] = task[c]
  BY <1>0, <1>7, ReturnMoves DEF Mark, Busy, Gone
<1>8. ASSUME NEW r \in Readers, ReadStart(r) \/ Load(r) PROVE task' = task
  BY <1>8 DEF ReadStart, Load, LoadStatus, LoadModality, ReadDone
<1>9. ASSUME NEW d \in Tasks, NEW id \in Ids, NotFound(d, id) PROVE task' = task
  BY <1>9 DEF NotFound
<1>10. CASE UNCHANGED vars
  BY <1>10 DEF vars
<1>11. QED
  BY <1>1, <1>2, <1>3, <1>4, <1>5, <1>6, <1>7, <1>8, <1>9, <1>10, StepCases DEF FailsAt

(* ... and so does a delete that has begun to erase.                       *)
LEMMA DeletedStable ==
    ASSUME Types, TodoFollows, [Next]_vars, NEW id, Deleted(id)
    PROVE  Deleted(id)'
<1>1. ASSUME NEW e \in log, e.id = id, e.kind = "delete", e.ok PROVE Deleted(id)'
  <2>1. e \in log'
    BY Shapes, StartMoves DEF StartsSome, Goes, Gone
  <2>2. QED
    BY <1>1, <2>1 DEF Deleted
<1>2. ASSUME NEW c \in Tasks, task[c].id = id, task[c].kind = "delete", task[c].at \in Erasing
      PROVE  Deleted(id)'
  <2>0. task[c].at \in {"write", "register", "mark"}
    BY <1>2 DEF Erasing
  <2>1. CASE task'[c] = task[c]
    BY <1>2, <2>1 DEF Deleted
  <2>2. ASSUME DeleteErases(c) \/ Commit(c) \/ Register(c) PROVE Deleted(id)'
    <3>1. SameOp(c) /\ task'[c].at \in {"write", "register", "mark"}
      BY <2>2, EraseMoves, CommitMoves DEF Moves
    <3>2. QED
      BY <1>2, <3>1 DEF SameOp, Deleted, Erasing
  <2>3. ASSUME Mark(c) PROVE Deleted(id)'
    <3>1. Gone(c, TRUE)
      BY <2>3, ReturnMoves DEF Mark, Busy
    <3> DEFINE e == [op |-> task[c].op, kind |-> task[c].kind, id |-> task[c].id,
                     input |-> task[c].input, version |-> task[c].version, ok |-> TRUE]
    <3>2. e \in log' /\ e.kind = "delete" /\ e.id = id /\ e.ok
      BY <1>2, <3>1 DEF Gone
    <3> HIDE DEF e
    <3>3. QED
      BY <3>2 DEF Deleted
  <2>4. ~FailsAt(c)
    BY <1>2, <2>0 DEF FailsAt, IntentFails, LockRefused, CreateFails, UpdateFails
  <2>5. ~StartsSome(c) /\ ~Intent(c) /\ ~LockOne(c)
    BY <2>0 DEF StartsSome, Starts, Intent, LockOne
  <2>6. ~\E m \in Mods : Writes(c, m)
    BY <1>2 DEF Writes
  <2>7. QED
    BY <2>1, <2>2, <2>3, <2>4, <2>5, <2>6, OwnSteps
<1>3. QED
  BY <1>1, <1>2 DEF Deleted

(* What a failed create may have written is rolled back.                   *)
LEMMA CleanedUpStep ==
    ASSUME Types, TodoFollows, CreatesApart, CleanedUp, [Next]_vars
    PROVE  CleanedUp'
<1> SUFFICES ASSUME NEW id \in Ids, NEW m \in Erased, m \in Stored(id)', ~Made(id)',
                    m \notin Failing
             PROVE  \E c \in Tasks : /\ Creating(c, id)' /\ task'[c].at \in {"write", "register"}
                                     /\ m \in task'[c].flags
  BY DEF CleanedUp
<1>0. ~Made(id) /\ m \in Modalities
  BY MadeStable DEF Erased, Modalities
<1>1. CASE m \in Stored(id)
  <2>1. PICK c \in Tasks : /\ Creating(c, id) /\ task[c].at \in {"write", "register"}
                           /\ m \in task[c].flags
    BY <1>0, <1>1 DEF CleanedUp
  <2>2. CASE task'[c] = task[c]
    BY <2>1, <2>2 DEF Creating, Busy
  <2>3. ASSUME NEW n \in Mods, Writes(c, n)
        PROVE  Creating(c, id)' /\ task'[c].at \in {"write", "register"} /\ m \in task'[c].flags
    BY <2>1, <2>3 DEF Writes, Moves, SameOp, Creating, Busy
  <2>4. ASSUME Commit(c)
        PROVE  Creating(c, id)' /\ task'[c].at \in {"write", "register"} /\ m \in task'[c].flags
    BY <2>1, <2>4, CommitMoves DEF Moves, SameOp, Creating, Busy
  <2>5. ASSUME Register(c) PROVE FALSE
    BY <2>1, <2>5, CommitMoves DEF Moves, SameOp, Creating, Made
  <2>6. ASSUME FailsAt(c) PROVE FALSE
    <3>1. CreateFails(c)
      BY <2>1, <2>6 DEF FailsAt, IntentFails, LockRefused, UpdateFails, Creating
    <3>2. data'[m][id] = <<>>
      BY <2>1, <3>1, LeftData DEF Creating
    <3>3. QED
      BY <3>2 DEF Stored
  <2>7. ~StartsSome(c) /\ ~Intent(c) /\ ~LockOne(c) /\ ~Mark(c)
    BY <2>1 DEF StartsSome, Starts, Intent, LockOne, Mark
  <2>8. ~DeleteErases(c)
    BY <2>1, EraseMoves DEF Creating
  <2>9. QED
    BY <2>2, <2>3, <2>4, <2>5, <2>6, <2>7, <2>8, OwnSteps
<1>2. CASE m \notin Stored(id)
  <2>1. data'[m][id] # <<>> /\ data[m][id] = <<>>
    BY <1>0, <1>2 DEF Stored
  <2>2. ASSUME NEW c \in Tasks, NEW n \in Mods, Writes(c, n)
        PROVE  Creating(c, id)' /\ task'[c].at \in {"write", "register"} /\ m \in task'[c].flags
    <3>1. n = m /\ task[c].id = id
      BY <1>0, <2>1, <2>2, WriteData
    <3>2. task[c].kind = "create"
      BY <1>0, <2>2, <3>1 DEF CreatesApart, Writes, Moves, Busy
    <3>3. QED
      BY <2>2, <3>1, <3>2 DEF Writes, Moves, SameOp, Creating, Busy
  <2>3. ASSUME NEW c \in Tasks, CreateFails(c) \/ UpdateFails(c) PROVE FALSE
    <3>1. m = task[c].bad /\ m \in {"graph", "document"} /\ task[c].bad \in Failing
      BY <1>0, <2>1, <2>3, LeftData
    <3>2. QED
      BY <3>1 DEF Erased
  <2>4. ASSUME NEW c \in Tasks, DeleteErases(c) PROVE FALSE
    BY <1>0, <2>1, <2>4, EraseData
  <2>5. QED
    BY <2>1, <2>2, <2>3, <2>4, DataSteps
<1>3. QED
  BY <1>1, <1>2

(* Every copy of a status stays backed by the stores.                      *)
LEMMA BackedStep ==
    ASSUME Types, TodoFollows, CreatesApart, Backed, [Next]_vars
    PROVE  Backed'
<1> SUFFICES ASSUME NEW id \in Ids, ~Deleted(id)'
             PROVE  /\ registry'[id].flags \subseteq Stored(id)'
                    /\ \A c \in Tasks : Busy(c)' /\ task'[c].id = id =>
                         task'[c].flags \subseteq Stored(id)'
                    /\ \A r \in Readers : reads'[r].id = id => reads'[r].flags \subseteq Stored(id)'
  BY DEF Backed
<1>0. /\ ~Deleted(id)
      /\ registry[id].flags \subseteq Stored(id)
      /\ \A c \in Tasks : Busy(c) /\ task[c].id = id => task[c].flags \subseteq Stored(id)
      /\ \A r \in Readers : reads[r].id = id => reads[r].flags \subseteq Stored(id)
  <2>1. ~Deleted(id)
    BY DeletedStable
  <2>2. QED
    BY <2>1 DEF Backed
<1>1. CASE \E c \in Tasks : task[c].id = id /\ CreateFails(c)
  <2>0. PICK c \in Tasks : task[c].id = id /\ CreateFails(c)
    BY <1>1
  <2>1. Creating(c, id) /\ task[c].at # "mark"
    BY <2>0, LeftData DEF CreateFails, Creating, Busy
  <2>2. Gone(c, FALSE) /\ UNCHANGED <<registry, reads>>
    BY <2>0, FailMoves DEF FailsAt
  <2>3. \A d \in Tasks : Busy(d)' /\ task'[d].id = id => FALSE
    BY <2>1, <2>2, NotMade DEF Gone, Others, Busy
  <2>4. registry'[id].flags = {} /\ \A r \in Readers : reads'[r].id = id => reads'[r].flags = {}
    BY <2>1, <2>2, NotMade
  <2>5. QED
    BY <2>3, <2>4
<1>2. CASE \A c \in Tasks : task[c].id = id => ~CreateFails(c)
  <2>1. Stored(id) \subseteq Stored(id)'
    BY <1>0, <1>2, StoredGrows
  <2>2. registry'[id].flags \subseteq Stored(id)'
    <3>1. ASSUME NEW c \in Tasks, Register(c) PROVE registry'[id].flags \subseteq Stored(id)
      <4>1. registry'[id].flags \in {registry[id].flags, {}} \/ 
            (task[c].id = id /\ registry'[id].flags = task[c].flags)
        BY <3>1 DEF Register, Types, Absent
      <4>2. Busy(c)
        BY <3>1 DEF Register, Busy
      <4>3. QED
        BY <1>0, <4>1, <4>2
    <3>2. QED
      BY <1>0, <2>1, <3>1, RegistrySteps
  <2>3. ASSUME NEW c \in Tasks, Busy(c)', task'[c].id = id
        PROVE  task'[c].flags \subseteq Stored(id)'
    <3>1. CASE task'[c] = task[c]
      BY <1>0, <2>1, <2>3, <3>1 DEF Busy
    <3>2. CASE StartsSome(c)
      <4>1. task'[c].flags = registry[id].flags
        BY <2>3, <3>2, StartMoves DEF StartsSome
      <4>2. QED
        BY <1>0, <2>1, <4>1
    <3>3. CASE Intent(c) \/ DeleteErases(c) \/ Commit(c) \/ Register(c) \/ LockOne(c)
      <4>1. Busy(c) /\ task'[c].id = task[c].id
        BY <3>3, IntentMoves, EraseMoves, CommitMoves, LockMoves DEF Moves, SameOp, Busy
      <4>2. task'[c].flags \in {{}, task[c].flags}
        BY <3>3, IntentMoves, EraseMoves, CommitMoves, LockMoves
      <4>3. QED
        BY <1>0, <2>1, <2>3, <4>1, <4>2
    <3>4. ASSUME NEW m \in Mods, Writes(c, m) PROVE task'[c].flags \subseteq Stored(id)'
      <4>1. Busy(c) /\ task[c].id = id /\ task'[c].flags \subseteq task[c].flags \cup {m}
        BY <2>3, <3>4 DEF Writes, Moves, SameOp, Busy
      <4>0. m \in Modalities
        BY StoreAssumption DEF StoreAssumption, Mods, Modalities
      <4>2. m \in Modalities /\ data[m][id] \in Seq(Nat) /\ task[c].op \in Nat
        BY <4>0 DEF Types, TaskRec
      <4>3. data'[m][id] = Processed(m, data[m][id], task[c].op)
        BY <3>4, <4>1, <4>2, WriteData
      <4>4. data'[m][id] # <<>>
        BY <4>2, <4>3 DEF Processed
      <4>5. QED
        BY <1>0, <2>1, <4>1, <4>2, <4>4 DEF Stored
    <3>5. CASE FailsAt(c)
      BY <2>3, <3>5, FailMoves DEF Gone, Busy
    <3>6. CASE Mark(c)
      BY <2>3, <3>6, ReturnMoves DEF Mark, Gone, Busy
    <3>7. QED
      BY <3>1, <3>2, <3>3, <3>4, <3>5, <3>6, OwnSteps
  <2>4. ASSUME NEW q \in Readers, reads'[q].id = id PROVE reads'[q].flags \subseteq Stored(id)'
    <3>1. ASSUME NEW r \in Readers, ReadStart(r) \/ Load(r)
          PROVE  \/ reads'[q].flags \in {{}, registry[id].flags}
                 \/ reads'[q].flags = reads[q].flags /\ reads[q].id = id
      BY <2>4, <3>1, ReadMoves
    <3>2. QED
      BY <1>0, <2>1, <2>4, <3>1, RegistrySteps
  <2>5. QED
    BY <2>2, <2>3, <2>4
<1>3. QED
  BY <1>1, <1>2

(* The elements of a list are its head and those of its tail.              *)
LEMMA TailElems ==
    ASSUME NEW S, NEW s \in Seq(S), s # <<>>
    PROVE  /\ Head(s) \in S /\ Tail(s) \in Seq(S)
           /\ \A x : x \in Elems(s) <=> x = Head(s) \/ x \in Elems(Tail(s))
<1>1. /\ Head(s) = s[1] /\ 1 \in DOMAIN s /\ Tail(s) \in Seq(S)
      /\ \A i \in DOMAIN Tail(s) : i + 1 \in DOMAIN s /\ Tail(s)[i] = s[i + 1]
      /\ \A i \in DOMAIN s : i = 1 \/ (i - 1 \in DOMAIN Tail(s) /\ s[i] = Tail(s)[i - 1])
  OBVIOUS
<1> DEFINE t == Tail(s)
<1> HIDE DEF t
<1>2. \A x : x \in Elems(s) => x = Head(s) \/ x \in Elems(t)
  <2>1. ASSUME NEW i \in DOMAIN s, i - 1 \in DOMAIN t, s[i] = t[i - 1] PROVE s[i] \in Elems(t)
    BY <2>1 DEF Elems
  <2>2. \A i \in DOMAIN s : s[i] = Head(s) \/ s[i] \in Elems(t)
    BY <1>1, <2>1 DEF t
  <2>3. QED
    BY <2>2 DEF Elems
<1>3. \A x : x = Head(s) \/ x \in Elems(t) => x \in Elems(s)
  BY <1>1 DEF Elems, t
<1>4. Head(s) \in S
  OBVIOUS
<1>5. QED
  BY <1>1, <1>2, <1>3, <1>4 DEF t

(* A reader keeps what it has loaded and has the rest still to load.       *)
LEMMA LoadingStep ==
    ASSUME Types, TodoFollows, Backed, Loading, [Next]_vars
    PROVE  Loading'
<1> SUFFICES ASSUME NEW r \in Readers, reads'[r].at = "load", ~Deleted(reads[r].id)',
                    NEW x \in reads'[r].flags, x \in Loaded
             PROVE  x \in reads'[r].got \cup Elems(reads'[r].todo)
  BY DEF Loading
<1>0. \A id : ~Deleted(id)' => ~Deleted(id)
  BY DeletedStable
<1>1. ASSUME reads'[r] = reads[r] PROVE x \in reads'[r].got \cup Elems(reads'[r].todo)
  BY <1>0, <1>1 DEF Loading
<1>2. ASSUME ReadStart(r) \/ Load(r) PROVE x \in reads'[r].got \cup Elems(reads'[r].todo)
  <2>1. ASSUME NEW id \in Ids, reads'[r].flags = registry[id].flags,
               reads'[r].todo = InOrder(registry[id].flags \cap Loaded)
        PROVE  x \in Elems(reads'[r].todo)
    <3>1. x \in registry[id].flags \cap Loaded /\ x \in Modalities
      BY <2>1 DEF Loaded
    <3>2. QED
      BY <2>1, <3>1, InOrderElems
  <2>2. ASSUME LoadModality(r), reads'[r].id = reads[r].id, reads'[r].flags = reads[r].flags,
               reads'[r].at = reads[r].at
        PROVE  x \in reads'[r].got \cup Elems(reads'[r].todo)
    <3> DEFINE m == Head(reads[r].todo)
               rest == Tail(reads[r].todo)
               got == IF data[m][reads[r].id] = <<>> THEN reads[r].got ELSE reads[r].got \cup {m}
    <3>1. reads[r].id \in Ids /\ reads[r].todo \in Seq(Mods) /\ reads \in [Readers -> ReadRec]
      BY DEF Types, ReadRec
    <3>2. /\ reads[r].todo # <<>>
          /\ reads' = [reads EXCEPT ![r].todo = rest, ![r].got = got]
      BY <2>2 DEF LoadModality
    <3>3. \A y : y \in Elems(reads[r].todo) => y = m \/ y \in Elems(rest)
      BY <3>1, <3>2, TailElems
    <3>4. ~Deleted(reads[r].id)
      BY <1>0, <2>2
    <3>5. reads[r].flags \subseteq Stored(reads[r].id)
      BY <3>1, <3>4 DEF Backed
    <3>6. x \in reads[r].got \/ x \in Elems(reads[r].todo)
      BY <2>2, <3>4 DEF Loading
    <3>7. data[x][reads[r].id] # <<>>
      BY <2>2, <3>5 DEF Stored
    <3>8. x \in got \cup Elems(rest)
      BY <3>3, <3>6, <3>7
    <3> HIDE DEF m, rest, got
    <3>9. reads'[r].todo = rest /\ reads'[r].got = got
      BY <3>1, <3>2 DEF ReadRec
    <3>10. QED
      BY <3>8, <3>9
  <2>3. QED
    BY <1>2, <2>1, <2>2, ReadMoves
<1>3. reads'[r] = reads[r] \/ ReadStart(r) \/ Load(r)
  BY RegistrySteps, ReadMoves
<1>4. QED
  BY <1>1, <1>2, <1>3

(* The log of intents only grows.                                          *)
LEMMA IntentsGrow ==
    ASSUME Types, [Next]_vars
    PROVE  wal.intents \subseteq wal'.intents
<1>0. wal \in [intents : SUBSET [op : Nat, id : Ids], committed : [Ids -> Nat]]
  BY DEF Types
<1>1. ASSUME NEW c \in Tasks, Intent(c) PROVE wal.intents \subseteq wal'.intents
  BY <1>0, <1>1 DEF Intent
<1>2. ASSUME NEW c \in Tasks, Mark(c) PROVE wal'.intents = wal.intents
  BY <1>0, <1>2 DEF Mark, Marker
<1>3. ASSUME NEW c \in Tasks, StartsSome(c) PROVE wal' = wal
  BY <1>3 DEF StartsSome, Starts
<1>4. ASSUME NEW c \in Tasks, IntentFails(c) \/ LockOne(c) \/ LockRefused(c) \/ CreateFails(c)
                              \/ UpdateFails(c) \/ DeleteErases(c) \/ Commit(c) \/ Register(c)
      PROVE  wal' = wal
  BY <1>4 DEF IntentFails, LockOne, LockRefused, CreateFails, UpdateFails, DeleteErases,
     Commit, Register
<1>5. ASSUME NEW c \in Tasks, CreateWrites(c) \/ UpdateWrites(c) PROVE wal' = wal
  BY <1>5 DEF CreateWrites, UpdateWrites, Write
<1>6. ASSUME NEW c \in Tasks, NEW id \in Ids, NotFound(c, id) PROVE wal' = wal
  BY <1>6 DEF NotFound
<1>7. ASSUME NEW r \in Readers, ReadStart(r) \/ Load(r) PROVE wal' = wal
  BY <1>7 DEF ReadStart, Load, LoadStatus, LoadModality, ReadDone
<1>8. CASE UNCHANGED vars
  BY <1>8 DEF vars
<1>9. QED
  BY <1>1, <1>2, <1>3, <1>4, <1>5, <1>6, <1>7, <1>8, StepCases

(* Past its intent an operation stays in the log.                          *)
LEMMA LoggedStep ==
    ASSUME Types, TodoFollows, Logged, [Next]_vars
    PROVE  Logged'
<1>0. wal.intents \subseteq wal'.intents
  BY IntentsGrow
<1>1. ASSUME NEW c \in Tasks, task'[c].at \in {"lock", "write", "register", "mark"}
      PROVE  [op |-> task'[c].op, id |-> task'[c].id] \in wal'.intents
  <2>1. CASE task'[c] = task[c]
    BY <1>0, <1>1, <2>1 DEF Logged
  <2>2. CASE Intent(c)
    <3>1. SameOp(c)
      BY <2>2, IntentMoves DEF Moves
    <3>2. wal'.intents = wal.intents \cup {[op |-> task[c].op, id |-> task[c].id]}
      BY <2>2 DEF Intent, Types
    <3>3. QED
      BY <3>1, <3>2 DEF SameOp
  <2>3. ASSUME LockOne(c) \/ DeleteErases(c) \/ Commit(c) \/ Register(c)
               \/ \E m \in Mods : Writes(c, m)
        PROVE  [op |-> task'[c].op, id |-> task'[c].id] \in wal'.intents
    <3>1. SameOp(c) /\ task[c].at \in {"lock", "write", "register"}
      BY <2>3, LockMoves, EraseMoves, CommitMoves DEF Moves, Writes
    <3>2. QED
      BY <1>0, <3>1 DEF Logged, SameOp
  <2>4. ~StartsSome(c)
    BY <1>1, StartMoves DEF StartsSome
  <2>5. ~FailsAt(c)
    BY <1>1, FailMoves DEF Gone
  <2>6. ~Mark(c)
    BY <1>1, ReturnMoves DEF Mark, Busy, Gone
  <2>7. QED
    BY <2>1, <2>2, <2>3, <2>4, <2>5, <2>6, OwnSteps
<1>2. ASSUME NEW e \in log', e.ok PROVE [op |-> e.op, id |-> e.id] \in wal'.intents
  <2>1. CASE e \in log
    BY <1>0, <1>2, <2>1 DEF Logged
  <2>2. CASE e \notin log
    <3>1. PICK c \in Tasks, ok \in BOOLEAN : Gone(c, ok) /\ (ok <=> task[c].at = "mark")
      BY <2>2, Shapes, StartMoves DEF StartsSome, Goes
    <3>2. e.op = task[c].op /\ e.id = task[c].id /\ e.ok = ok
      BY <2>2, <3>1 DEF Gone
    <3>3. QED
      BY <1>0, <1>2, <3>1, <3>2 DEF Logged
  <2>3. QED
    BY <2>1, <2>2
<1>3. QED
  BY <1>1, <1>2 DEF Logged

(* What is in a store was there before or is written now by an operation   *)
(* on that hexad.                                                          *)
LEMMA DataSource ==
    ASSUME Types, TodoFollows, [Next]_vars, NEW m \in Modalities, NEW id \in Ids,
           NEW i \in DOMAIN data'[m][id]
    PROVE  \/ \E j \in DOMAIN data[m][id] : data'[m][id][i] = data[m][id][j]
           \/ \E c \in Tasks : /\ task[c].at = "write" /\ task[c].id = id
                               /\ data'[m][id][i] = task[c].op
<1>0. data[m][id] \in Seq(Nat) /\ \A c \in Tasks : task[c].op \in Nat
  BY DEF Types, TaskRec
<1>1. ASSUME NEW s \in Seq(Nat), NEW n \in Nat, NEW j \in DOMAIN Processed(m, s, n)
      PROVE  Processed(m, s, n)[j] = n \/ (j \in DOMAIN s /\ Processed(m, s, n)[j] = s[j])
  <2>1. CASE m \in Growing
    <3>1. j \in DOMAIN Append(s, n)
      BY <1>1, <2>1 DEF Processed
    <3>2. Append(s, n)[j] = n \/ (j \in DOMAIN s /\ Append(s, n)[j] = s[j])
      BY <3>1
    <3>3. QED
      BY <2>1, <3>2 DEF Processed
  <2>2. CASE m \notin Growing
    <3>1. j \in DOMAIN <<n>>
      BY <1>1, <2>2 DEF Processed
    <3>2. <<n>>[j] = n
      BY <3>1
    <3>3. QED
      BY <2>2, <3>2 DEF Processed
  <2>3. QED
    BY <2>1, <2>2
<1>2. ASSUME NEW c \in Tasks, task[c].at = "write", task[c].id = id,
             data'[m][id] = Processed(m, data[m][id], task[c].op)
      PROVE  \/ \E j \in DOMAIN data[m][id] : data'[m][id][i] = data[m][id][j]
             \/ data'[m][id][i] = task[c].op
  BY <1>0, <1>1, <1>2
<1>3. ASSUME NEW c \in Tasks, NEW n \in Mods, Writes(c, n)
      PROVE  \/ data'[m][id] = data[m][id]
             \/ /\ task[c].at = "write" /\ task[c].id = id
                /\ data'[m][id] = Processed(m, data[m][id], task[c].op)
  <2>1. task[c].at = "write"
    BY <1>3 DEF Writes, Moves
  <2>2. data'[m][id] = IF m = n /\ id = task[c].id
                       THEN Processed(n, data[n][id], task[c].op) ELSE data[m][id]
    BY <1>3, WriteData
  <2>3. QED
    BY <2>1, <2>2
<1>4. ASSUME NEW c \in Tasks, CreateFails(c) \/ UpdateFails(c)
      PROVE  \/ data'[m][id] = data[m][id] \/ data'[m][id] = <<>>
             \/ /\ task[c].at = "write" /\ task[c].id = id
                /\ data'[m][id] = Processed(m, data[m][id], task[c].op)
  <2>1. task[c].at = "write"
    BY <1>4, LeftData
  <2>2. \/ data'[m][id] = data[m][id] \/ data'[m][id] = <<>>
        \/ /\ task[c].id = id
           /\ data'[m][id] = Processed(m, data[m][id], task[c].op)
    BY <1>4, LeftData, Zenon
  <2>3. QED
    BY <2>1, <2>2
<1>5. ASSUME NEW c \in Tasks, DeleteErases(c)
      PROVE  data'[m][id] = data[m][id] \/ data'[m][id] = <<>>
  BY <1>5, EraseData
<1>6. data'[m][id] # <<>>
  <2>1. DOMAIN <<>> = {}
    OBVIOUS
  <2>2. QED
    BY <2>1
<1>7. QED
  BY <1>2, <1>3, <1>4, <1>5, <1>6, DataSteps

(* The intent stays ahead of the stores and of the registry.               *)
LEMMA IntentFirstStep ==
    ASSUME Types, TodoFollows, Logged, IntentFirst, [Next]_vars
    PROVE  IntentFirst'
<1>0. wal.intents \subseteq wal'.intents
  BY IntentsGrow
<1>1. ASSUME NEW id \in Ids, NEW m \in Modalities, NEW i \in DOMAIN data'[m][id]
      PROVE  [op |-> data'[m][id][i], id |-> id] \in wal'.intents
  <2> DEFINE v == data'[m][id][i]
  <2>1. ASSUME NEW j \in DOMAIN data[m][id], v = data[m][id][j]
        PROVE  [op |-> v, id |-> id] \in wal'.intents
    BY <1>0, <2>1 DEF IntentFirst
  <2>2. ASSUME NEW c \in Tasks, task[c].at = "write", task[c].id = id, v = task[c].op
        PROVE  [op |-> v, id |-> id] \in wal'.intents
    BY <1>0, <2>2 DEF Logged
  <2>3. QED
    BY <2>1, <2>2, DataSource
<1>2. ASSUME NEW id \in Ids, Live(id)' PROVE \E i \in wal'.intents : i.id = id
  <2>1. CASE Live(id)
    BY <1>0, <2>1 DEF IntentFirst
  <2>2. CASE ~Live(id)
    <3>1. PICK c \in Tasks : Register(c)
      BY <1>2, <2>2, RegistrySteps DEF Live
    <3>2. task[c].id = id
      BY <1>2, <2>2, <3>1 DEF Live, Register, Types
    <3>3. [op |-> task[c].op, id |-> task[c].id] \in wal.intents
      BY <3>1 DEF Register, Logged
    <3>4. QED
      BY <1>0, <3>2, <3>3
  <2>3. QED
    BY <2>1, <2>2
<1>3. QED
  BY <1>1, <1>2 DEF IntentFirst

(* Of the operations done there is a finite number, and it only grows.     *)
LEMMA DoneGrows ==
    ASSUME Types, TodoFollows, [Next]_vars, NEW id
    PROVE  /\ IsFiniteSet(Done(id)) /\ IsFiniteSet(Done(id)')
           /\ Done(id) \subseteq Done(id)'
           /\ Cardinality(Done(id)) \in Nat /\ Cardinality(Done(id)') \in Nat
           /\ Cardinality(Done(id)) <= Cardinality(Done(id)')
<1>1. IsFiniteSet(Ops)
  BY StoreAssumption, FS_Interval DEF Ops, StoreAssumption
<1>2. Done(id) \in SUBSET Ops /\ Done(id)' \in SUBSET Ops
  BY DEF Done
<1>3. IsFiniteSet(Done(id)) /\ IsFiniteSet(Done(id)')
  BY <1>1, <1>2, FS_Subset
<1>4. log \subseteq log'
  BY Shapes, StartMoves DEF StartsSome, Goes, Gone
<1>5. Done(id) \subseteq Done(id)'
  BY <1>4 DEF Done
<1>6. QED
  BY <1>3, <1>5, FS_Subset, FS_CardinalityType

(* One marker for each operation done, at most.                            *)
LEMMA MarkedStep ==
    ASSUME Types, TodoFollows, OpsApart, Marked, [Next]_vars
    PROVE  Marked'
<1>0. wal \in [intents : SUBSET [op : Nat, id : Ids], committed : [Ids -> Nat]]
  BY DEF Types
<1> SUFFICES ASSUME NEW id \in Ids PROVE wal'.committed[id] <= Cardinality(Done(id)')
  BY DEF Marked
<1>1. CASE wal'.committed[id] = wal.committed[id]
  BY <1>0, <1>1, DoneGrows DEF Marked
<1>2. ASSUME NEW c \in Tasks, Mark(c), wal' = Marker(task[c], wal), task[c].id = id
      PROVE  wal'.committed[id] <= Cardinality(Done(id)')
  <2>1. wal'.committed[id] = wal.committed[id] + 1
    BY <1>0, <1>2 DEF Marker
  <2>2. Gone(c, TRUE) /\ Busy(c)
    BY <1>2, ReturnMoves DEF Mark, Busy
  <2>3. task[c].op \in Ops /\ task[c].op \notin Done(id)
    BY <2>2, StoreAssumption DEF OpsApart, Done, Types, Ops, StoreAssumption
  <2> DEFINE e == [op |-> task[c].op, kind |-> task[c].kind, id |-> task[c].id,
                   input |-> task[c].input, version |-> task[c].version, ok |-> TRUE]
  <2>4. e \in log' /\ e.op = task[c].op /\ e.ok /\ e.id = id
    BY <1>2, <2>2 DEF Gone
  <2> HIDE DEF e
  <2>5. task[c].op \in Done(id)'
    BY <2>3, <2>4 DEF Done
  <2>6. Done(id) \cup {task[c].op} \in SUBSET Done(id)'
    BY <2>5, DoneGrows
  <2>7. Cardinality(Done(id) \cup {task[c].op}) = Cardinality(Done(id)) + 1
    BY <2>3, DoneGrows, FS_AddElement
  <2>8. Cardinality(Done(id) \cup {task[c].op}) <= Cardinality(Done(id)')
    BY <2>6, DoneGrows, FS_Subset
  <2>9. QED
    BY <1>0, <2>1, <2>7, <2>8, DoneGrows DEF Marked
<1>3. ASSUME NEW c \in Tasks, Mark(c) PROVE wal'.committed[id] <= Cardinality(Done(id)')
  <2>1. CASE wal' = Marker(task[c], wal) /\ task[c].id # id
    BY <1>0, <1>1, <2>1 DEF Marker
  <2>2. CASE UNCHANGED wal
    BY <1>1, <2>2
  <2>3. QED
    BY <1>2, <1>3, <2>1, <2>2 DEF Mark
<1>4. ASSUME NEW c \in Tasks, Intent(c) PROVE wal'.committed[id] = wal.committed[id]
  BY <1>0, <1>4 DEF Intent
<1>5. (\E c \in Tasks : Intent(c) \/ Mark(c)) \/ wal' = wal
  <2>1. ASSUME NEW c \in Tasks, StartsSome(c) PROVE wal' = wal
    BY <2>1 DEF StartsSome, Starts
  <2>2. ASSUME NEW c \in Tasks, FailsAt(c) PROVE wal' = wal
    BY <2>2, FailMoves
  <2>3. ASSUME NEW c \in Tasks, LockOne(c) \/ DeleteErases(c) \/ Commit(c) \/ Register(c)
        PROVE  wal' = wal
    BY <2>3 DEF LockOne, DeleteErases, Commit, Register
  <2>4. ASSUME NEW c \in Tasks, CreateWrites(c) \/ UpdateWrites(c) PROVE wal' = wal
    BY <2>4 DEF CreateWrites, UpdateWrites, Write
  <2>5. ASSUME NEW c \in Tasks, NEW i \in Ids, NotFound(c, i) PROVE wal' = wal
    BY <2>5 DEF NotFound
  <2>6. ASSUME NEW r \in Readers, ReadStart(r) \/ Load(r) PROVE wal' = wal
    BY <2>6 DEF ReadStart, Load, LoadStatus, LoadModality, ReadDone
  <2>7. CASE UNCHANGED vars
    BY <2>7 DEF vars
  <2>8. QED
    BY <2>1, <2>2, <2>3, <2>4, <2>5, <2>6, <2>7, StepCases DEF FailsAt
<1>6. QED
  BY <1>1, <1>3, <1>4, <1>5

(* The invariant of registry, stores and log holds in every state.         *)
THEOREM StoresSound == Spec => []StoreInv
<1>1. Init => StoreInv
  <2> SUFFICES ASSUME Init PROVE StoreInv
    OBVIOUS
  <2>0. Idle.at = "idle" /\ NoRead.flags = {} /\ NoRead.at = "idle"
    BY DEF Idle, NoRead
  <2>1. /\ \A c \in Tasks : task[c].at = "idle"
        /\ \A r \in Readers : reads[r].flags = {} /\ reads[r].at = "idle"
    BY <2>0 DEF Init
  <2>2. /\ \A id \in Ids : ~Live(id) /\ registry[id].flags = {}
        /\ \A m \in Modalities, id \in Ids : data[m][id] = <<>>
        /\ log = {} /\ wal.intents = {} /\ \A id \in Ids : wal.committed[id] = 0
    BY DEF Init, Live, Absent
  <2>3. CreatesApart
    BY <2>1, <2>2 DEF CreatesApart, Creating, Busy
  <2>4. CleanedUp
    BY <2>2 DEF CleanedUp, Stored
  <2>5. Backed /\ Loading
    BY <2>1, <2>2 DEF Backed, Loading, Busy
  <2>6. Logged
    BY <2>1, <2>2 DEF Logged
  <2>7. IntentFirst
    <3>1. DOMAIN <<>> = {}
      OBVIOUS
    <3>2. \A m \in Modalities, id \in Ids : DOMAIN data[m][id] = {}
      BY <2>2, <3>1
    <3>3. QED
      BY <2>2, <3>2 DEF IntentFirst
  <2>8. Marked
    <3>1. \A id \in Ids : Done(id) = {}
      BY <2>2 DEF Done
    <3>2. Cardinality({}) = 0
      BY FS_EmptySet
    <3>3. \A id \in Ids : Cardinality(Done(id)) = 0
      BY <3>1, <3>2, Zenon
    <3>4. QED
      BY <2>2, <3>3 DEF Marked
  <2>9. QED
    BY <2>3, <2>4, <2>5, <2>6, <2>7, <2>8 DEF StoreInv
<1>2. Types /\ LockInv /\ StoreInv /\ [Next]_vars => StoreInv'
  BY CreatesApartStep, CleanedUpStep, BackedStep, LoadingStep, LoggedStep, IntentFirstStep,
     MarkedStep DEF LockInv, StoreInv
<1>3. QED
  BY <1>1, <1>2, LocksSound, PTL DEF Spec

(* Registry, stores and log agree.  Whatever fails and however operations  *)
(* overlap, what is visible was logged first, what is marked was done and  *)
(* a failed create leaves nothing to be found.  Until a delete has begun   *)
(* to erase a hexad, what the registry flags has data and a reader gets    *)
(* all that its status announces.                                          *)
THEOREM StoresAgree == Spec => []StoresBacked
<1>1. Types /\ LockInv /\ StoreInv => StoresBacked
  <2> SUFFICES ASSUME Types, LockInv, StoreInv PROVE StoresBacked
    OBVIOUS
  <2>1. MarkersEarned
    <3> SUFFICES ASSUME NEW id \in Ids
                 PROVE  wal.committed[id] <=
                          Cardinality({i \in wal.intents : i.id = id /\ Committed(i.op, id)})
      BY DEF MarkersEarned
    <3> DEFINE D == Done(id)
               I == {i \in wal.intents : i.id = id /\ Committed(i.op, id)}
    <3>1. IsFiniteSet(Ops)
      BY StoreAssumption, FS_Interval DEF Ops, StoreAssumption
    <3>2. IsFiniteSet(I)
      <4>1. \A i \in I : i.op \in Ops
        <5>1. \A n \in 1 .. ops : n \in Ops
          BY StoreAssumption DEF Types, Ops, StoreAssumption
        <5>2. \A e \in log : e.op \in 1 .. ops
          BY DEF LockInv, OpsApart
        <5>3. \A c \in Tasks : task[c].at \in {"register", "mark"} => task[c].op \in 1 .. ops
          BY DEF LockInv, OpsApart, Busy
        <5>4. QED
          BY <5>1, <5>2, <5>3 DEF Committed
      <4>2. \A i, j \in I : i.op = j.op => i = j
        BY DEF Types
      <4> DEFINE f == [i \in I |-> i.op]
      <4>3. f \in Injection(I, Ops)
        BY <4>1, <4>2 DEF Injection, IsInjective
      <4> HIDE DEF f, I
      <4>4. QED
        BY <3>1, <4>3, FS_Injection
    <3>3. Cardinality(D) <= Cardinality(I)
      <4> DEFINE g == [n \in D |-> [op |-> n, id |-> id]]
      <4>1. \A n \in D : [op |-> n, id |-> id] \in I
        BY DEF StoreInv, Logged, Committed, Done
      <4>2. g \in Injection(D, I)
        BY <4>1 DEF Injection, IsInjective
      <4> HIDE DEF g, I, D
      <4>3. QED
        BY <3>2, <4>2, FS_Injection
    <3>4. Cardinality(D) \in Nat /\ Cardinality(I) \in Nat
      <4>1. D \in SUBSET Ops
        BY DEF Done
      <4>2. QED
        BY <3>1, <3>2, <4>1, FS_Subset, FS_CardinalityType
    <3>5. wal.committed[id] <= Cardinality(D) /\ wal.committed[id] \in Nat
      BY DEF StoreInv, Marked, Types
    <3> HIDE DEF I, D
    <3>6. wal.committed[id] <= Cardinality(I)
      BY <3>3, <3>4, <3>5
    <3>7. QED
      BY <3>6 DEF I
  <2>2. FailedCreateGone
    <3> SUFFICES ASSUME NEW e \in log, e.kind = "create", ~e.ok
                 PROVE  /\ ~Live(e.id)
                        /\ \A m \in Erased \ Failing : data[m][e.id] = <<>>
      BY DEF FailedCreateGone
    <3>1. e.id \in Ids
      BY DEF Types, Entry
    <3>2. ~Made(e.id) /\ \A c \in Tasks : ~Creating(c, e.id)
      BY DEF StoreInv, CreatesApart, Made, Creating, Busy
    <3>3. \A m \in Erased : m \in Stored(e.id) => m \in Failing
      BY <3>1, <3>2 DEF StoreInv, CleanedUp
    <3>4. ~Live(e.id)
      BY <3>1, <3>2 DEF StoreInv, CreatesApart
    <3>5. QED
      BY <3>3, <3>4 DEF Erased, Stored, Modalities
  <2>3. FlagsBacked
    BY DEF FlagsBacked, StoreInv, Backed, Stored
  <2>4. LoadComplete
    <3>1. Elems(<<>>) = {}
      BY DEF Elems
    <3>2. QED
      BY <3>1 DEF LoadComplete, StoreInv, Loading
  <2>5. QED
    BY <2>1, <2>2, <2>3, <2>4 DEF StoresBacked, StoreInv
<1>2. QED
  BY <1>1, LocksSound, StoresSound, PTL

-----------------------------------------------------------------------------
(* The history of a hexad only grows.                                      *)
LEMMA HistoryGrows ==
    ASSUME Types, TodoFollows, [Next]_vars, NEW id \in Ids
    PROVE  /\ \A v \in DOMAIN data["temporal"][id] :
                /\ v \in DOMAIN data'["temporal"][id]
                /\ data'["temporal"][id][v] = data["temporal"][id][v]
           /\ \A v, n : Owns(id, v, n) => Owns(id, v, n)'
<1>0. "temporal" \in Modalities /\ "temporal" \in Growing /\ "temporal" \notin Erased
  BY DEF Modalities, Growing, Erased
<1> DEFINE h == data["temporal"][id]
           g == data'["temporal"][id]
<1>1. h \in Seq(Nat)
  BY <1>0 DEF Types
<1>2. g = h \/ \E n : g = Append(h, n)
  <2>1. ASSUME NEW c \in Tasks, NEW m \in Mods, Writes(c, m) PROVE g = h \/ \E n : g = Append(h, n)
    <3>1. g = IF "temporal" = m /\ id = task[c].id THEN Processed(m, data[m][id], task[c].op) ELSE h
      BY <1>0, <2>1, WriteData
    <3>2. QED
      BY <1>0, <3>1 DEF Processed
  <2>2. ASSUME NEW c \in Tasks, CreateFails(c) \/ UpdateFails(c) PROVE g = h
    BY <1>0, <2>2, LeftData
  <2>3. ASSUME NEW c \in Tasks, DeleteErases(c) PROVE g = h
    BY <1>0, <2>3, EraseData
  <2>4. QED
    BY <2>1, <2>2, <2>3, DataSteps
<1> HIDE DEF h, g
<1>3. \A v \in DOMAIN h : v \in DOMAIN g /\ g[v] = h[v]
  BY <1>1, <1>2, SMTT(30)
<1>4. QED
  BY <1>3 DEF Owns, h, g

(* A write of the history gives the operation its version.                 *)
LEMMA TakesSnapshot ==
    ASSUME Types, NEW c \in Tasks, Writes(c, "temporal")
    PROVE  /\ Owns(task[c].id, task[c].version, task[c].op)'
           /\ data'["temporal"][task[c].id] = Append(data["temporal"][task[c].id], task[c].op)
<1> DEFINE h == data["temporal"][task[c].id]
           g == data'["temporal"][task[c].id]
<1>1. h \in Seq(Nat) /\ task[c].op \in Nat /\ task[c].id \in Ids
  BY DEF Types, Modalities, TaskRec
<1>2. g = Append(h, task[c].op)
  <2>1. g = Processed("temporal", h, task[c].op)
    BY <1>1, WriteData DEF Modalities
  <2>2. QED
    BY <2>1 DEF Processed, Growing
<1>3. task'[c].version = Len(h) + 1 /\ task'[c].op = task[c].op /\ task'[c].id = task[c].id
  BY DEF Writes, Moves, SameOp
<1> HIDE DEF h, g
<1>4. Len(h) + 1 \in DOMAIN g /\ g[Len(h) + 1] = task[c].op
  BY <1>1, <1>2
<1>5. QED
  BY <1>2, <1>3, <1>4 DEF Owns, h, g

(* An operation keeps the snapshot it took.                                *)
LEMMA SnapshotsStep ==
    ASSUME Types, TodoFollows, Snapshots, [Next]_vars
    PROVE  Snapshots'
<1>0. \A v, n : \A id \in Ids : Owns(id, v, n) => Owns(id, v, n)'
  BY HistoryGrows
<1>a. \A c \in Tasks : task[c].id \in Ids /\ task[c].input \in SUBSET Used
  BY DEF Types, TaskRec
<1>1. ASSUME NEW c \in Tasks, task'[c].at \in {"write", "register", "mark"},
             task'[c].kind # "delete", task'[c].todo = <<>>
      PROVE  Owns(task[c].id, task[c].version, task[c].op)'
  <2>1. ASSUME SameOp(c), task'[c].version = task[c].version,
               Owns(task[c].id, task[c].version, task[c].op)
        PROVE  Owns(task[c].id, task[c].version, task[c].op)'
    BY <1>0, <1>a, <2>1 DEF SameOp
  <2>2. CASE task'[c] = task[c]
    BY <1>1, <2>1, <2>2 DEF SameOp, Snapshots
  <2>3. CASE Commit(c) \/ Register(c)
    <3>1. /\ SameOp(c) /\ task'[c].version = task[c].version
          /\ task[c].at \in {"write", "register"} /\ task[c].todo = <<>>
      BY <1>1, <2>3, CommitMoves DEF Moves
    <3>2. QED
      BY <1>1, <2>1, <3>1 DEF Snapshots, SameOp
  <2>4. ASSUME NEW m \in Mods, Writes(c, m)
        PROVE  Owns(task[c].id, task[c].version, task[c].op)'
    <3>1. m = "temporal"
      BY <1>1, <2>4, EndsTail DEF Writes
    <3>2. QED
      BY <2>4, <3>1, TakesSnapshot
  <2>5. ~LockOne(c)
    <3>1. SUFFICES ASSUME LockOne(c) PROVE FALSE
      OBVIOUS
    <3>2. task'[c].todo = FirstWrites(task[c]) /\ task[c].kind # "delete"
      BY <1>1, <3>1, LockMoves DEF Moves, SameOp
    <3>3. Ends(InOrder(task[c].input \cup {"temporal"}))
      BY <1>a, InOrderEnds DEF Mods
    <3>4. QED
      BY <1>1, <3>2, <3>3 DEF FirstWrites, Ends
  <2>6. ~StartsSome(c) /\ ~Intent(c) /\ ~FailsAt(c)
    BY <1>1, StartMoves, IntentMoves, FailMoves DEF StartsSome, Moves, Gone
  <2>7. ~Mark(c) /\ ~DeleteErases(c)
    BY <1>1, ReturnMoves, EraseMoves DEF Mark, Busy, Gone, Moves, SameOp
  <2>8. QED
    BY <2>2, <2>3, <2>4, <2>5, <2>6, <2>7, OwnSteps
<1>2. ASSUME NEW e \in log', e.ok, e.kind # "delete" PROVE Owns(e.id, e.version, e.op)'
  <2>1. CASE e \in log
    <3>1. e.id \in Ids
      BY <2>1 DEF Types, Entry
    <3>2. Owns(e.id, e.version, e.op)
      BY <1>2, <2>1 DEF Snapshots, AckedVersion, Owns
    <3>3. QED
      BY <1>0, <3>1, <3>2
  <2>2. CASE e \notin log
    <3>1. PICK c \in Tasks, ok \in BOOLEAN : Gone(c, ok) /\ (ok <=> task[c].at = "mark")
      BY <2>2, Shapes, StartMoves DEF StartsSome, Goes
    <3>2. /\ e.op = task[c].op /\ e.id = task[c].id /\ e.version = task[c].version
          /\ e.kind = task[c].kind /\ e.ok = ok
      BY <2>2, <3>1 DEF Gone
    <3>3. task[c].at = "mark" /\ task[c].todo = <<>>
      BY <1>2, <3>1, <3>2 DEF TodoFollows
    <3>4. Owns(task[c].id, task[c].version, task[c].op)
      BY <1>2, <3>2, <3>3 DEF Snapshots
    <3>5. QED
      BY <1>0, <1>a, <3>2, <3>4
  <2>3. QED
    BY <2>1, <2>2
<1>3. AckedVersion'
  BY <1>2 DEF AckedVersion, Owns
<1>4. QED
  BY <1>1, <1>3 DEF Snapshots

(* Idle tasks and lists of writes stay as they are, and what is in the     *)
(* history was put there by an operation that started.                     *)
LEMMA TracedStep ==
    ASSUME Types, TodoFollows, OpsApart, Traced, [Next]_vars
    PROVE  Traced'
<1>1. ASSUME NEW c \in Tasks, ~Busy(c)' PROVE task'[c] = Idle
  <2>1. CASE task'[c] = task[c]
    BY <1>1, <2>1 DEF Traced, Busy
  <2>2. CASE FailsAt(c)
    BY <2>2, FailMoves DEF Gone
  <2>3. CASE Mark(c)
    BY <2>3, ReturnMoves DEF Mark, Busy, Gone
  <2>4. ~StartsSome(c) /\ ~Intent(c) /\ ~LockOne(c) /\ ~DeleteErases(c)
    BY <1>1, StartMoves, IntentMoves, LockMoves, EraseMoves DEF StartsSome, Moves, Busy
  <2>5. ~Commit(c) /\ ~Register(c) /\ ~\E m \in Mods : Writes(c, m)
    BY <1>1, CommitMoves DEF Moves, Busy, Writes
  <2>6. QED
    BY <2>1, <2>2, <2>3, <2>4, <2>5, OwnSteps
<1>2. ASSUME NEW c \in Tasks, task'[c].at = "write", task'[c].kind # "delete"
      PROVE  Elems(task'[c].todo) \subseteq task'[c].input \cup {"temporal"}
  <2>1. CASE task'[c] = task[c]
    BY <1>2, <2>1 DEF Traced
  <2>2. CASE LockOne(c)
    <3>1. /\ task'[c].todo = FirstWrites(task[c]) /\ task[c].kind # "delete"
          /\ task'[c].input = task[c].input
      BY <1>2, <2>2, LockMoves DEF Moves, SameOp
    <3>2. Elems(InOrder(task[c].input \cup {"temporal"})) \subseteq task[c].input \cup {"temporal"}
      BY InOrderElems
    <3>3. QED
      BY <3>1, <3>2 DEF FirstWrites
  <2>3. ASSUME NEW m \in Mods, Writes(c, m)
        PROVE  Elems(task'[c].todo) \subseteq task'[c].input \cup {"temporal"}
    <3>1. /\ task[c].todo \in Seq(Mods) /\ task[c].todo # <<>> /\ task[c].at = "write"
          /\ task'[c].todo = Tail(task[c].todo) /\ task'[c].input = task[c].input
          /\ task[c].kind # "delete"
      BY <2>3 DEF Writes, Ends, Moves, SameOp
    <3>2. Elems(task[c].todo) \subseteq task[c].input \cup {"temporal"}
      BY <3>1 DEF Traced
    <3>3. \A x : x \in Elems(Tail(task[c].todo)) => x \in Elems(task[c].todo)
      BY <3>1, TailElems
    <3>4. QED
      BY <3>1, <3>2, <3>3
  <2>4. ~StartsSome(c) /\ ~Intent(c) /\ ~FailsAt(c)
    BY <1>2, StartMoves, IntentMoves, FailMoves DEF StartsSome, Moves, Gone
  <2>5. ~Mark(c) /\ ~DeleteErases(c)
    BY <1>2, ReturnMoves, EraseMoves DEF Mark, Busy, Gone, Moves, SameOp
  <2>6. ~Commit(c) /\ ~Register(c)
    BY <1>2, CommitMoves DEF Moves
  <2>7. QED
    BY <2>1, <2>2, <2>3, <2>4, <2>5, <2>6, OwnSteps
<1>3. ASSUME NEW id \in Ids, NEW i \in DOMAIN data'["temporal"][id]
      PROVE  data'["temporal"][id][i] \in 1 .. ops'
  <2> DEFINE v == data'["temporal"][id][i]
  <2>1. \A n \in 1 .. ops : n \in 1 .. ops'
    <3>1. ops' = ops \/ ops' = ops + 1
      BY Shapes, StartMoves DEF StartsSome, Goes
    <3>2. ops \in Nat
      BY StoreAssumption DEF Types, StoreAssumption
    <3>3. QED
      BY <3>1, <3>2
  <2>2. ASSUME NEW j \in DOMAIN data["temporal"][id], v = data["temporal"][id][j]
        PROVE  v \in 1 .. ops
    BY <2>2 DEF Traced
  <2>3. ASSUME NEW c \in Tasks, task[c].at = "write", v = task[c].op PROVE v \in 1 .. ops
    BY <2>3 DEF OpsApart, Busy
  <2>4. "temporal" \in Modalities
    BY DEF Modalities
  <2>5. QED
    BY <2>1, <2>2, <2>3, <2>4, DataSource
<1>4. QED
  BY <1>1, <1>2, <1>3 DEF Traced

(* Whether an operation that started carries a modality does not change.   *)
LEMMA WroteItStable ==
    ASSUME Types, TodoFollows, OpsApart, Traced, [Next]_vars, NEW n \in 1 .. ops, NEW id, NEW m
    PROVE  WroteIt(n, id, m)' <=> WroteIt(n, id, m)
<1>0. n \in Nat /\ n # 0 /\ n # ops + 1 /\ ops \in Nat
  BY StoreAssumption DEF Types, StoreAssumption
<1>a. Idle.op = 0 /\ Idle.input = {}
  BY DEF Idle
<1>1. ASSUME NEW c \in Tasks, StartsSome(c) PROVE WroteIt(n, id, m)' <=> WroteIt(n, id, m)
  <2>1. /\ Others(c) /\ task'[c].op = ops + 1 /\ log' = log /\ ~Busy(c)
    BY <1>1, StartMoves DEF StartsSome
  <2>2. task[c].op = 0
    BY <1>a, <2>1 DEF Traced
  <2>3. \A d \in Tasks : (task'[d].op = n /\ m \in task'[d].input)
                           <=> (task[d].op = n /\ m \in task[d].input)
    BY <1>0, <2>1, <2>2 DEF Others
  <2>4. QED
    BY <2>1, <2>3 DEF WroteIt
<1>2. ASSUME NEW c \in Tasks, Goes(c) PROVE WroteIt(n, id, m)' <=> WroteIt(n, id, m)
  <2>1. \A d \in Tasks : task'[d].op = task[d].op /\ task'[d].input = task[d].input
    BY <1>2 DEF Goes, Others, SameOp
  <2>2. log' = log
    BY <1>2 DEF Goes
  <2>3. QED
    BY <2>1, <2>2 DEF WroteIt
<1>3. ASSUME NEW c \in Tasks, NEW ok \in BOOLEAN, Gone(c, ok)
      PROVE  WroteIt(n, id, m)' <=> WroteIt(n, id, m)
  <2>1. PICK e : e.op = task[c].op /\ e.input = task[c].input /\ log' = log \cup {e}
    BY <1>3 DEF Gone
  <2>2. Others(c) /\ task'[c].op = 0
    BY <1>3, <1>a DEF Gone
  <2>3. WroteIt(n, id, m) => WroteIt(n, id, m)'
    <3>1. ASSUME NEW d \in Tasks, task[d].op = n, m \in task[d].input PROVE WroteIt(n, id, m)'
      BY <2>1, <2>2, <3>1 DEF WroteIt, Others
    <3>2. ASSUME NEW f \in log, f.op = n, m \in f.input PROVE WroteIt(n, id, m)'
      BY <2>1, <3>2 DEF WroteIt
    <3>3. QED
      BY <3>1, <3>2 DEF WroteIt
  <2>4. WroteIt(n, id, m)' => WroteIt(n, id, m)
    <3>1. ASSUME NEW d \in Tasks, task'[d].op = n, m \in task'[d].input PROVE WroteIt(n, id, m)
      <4>1. task'[d] = task[d]
        BY <1>0, <2>2, <3>1 DEF Others
      <4>2. QED
        BY <3>1, <4>1 DEF WroteIt
    <3>2. ASSUME NEW f \in log', f.op = n, m \in f.input PROVE WroteIt(n, id, m)
      BY <2>1, <3>2 DEF WroteIt
    <3>3. QED
      BY <3>1, <3>2 DEF WroteIt
  <2>5. QED
    BY <2>3, <2>4
<1>4. ASSUME task' = task, log' = log PROVE WroteIt(n, id, m)' <=> WroteIt(n, id, m)
  BY <1>4 DEF WroteIt
<1>5. QED
  BY <1>1, <1>2, <1>3, <1>4, Shapes

(* A store and a history that do not change leave the newest version where *)
(* it is.                                                                  *)
LEMMA NewestKept ==
    ASSUME Types, TodoFollows, OpsApart, Traced, [Next]_vars, NEW id \in Ids, NEW m,
           data'[m][id] = data[m][id], data'["temporal"][id] = data["temporal"][id]
    PROVE  Newest(id, m)' <=> Newest(id, m)
<1> DEFINE h == data["temporal"][id]
<1>1. \A i \in DOMAIN h : h[i] \in 1 .. ops
  BY DEF Traced
<1>2. \A i \in DOMAIN h : WroteIt(h[i], id, m)' <=> WroteIt(h[i], id, m)
  <2>1. ASSUME NEW i \in DOMAIN h, NEW n \in 1 .. ops, n = h[i], n = data'["temporal"][id][i]
        PROVE  WroteIt(data["temporal"][id][i], id, m)' <=> WroteIt(h[i], id, m)
    <3>1. WroteIt(n, id, m)' <=> WroteIt(n, id, m)
      BY WroteItStable
    <3>2. QED
      BY <2>1, <3>1
  <2>2. QED
    BY <1>1, <2>1
<1>3. Carriers(id, m)' = Carriers(id, m)
  BY <1>2 DEF Carriers
<1>4. QED
  BY <1>3 DEF Newest

(* A new version at the end of the history: it is the newest if it carries *)
(* the modality and changes nothing otherwise.                             *)
LEMMA NewestAppended ==
    ASSUME Types, TodoFollows, OpsApart, Traced, [Next]_vars, NEW id \in Ids, NEW m,
           NEW n \in 1 .. ops, data'[m][id] = data[m][id],
           data'["temporal"][id] = Append(data["temporal"][id], n),
           WroteIt(n, id, m) => data[m][id] = <<n>>,
           ~WroteIt(n, id, m) => Newest(id, m)
    PROVE  Newest(id, m)'
<1> DEFINE h == data["temporal"][id]
           g == data'["temporal"][id]
           k == Len(h) + 1
<1>0. h \in Seq(Nat) /\ n \in Nat
  BY DEF Types, Modalities
<1>1. /\ DOMAIN g = DOMAIN h \cup {k} /\ g[k] = n /\ k \notin DOMAIN h
      /\ \A i \in DOMAIN h : g[i] = h[i] /\ i <= k
      /\ k <= k
  <2> HIDE DEF h
  <2>1. g = Append(h, n)
    BY DEF h
  <2>2. QED
    BY <1>0, <2>1
<1>2. \A i \in DOMAIN h : h[i] \in 1 .. ops
  BY DEF Traced
<1>3. \A i \in DOMAIN g : g[i] \in 1 .. ops
  BY <1>1, <1>2
<1>4. \A i \in DOMAIN g : WroteIt(data["temporal"][id][i], id, m)' <=> WroteIt(g[i], id, m)
  <2>1. ASSUME NEW i \in DOMAIN g, NEW x \in 1 .. ops, x = g[i]
        PROVE  WroteIt(data["temporal"][id][i], id, m)' <=> WroteIt(x, id, m)
    <3>1. WroteIt(x, id, m)' <=> WroteIt(x, id, m)
      BY WroteItStable
    <3>2. QED
      BY <2>1, <3>1
  <2>2. QED
    BY <1>3, <2>1
<1>5. \A i : i \in Carriers(id, m)' <=> i \in Carriers(id, m) \/ (i = k /\ WroteIt(n, id, m))
  <2>1. \A i : i \in Carriers(id, m)' <=> i \in DOMAIN g /\ WroteIt(g[i], id, m)
    BY <1>4 DEF Carriers
  <2>2. \A i : i \in Carriers(id, m) <=> i \in DOMAIN h /\ WroteIt(h[i], id, m)
    BY DEF Carriers
  <2> HIDE DEF g, h, k
  <2>3. QED
    BY <1>1, <2>1, <2>2
<1>6. CASE WroteIt(n, id, m)
  <2>1. k \in Carriers(id, m)' /\ \A j \in Carriers(id, m)' : j <= k
    BY <1>1, <1>5, <1>6 DEF Carriers
  <2>2. data'[m][id] = <<g[k]>>
    BY <1>1, <1>6
  <2> HIDE DEF k
  <2>3. QED
    BY <2>1, <2>2 DEF Newest
<1>7. CASE ~WroteIt(n, id, m)
  <2>1. Carriers(id, m)' = Carriers(id, m)
    BY <1>5, <1>7
  <2>2. CASE Carriers(id, m) = {}
    BY <2>1, <2>2 DEF Newest
  <2>3. ASSUME NEW i \in Carriers(id, m), \A j \in Carriers(id, m) : j <= i,
               data[m][id] = <<h[i]>>
        PROVE  Newest(id, m)'
    <3>1. g[i] = h[i]
      BY <1>1, <2>3 DEF Carriers
    <3>2. data'[m][id] = <<g[i]>>
      BY <2>3, <3>1
    <3>3. QED
      BY <2>1, <2>3, <3>2 DEF Newest
  <2>4. QED
    BY <1>7, <2>2, <2>3 DEF Newest
<1>8. QED
  BY <1>6, <1>7

(* Nobody fails on a hexad or deletes it now, so nobody did before.        *)
LEMMA QuietBefore ==
    ASSUME Types, TodoFollows, [Next]_vars, NEW id, Quiet(id)'
    PROVE  Quiet(id)
<1>1. log \subseteq log'
  BY Shapes, StartMoves DEF StartsSome, Goes, Gone
<1>2. QED
  BY <1>1, DeletedStable DEF Quiet

(* The writes of the one writer of a hexad keep the order of the versions. *)
LEMMA WriteKeepsOrder ==
    ASSUME Types, TodoFollows, OpsApart, Traced, OneWriterPerHexad, StoreOrder, [Next]_vars,
           NEW c \in Tasks, NEW n \in Mods, Writes(c, n),
           NEW m \in Used \ Growing, Quiet(task[c].id)
    PROVE  HasPut(c, task[c].id, m)'
<1> DEFINE id == task[c].id
<1>0. /\ id \in Ids /\ m \in Modalities /\ m # "temporal" /\ "temporal" \in Modalities
      /\ data[m][id] \in Seq(Nat)
  <2>1. m \in Modalities /\ m # "temporal" /\ "temporal" \in Modalities
    BY StoreAssumption DEF StoreAssumption, Growing, Modalities
  <2>2. QED
    BY <2>1 DEF Types, TaskRec
<1>1. /\ WritesTo(c, id) /\ task[c].todo # <<>> /\ task[c].todo \in Seq(Mods)
      /\ task[c].kind # "delete" /\ Busy(c)
      /\ n = Head(task[c].todo) /\ task'[c].todo = Tail(task[c].todo)
      /\ task'[c].id = id /\ task'[c].input = task[c].input /\ task'[c].op = task[c].op
  BY DEF Writes, Moves, SameOp, WritesTo, Ends, Busy
<1>2. /\ m \in task[c].input => m \in Elems(task[c].todo) \/ data[m][id] = <<task[c].op>>
      /\ Newest(id, m) \/ (m \in task[c].input /\ data[m][id] = <<task[c].op>>)
  BY <1>0, <1>1 DEF StoreOrder, HasPut
<1>3. \A x : x \in Elems(task[c].todo) <=> x = n \/ x \in Elems(Tail(task[c].todo))
  BY <1>1, TailElems
<1>4. Tail(task[c].todo) = <<>> <=> n = "temporal"
  BY EndsTail DEF Writes
<1>5. CASE n # "temporal" /\ n # m
  <2>1. data'[m][id] = data[m][id] /\ data'["temporal"][id] = data["temporal"][id]
    BY <1>0, <1>5, WriteData
  <2>2. Newest(id, m)' <=> Newest(id, m)
    <3>1. ASSUME NEW i \in Ids, i = task'[c].id, data'[m][i] = data[m][i],
                 data'["temporal"][i] = data["temporal"][i]
          PROVE  Newest(task[c].id, m)' <=> Newest(i, m)
      <4>1. Newest(i, m)' <=> Newest(i, m)
        BY <3>1, NewestKept
      <4>2. QED
        BY <3>1, <4>1
    <3>2. QED
      BY <1>0, <1>1, <2>1, <3>1
  <2>3. QED
    BY <1>1, <1>2, <1>3, <1>4, <1>5, <2>1, <2>2 DEF HasPut
<1>6. CASE n = m
  <2>1. data'[m][id] = <<task[c].op>>
    <3>1. data'[m][id] = Processed(m, data[m][id], task[c].op)
      BY <1>0, <1>6, WriteData
    <3>2. QED
      BY <3>1 DEF Processed
  <2>2. m \in task[c].input
    BY <1>0, <1>1, <1>3, <1>6 DEF Traced, WritesTo
  <2>3. QED
    BY <1>0, <1>1, <1>4, <1>6, <2>1, <2>2 DEF HasPut
<1>7. CASE n = "temporal"
  <2>1. Elems(Tail(task[c].todo)) = {}
    <3>1. Elems(<<>>) = {}
      BY DEF Elems
    <3>2. QED
      BY <1>4, <1>7, <3>1
  <2>2. m \in task[c].input => data[m][id] = <<task[c].op>>
    BY <1>0, <1>2, <1>3, <1>7, <2>1
  <2>3. WroteIt(task[c].op, id, m) <=> m \in task[c].input
    <3>1. \A e \in log : e.op # task[c].op
      BY <1>1 DEF OpsApart
    <3>2. Idle.op = 0 /\ task[c].op \in 1 .. ops
      BY <1>1 DEF OpsApart, Idle
    <3>3. \A d \in Tasks : task[d].op = task[c].op => d = c
      BY <1>1, <3>2 DEF OpsApart, Traced
    <3>4. QED
      BY <3>1, <3>3 DEF WroteIt
  <2>4. data'[m][id] = data[m][id]
    BY <1>0, <1>7, WriteData
  <2>5. data'["temporal"][id] = Append(data["temporal"][id], task[c].op)
    BY <1>7, TakesSnapshot
  <2>6. task[c].op \in 1 .. ops
    BY <1>1 DEF OpsApart
  <2>7. ~WroteIt(task[c].op, id, m) => Newest(id, m)
    BY <1>2, <2>3
  <2>8. ASSUME NEW i \in Ids, i = task[c].id, i = task'[c].id PROVE Newest(task[c].id, m)'
    <3>1. Newest(i, m)'
      BY <2>2, <2>3, <2>4, <2>5, <2>6, <2>7, <2>8, NewestAppended
    <3>2. QED
      BY <2>8, <3>1
  <2>9. QED
    BY <1>0, <1>1, <1>4, <1>7, <2>8 DEF HasPut
<1>8. QED
  BY <1>5, <1>6, <1>7

(* The stores keep the order of the versions.                              *)
LEMMA StoreOrderStep ==
    ASSUME Types, TodoFollows, OpsApart, Traced, OneWriterPerHexad, OneWriterPerHexad',
           StoreOrder, [Next]_vars
    PROVE  StoreOrder'
<1> DEFINE Goal(id, m) ==
             /\ (\A c \in Tasks : ~WritesTo(c, id)') => Newest(id, m)'
             /\ \A c \in Tasks : WritesTo(c, id)' => HasPut(c, id, m)'
<1> SUFFICES ASSUME NEW id \in Ids, NEW m \in Used \ Growing, Quiet(id)' PROVE Goal(id, m)
  BY DEF StoreOrder
<1>0. /\ Quiet(id) /\ m \in Modalities /\ "temporal" \in Modalities
  <2>1. m \in Modalities /\ "temporal" \in Modalities
    BY StoreAssumption DEF StoreAssumption, Modalities
  <2>2. QED
    BY <2>1, QuietBefore
<1>1. /\ (\A c \in Tasks : ~WritesTo(c, id)) => Newest(id, m)
      /\ \A c \in Tasks : WritesTo(c, id) => HasPut(c, id, m)
  BY <1>0 DEF StoreOrder
<1> DEFINE Still == data'[m][id] = data[m][id] /\ data'["temporal"][id] = data["temporal"][id]
<1>2. Still => (Newest(id, m)' <=> Newest(id, m))
  BY NewestKept
<1>3. ASSUME NEW d \in Tasks, task'[d] = task[d], Still
      PROVE  (WritesTo(d, id)' <=> WritesTo(d, id)) /\ (HasPut(d, id, m) => HasPut(d, id, m)')
  BY <1>2, <1>3 DEF WritesTo, HasPut
<1>4. ASSUME NEW c \in Tasks, Others(c), ~WritesTo(c, id), ~WritesTo(c, id)', Still
      PROVE  Goal(id, m)
  BY <1>1, <1>2, <1>3, <1>4 DEF Others
<1>5. ASSUME task' = task, data' = data PROVE Goal(id, m)
  BY <1>1, <1>2, <1>3, <1>5
<1> HIDE DEF Goal, Still
<1>6. data' = data => Still
  BY DEF Still
<1>7. ASSUME NEW c \in Tasks, StartsSome(c) \/ Intent(c) \/ Register(c) \/ Mark(c)
      PROVE  Goal(id, m)
  <2>1. CASE StartsSome(c)
    <3>1. Others(c) /\ ~Busy(c) /\ task'[c].at = "intent" /\ data' = data
      BY <2>1, StartMoves DEF StartsSome
    <3>2. QED
      BY <1>4, <1>6, <3>1 DEF WritesTo, Busy
  <2>2. CASE Intent(c)
    BY <1>4, <1>6, <2>2, IntentMoves DEF Intent, Moves, WritesTo
  <2>3. CASE Register(c)
    BY <1>4, <1>6, <2>3, CommitMoves DEF Register, Moves, WritesTo
  <2>4. CASE Mark(c)
    BY <1>4, <1>6, <2>4, ReturnMoves DEF Mark, Busy, Gone, WritesTo
  <2>5. QED
    BY <1>7, <2>1, <2>2, <2>3, <2>4
<1>8. ASSUME NEW c \in Tasks, FailsAt(c) PROVE Goal(id, m)
  <2>1. Gone(c, FALSE)
    BY <1>8, FailMoves
  <2>2. task[c].id # id
    <3> DEFINE e == [op |-> task[c].op, kind |-> task[c].kind, id |-> task[c].id,
                     input |-> task[c].input, version |-> task[c].version, ok |-> FALSE]
    <3>1. e \in log' /\ e.id = task[c].id /\ ~e.ok
      BY <2>1 DEF Gone
    <3> HIDE DEF e
    <3>2. QED
      BY <3>1 DEF Quiet
  <2>3. Still
    <3>1. CASE IntentFails(c) \/ LockRefused(c)
      BY <1>6, <3>1 DEF IntentFails, LockRefused
    <3>2. CASE CreateFails(c) \/ UpdateFails(c)
      BY <1>0, <2>2, <3>2, LeftData DEF Still
    <3>3. QED
      BY <1>8, <3>1, <3>2 DEF FailsAt
  <2>4. QED
    BY <1>4, <2>1, <2>2, <2>3 DEF Gone, WritesTo
<1>9. ASSUME NEW c \in Tasks, LockOne(c) PROVE Goal(id, m)
  <2>1. Still
    BY <1>6, <1>9 DEF LockOne
  <2>2. Others(c) /\ SameOp(c) /\ task[c].at = "lock" /\ ~WritesTo(c, id)
    BY <1>9, LockMoves DEF Moves, WritesTo
  <2>3. CASE WritesTo(c, id)'
    <3>1. task[c].kind # "delete"
      BY <2>2, <2>3 DEF WritesTo, SameOp, Quiet, Deleted, Erasing
    <3>2. \A d \in Tasks : d # c => ~WritesTo(d, id) /\ ~WritesTo(d, id)'
      BY <2>2, <2>3 DEF OneWriterPerHexad, WritesTo, Others
    <3>3. Newest(id, m) /\ Newest(id, m)'
      BY <1>1, <1>2, <2>1, <2>2, <3>2
    <3>4. task'[c].todo = InOrder(task[c].input \cup {"temporal"})
      BY <1>9, <2>3, <3>1, LockMoves DEF WritesTo, Moves, FirstWrites
    <3>5. task'[c].todo # <<>>
      <4>1. task[c].input \cup {"temporal"} \in SUBSET Mods
        BY DEF Types, TaskRec, Mods
      <4>2. QED
        BY <3>4, <4>1, InOrderEnds DEF Ends
    <3>6. m \in task'[c].input => m \in Elems(task'[c].todo)
      <4>1. Elems(InOrder(task[c].input \cup {"temporal"}))
              = (task[c].input \cup {"temporal"}) \cap Modalities
        BY InOrderElems
      <4>2. QED
        BY <1>0, <2>2, <3>4, <4>1 DEF SameOp
    <3>7. HasPut(c, id, m)'
      BY <3>3, <3>5, <3>6 DEF HasPut
    <3>8. QED
      BY <3>2, <3>3, <3>7 DEF Goal
  <2>4. QED
    BY <1>4, <2>1, <2>2, <2>3
<1>10. ASSUME NEW c \in Tasks, NEW n \in Mods, Writes(c, n) PROVE Goal(id, m)
  <2>1. Others(c) /\ SameOp(c) /\ task[c].at = "write" /\ task'[c].at = "write"
    BY <1>10 DEF Writes, Moves
  <2>2. CASE task[c].id # id
    <3>1. Still
      BY <1>0, <1>10, <2>2, WriteData DEF Still
    <3>2. QED
      BY <1>4, <2>1, <2>2, <3>1 DEF WritesTo, SameOp
  <2>3. CASE task[c].id = id
    <3>1. HasPut(c, task[c].id, m)'
      BY <1>0, <1>10, <2>3, WriteKeepsOrder
    <3>2. HasPut(c, id, m)'
      BY <2>1, <2>3, <3>1 DEF SameOp
    <3>3. WritesTo(c, id)' /\ \A d \in Tasks : d # c => ~WritesTo(d, id)'
      BY <2>1, <2>3 DEF OneWriterPerHexad, WritesTo, Others, SameOp
    <3>4. QED
      BY <3>2, <3>3 DEF Goal
  <2>4. QED
    BY <2>2, <2>3
<1>11. ASSUME NEW c \in Tasks, DeleteErases(c) PROVE Goal(id, m)
  <2>1. Others(c) /\ SameOp(c) /\ task[c].at = "write" /\ task[c].kind = "delete"
    BY <1>11, EraseMoves DEF Moves
  <2>2. task[c].id # id
    BY <1>0, <2>1 DEF Quiet, Deleted, Erasing
  <2>3. Still
    BY <1>0, <1>11, <2>2, EraseData DEF Still
  <2>4. QED
    BY <1>4, <2>1, <2>2, <2>3 DEF WritesTo, SameOp
<1>12. ASSUME NEW c \in Tasks, Commit(c) PROVE Goal(id, m)
  <2>1. /\ Others(c) /\ SameOp(c) /\ task[c].at = "write" /\ task[c].todo = <<>>
        /\ task'[c].at = "register" /\ Still
    BY <1>6, <1>12, CommitMoves DEF Moves, Commit
  <2>2. CASE task[c].id # id
    BY <1>4, <2>1, <2>2 DEF WritesTo, SameOp
  <2>3. CASE task[c].id = id
    <3>1. \A d \in Tasks : ~WritesTo(d, id)'
      BY <2>1, <2>3 DEF OneWriterPerHexad, WritesTo, Others
    <3>2. Newest(id, m)
      BY <1>1, <2>1, <2>3 DEF WritesTo, HasPut
    <3>3. QED
      BY <1>2, <2>1, <3>1, <3>2 DEF Goal
  <2>4. QED
    BY <2>2, <2>3
<1>13. ASSUME NEW c \in Tasks, CreateWrites(c) \/ UpdateWrites(c) PROVE \E n \in Mods : Writes(c, n)
  BY <1>13, WriteMoves DEF Writes
<1>14. ASSUME NEW c \in Tasks, NEW i \in Ids, NotFound(c, i) PROVE Goal(id, m)
  BY <1>5, <1>14 DEF NotFound
<1>15. ASSUME NEW r \in Readers, ReadStart(r) \/ Load(r) PROVE Goal(id, m)
  BY <1>5, <1>15, ReadMoves
<1>16. CASE UNCHANGED vars
  BY <1>5, <1>16 DEF vars
<1>17. QED
  BY <1>7, <1>8, <1>9, <1>10, <1>11, <1>12, <1>13, <1>14, <1>15, <1>16, StepCases DEF FailsAt

(* The invariant of the versions holds in every state.                     *)
THEOREM VersionsSound == Spec => []VersionInv
<1>1. Init => VersionInv
  <2> SUFFICES ASSUME Init PROVE VersionInv
    OBVIOUS
  <2>0. Idle.at = "idle" /\ "temporal" \in Modalities /\ DOMAIN <<>> = {}
    BY DEF Idle, Modalities
  <2>1. /\ \A c \in Tasks : task[c].at = "idle" /\ task[c] = Idle
        /\ log = {}
    BY <2>0 DEF Init
  <2>2. \A id \in Ids : DOMAIN data["temporal"][id] = {}
    <3>1. \A id \in Ids : data["temporal"][id] = <<>>
      BY <2>0 DEF Init
    <3>2. QED
      BY <2>0, <3>1
  <2>3. Snapshots
    BY <2>1 DEF Snapshots, AckedVersion
  <2>4. Traced
    BY <2>1, <2>2 DEF Traced, Busy
  <2>5. StoreOrder
    BY <2>1, <2>2 DEF StoreOrder, WritesTo, Newest, Carriers
  <2>6. QED
    BY <2>3, <2>4, <2>5 DEF VersionInv
<1>2. /\ Types /\ LockInv /\ WritersExclude /\ WritersExclude' /\ VersionInv /\ [Next]_vars
      => VersionInv'
  BY SnapshotsStep, TracedStep, StoreOrderStep DEF LockInv, WritersExclude, VersionInv
<1>3. QED
  BY <1>1, <1>2, LocksSound, WritersExcluded, PTL DEF Spec

(* Every operation that returned Ok owns the version it was told, and the  *)
(* order of the writes in every store is the order of the versions, though *)
(* an update reads the hexad before it has locked anything.                *)
THEOREM VersionsInOrder == Spec => []VersionsOrdered
<1>1. Types /\ VersionInv => VersionsOrdered
  <2> SUFFICES ASSUME Types, VersionInv PROVE NewestVersionWins
    BY DEF VersionsOrdered, VersionInv, Snapshots
  <2> SUFFICES ASSUME NEW id \in Ids,
                      \A c \in Tasks : task[c].id = id => task[c].at # "write",
                      Quiet(id), NEW m \in Used \ Growing, Carriers(id, m) # {}
               PROVE  data[m][id] = <<data["temporal"][id][CHOOSE i \in Carriers(id, m) :
                                        \A j \in Carriers(id, m) : j <= i]>>
    BY DEF NewestVersionWins, Quiet, Carriers
  <2>1. Newest(id, m)
    BY DEF VersionInv, StoreOrder, WritesTo
  <2>2. PICK i \in Carriers(id, m) : /\ \A j \in Carriers(id, m) : j <= i
                                     /\ data[m][id] = <<data["temporal"][id][i]>>
    BY <2>1 DEF Newest
  <2> DEFINE k == CHOOSE j \in Carriers(id, m) : \A l \in Carriers(id, m) : l <= j
  <2>3. k \in Carriers(id, m) /\ \A l \in Carriers(id, m) : l <= k
    BY <2>2
  <2>4. Carriers(id, m) \subseteq Nat
    <3>1. data["temporal"][id] \in Seq(Nat)
      BY DEF Types, Modalities
    <3>2. QED
      BY <3>1 DEF Carriers
  <2> HIDE DEF k
  <2>5. k = i
    BY <2>2, <2>3, <2>4
  <2>6. QED
    BY <2>2, <2>5 DEF k
<1>2. QED
  BY <1>1, LocksSound, VersionsSound, PTL
=============================================================================
