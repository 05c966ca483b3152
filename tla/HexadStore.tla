------------------------------ MODULE HexadStore ------------------------------
(***************************************************************************)
(* InMemoryHexadStore (store.rs): create, update, delete and the reads of  *)
(* a hexad that lives in eight modality stores and a registry, over the    *)
(* locks of the transaction manager and the intents of the write-ahead     *)
(* log.  Every await is a place where another task may run: a task takes   *)
(* its locks and writes its modalities one at a time.                      *)
(*                                                                         *)
(* What an operation writes is its own number.  A modality store maps a    *)
(* hexad to the sequence of numbers it holds: the graph, the provenance    *)
(* chain and the version history grow, the other stores keep the last one. *)
(***************************************************************************)
EXTENDS Naturals, Sequences, FiniteSets

Modalities == {"graph", "vector", "document", "tensor", "semantic",
               "provenance", "spatial", "temporal"}

CONSTANTS Ids,       \* hexad identifiers that HexadId::generate returns
          Tasks,     \* tasks that call the store
          Readers,   \* tasks that read from it
          Used,      \* the modalities that inputs populate
          Inputs,    \* the inputs: which of them are given
          Failing,   \* the modalities whose calls may fail
          WalFails,  \* the log may refuse an append
          MaxOps     \* bound on the operations started

ASSUME StoreAssumption ==
    /\ Ids # {}
    /\ Used \subseteq Modalities \ {"temporal"}
    /\ Inputs \subseteq SUBSET Used
    /\ Failing \subseteq Modalities
    /\ WalFails \in BOOLEAN
    /\ MaxOps \in Nat

Ops == 1 .. MaxOps

VARIABLES registry,   \* hexads: the HexadStatus of each live hexad, or Absent
          data,       \* the modality stores
          phase,      \* the transaction of each operation (LockService)
          held,       \* the lock table (LockService)
          wal,        \* intents in the log, COMMITTED markers per hexad
          ops,        \* operations started so far
          task,       \* what each task is doing
          reads,      \* what each reader is doing
          log         \* history: the operations that returned, with the answer

vars == <<registry, data, phase, held, wal, ops, task, reads, log>>

Keys == Ids \X (Used \cup {"temporal"})

Locks == INSTANCE LockService WITH Txns <- Ops

Absent == [version |-> 0, flags |-> {}]
Live(id) == registry[id] # Absent

(* The elements of S in the order in which the code goes through them: an  *)
(* array of options, flattened.                                            *)
ThenSome(S, m) == IF m \in S THEN <<m>> ELSE <<>>

InOrder(S) ==
    ThenSome(S, "graph") \o ThenSome(S, "vector") \o ThenSome(S, "document")
      \o ThenSome(S, "tensor") \o ThenSome(S, "semantic") \o ThenSome(S, "provenance")
      \o ThenSome(S, "spatial") \o ThenSome(S, "temporal")

Idle == [op |-> 0, kind |-> "none", at |-> "idle", id |-> CHOOSE i \in Ids : TRUE,
         input |-> {}, bad |-> "none", todo |-> <<>>, flags |-> {}, version |-> 0]

NoRead == [at |-> "idle", found |-> {}, id |-> CHOOSE i \in Ids : TRUE,
           flags |-> {}, todo |-> <<>>, got |-> {}]

Init ==
    /\ registry = [id \in Ids |-> Absent]
    /\ data = [m \in Modalities |-> [id \in Ids |-> <<>>]]
    /\ Locks!LockInit
    /\ wal = [intents |-> {}, committed |-> [id \in Ids |-> 0]]
    /\ ops = 0
    /\ task = [c \in Tasks |-> Idle]
    /\ reads = [r \in Readers |-> NoRead]
    /\ log = {}
-----------------------------------------------------------------------------
(* What a process_* call leaves in its modality store: one more edge set,  *)
(* lineage event or version, or the new value in place of the old.         *)
Growing == {"graph", "provenance", "temporal"}

Processed_KeepsOld(m, s, n) ==
    IF m \in Growing THEN Append(s, n) ELSE IF s = <<>> THEN <<n>> ELSE s

Processed(m, s, n) == IF m \in Growing THEN Append(s, n) ELSE <<n>>

(* What one that fails leaves behind.  The vector, tensor and spatial data *)
(* are checked before they are stored; of the edges some may be inserted,  *)
(* and a document is in the store's map when the index refuses its commit. *)
LeftBy(m, s, n) ==
    IF m \in {"graph", "document"} THEN {s, Processed(m, s, n)} ELSE {s}

Erased == {"vector", "document", "tensor"}

Erase(d, ms, id) ==
    [m \in Modalities |-> IF m \in ms THEN [d[m] EXCEPT ![id] = <<>>] ELSE d[m]]

(* rollback_create: of what was written the three stores that can delete,  *)
(* whose errors are dropped.  The deletes are one step: the id is not in   *)
(* the registry, so that nobody loads it meanwhile.                        *)
RollbackCreate(d, o) ==
    {Erase(d, (o.flags \cap Erased) \ kept, o.id) : kept \in SUBSET Failing}

Returns(c, ok) ==
    /\ log' = log \cup {[op |-> task[c].op, kind |-> task[c].kind, id |-> task[c].id,
                         input |-> task[c].input, version |-> task[c].version, ok |-> ok]}
    /\ task' = [task EXCEPT ![c] = Idle]
-----------------------------------------------------------------------------
(* An operation starts: create takes an id that was never used, update and *)
(* delete copy the status of the hexad, which may change before they lock. *)
Starts(c, kind, id, input, bad) ==
    /\ task[c].at = "idle" /\ ops < MaxOps
    /\ ops' = ops + 1
    /\ task' = [task EXCEPT ![c] =
                  [op |-> ops + 1, kind |-> kind, at |-> "intent", id |-> id,
                   input |-> input, bad |-> bad, todo |-> <<>>,
                   flags |-> registry[id].flags, version |-> registry[id].version]]
    /\ UNCHANGED <<registry, data, phase, held, wal, reads, log>>

UsedIds == {i.id : i \in wal.intents} \cup {task[c].id : c \in {b \in Tasks : task[b].at # "idle"}}
             \cup {e.id : e \in log}

CreateStart(c, id, input, bad) ==
    /\ id \notin UsedIds
    /\ Starts(c, "create", id, input, bad)

UpdateStart(c, id, input, bad) ==
    /\ Live(id)
    /\ Starts(c, "update", id, input, bad)

DeleteStart(c, id) ==
    /\ Live(id)
    /\ Starts(c, "delete", id, {}, "none")

(* update and delete of a hexad that the registry does not hold.           *)
NotFound(c, id) ==
    /\ task[c].at = "idle" /\ ops < MaxOps
    /\ ~Live(id)
    /\ ops' = ops + 1
    /\ UNCHANGED <<registry, data, phase, held, wal, task, reads, log>>

LockList_NoTemporal(o) == InOrder(IF o.kind = "delete" THEN o.flags \ {"temporal"} ELSE o.input)

(* The locks an operation takes: what it writes, or what it found when it  *)
(* started, and always the version history.                                *)
LockList(o) ==
    InOrder((IF o.kind = "delete" THEN o.flags ELSE o.input) \cup {"temporal"})

(* The intent goes to the log before anything else happens, then the       *)
(* transaction begins.                                                     *)
Intent(c) ==
    /\ task[c].at = "intent"
    /\ wal' = [wal EXCEPT !.intents = @ \cup {[op |-> task[c].op, id |-> task[c].id]}]
    /\ Locks!Begin(task[c].op)
    /\ task' = [task EXCEPT ![c].at = "lock", ![c].todo = LockList(task[c])]
    /\ UNCHANGED <<registry, data, ops, reads, log>>

(* wal_append fails: the operation returns before it has touched anything. *)
IntentFails(c) ==
    /\ task[c].at = "intent" /\ WalFails
    /\ Returns(c, FALSE)
    /\ UNCHANGED <<registry, data, phase, held, wal, ops, reads>>

(* The next lock of the list, all of them exclusive.                       *)
LockOne(c) ==
    LET o == task[c]
        rest == Tail(o.todo)
        next == InOrder(IF o.kind = "delete" THEN Erased ELSE o.input \cup {"temporal"})
    IN  /\ o.at = "lock"
        /\ Locks!Grant(o.op, <<o.id, Head(o.todo)>>, "exclusive")
        /\ task' = [task EXCEPT ![c].todo = IF rest = <<>> THEN next ELSE rest,
                                ![c].at = IF rest = <<>> THEN "write" ELSE "lock",
                                ![c].flags = IF o.kind = "create" THEN {} ELSE @]
        /\ UNCHANGED <<registry, data, wal, ops, reads, log>>

(* A conflict (or a deadlock) is an error at once: the transaction is      *)
(* rolled back and gives back the locks it has.                            *)
LockRefused(c) ==
    /\ task[c].at = "lock"
    /\ ~Locks!Grantable(task[c].op, <<task[c].id, Head(task[c].todo)>>, "exclusive")
    /\ Locks!Finish(task[c].op)
    /\ Returns(c, FALSE)
    /\ UNCHANGED <<registry, data, wal, ops, reads>>

Writing(c, m) ==
    /\ task[c].at = "write" /\ task[c].todo # <<>>
    /\ m = Head(task[c].todo)

Write(c, m, flags) ==
    /\ data' = [data EXCEPT ![m][task[c].id] = Processed(m, @, task[c].op)]
    /\ task' = [task EXCEPT ![c].todo = Tail(@), ![c].flags = flags,
                            ![c].version = IF m = "temporal"
                                           THEN Len(data[m][task[c].id]) + 1 ELSE @]
    /\ UNCHANGED <<registry, phase, held, wal, ops, reads, log>>

(* create: the next modality, or the version snapshot that comes last.     *)
CreateWrites(c) ==
    \E m \in Modalities \ {task[c].bad} :
        /\ task[c].kind = "create"
        /\ Writing(c, m)
        /\ Write(c, m, task[c].flags \cup {m})

(* create: a process call or the snapshot fails.                           *)
CreateFails(c) ==
    LET o == task[c]
    IN  /\ o.kind = "create"
        /\ Writing(c, o.bad)
        /\ \E s \in LeftBy(o.bad, data[o.bad][o.id], o.op) :
             data' \in RollbackCreate([data EXCEPT ![o.bad][o.id] = s], o)
        /\ Locks!Finish(o.op)
        /\ Returns(c, FALSE)
        /\ UNCHANGED <<registry, wal, ops, reads>>

(* update: the same writes on top of the status copied at the start.       *)
UpdateWrites(c) ==
    \E m \in Modalities \ {task[c].bad} :
        /\ task[c].kind = "update"
        /\ Writing(c, m)
        /\ Write(c, m, task[c].flags \cup ({m} \ {"temporal"}))

UpdateFails_Ignored(c) ==
    /\ task[c].kind = "update"
    /\ Writing(c, task[c].bad)
    /\ task' = [task EXCEPT ![c].todo = Tail(@), ![c].flags = @ \cup {task[c].bad}]
    /\ UNCHANGED <<registry, data, phase, held, wal, ops, reads, log>>

UpdateFails_Retries(c) ==
    /\ task[c].kind = "update"
    /\ Writing(c, task[c].bad)
    /\ UNCHANGED vars

(* update: what was written before the failure stays.                      *)
UpdateFails(c) ==
    LET o == task[c]
    IN  /\ o.kind = "update"
        /\ Writing(c, o.bad)
        /\ \E s \in LeftBy(o.bad, data[o.bad][o.id], o.op) :
             data' = [data EXCEPT ![o.bad][o.id] = s]
        /\ Locks!Finish(o.op)
        /\ Returns(c, FALSE)
        /\ UNCHANGED <<registry, wal, ops, reads>>

(* delete: three stores are emptied one after the other, whatever the      *)
(* status said, the others keep what they have; a store that refuses keeps *)
(* its data too, and nobody is told.                                       *)
DeleteErases(c) ==
    /\ task[c].kind = "delete" /\ task[c].at = "write" /\ task[c].todo # <<>>
    /\ \/ data' = Erase(data, {Head(task[c].todo)}, task[c].id)
       \/ Head(task[c].todo) \in Failing /\ UNCHANGED data
    /\ task' = [task EXCEPT ![c].todo = Tail(@)]
    /\ UNCHANGED <<registry, phase, held, wal, ops, reads, log>>

(* commit gives back the locks; a read-committed transaction validates     *)
(* nothing and cannot fail here.                                           *)
Commit(c) ==
    /\ task[c].at = "write" /\ task[c].todo = <<>>
    /\ Locks!Finish(task[c].op)
    /\ task' = [task EXCEPT ![c].at = "register"]
    /\ UNCHANGED <<registry, data, wal, ops, reads, log>>

(* Only then the registry learns of it.                                    *)
Register(c) ==
    LET o == task[c]
    IN  /\ o.at = "register"
        /\ registry' = [registry EXCEPT ![o.id] =
                          IF o.kind = "delete" THEN Absent
                          ELSE [version |-> o.version, flags |-> o.flags]]
        /\ task' = [task EXCEPT ![c].at = "mark"]
        /\ UNCHANGED <<data, phase, held, wal, ops, reads, log>>

Marker(o, w) == [w EXCEPT !.committed[o.id] = @ + 1]

(* The COMMITTED marker and the checkpoint, each of which may fail unseen. *)
Mark(c) ==
    /\ task[c].at = "mark"
    /\ \/ wal' = Marker(task[c], wal)
       \/ WalFails /\ UNCHANGED wal
    /\ Returns(c, TRUE)
    /\ UNCHANGED <<registry, data, phase, held, ops, reads>>
-----------------------------------------------------------------------------
(* Where a read takes the hexads to load from: the id it was given, with   *)
(* at_time only if the history has a version; the vector index; the text   *)
(* index, which may still name a deleted hexad; the targets of the edges   *)
(* of a node; the keys of the registry.                                    *)
Given == {{id} : id \in Ids}
AtTime == {{id} : id \in {i \in Ids : data["temporal"][i] # <<>>}}
Similar == SUBSET {id \in Ids : data["vector"][id] # <<>>}
Matching == SUBSET {id \in Ids : data["document"][id] # <<>> \/ id \in UsedIds}
Related == IF \E id \in Ids : data["graph"][id] # <<>> THEN SUBSET Ids ELSE {{}}
Listed == SUBSET {id \in Ids : Live(id)}

ReadStart(r) ==
    /\ reads[r].at = "idle"
    /\ \E found \in Given \cup AtTime \cup Similar \cup Matching \cup Related \cup Listed :
         reads' = [reads EXCEPT ![r] = [NoRead EXCEPT !.at = "load", !.found = found]]
    /\ UNCHANGED <<registry, data, phase, held, wal, ops, task, log>>

Loaded == Modalities \ {"graph", "temporal"}

(* load_hexad: the status is copied and the registry's lock dropped, ...   *)
LoadStatus(r, id) ==
    /\ reads[r].at = "load" /\ reads[r].todo = <<>>
    /\ id \in reads[r].found
    /\ reads' = [reads EXCEPT ![r].found = @ \ {id}, ![r].id = id, ![r].got = {},
                              ![r].flags = registry[id].flags,
                              ![r].todo = InOrder(registry[id].flags \cap Loaded)]
    /\ UNCHANGED <<registry, data, phase, held, wal, ops, task, log>>

(* ... then every flagged modality is read from its store, without a lock. *)
LoadModality(r) ==
    LET m == Head(reads[r].todo)
    IN  /\ reads[r].todo # <<>>
        /\ reads' = [reads EXCEPT ![r].todo = Tail(@),
                       ![r].got = IF data[m][reads[r].id] = <<>> THEN @ ELSE @ \cup {m}]
        /\ UNCHANGED <<registry, data, phase, held, wal, ops, task, log>>

ReadDone(r) ==
    /\ reads[r].at = "load" /\ reads[r].todo = <<>> /\ reads[r].found = {}
    /\ reads' = [reads EXCEPT ![r] = NoRead]
    /\ UNCHANGED <<registry, data, phase, held, wal, ops, task, log>>
-----------------------------------------------------------------------------
(* An input and the modality whose call fails, if any.                     *)
Calls == {i \in [input : Inputs, bad : Failing \cup {"none"}] :
            i.bad = "none" \/ i.bad \in i.input \cup {"temporal"}}

Step(c) ==
    \/ Intent(c) \/ IntentFails(c)
    \/ LockOne(c) \/ LockRefused(c)
    \/ CreateWrites(c) \/ CreateFails(c)
    \/ UpdateWrites(c) \/ UpdateFails(c)
    \/ DeleteErases(c)
    \/ Commit(c) \/ Register(c) \/ Mark(c)

Load(r) ==
    (\E id \in Ids : LoadStatus(r, id)) \/ LoadModality(r) \/ ReadDone(r)

Next ==
    \/ \E c \in Tasks, id \in Ids :
         \/ \E i \in Calls : CreateStart(c, id, i.input, i.bad)
         \/ \E i \in Calls : UpdateStart(c, id, i.input, i.bad)
         \/ DeleteStart(c, id)
         \/ NotFound(c, id)
    \/ \E c \in Tasks : Step(c)
    \/ \E r \in Readers : ReadStart(r) \/ Load(r)

(* The runtime polls a task that can go on; nobody has to start one.       *)
Spec ==
    /\ Init /\ [][Next]_vars
    /\ \A c \in Tasks : WF_vars(Step(c))
-----------------------------------------------------------------------------
(* Properties.                                                             *)

Status == [version : 0 .. MaxOps, flags : SUBSET Modalities]

(* Type correctness.                                                       *)
TypeOK ==
    /\ registry \in [Ids -> Status]
    /\ \A m \in Modalities, id \in Ids : data[m][id] \in Seq(Ops)
    /\ phase \in [Ops -> {"new", "running", "finished"}]
    /\ held \in [Keys -> [Ops -> SUBSET Locks!Modes]]
    /\ wal.intents \subseteq [op : Ops, id : Ids]
    /\ wal.committed \in [Ids -> 0 .. MaxOps]
    /\ ops \in 0 .. MaxOps
    /\ \A c \in Tasks : task[c].op \in 0 .. MaxOps /\ task[c].id \in Ids
    /\ \A r \in Readers : reads[r].found \subseteq Ids /\ reads[r].got \subseteq Modalities

(* No two operations write to one hexad at the same time, although they    *)
(* lock different modalities and delete erases stores it may not have      *)
(* locked: all of them lock the version history before their first write   *)
(* (modality_names and populated end in "temporal").                       *)
OneWriterPerHexad ==
    \A c, d \in Tasks :
        (task[c].at = "write" /\ task[d].at = "write" /\ task[c].id = task[d].id) => c = d

(* Nothing is in a modality store or in the registry whose intent is not   *)
(* in the write-ahead log, whatever failed before or since.                *)
IntentFirst ==
    \A id \in Ids :
        /\ \A m \in Modalities : \A i \in DOMAIN data[m][id] :
             [op |-> data[m][id][i], id |-> id] \in wal.intents
        /\ Live(id) => \E i \in wal.intents : i.id = id

(* Every update or create that returned Ok has the version it was told to  *)
(* itself: the snapshot of that number in the history is its own.          *)
AckedVersion ==
    \A e \in log : (e.ok /\ e.kind # "delete") =>
        /\ e.version \in DOMAIN data["temporal"][e.id]
        /\ data["temporal"][e.id][e.version] = e.op

Finished(id) == \A c \in Tasks : task[c].at # "idle" => task[c].id # id

(* An operation whose writes stand: it returned Ok or is past its commit.  *)
Committed(n, id) ==
    \/ \E e \in log : e.op = n /\ e.ok
    \/ \E c \in Tasks : task[c].op = n /\ task[c].at \in {"register", "mark"}

WroteIt(n, id, m) ==
    \/ \E e \in log : e.op = n /\ m \in e.input
    \/ \E c \in Tasks : task[c].op = n /\ m \in task[c].input

(* A delete of the hexad has had its locks: from here on it empties stores *)
(* and cannot fail any more.                                               *)
Erasing == {"write", "register", "mark"}

Deleted(id) ==
    \/ \E e \in log : e.id = id /\ e.kind = "delete" /\ e.ok
    \/ \E c \in Tasks : task[c].id = id /\ task[c].kind = "delete" /\ task[c].at \in Erasing

(* The order of the writes in every modality store is the order of the     *)
(* versions: unless an operation on the hexad is writing or has failed, or *)
(* a delete has begun to erase it, a store holds the value of the newest   *)
(* version that carries the modality.                                      *)
NewestVersionWins ==
    \A id \in Ids :
        ( /\ \A c \in Tasks : task[c].id = id => task[c].at # "write"
          /\ \A e \in log : e.id = id => e.ok
          /\ ~Deleted(id) ) =>
            \A m \in Used \ Growing :
                LET h == data["temporal"][id]
                    carriers == {i \in DOMAIN h : WroteIt(h[i], id, m)}
                IN  carriers # {} =>
                      data[m][id] = <<h[CHOOSE i \in carriers : \A j \in carriers : j <= i]>>

(* A create that failed is never seen: its id is not in the registry and   *)
(* none of the three stores that search and get read by id keeps its data, *)
(* unless that store itself can refuse a call.                             *)
FailedCreateGone ==
    \A e \in log : (e.kind = "create" /\ ~e.ok) =>
        /\ ~Live(e.id)
        /\ \A m \in Erased \ Failing : data[m][e.id] = <<>>

(* A hexad is backed by its stores until a delete that has its locks       *)
(* begins to erase it: every modality that the registry flags has data,    *)
(* while updates race one another, overwrite the entry after their commit  *)
(* and fail, and deletes are refused.  What holds after a delete is less:  *)
(* see LiveIsBacked.                                                       *)
FlagsBacked ==
    \A id \in Ids : ~Deleted(id) =>
        \A m \in registry[id].flags : data[m][id] # <<>>

(* Until then a reader that overlaps creates and updates never gets a      *)
(* hexad with a modality missing that its status announces: load_hexad     *)
(* reads the status first and the stores after it.                         *)
LoadComplete ==
    \A r \in Readers :
        (reads[r].at = "load" /\ reads[r].todo = <<>> /\ ~Deleted(reads[r].id)) =>
            reads[r].flags \cap Loaded \subseteq reads[r].got

(* Not so of this code, which promises consistency "when entities are      *)
(* created, updated, or deleted": what the registry flags has data while   *)
(* no delete is under way.  An update that commits before a delete and     *)
(* writes its registry entry after it brings the hexad back, with flags    *)
(* for the stores that were emptied.                                       *)
LiveIsBacked ==
    \A id \in Ids :
        (\A c \in Tasks : task[c].kind = "delete" => task[c].id # id) =>
            \A m \in registry[id].flags : data[m][id] # <<>>

(* Nor this: once everything has returned, the registry flags what was     *)
(* acknowledged.  Of two updates that copied the status before either      *)
(* wrote it back, the last insert drops the other one's flag, and reads do *)
(* not show the modality any more.                                         *)
AckedIsFlagged ==
    \A e \in log : (e.ok /\ e.kind # "delete" /\ Finished(e.id) /\ ~Deleted(e.id)) =>
        e.input \subseteq registry[e.id].flags

(* The log never shows more COMMITTED markers for a hexad than operations  *)
(* that committed on it: what is marked was done.                          *)
MarkersEarned ==
    \A id \in Ids :
        wal.committed[id] <= Cardinality({i \in wal.intents : i.id = id /\ Committed(i.op, id)})

(* A lock is held only for an operation that is under way, on every path   *)
(* through create, update and delete: none is left behind by a refusal, a  *)
(* failure or a return.                                                    *)
NoLeakedLock ==
    \A k \in Keys, n \in Ops : held[k][n] # {} =>
        \E c \in Tasks : task[c].op = n /\ task[c].at \in {"lock", "write"} /\ task[c].id = k[1]

(* Every operation returns: locks are refused and never waited for, so no  *)
(* two operations can hold one another up.                                 *)
OperationReturns == \A c \in Tasks : task[c].at # "idle" ~> task[c].at = "idle"

-----------------------------------------------------------------------------

(* Writers of one hexad exclude one another, though they lock different    *)
(* modalities, and every path through create, update and delete gives back *)
(* the locks it took.                                                      *)
WritersExclude == OneWriterPerHexad /\ NoLeakedLock

(* The order of the writes in every store is the order of the versions,    *)
(* and an operation that returned Ok has the version it was told to        *)
(* itself, though the existing hexad is read before the locks are taken.   *)
VersionsOrdered == AckedVersion /\ NewestVersionWins

(* Registry, stores and log agree: what is visible was logged first and    *)
(* what is marked was done; a failed create leaves nothing to be found;    *)
(* until a delete has begun to erase a hexad, what the registry flags has  *)
(* data, and a reader gets all that its status announces.                  *)
StoresBacked == IntentFirst /\ MarkersEarned /\ FailedCreateGone /\ FlagsBacked /\ LoadComplete
=============================================================================
