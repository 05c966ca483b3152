------------------------------- MODULE KRaftWAL -------------------------------
(***************************************************************************)
(* The files a KRaft node keeps under wal_path, as operators on a record:  *)
(*   state     state.json     (currentTerm and votedFor)                   *)
(*   wal       wal.jsonl      (the lines: entries with encoded commands)   *)
(*   snapshot  snapshot.json  (encoded registry and last included index)   *)
(*                                                                         *)
(* WalEnabled is FALSE for a node started without a wal_path: every        *)
(* operation is then the nil clause, which does nothing.                   *)
(***************************************************************************)
EXTENDS KRaftRegistry

CONSTANTS WalEnabled, \* wal_path # nil
          Nil         \* no vote

ASSUME WALAssumption == WalEnabled \in BOOLEAN /\ Nil \notin Nodes

Entry(term, index, command) ==
    [term |-> term, index |-> index, command |-> command]

NoSnapshot == [index |-> 0, registry |-> SerializeRegistry(InitialRegistry)]

EmptyDisk ==
    [state    |-> [current_term |-> 0, voted_for |-> Nil],
     wal      |-> <<>>,
     snapshot |-> NoSnapshot]

PersistState(disk, term, voted) ==
    IF WalEnabled
    THEN [disk EXCEPT !.state = [current_term |-> term, voted_for |-> voted]]
    ELSE disk

SerializeEntry(e) == [e EXCEPT !.command = SerializeCommand(@)]

DeserializeEntry(e) == Entry(e.term, e.index, DeserializeCommand(e.command))

AppendWal(disk, entries) ==
    IF WalEnabled
    THEN [disk EXCEPT !.wal =
             @ \o [i \in DOMAIN entries |-> SerializeEntry(entries[i])]]
    ELSE disk

(* The lines of a file at the places P, in file order: what Enum.filter    *)
(* and Enum.flat_map keep of the lines.                                    *)
LinesAt(wal, P) ==
    LET nth(k) == CHOOSE i \in P : Cardinality({j \in P : j <= i}) = k
    IN  [k \in 1 .. Cardinality(P) |-> wal[nth(k)]]

LinesUpTo(wal, keep) == LinesAt(wal, {i \in DOMAIN wal : wal[i].index <= keep})

LinesAfter(wal, index) == LinesAt(wal, {i \in DOMAIN wal : wal[i].index > index})

TruncateAfter(disk, keep) ==
    IF WalEnabled
    THEN [disk EXCEPT !.wal = LinesUpTo(@, keep)]
    ELSE disk

(* The snapshot file is renamed into place, then truncate_wal drops the    *)
(* lines it covers.                                                        *)
SaveSnapshot(disk, registry, index) ==
    IF WalEnabled
    THEN [disk EXCEPT
            !.snapshot = [index |-> index, registry |-> SerializeRegistry(registry)],
            !.wal      = LinesAfter(@, index)]
    ELSE disk

(* The log that recover/1 returns: the lines after the snapshot, in file   *)
(* order, decoded.                                                         *)
RecoverLog(disk) ==
    LET kept == LinesAfter(disk.wal, disk.snapshot.index)
    IN  [i \in DOMAIN kept |-> DeserializeEntry(kept[i])]

RecoverRegistry(disk) == DeserializeRegistry(disk.snapshot.registry)
=============================================================================
