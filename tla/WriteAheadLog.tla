---------------------------- MODULE WriteAheadLog ----------------------------
(***************************************************************************)
(* The write-ahead log of the rust core (crate verisim-wal): WalWriter     *)
(* appends entries to the last of a directory of segment files, WalReader  *)
(* reads them back after a crash, prune_segments_before removes old files. *)
(*                                                                         *)
(* A segment file is named after a sequence number.  Entries are kept as a *)
(* set: in a file, and from file to file, they stand in the order of their *)
(* sequence numbers, which is also the order that replay sorts them into.  *)
(* Payloads, entity ids and timestamps are left out; of the operations     *)
(* only checkpoints are told apart.                                        *)
(*                                                                         *)
(* A write that stops in the middle of an entry, because of a crash or of  *)
(* an I/O error, leaves a torn entry.  Nothing ever removes it, and what   *)
(* is appended to the file later stands behind it: the reader takes the    *)
(* length that the torn entry announces, and from there on reads lengths   *)
(* and sequence numbers out of the middle of other entries, if the file is *)
(* long enough, or stops.                                                  *)
(*                                                                         *)
(* acked, durable and pruned are history variables: the entries whose      *)
(* append returned Ok in this life of the process, the ones a completed    *)
(* fsync covers, and the highest checkpoint that was pruned.               *)
(***************************************************************************)
EXTENDS Naturals, FiniteSetsExt

CONSTANTS SyncMode,       \* "fsync", "periodic" or "async"
          Sizes,          \* the lengths of serialized entries
          MaxSegmentSize, \* max_segment_size
          TornWrites,     \* writes can stop in the middle of an entry
          AnyRotate,      \* rotate is called at any time by the writer's owner
          AnyPrune,       \* prune is called with any checkpoint
          MaxSequence,    \* bound on sequence numbers
          MaxCrashes      \* bound on crashes

ASSUME WALAssumption ==
    /\ SyncMode \in {"fsync", "periodic", "async"}
    /\ Sizes \subseteq Nat \ {0, 1} /\ MaxSegmentSize \in Nat
    /\ TornWrites \in BOOLEAN /\ AnyRotate \in BOOLEAN /\ AnyPrune \in BOOLEAN
    /\ MaxSequence \in Nat /\ MaxCrashes \in Nat

Operations == {"mutation", "checkpoint"}

VARIABLES files,   \* the segment files, by starting sequence number
          writer,  \* the WalWriter: current_segment's name and next_sequence
          file_size, \* current_segment.file_size
          acked, durable, pruned, crashes

vars == <<files, writer, file_size, acked, durable, pruned, crashes>>

NewFile == [entries |-> {}, synced |-> {}, torn |-> {}]

Closed == [open |-> FALSE, start |-> 0, next |-> 0]

Init ==
    /\ files = [s \in {} |-> NewFile]
    /\ writer = Closed
    /\ file_size = 0
    /\ acked = {}
    /\ durable = {}
    /\ pruned = 0
    /\ crashes = 0
-----------------------------------------------------------------------------
(* Reading.                                                                *)

(* read_segment_entries: what the reader returns whatever bytes follow a   *)
(* torn entry, the entries before the first one.                           *)
Readable(f) == {e \in f.entries : \A t \in f.torn : e.sequence < t}

(* replay_all.                                                             *)
Replayed == UNION {Readable(files[s]) : s \in DOMAIN files}

Checkpoints(f) == {e.sequence : e \in {c \in Readable(f) : c.operation = "checkpoint"}}

FindLastCheckpoint_Forward ==
    {c \in UNION {Checkpoints(files[s]) : s \in DOMAIN files} :
       \E s \in DOMAIN files :
          /\ c \in Checkpoints(files[s])
          /\ \A d \in Checkpoints(files[s]) : d <= c
          /\ \A t \in DOMAIN files : t < s => Checkpoints(files[t]) = {}}

(* find_last_checkpoint looks at the segments from the last to the first   *)
(* and stops at the first one that has a checkpoint.                       *)
FindLastCheckpoint ==
    {c \in UNION {Checkpoints(files[s]) : s \in DOMAIN files} :
       \E s \in DOMAIN files :
          /\ c \in Checkpoints(files[s])
          /\ \A d \in Checkpoints(files[s]) : d <= c
          /\ \A t \in DOMAIN files : t > s => Checkpoints(files[t]) = {}}

(* A torn entry of a file holds one byte: fewer than any entry.            *)
FileSize(f) == MapThenSumSet(LAMBDA e : e.size, f.entries) + Cardinality(f.torn)

ScanLastSequence_FromName(s) == {s + 1}

(* The values that scan_last_sequence can return.  It checks no CRC: with  *)
(* entries behind a torn one it reads whatever stands there.               *)
ScanLastSequence(s) ==
    LET seen == {s} \cup {e.sequence : e \in Readable(files[s])}
    IN  IF Readable(files[s]) = files[s].entries
        THEN {m + 1 : m \in {x \in seen : \A y \in seen : y <= x}}
        ELSE {n \in 1 .. MaxSequence : \A y \in seen : y < n}
-----------------------------------------------------------------------------
(* Writing.                                                                *)

LastSegments_First == {s \in DOMAIN files : \A t \in DOMAIN files : s <= t}

(* The last of list_segments' sorted result, if there is one.              *)
LastSegments == {s \in DOMAIN files : \A t \in DOMAIN files : t <= s}

(* File::create: an existing file is truncated.                            *)
Create(fs, s) == [x \in DOMAIN fs \cup {s} |-> IF x = s THEN NewFile ELSE fs[x]]

SyncFile(fs, s) == [fs EXCEPT ![s].synced = fs[s].entries]

(* open_with_max_size.                                                     *)
OpenFresh ==
    /\ ~writer.open
    /\ DOMAIN files = {}
    /\ files' = Create(files, 0)
    /\ writer' = [open |-> TRUE, start |-> 0, next |-> 1]
    /\ file_size' = 0
    /\ UNCHANGED <<acked, durable, pruned, crashes>>

OpenExisting ==
    /\ ~writer.open
    /\ \E s \in LastSegments : \E n \in ScanLastSequence(s) :
         /\ writer' = [open |-> TRUE, start |-> s, next |-> n]
         /\ file_size' = FileSize(files[s])
    /\ UNCHANGED <<files, acked, durable, pruned, crashes>>

Rotated_NoSync(fs, w) ==
    [files  |-> Create(fs, w.next),
     writer |-> [w EXCEPT !.start = w.next],
     size   |-> 0]

(* rotate: the old segment is synced, the new one named after next.        *)
Rotated(fs, w) ==
    [files  |-> Create(SyncFile(fs, w.start), w.next),
     writer |-> [w EXCEPT !.start = w.next],
     size   |-> 0]

(* The first half of append: the sequence number is taken first, so that a *)
(* segment that append creates is named after the number that follows.     *)
Taken == [writer EXCEPT !.next = @ + 1]

Full(size) == file_size + size > MaxSegmentSize

Placed(size) ==
    IF Full(size)
    THEN Rotated(files, Taken)
    ELSE [files |-> files, writer |-> Taken, size |-> file_size]

(* What is durable after the first half: rotate syncs the old segment.     *)
Secured(size) == IF Full(size) THEN durable \cup acked ELSE durable

NewEntry(op, size) == [sequence |-> writer.next, operation |-> op, size |-> size]

Written(p, e) ==
    [files  |-> [p.files EXCEPT ![p.writer.start].entries = @ \cup {e}],
     writer |-> p.writer,
     size   |-> p.size + e.size]

(* maybe_sync, and checkpoint's own sync.                                  *)
Syncs(op) ==
    IF op = "checkpoint" \/ SyncMode = "fsync" THEN {TRUE}
    ELSE IF SyncMode = "periodic" THEN BOOLEAN
    ELSE {FALSE}

Append(op, size) ==
    LET e == NewEntry(op, size)
        w == Written(Placed(size), e)
    IN  /\ writer.open
        /\ writer.next <= MaxSequence
        /\ writer' = w.writer
        /\ file_size' = w.size
        /\ acked' = acked \cup {e}
        /\ \E synced \in Syncs(op) :
             /\ files' = IF synced THEN SyncFile(w.files, w.writer.start) ELSE w.files
             /\ durable' = IF synced THEN durable \cup acked' ELSE Secured(size)
        /\ UNCHANGED <<pruned, crashes>>

(* append returns an error, or the process dies in it (Crash comes next):  *)
(* in rotate before or after its sync, in write_all with none or some of   *)
(* the bytes written, or in fsync.  The sequence number is used up in      *)
(* every case.                                                             *)
AppendFails(op, size) ==
    LET e == NewEntry(op, size)
        p == Placed(size)
        w == Written(p, e)
    IN  /\ writer.open
        /\ writer.next <= MaxSequence
        /\ \/ writer' = Taken /\ UNCHANGED <<files, file_size, durable>>
           \/ /\ Full(size)
              /\ writer' = Taken
              /\ files' = SyncFile(files, writer.start)
              /\ durable' = Secured(size)
              /\ UNCHANGED file_size
           \/ /\ writer' = p.writer /\ file_size' = p.size
              /\ \E tear \in SUBSET (IF TornWrites THEN {e.sequence} ELSE {}) :
                   files' = [p.files EXCEPT ![p.writer.start].torn = @ \cup tear]
              /\ durable' = Secured(size)
           \/ /\ writer' = w.writer /\ file_size' = w.size /\ files' = w.files
              /\ durable' = Secured(size)
        /\ UNCHANGED <<acked, pruned, crashes>>

Sync ==
    /\ writer.open
    /\ files' = SyncFile(files, writer.start)
    /\ durable' = durable \cup acked
    /\ UNCHANGED <<writer, file_size, acked, pruned, crashes>>

(* rotate, called from outside.  Right after append has rotated, next is   *)
(* the name of the current segment.                                        *)
Rotate ==
    LET r == Rotated(files, writer)
    IN  /\ writer.open
        /\ writer.next <= MaxSequence
        /\ AnyRotate \/ writer.next # writer.start
        /\ files' = r.files
        /\ writer' = r.writer
        /\ file_size' = r.size
        /\ durable' = durable \cup acked
        /\ UNCHANGED <<acked, pruned, crashes>>
-----------------------------------------------------------------------------
(* prune_segments_before.                                                  *)
Prunable(c) ==
    {s \in DOMAIN files : s < c /\ \E t \in DOMAIN files : t >= c}

(* The files that pruning at c can remove end with c or before.            *)
EndsBefore(c) ==
    \A s \in Prunable(c) : \A e \in files[s].entries : e.sequence <= c

(* The files are removed one by one, in order: an error, or a crash, stops *)
(* after some of them.                                                     *)
Prune(c) ==
    /\ AnyPrune \/ EndsBefore(c)
    /\ \E removed \in SUBSET Prunable(c) :
         /\ \A s \in removed, t \in Prunable(c) : t < s => t \in removed
         /\ files' = [s \in DOMAIN files \ removed |-> files[s]]
    /\ pruned' = IF Prunable(c) # {} /\ c > pruned THEN c ELSE pruned
    /\ UNCHANGED <<writer, file_size, acked, durable, crashes>>

(* The process, or the machine, dies: of what was not synced a prefix is   *)
(* left, up to sequence number n, and the entry after it may be torn.      *)
Remains(f, n) == f.synced \cup {e \in f.entries : e.sequence <= n}

Tears(f, n) ==
    {e.sequence : e \in {x \in f.entries \ Remains(f, n) :
       TornWrites /\ \A y \in f.entries \ Remains(f, n) : x.sequence <= y.sequence}}

Crash ==
    /\ writer.open
    /\ crashes < MaxCrashes
    /\ \E n \in 0 .. MaxSequence, tear \in BOOLEAN :
         files' = [s \in DOMAIN files |->
                     [files[s] EXCEPT
                        !.entries = Remains(files[s], n),
                        !.torn = IF tear THEN @ \cup Tears(files[s], n) ELSE @]]
    /\ writer' = Closed
    /\ file_size' = 0
    /\ acked' = {}
    /\ crashes' = crashes + 1
    /\ UNCHANGED <<durable, pruned>>

Next ==
    \/ OpenFresh
    \/ OpenExisting
    \/ \E op \in Operations, size \in Sizes : Append(op, size) \/ AppendFails(op, size)
    \/ Sync
    \/ Rotate
    \/ \E c \in UNION {Checkpoints(files[s]) : s \in DOMAIN files} : Prune(c)
    \/ Crash

Spec == Init /\ [][Next]_vars
-----------------------------------------------------------------------------
(* Properties.                                                             *)

Entry == [sequence : Nat \ {0}, operation : Operations, size : Sizes]

File == [entries : SUBSET Entry, synced : SUBSET Entry, torn : SUBSET Nat]

(* Type correctness; the file that an open writer appends to is still in   *)
(* the directory (prune_segments_before).                                  *)
TypeOK ==
    /\ DOMAIN files \subseteq Nat
    /\ \A s \in DOMAIN files :
         files[s] \in File /\ files[s].synced \subseteq files[s].entries
    /\ writer \in [open : BOOLEAN, start : Nat, next : Nat]
    /\ file_size \in Nat
    /\ writer.open => writer.start \in DOMAIN files
    /\ acked \subseteq Entry /\ durable \subseteq Entry
    /\ pruned \in Nat
    /\ crashes \in 0 .. MaxCrashes

(* The writer's next number is above every entry on disk, whatever crashes *)
(* and failed appends came before: scan_last_sequence reads the last       *)
(* segment only.                                                           *)
NextAboveLog ==
    writer.open =>
        \A s \in DOMAIN files : \A e \in files[s].entries : e.sequence < writer.next

(* Segments hold consecutive ranges of the log, although a segment can     *)
(* begin with the entry just below its name: the order of the names, which *)
(* find_last_checkpoint and open rely on, is the order of the entries.     *)
SegmentOrder ==
    \A s, t \in DOMAIN files : s < t =>
        \A e \in files[s].entries, f \in files[t].entries : e.sequence < f.sequence

(* An entry that an fsync covered is replayed, unless a checkpoint at or   *)
(* after it was pruned (append, sync, rotate, open and prune together).    *)
DurableKept == \A e \in durable : e.sequence > pruned => e \in Replayed

(* find_last_checkpoint may stop at the first segment, from the end, that  *)
(* has a checkpoint: no earlier one has a later checkpoint.                *)
LastCheckpointIsLast ==
    \A c \in FindLastCheckpoint : \A e \in Replayed :
        e.operation = "checkpoint" => e.sequence <= c
=============================================================================
