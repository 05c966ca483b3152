----------------------------- MODULE StorageBackend -----------------------------
(***************************************************************************)
(* The key-value layer (verisim-storage): the in-memory and the redb       *)
(* backend behind one trait, the typed stores that share a backend under   *)
(* namespaces, and the metrics wrapper, which counts a call in a step of   *)
(* its own.  Keys are sequences of characters; Separator is ':'.           *)
(***************************************************************************)
EXTENDS Naturals, Sequences, SequencesExt, FiniteSets

CONSTANTS Namespaces,    \* TypedStore::namespace, sequences of characters
          LogicalKeys,   \* keys within a namespace
          Sizes,         \* lengths of the serialized values
          Storers,       \* concurrent callers
          MaxStoreOps    \* bound on the writes

ASSUME StorageAssumption ==
    /\ Namespaces \subseteq Seq(Nat) /\ LogicalKeys \subseteq Seq(Nat) /\ Sizes \subseteq Nat
    /\ IsFiniteSet(LogicalKeys) /\ IsFiniteSet(Storers)

VARIABLES engine,        \* "memory" or "redb"
          raw,           \* backend contents: full key -> [bytes, owner, key]
          counting,      \* caller -> bytes of a finished write not counted yet
          writtenBytes,  \* BackendStats::total_bytes_written
          sizeAtReset,   \* history: bytes stored when the statistics were last reset
          storeOps

storageVars == <<engine, raw, counting, writtenBytes, sizeAtReset, storeOps>>

Separator == 0

(* What TypedStore::new does not check: no namespace with its separator    *)
(* starts another.  The repository's are words without a separator.        *)
ASSUME NamespaceAssumption ==
    \A m, n \in Namespaces : IsPrefix(m \o <<Separator>>, n \o <<Separator>>) => m = n

NotCounting == [busy |-> FALSE, bytes |-> 0]

PrefixedKey(ns, key) == ns \o <<Separator>> \o key

StorageInit ==
    /\ engine \in {"memory", "redb"}
    /\ raw = [k \in {} |-> 0] /\ counting = [c \in Storers |-> NotCounting]
    /\ writtenBytes = 0 /\ sizeAtReset = 0 /\ storeOps = 0

(* Byte order of keys.                                                     *)
KeyBefore(a, b) ==
    \/ IsStrictPrefix(a, b)
    \/ \E i \in DOMAIN a \cap DOMAIN b : a[i] < b[i] /\ \A j \in 1 .. i - 1 : a[j] = b[j]

(* The keys in order: the i-th has i - 1 before it.                        *)
Sorted(keys) ==
    [i \in 1 .. Cardinality(keys) |->
        CHOOSE k \in keys : Cardinality({x \in keys : KeyBefore(x, k)}) = i - 1]

AtMost(s, limit) == SubSeq(s, 1, IF limit < Len(s) THEN limit ELSE Len(s))

(* scan_prefix: redb pushes an entry before it looks at the limit.         *)
ScanKeys(prefix, limit) ==
    LET all == Sorted({k \in DOMAIN raw : IsPrefix(prefix, k)})
    IN  AtMost(all, IF engine = "redb" /\ limit = 0 THEN 1 ELSE limit)

(* TypedStore::scan_prefix strips the namespace from the keys found.       *)
TypedScan(ns, prefix, limit) ==
    LET found == ScanKeys(PrefixedKey(ns, prefix), limit)
        skip == Len(PrefixedKey(ns, <<>>))
    IN  [i \in DOMAIN found |-> [key |-> SubSeq(found[i], skip + 1, Len(found[i])), value |-> raw[found[i]]]]

(* Each byte is a key and a position in its value.                         *)
StoredBytes == Cardinality(UNION {{k} \X (1 .. raw[k].bytes) : k \in DOMAIN raw})

(* put and batch_put: all entries in one write transaction.                *)
BatchPut(c, ns, keys, bytes) ==
    /\ ~counting[c].busy /\ storeOps < MaxStoreOps
    /\ storeOps' = storeOps + 1
    /\ LET new == [k \in {PrefixedKey(ns, x) : x \in keys} |->
                     [bytes |-> bytes, owner |-> ns, key |-> CHOOSE x \in keys : PrefixedKey(ns, x) = k]]
       IN  raw' = [k \in DOMAIN raw \cup DOMAIN new |-> IF k \in DOMAIN new THEN new[k] ELSE raw[k]]
    /\ counting' = [counting EXCEPT ![c] = [busy |-> TRUE, bytes |-> bytes * Cardinality(keys)]]
    /\ UNCHANGED <<engine, writtenBytes, sizeAtReset>>

(* A redb transaction that fails leaves the table as it was and writes no  *)
(* bytes; the call is still counted.                                       *)
PutFails(c) ==
    /\ engine = "redb" /\ ~counting[c].busy
    /\ counting' = [counting EXCEPT ![c] = [busy |-> TRUE, bytes |-> 0]]
    /\ UNCHANGED <<engine, raw, writtenBytes, sizeAtReset, storeOps>>

CountPut(c) ==
    /\ counting[c].busy
    /\ writtenBytes' = writtenBytes + counting[c].bytes
    /\ counting' = [counting EXCEPT ![c] = NotCounting]
    /\ UNCHANGED <<engine, raw, sizeAtReset, storeOps>>

DeleteKey(ns, key) ==
    /\ PrefixedKey(ns, key) \in DOMAIN raw
    /\ raw' = [k \in DOMAIN raw \ {PrefixedKey(ns, key)} |-> raw[k]]
    /\ UNCHANGED <<engine, counting, writtenBytes, sizeAtReset, storeOps>>

ResetStats ==
    /\ writtenBytes' = 0 /\ sizeAtReset' = StoredBytes
    /\ UNCHANGED <<engine, raw, counting, storeOps>>

StorageNext ==
    \/ \E c \in Storers, ns \in Namespaces, b \in Sizes, keys \in SUBSET LogicalKeys \ {{}} : BatchPut(c, ns, keys, b)
    \/ \E c \in Storers : PutFails(c) \/ CountPut(c)
    \/ \E ns \in Namespaces, key \in LogicalKeys : DeleteKey(ns, key)
    \/ ResetStats

-----------------------------------------------------------------------------

OwnKeys(ns) == {raw[k].key : k \in {x \in DOMAIN raw : raw[x].owner = ns}}

(* A scan through a typed store returns, in key order and up to the limit, *)
(* exactly what was put through stores of its namespace: one namespace     *)
(* being a prefix of another does not mix them, and a limit of at least    *)
(* one means the same to both backends.                                    *)
ScanIsOwnNamespace ==
    \A ns \in Namespaces, prefix \in LogicalKeys \cup {<<>>}, limit \in 1..3 :
        LET found == TypedScan(ns, prefix, limit)
            due == AtMost(Sorted({k \in OwnKeys(ns) : IsPrefix(prefix, k)}), limit)
        IN  [i \in DOMAIN found |-> found[i].key] = due /\ \A i \in DOMAIN found : found[i].value.owner = ns

(* When no write is waiting to be counted, the bytes written since the     *)
(* last reset and the bytes stored at that time cover what is stored: a    *)
(* reset between a write and its count loses nothing.                      *)
WrittenCoversStored ==
    (\A c \in Storers : ~counting[c].busy) => writtenBytes + sizeAtReset >= StoredBytes
=============================================================================
