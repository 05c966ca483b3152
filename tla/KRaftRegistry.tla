---------------------------- MODULE KRaftRegistry ----------------------------
(***************************************************************************)
(* The registry that the KRaft log replicates: the commands, what each one *)
(* does to the registry (apply_command) and to a node's peer list          *)
(* (apply_membership_change), and the conversion of commands and of the    *)
(* registry to the JSON that KRaftWAL stores.                              *)
(*                                                                         *)
(* Endpoints, modalities, timestamps and the constant part of the config   *)
(* are left out: no command's effect depends on them.                      *)
(***************************************************************************)
EXTENDS Naturals, SequencesExt

CONSTANTS Nodes,      \* node identifiers
          Stores,     \* store identifiers
          Hexads,     \* hexad identifiers
          Locations,  \* values of map_hexad's locations
          Trusts,     \* values of update_trust's new_trust
          DefaultTrust, \* the trust_level 1.0 that register_store gives
          Absent      \* a key that a map does not hold

ASSUME RegistryAssumption ==
    /\ DefaultTrust \notin Trusts
    /\ Absent \notin Trusts \cup Locations \cup {DefaultTrust}

(* A command is the tuple of the source: its tag, its key, its argument.   *)
Cmd(op, id, arg) == [op |-> op, id |-> id, arg |-> arg]

NoOp == Cmd("noop", Absent, Absent)

InitialRegistry ==
    [stores   |-> [s \in Stores |-> Absent],
     mappings |-> [h \in Hexads |-> Absent],
     members  |-> {}]

ApplyCommand(reg, c) ==
    CASE c.op = "register_store"   -> [reg EXCEPT !.stores[c.id] = DefaultTrust]
      [] c.op = "unregister_store" -> [reg EXCEPT !.stores[c.id] = Absent]
      [] c.op = "map_hexad"        -> [reg EXCEPT !.mappings[c.id] = c.arg]
      [] c.op = "unmap_hexad"      -> [reg EXCEPT !.mappings[c.id] = Absent]
      [] c.op = "update_trust"     -> [reg EXCEPT !.stores[c.id] =
                                          IF @ = Absent THEN @ ELSE c.arg]
      [] c.op = "add_server"       -> [reg EXCEPT !.members = @ \cup {c.id}]
      [] c.op = "remove_server"    -> [reg EXCEPT !.members = @ \ {c.id}]
      [] OTHER                     -> reg

(* A node never puts itself in its peer list, and one that removes itself  *)
(* keeps its list.                                                         *)
ApplyMembershipChange(peers, self, c) ==
    CASE c.op = "add_server"    -> peers \cup ({c.id} \ {self})
      [] c.op = "remove_server" -> peers \ ({c.id} \ {self})
      [] OTHER                  -> peers

(* What a run of entries does, applied in log order.                       *)
ApplyEntries(reg, entries) ==
    FoldLeft(LAMBDA r, e : ApplyCommand(r, e.command), reg, entries)

ApplyMembership(peers, self, entries) ==
    FoldLeft(LAMBDA ps, e : ApplyMembershipChange(ps, self, e.command), peers, entries)
-----------------------------------------------------------------------------
(* JSON.  There is no serialize_command clause for the two membership      *)
(* commands: they become "unknown", which deserialize_command reads back   *)
(* as a no-op.                                                             *)
JsonOps_NoUnmap == {"noop", "register_store", "unregister_store",
                    "map_hexad", "update_trust"}

JsonOps == {"noop", "register_store", "unregister_store",
            "map_hexad", "unmap_hexad", "update_trust"}

SerializeCommand(c) ==
    IF c.op \in JsonOps THEN c ELSE Cmd("unknown", Absent, Absent)

DeserializeCommand(c) == IF c.op \in JsonOps THEN c ELSE NoOp

(* The snapshot file holds stores and mappings only.                       *)
SerializeRegistry(reg) == [stores |-> reg.stores, mappings |-> reg.mappings]

DeserializeRegistry(json) ==
    [stores |-> json.stores, mappings |-> json.mappings, members |-> {}]
=============================================================================
