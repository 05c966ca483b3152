------------------------------- MODULE MCKRaft -------------------------------
(***************************************************************************)
(* Instances of KRaftNode for TLC.                                         *)
(***************************************************************************)
EXTENDS KRaftNode

CONSTANTS n1, n2, n3, s1, s2, h1, l1, t1

(* Every node has all the others as its peers option.                      *)
FullMesh == [n \in Nodes |-> Nodes \ {n}]

NodeSymmetry == Permutations(Nodes)

NoCommands == {}

(* Commands on one store: their order is visible in the registry.          *)
StoreCommands == {Cmd("register_store", s1, Absent), Cmd("unregister_store", s1, Absent)}

(* Every command on the registry proper.                                   *)
RegistryCommands ==
    StoreCommands \cup {Cmd("update_trust", s1, t1),
                        Cmd("map_hexad", h1, l1), Cmd("unmap_hexad", h1, Absent)}

(* ... and the membership commands: the server added is not running, so a  *)
(* node on its own waits for its vote until it restarts.                   *)
AllCommands ==
    RegistryCommands \cup {Cmd("add_server", n2, Absent), Cmd("remove_server", n1, Absent)}

(* One registration is enough for a request that stays pending.            *)
OneRegistration == {Cmd("register_store", s1, Absent)}

(* Registrations only: nothing undoes them.                                *)
Registrations == {Cmd("register_store", s, Absent) : s \in {s1, s2}}

(* Commands on one store and add_server for every member of the cluster.   *)
ClusterCommands == StoreCommands \cup {Cmd("add_server", n, Absent) : n \in Nodes}
=============================================================================
