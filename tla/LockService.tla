----------------------------- MODULE LockService -----------------------------
(***************************************************************************)
(* What the hexad store relies on when it calls the transaction manager:   *)
(* locks that exclude one another, that only a running transaction gets,   *)
(* that it keeps until it finishes and that finishing gives back.          *)
(*                                                                         *)
(* A request that cannot be granted is refused at once: nobody waits, so a *)
(* refusal leaves no trace here.                                           *)
(***************************************************************************)
CONSTANTS Txns, Keys

VARIABLES phase,  \* "new", "running" or "finished", per transaction
          held    \* the modes in which a transaction holds a key: one or none

Modes == {"shared", "exclusive"}

LockInit ==
    /\ phase = [t \in Txns |-> "new"]
    /\ held = [k \in Keys |-> [t \in Txns |-> {}]]

Begin(t) ==
    /\ phase[t] = "new"
    /\ phase' = [phase EXCEPT ![t] = "running"]
    /\ UNCHANGED held

Grantable(t, k, mode) ==
    \A u \in Txns \ {t} :
        held[k][u] # {} => mode = "shared" /\ "exclusive" \notin held[k][u]

(* A lock held is never weakened.                                          *)
Grant(t, k, mode) ==
    /\ phase[t] = "running"
    /\ Grantable(t, k, mode)
    /\ held' = [held EXCEPT ![k][t] =
                  IF "exclusive" \in @ THEN {"exclusive"} ELSE {mode}]
    /\ UNCHANGED phase

Finish(t) ==
    /\ phase[t] = "running"
    /\ phase' = [phase EXCEPT ![t] = "finished"]
    /\ held' = [k \in Keys |-> [held[k] EXCEPT ![t] = {}]]

LockNext ==
    \E t \in Txns : Begin(t) \/ Finish(t) \/ \E k \in Keys, m \in Modes : Grant(t, k, m)

LockSpec == LockInit /\ [][LockNext]_<<phase, held>>
=============================================================================
