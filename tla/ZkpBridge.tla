------------------------------- MODULE ZkpBridge -------------------------------
(***************************************************************************)
(* Proofs of the semantic modality (verisim-semantic: zkp.rs,              *)
(* zkp_bridge.rs, and ProofBlob in lib.rs): commitments, Merkle inclusion  *)
(* proofs, and the three privacy levels that combine them.                 *)
(*                                                                         *)
(* SHA-256 is taken to be injective on sequences of data: the digest of a  *)
(* sequence is the sequence itself, tagged.  A leaf and a pair of digests  *)
(* are hashed the same way, as in the code.                                *)
(***************************************************************************)
EXTENDS Naturals, Sequences, SequencesExt, FiniteSets

CONSTANTS Claims,        \* the claims and the leaves of membership sets
          MaxLeaves,     \* bound on a membership set
          PrivacyLevels, \* subset of "public", "private", "zk"
          MaxProofs      \* bound on the stored proofs

VARIABLES proofs         \* the proofs generated so far, with their requests

zkpVars == <<proofs>>

Hash(data) == [sha |-> data]

CommitTo(claim, secret) == Hash(<<claim, secret>>)

HashPair(l, r) == Hash(<<l, r>>)

EmptyRoot == Hash(<<"zero">>)

(* A level of odd length repeats its last digest.                          *)
Padded(level) == IF Len(level) % 2 = 0 THEN level ELSE Append(level, Last(level))

Parents(level) == LET p == Padded(level) IN [i \in 1..(Len(p) \div 2) |-> HashPair(p[2 * i - 1], p[2 * i])]

Leaves(set) == [i \in DOMAIN set |-> Hash(<<set[i]>>)]

(* The levels of the tree, leaves first; a level of one digest is the      *)
(* root, and there are no more levels than leaves.                         *)
LevelOf(leaves, k) ==
    LET Level[n \in 0..Len(leaves)] ==
            IF n = 0 THEN leaves ELSE IF Len(Level[n - 1]) = 1 THEN Level[n - 1] ELSE Parents(Level[n - 1])
    IN  Level[k]

RootOf(leaves) == LevelOf(leaves, Len(leaves))[1]

MerkleRoot(set) == IF set = <<>> THEN EmptyRoot ELSE RootOf(Leaves(set))

(* The siblings from the leaf at idx (from 0) up to the root.              *)
Sibling(idx) == IF idx % 2 = 0 THEN idx + 1 ELSE idx - 1

PathOf(leaves, idx) ==
    LET height == Cardinality({k \in 0..Len(leaves) : Len(LevelOf(leaves, k)) > 1})
        at[k \in 0..height] == IF k = 0 THEN idx ELSE at[k - 1] \div 2
    IN  [k \in 1..height |-> [hash |-> Padded(LevelOf(leaves, k - 1))[Sibling(at[k - 1]) + 1], left |-> at[k - 1] % 2 # 0]]

MerkleProof(set, idx) == [kind |-> "merkle", leaf |-> set[idx + 1], path |-> PathOf(Leaves(set), idx), root |-> MerkleRoot(set)]

Climb(h, e) == IF e.left THEN HashPair(e.hash, h) ELSE HashPair(h, e.hash)

VerifyMerkleProof_Unless(p) == p.path = <<>> \/ FoldLeft(Climb, Hash(<<p.leaf>>), p.path) = p.root

VerifyMerkleProof(p) == FoldLeft(Climb, Hash(<<p.leaf>>), p.path) = p.root

(* verify_proof: the Merkle case does not look at the claim.               *)
VerifyProof(d, claim) ==
    CASE d.kind = "commitment" -> TRUE
      [] d.kind = "reveal" -> d.commitment = CommitTo(claim, d.secret)
      [] d.kind = "merkle" -> VerifyMerkleProof(d)
      [] d.kind = "integrity" -> d.hash = Hash(<<claim>>)

(* generate_nonce: a function of the claim.                                *)
Nonce(claim) == Hash(<<Hash(<<claim>>), "nonce">>)

NoSet == [set |-> <<>>, index |-> 0, given |-> FALSE]

Blinded(set, nonce) == [i \in DOMAIN set |-> CommitTo(set[i], nonce)]

(* A membership index outside its set is refused.                          *)
Provable(r) == r.level = "public" \/ ~r.members.given \/ r.members.index < Len(r.members.set)

ProofData(r) ==
    IF r.level = "public" THEN [kind |-> "integrity", hash |-> Hash(<<r.claim>>)]
    ELSE IF ~r.members.given THEN [kind |-> "commitment", commitment |-> CommitTo(r.claim, Nonce(r.claim))]
    ELSE MerkleProof(IF r.level = "zk" THEN Blinded(r.members.set, Nonce(r.claim)) ELSE r.members.set, r.members.index)

(* generate_zkp                                                            *)
GenerateZkp(r) ==
    [level |-> r.level, data |-> ProofData(r), nonce |-> Nonce(r.claim), commitment |-> CommitTo(r.claim, Nonce(r.claim))]

CommitmentHolds(p, claim) == p.commitment = CommitTo(claim, p.nonce)

(* verify_zkp                                                              *)
VerifyZkp(p, claim) ==
    CASE p.level = "public" -> VerifyProof(p.data, claim)
      [] p.level = "private" -> CommitmentHolds(p, claim) /\ VerifyProof(p.data, claim)
      [] p.level = "zk" -> p.data.kind \in {"merkle", "commitment"} /\ VerifyProof(p.data, claim)

(* ProofBlob::verify: data that does not decode as a proof is believed of  *)
(* an attestation, and of every other type when it is not empty.           *)
VerifyBlob(b) ==
    IF b.decodes THEN VerifyProof(b.data, b.claim) ELSE b.type = "attestation" \/ b.size > 0

ZkpInit == proofs = {}

Requests ==
    {[level |-> l, claim |-> c, members |-> NoSet] : l \in PrivacyLevels, c \in Claims}
    \cup {[level |-> l, claim |-> c, members |-> [set |-> s, index |-> i, given |-> TRUE]] :
            l \in PrivacyLevels, c \in Claims, s \in SeqOf(Claims, MaxLeaves), i \in 0..MaxLeaves}

Prove(r) ==
    /\ Cardinality(proofs) < MaxProofs
    /\ Provable(r)
    /\ proofs' = proofs \cup {[request |-> r, proof |-> GenerateZkp(r)]}

ZkpNext == \E r \in Requests : Prove(r)

-----------------------------------------------------------------------------

(* A true request: the leaf it points at is the claim.                     *)
Truthful(r) == r.level = "public" \/ ~r.members.given \/ r.members.set[r.members.index + 1] = r.claim

(* Every proof generated for a true request verifies for its claim, at     *)
(* every privacy level and for every position in a membership set of any   *)
(* parity.                                                                 *)
ProofsComplete == \A x \in proofs : Truthful(x.request) => VerifyZkp(x.proof, x.request.claim)

(* Private and zero-knowledge proofs with a membership set verify only for *)
(* claims in that set.  Not so: no one compares the leaf with the claim.   *)
ClaimIsMember ==
    \A x \in proofs, c \in Claims :
        x.proof.data.kind = "merkle" /\ VerifyZkp(x.proof, c) => c \in ToSet(x.request.members.set)

(* A public or private proof verifies for no other claim.                  *)
ProofsBindClaim ==
    \A x \in proofs, c \in Claims :
        x.proof.level # "zk" /\ c # x.request.claim => ~VerifyZkp(x.proof, c)

(* A Merkle proof shows membership: with another leaf, or against the root *)
(* of a set the leaf is not in, it fails.                                  *)
MembershipSound ==
    \A x \in proofs : x.proof.data.kind = "merkle" /\ x.proof.level = "private" =>
        \A c \in Claims :
            LET forged == [x.proof.data EXCEPT !.leaf = c]
            IN  VerifyMerkleProof(forged) => c \in ToSet(x.request.members.set)

(* Leaves with the repetitions that padding adds: a level of odd length    *)
(* above one repeats the block of leaves under its last digest.            *)
Completed(leaves) ==
    LET Step[n \in 0..Len(leaves)] ==
            IF n = 0 THEN leaves
            ELSE LET p == Step[n - 1]
                     block == 2^(n - 1)
                 IN  IF Len(p) > block /\ (Len(p) \div block) % 2 = 1
                     THEN p \o SubSeq(p, Len(p) - block + 1, Len(p)) ELSE p
    IN  Step[Len(leaves)]

(* The root commits to the sequence of leaves up to the repetitions that   *)
(* padding adds, and to nothing more.                                      *)
RootCommits ==
    \A x \in proofs : x.proof.level = "private" /\ x.proof.data.kind = "merkle" =>
        \A t \in SeqOf(Claims, MaxLeaves) :
            (MerkleRoot(t) = x.proof.data.root) = (Completed(t) = Completed(x.request.members.set))
=============================================================================
