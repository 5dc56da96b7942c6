------------------------------ MODULE ZkVerifier ------------------------------
(***************************************************************************)
(* contracts/zk-verifier: accepts each zkLogin proof once, under the       *)
(* verification key of the moment.  A call that returns an error leaves no *)
(* trace.  The pairing equation is a relation of keys and proofs; hashes   *)
(* are injective, so the nullifier of a proof is the proof.                *)
(***************************************************************************)
EXTENDS Naturals, FiniteSets

CONSTANTS
    Proofs,      \* Groth16 proofs
    Statements,  \* public inputs of a proof
    Epoch,       \* max_epoch of a statement
    Vks,         \* verification keys
    PairingHolds,       \* the triples of key, proof and statement the pairing accepts
    ZeroPoint,   \* the proofs whose point A or C is zero
    WellFormed,  \* the keys with one IC point more than there are inputs
    MaxLedger,   \* bound on the ledger sequence
    None         \* no key

VerifierAssumption ==
    /\ Epoch \in [Statements -> Nat] /\ MaxLedger \in Nat
    /\ PairingHolds \subseteq Vks \X Proofs \X Statements
    /\ ZeroPoint \subseteq Proofs /\ WellFormed \subseteq Vks
    /\ None \notin Vks

VARIABLES
    ledger,     \* env.ledger().sequence()
    vk,         \* DataKey::VerificationKey, None before initialize
    nullifiers, \* the keys DataKey::Nullifier
    accepted    \* how often each proof was accepted for each statement

vars == <<ledger, vk, nullifiers, accepted>>

-----------------------------------------------------------------------------
Init ==
    /\ ledger = 0 /\ vk = None /\ nullifiers = {}
    /\ accepted = [ps \in Proofs \X Statements |-> 0]

NextLedger ==
    /\ ledger < MaxLedger
    /\ ledger' = ledger + 1
    /\ UNCHANGED <<vk, nullifiers, accepted>>

Initialize(key) ==
    /\ vk = None /\ key \in WellFormed
    /\ vk' = key
    /\ UNCHANGED <<ledger, nullifiers, accepted>>

\* update_verification_key.  The nullifiers of the old key stay.
KeptNullifiersNone == {}
KeptNullifiers == nullifiers

UpdateVerificationKey(key) ==
    /\ vk # None /\ key \in WellFormed
    /\ vk' = key
    /\ nullifiers' = KeptNullifiers
    /\ UNCHANGED <<ledger, accepted>>

\* is_valid_g1_point, of the points A and C.
IsValid(p) == p \notin ZeroPoint

\* compute_nullifier hashes the points A and C of the proof and nothing of its
\* public inputs.
VerifyZkloginProof(p, s) ==
    /\ vk # None
    /\ ledger <= Epoch[s]
    /\ p \notin nullifiers
    /\ IsValid(p)
    /\ <<vk, p, s>> \in PairingHolds
    /\ nullifiers' = nullifiers \cup {p}
    /\ accepted' = [accepted EXCEPT ![<<p, s>>] = @ + 1]
    /\ UNCHANGED <<ledger, vk>>

Next ==
    \/ NextLedger
    \/ \E key \in Vks : Initialize(key) \/ UpdateVerificationKey(key)
    \/ \E p \in Proofs, s \in Statements : VerifyZkloginProof(p, s)

Spec == Init /\ [][Next]_vars

-----------------------------------------------------------------------------
(* Properties.                                                             *)

\* Only a proof with its nullifier spent was ever accepted, under a key with
\* the right number of input commitments.
TypeOK ==
    /\ ledger \in 0..MaxLedger
    /\ vk \in WellFormed \cup {None}
    /\ nullifiers \subseteq Proofs \ ZeroPoint
    /\ accepted \in [Proofs \X Statements -> Nat]
    /\ nullifiers = {p \in Proofs : \E s \in Statements : accepted[<<p, s>>] > 0}

\* A proof is accepted at most once over the life of the contract, for whatever
\* statements and under whatever keys it verifies.
AcceptedOnce ==
    \A p \in Proofs : \A s, t \in Statements :
      accepted[<<p, s>>] <= 1 /\ (accepted[<<p, s>>] > 0 /\ accepted[<<p, t>>] > 0 => s = t)
=============================================================================
