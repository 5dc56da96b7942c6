----------------------------- MODULE SmartWallet -----------------------------
(***************************************************************************)
(* contracts/smart-wallet: a Soroban account whose operations are signed   *)
(* with the ephemeral key of a zkLogin session.  A call is atomic and one  *)
(* that fails, its callee included, leaves no trace, so only the calls     *)
(* that succeed are steps.  The hash of a key is injective, so a session   *)
(* id is its key; a signature is that of the session's key.                *)
(***************************************************************************)
EXTENDS Naturals, Sequences, SequencesExt, ListFilter

CONSTANTS
    Keys,        \* ephemeral public keys
    Identities,  \* pairs of address_seed and iss_hash
    Proofs,      \* Groth16 proofs
    Epochs,      \* values of max_epoch
    MaxLedger,   \* bound on the ledger sequence
    MaxNonce,    \* bound on the nonce
    MaxGrants,   \* bound on the sessions added with one proof
    None         \* an entry that is not in storage

WalletAssumption ==
    /\ Epochs \subseteq Nat /\ MaxLedger \in Nat /\ MaxNonce \in Nat /\ MaxGrants \in Nat
    /\ None \notin Nat /\ None \notin Identities

Session == [max_epoch : Epochs, proof : Proofs, created_at : Nat, active : BOOLEAN]

\* The public inputs of a proof, as far as the contract reads them.
PublicInputs == [eph_pk : Keys, max_epoch : Epochs, identity : Identities]

VARIABLES
    ledger,          \* env.ledger().sequence()
    identity,        \* Config: address_seed and iss_hash, None before initialize
    nonce,           \* Config: nonce
    sessions,        \* DataKey::Session(id), for the keys that have one
    active_sessions, \* DataKey::ActiveSessions
    granted          \* how many sessions each proof has been accepted for

vars == <<ledger, identity, nonce, sessions, active_sessions, granted>>

-----------------------------------------------------------------------------
Init ==
    /\ ledger = 0
    /\ identity = None /\ nonce = 0
    /\ sessions = [k \in {} |-> None]
    /\ active_sessions = <<>>
    /\ granted = [p \in Proofs |-> 0]

NextLedger ==
    /\ ledger < MaxLedger
    /\ ledger' = ledger + 1
    /\ UNCHANGED <<identity, nonce, sessions, active_sessions, granted>>

Initialize(i) ==
    /\ identity = None
    /\ identity' = i
    /\ nonce' = 0
    /\ active_sessions' = <<>>
    /\ UNCHANGED <<ledger, sessions, granted>>

\* add_session.  verify_proof accepts every proof, a session of the same key is
\* overwritten, and the key is appended to the list whether it is in it or not.
StillOpen(inputs) == inputs.max_epoch > ledger

AddSession(p, inputs) ==
    LET k == inputs.eph_pk
        session == [max_epoch |-> inputs.max_epoch, proof |-> p,
                    created_at |-> ledger, active |-> TRUE]
    IN  /\ inputs.identity = identity
        /\ StillOpen(inputs)
        /\ granted[p] < MaxGrants
        /\ sessions' = [i \in DOMAIN sessions \cup {k} |->
                          IF i = k THEN session ELSE sessions[i]]
        /\ active_sessions' = Append(active_sessions, k)
        /\ granted' = [granted EXCEPT ![p] = @ + 1]
        /\ UNCHANGED <<ledger, identity, nonce>>

\* verify_zklogin_auth, and __check_auth, with a signature by the session's key.
AuthenticWhenListed(k) == k \in DOMAIN sessions /\ sessions[k].active
Authentic(k) ==
    /\ k \in DOMAIN sessions /\ sessions[k].active
    /\ ledger <= sessions[k].max_epoch

\* revoke_session filters every copy of the id.  (The first form drops one.)
WithoutFirst(k) ==
    LET at == CHOOSE i \in DOMAIN active_sessions : active_sessions[i] = k
    IN  IF k \in ToSet(active_sessions) THEN RemoveAt(active_sessions, at)
        ELSE active_sessions
Without(k) == Filtered(active_sessions, Keys \ {k})

RevokeSession(by, k) ==
    /\ Authentic(by)
    /\ k \in DOMAIN sessions /\ sessions[k].active
    /\ sessions' = [sessions EXCEPT ![k].active = FALSE]
    /\ active_sessions' = Without(k)
    /\ UNCHANGED <<ledger, identity, nonce, granted>>

\* transfer and execute.
Execute(by) ==
    /\ nonce < MaxNonce
    /\ Authentic(by)
    /\ nonce' = nonce + 1
    /\ UNCHANGED <<ledger, identity, sessions, active_sessions, granted>>

Next ==
    \/ NextLedger
    \/ \E i \in Identities : Initialize(i)
    \/ \E p \in Proofs, inputs \in PublicInputs : AddSession(p, inputs)
    \/ \E by \in Keys : Execute(by) \/ \E k \in Keys : RevokeSession(by, k)

Spec == Init /\ [][Next]_vars

-----------------------------------------------------------------------------
(* Properties.                                                             *)

\* A stored session was created before its last ledger, under an identity.
TypeOK ==
    /\ ledger \in 0..MaxLedger
    /\ identity \in Identities \cup {None} /\ nonce \in 0..MaxNonce
    /\ DOMAIN sessions \subseteq Keys
    /\ \A k \in DOMAIN sessions :
         /\ sessions[k] \in Session
         /\ sessions[k].created_at <= ledger
         /\ sessions[k].created_at < sessions[k].max_epoch
    /\ active_sessions \in Seq(Keys)
    /\ granted \in [Proofs -> Nat]
    /\ sessions # [k \in {} |-> None] => identity # None

\* get_active_sessions names exactly the sessions that are not revoked, also
\* after a session was added twice, or revoked and added again.
ListMatchesSessions ==
    ToSet(active_sessions) = {k \in DOMAIN sessions : sessions[k].active}

\* The contract implements the sessions it promises: whoever operates or revokes
\* holds an unexpired grant at that moment, and every operation is counted.
Authority == INSTANCE SessionAuthority WITH
    until <- [k \in Keys |-> IF k \in DOMAIN sessions /\ sessions[k].active
                             THEN sessions[k].max_epoch ELSE None],
    operations <- nonce

ImplementsAuthority == Authority!Spec
=============================================================================
