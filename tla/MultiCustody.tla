---------------------------- MODULE MultiCustody ----------------------------
(***************************************************************************)
(* contracts/zk-multi-custody: a wallet whose transactions K of its N      *)
(* guardians approve.  A call of the contract is atomic, and a call that   *)
(* returns an error leaves no trace, so only the calls that succeed are    *)
(* steps.  Hashes are injective: a transaction id is the pair it hashes,   *)
(* and a nullifier the pair of commitment and transaction id.              *)
(***************************************************************************)
EXTENDS Naturals, FiniteSets, Sequences, SequencesExt, ListFilter

CONSTANTS
    Commitments,    \* identity commitments
    GuardianLists,  \* the guardian vectors given to initialize
    Thresholds,     \* the thresholds given to initialize
    Data,           \* transaction data
    EmptyData,      \* transaction data of length zero
    Expiries,       \* values of expiry_seconds
    TimelockFrom,   \* timelock_threshold
    TimelockFor,    \* timelock_seconds
    MaxInitialize,  \* bound on the calls of initialize
    MaxNonce,       \* bound on the nonce
    MaxTime,        \* bound on the ledger's clock
    None            \* Option::None

Guardian == [commitment : Commitments, active : BOOLEAN]

ASSUME ConfigAssumption ==
    /\ GuardianLists \subseteq Seq(Guardian)
    /\ Thresholds \subseteq Nat /\ Expiries \subseteq Nat
    /\ EmptyData \in Data
    /\ TimelockFrom \in Nat /\ TimelockFor \in Nat
    /\ MaxInitialize \in Nat /\ MaxNonce \in Nat /\ MaxTime \in Nat
    /\ None \notin Nat

TxIds == Data \X (0..MaxNonce)
Nullifiers == Commitments \X TxIds

VARIABLES
    now,         \* env.ledger().timestamp()
    initialized, \* how often initialize has succeeded
    guardians, threshold, nonce,  \* DataKey::Config
    pending,     \* DataKey::PendingTx(id), for the ids that have one
    list,        \* DataKey::PendingTxList
    nullifiers,  \* the keys DataKey::ProofNullifier
    executions   \* how often the operation of a transaction was carried out

config == <<guardians, threshold>>
vars == <<now, initialized, config, nonce, pending, list, nullifiers, executions>>

-----------------------------------------------------------------------------
\* The index a proof is credited to: the first active guardian that has its
\* commitment.  There is none for a proof nobody of the wallet can give.
Holds(i, c) == guardians[i].commitment = c /\ guardians[i].active
IndexOf(c) ==
    CHOOSE i \in DOMAIN guardians : Holds(i, c) /\ \A j \in 1..i - 1 : ~Holds(j, c)
IsGuardian(c) == \E i \in DOMAIN guardians : Holds(i, c)

Approval(c) == [index |-> IndexOf(c), by |-> c, at |-> now]

\* The initiator's proof is the first approval.  (The first form drops it.)
FirstProofsNone(c) == <<>>
FirstProofs(c) == <<Approval(c)>>

\* generate_nullifier and the check against the used ones.
NullifierFreshAlways(c, id) == TRUE
NullifierFresh(c, id) == <<c, id>> \notin nullifiers

\* extract_amount is a stub, so no transaction is ever found to be large.
ExtractAmount(data) == None
ExecutableAt(data) ==
    IF ExtractAmount(data) # None /\ ExtractAmount(data) >= TimelockFrom
    THEN now + TimelockFor ELSE None

\* The status once enough proofs are collected.
ApprovedStatus(executableAt) ==
    IF executableAt = None THEN "ReadyToExecute" ELSE "TimelockPending"

\* collected_proofs.len() >= config.threshold.
EnoughProofsEarly(n) == n + 1 >= threshold
EnoughProofs(n) == n >= threshold

-----------------------------------------------------------------------------
Init ==
    /\ now = 0 /\ initialized = 0
    /\ guardians = <<>> /\ threshold = 0 /\ nonce = 0
    /\ pending = [id \in {} |-> None]
    /\ list = <<>>
    /\ nullifiers = {}
    /\ executions = [id \in TxIds |-> 0]

Tick ==
    /\ now < MaxTime
    /\ now' = now + 1
    /\ UNCHANGED <<initialized, config, nonce, pending, list, nullifiers, executions>>

\* initialize, with the proof of some guardian of the list.  Nothing in it asks
\* whether the wallet already exists; the old transactions and nullifiers stay in
\* storage.
Initialize ==
    /\ initialized < MaxInitialize
    /\ \E gs \in GuardianLists, k \in Thresholds :
         /\ k > 0 /\ k <= Len(gs) /\ Len(gs) >= 2
         /\ guardians' = gs /\ threshold' = k
    /\ initialized' = initialized + 1
    /\ nonce' = 0
    /\ list' = <<>>
    /\ UNCHANGED <<now, pending, nullifiers, executions>>

\* initiate_transaction.
Initiate(c, data, expiry) ==
    LET id == <<data, nonce>>
        at == ExecutableAt(data)
    IN  /\ initialized > 0
        /\ nonce < MaxNonce
        /\ IsGuardian(c)
        /\ NullifierFresh(c, id)
        /\ nonce' = nonce + 1
        /\ nullifiers' = nullifiers \cup {<<c, id>>}
        /\ pending' = [i \in DOMAIN pending \cup {id} |->
             IF i # id THEN pending[i] ELSE
             [proofs |-> FirstProofs(c), expiresAt |-> now + expiry, executableAt |-> at,
              createdAt |-> now,
              status |-> IF threshold = 1 THEN ApprovedStatus(at) ELSE "PendingApprovals"]]
        /\ list' = Append(list, id)
        /\ UNCHANGED <<now, initialized, config, executions>>

\* submit_approval.  After the deadline it writes the status Expired and returns
\* an error, which undoes the write.
InTimeAlways(id) == TRUE
InTime(id) == now <= pending[id].expiresAt

SubmitApproval(c, id) ==
    LET tx == pending[id]
        proofs == Append(tx.proofs, Approval(c))
    IN  /\ id \in DOMAIN pending
        /\ InTime(id)
        /\ tx.status \notin {"Executed", "Cancelled"}
        /\ IsGuardian(c)
        /\ \A k \in DOMAIN tx.proofs : tx.proofs[k].index # IndexOf(c)
        /\ NullifierFresh(c, id)
        /\ nullifiers' = nullifiers \cup {<<c, id>>}
        /\ pending' = [pending EXCEPT ![id] =
             [tx EXCEPT !.proofs = proofs,
                        !.status = IF EnoughProofs(Len(proofs))
                                   THEN ApprovedStatus(tx.executableAt) ELSE @]]
        /\ UNCHANGED <<now, initialized, config, nonce, list, executions>>

\* execute_transaction: anyone may call it, and the deadline no longer counts.
ExecutableStatusesAny == {"ReadyToExecute", "Executed"}
ExecutableStatuses == {"ReadyToExecute"}

\* (The first form drops only the head of the list.)
ListWithoutHead(id) == SubSeq(list, 2, Len(list))
ListWithout(id) == Filtered(list, TxIds \ {id})

Execute(id) ==
    /\ id \in DOMAIN pending
    /\ pending[id].status \in ExecutableStatuses
    /\ pending[id].executableAt # None => now >= pending[id].executableAt
    /\ id[1] # EmptyData
    /\ pending' = [pending EXCEPT ![id].status = "Executed"]
    /\ executions' = [executions EXCEPT ![id] = @ + 1]
    /\ list' = ListWithout(id)
    /\ UNCHANGED <<now, initialized, config, nonce, nullifiers>>

Next ==
    \/ Tick \/ Initialize
    \/ \E c \in Commitments :
         \/ \E data \in Data, expiry \in Expiries : Initiate(c, data, expiry)
         \/ \E id \in TxIds : SubmitApproval(c, id)
    \/ \E id \in TxIds : Execute(id)

Spec == Init /\ [][Next]_vars

-----------------------------------------------------------------------------
(* Properties.                                                             *)

TxStatuses == {"PendingApprovals", "TimelockPending", "ReadyToExecute", "Executed",
               "Cancelled", "Expired"}

\* Every pending transaction is a well-formed record with at least one proof.
TypeOK ==
    /\ now \in 0..MaxTime /\ initialized \in 0..MaxInitialize
    /\ guardians \in GuardianLists \cup {<<>>} /\ threshold \in Thresholds \cup {0}
    /\ nonce \in 0..MaxNonce
    /\ DOMAIN pending \subseteq TxIds
    /\ \A id \in DOMAIN pending :
         /\ pending[id].status \in TxStatuses
         /\ pending[id].proofs # <<>>
         /\ pending[id].expiresAt \in Nat /\ pending[id].createdAt \in 0..MaxTime
    /\ list \in Seq(TxIds)
    /\ nullifiers \subseteq Nullifiers
    /\ executions \in [TxIds -> Nat]

\* No identity is counted twice among the approvals of a transaction, although
\* the approvals are told apart by guardian index, an identity may be listed
\* twice, and initialize may replace the list while a transaction is pending.
DistinctApprovers ==
    \A id \in DOMAIN pending :
      \A k, l \in DOMAIN pending[id].proofs :
        pending[id].proofs[k].by = pending[id].proofs[l].by => k = l

\* Every collected approval was given before the transaction's deadline, and its
\* nullifier is spent.
ApprovalsInTime ==
    \A id \in DOMAIN pending :
      \A k \in DOMAIN pending[id].proofs :
        /\ pending[id].proofs[k].at <= pending[id].expiresAt
        /\ <<pending[id].proofs[k].by, id>> \in nullifiers

\* initialize replaces guardians, threshold and list whenever it is called again.
SetUpOnce == initialized <= 1

\* In a wallet that is set up once, a transaction that may be carried out, or was,
\* has the approvals of K of the wallet's active guardians.
ThresholdMet ==
    SetUpOnce => \A id \in DOMAIN pending :
      pending[id].status \in {"ReadyToExecute", "Executed"} =>
        Cardinality({c \in Commitments : IsGuardian(c) /\
                       \E k \in DOMAIN pending[id].proofs : pending[id].proofs[k].by = c})
          >= threshold

\* In a wallet that is set up once, the pending list holds each transaction exactly
\* once until it is executed, and never after that.
ListedUntilExecuted ==
    SetUpOnce =>
    /\ ToSet(list) = {id \in DOMAIN pending : pending[id].status # "Executed"}
    /\ IsInjective(list)

\* In a wallet that is set up once, the operation of a transaction is carried out
\* once, and only as its status is set to Executed.
ExecutedOnce ==
    SetUpOnce => \A id \in TxIds :
      executions[id] = IF id \in DOMAIN pending /\ pending[id].status = "Executed" THEN 1 ELSE 0

-----------------------------------------------------------------------------
\* MultiCustodyConfig: the nonce is for replay protection, so no transaction is
\* ever carried out twice.
ReplayProtected == \A id \in TxIds : executions[id] <= 1
=============================================================================
