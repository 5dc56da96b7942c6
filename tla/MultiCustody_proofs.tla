------------------------ MODULE MultiCustody_proofs ------------------------
(***************************************************************************)
(* What the multi-custody contract guarantees for every set of identities, *)
(* every guardian list and every number of transactions.                   *)
(***************************************************************************)
EXTENDS MultiCustody, CollectionLemmas

\* A stored transaction: its proofs are a sequence, whatever their credit.
Transaction(tx) ==
    \E S : tx \in [proofs : Seq(S), expiresAt : Nat, executableAt : Nat \cup {None},
                   createdAt : Nat, status : TxStatuses]

Stored ==
    /\ now \in Nat
    /\ pending = [id \in DOMAIN pending |-> pending[id]]
    /\ \A id \in DOMAIN pending : Transaction(pending[id])

\* Each collected approval has spent its nullifier, which is what keeps the
\* identities of a transaction distinct once the guardian list has changed.
ApprovalInv == Stored /\ DistinctApprovers /\ ApprovalsInTime

\* What the contract stores when it initiates a transaction is a transaction.
LEMMA NewTransaction ==
    ASSUME NEW first, NEW expiresAt \in Nat, NEW createdAt \in Nat, NEW status \in TxStatuses
    PROVE  Transaction([proofs |-> <<first>>, expiresAt |-> expiresAt,
                        executableAt |-> None, createdAt |-> createdAt, status |-> status])
<1>1. <<first>> \in Seq({first})
  OBVIOUS
<1>2. [proofs |-> <<first>>, expiresAt |-> expiresAt, executableAt |-> None,
       createdAt |-> createdAt, status |-> status] \in
        [proofs : Seq({first}), expiresAt : Nat, executableAt : Nat \cup {None},
         createdAt : Nat, status : TxStatuses]
  BY <1>1
<1> QED
  BY <1>2 DEF Transaction

\* A call that leaves a transaction's proofs and deadline alone.
LEMMA ProofsKept ==
    ASSUME ApprovalInv, now' \in Nat, nullifiers \subseteq nullifiers',
           pending' = [id \in DOMAIN pending' |-> pending'[id]],
           \A id \in DOMAIN pending' :
             /\ id \in DOMAIN pending
             /\ Transaction(pending'[id])
             /\ pending'[id].proofs = pending[id].proofs
             /\ pending'[id].expiresAt = pending[id].expiresAt
    PROVE  ApprovalInv'
BY DEF ApprovalInv, Stored, DistinctApprovers, ApprovalsInTime

\* One more approval of an identity whose nullifier was not spent.
LEMMA ProofAdded ==
    ASSUME ApprovalInv, NEW c \in Commitments, NEW id \in DOMAIN pending,
           NullifierFresh(c, id), InTime(id)
    PROVE  LET proofs == Append(pending[id].proofs, Approval(c))
           IN  /\ \E S : proofs \in Seq(S)
               /\ \A k, l \in DOMAIN proofs : proofs[k].by = proofs[l].by => k = l
               /\ \A k \in DOMAIN proofs :
                    /\ proofs[k].at <= pending[id].expiresAt
                    /\ <<proofs[k].by, id>> \in nullifiers \cup {<<c, id>>}
<1> DEFINE old == pending[id].proofs
           proofs == Append(old, Approval(c))
<1>1. PICK S : old \in Seq(S)
  BY DEF ApprovalInv, Stored, Transaction
<1>2. old \in Seq(S \cup {Approval(c)})
  BY <1>1
<1>3. /\ proofs \in Seq(S \cup {Approval(c)})
      /\ DOMAIN proofs = 1..Len(old) + 1 /\ DOMAIN old = 1..Len(old) /\ Len(old) \in Nat
      /\ \A k \in 1..Len(old) : proofs[k] = old[k]
      /\ proofs[Len(old) + 1] = Approval(c)
  BY <1>2
<1>4. \A k \in DOMAIN old : old[k].by # c /\ <<old[k].by, id>> \in nullifiers
  BY DEF ApprovalInv, ApprovalsInTime, NullifierFresh
<1>5. Approval(c).by = c /\ Approval(c).at = now
  BY DEF Approval
<1> DEFINE last == Len(old) + 1
<1>9. /\ DOMAIN proofs = DOMAIN old \cup {last} /\ last \notin DOMAIN old
      /\ \A k \in DOMAIN old : proofs[k] = old[k]
      /\ proofs[last] = Approval(c)
  BY <1>3
<1> HIDE DEF proofs, old, last
<1>6. ASSUME NEW k \in DOMAIN proofs, NEW l \in DOMAIN proofs,
             proofs[k].by = proofs[l].by
      PROVE  k = l
  <2>1. \A i, j \in DOMAIN old : old[i].by = old[j].by => i = j
    BY DEF ApprovalInv, DistinctApprovers, old
  <2> QED
    BY <1>4, <1>5, <1>6, <1>9, <2>1
<1>7. ASSUME NEW k \in DOMAIN proofs
      PROVE  /\ proofs[k].at <= pending[id].expiresAt
             /\ <<proofs[k].by, id>> \in nullifiers \cup {<<c, id>>}
  <2>1. \A i \in DOMAIN old : old[i].at <= pending[id].expiresAt
    BY DEF ApprovalInv, ApprovalsInTime, old
  <2> QED
    BY <1>4, <1>5, <1>7, <1>9, <2>1 DEF InTime
<1> QED
  BY <1>3, <1>6, <1>7 DEF proofs, old

\* The invariant holds, however often the wallet is set up again.
LEMMA ApprovalInvHolds == Spec => []ApprovalInv
<1>1. Init => ApprovalInv
  BY DEF Init, ApprovalInv, Stored, DistinctApprovers, ApprovalsInTime
<1>2. ApprovalInv /\ [Next]_vars => ApprovalInv'
  <2> SUFFICES ASSUME ApprovalInv, [Next]_vars PROVE ApprovalInv'
    OBVIOUS
  <2>0. now \in Nat /\ pending = [id \in DOMAIN pending |-> pending[id]]
        /\ \A id \in DOMAIN pending : Transaction(pending[id])
    BY DEF ApprovalInv, Stored
  <2>1. CASE Tick \/ Initialize \/ UNCHANGED vars
    <3>1. now' \in Nat /\ pending' = pending /\ nullifiers' = nullifiers
      BY <2>0, <2>1 DEF Tick, Initialize, vars
    <3> QED
      BY <2>0, <3>1, ProofsKept
  <2>2. ASSUME NEW c \in Commitments, NEW data \in Data, NEW expiry \in Expiries,
               Initiate(c, data, expiry)
        PROVE  ApprovalInv'
    <3> DEFINE id == <<data, nonce>>
               status == IF threshold = 1 THEN ApprovedStatus(None) ELSE "PendingApprovals"
               new == [proofs |-> <<Approval(c)>>, expiresAt |-> now + expiry,
                       executableAt |-> None, createdAt |-> now, status |-> status]
    <3>1. ExecutableAt(data) = None
      BY DEF ExecutableAt, ExtractAmount
    <3>2. pending' = [i \in DOMAIN pending \cup {id} |->
                        IF i # id THEN pending[i] ELSE new]
      BY <2>2, <3>1 DEF Initiate, FirstProofs
    <3>3. Transaction(new)
      <4>1. status \in TxStatuses
        BY DEF ApprovedStatus, TxStatuses
      <4>2. now + expiry \in Nat
        BY <2>0, ConfigAssumption
      <4> HIDE DEF status
      <4> QED
        BY <2>0, <4>1, <4>2, NewTransaction
    <3>4. now' = now /\ nullifiers' = nullifiers \cup {<<c, id>>}
      BY <2>2 DEF Initiate
    <3>5. /\ DOMAIN new.proofs = {1} /\ new.proofs[1] = Approval(c)
          /\ new.expiresAt = now + expiry /\ now <= now + expiry
      BY <2>0, ConfigAssumption
    <3>6. Approval(c).by = c /\ Approval(c).at = now
      BY DEF Approval
    <3> HIDE DEF id, new
    <3>7. /\ DOMAIN pending' = DOMAIN pending \cup {id}
          /\ pending'[id] = new
          /\ \A i \in DOMAIN pending' \ {id} : i \in DOMAIN pending /\ pending'[i] = pending[i]
      BY <3>2
    <3>8. Stored'
      BY <2>0, <3>2, <3>3, <3>4, <3>7 DEF Stored
    <3>9. DistinctApprovers'
      BY <3>5, <3>7 DEF ApprovalInv, DistinctApprovers
    <3>10. ApprovalsInTime'
      BY <3>4, <3>5, <3>6, <3>7 DEF ApprovalInv, ApprovalsInTime
    <3> QED
      BY <3>8, <3>9, <3>10 DEF ApprovalInv
  <2>3. ASSUME NEW c \in Commitments, NEW id \in TxIds, SubmitApproval(c, id)
        PROVE  ApprovalInv'
    <3> DEFINE tx == pending[id]
               proofs == Append(tx.proofs, Approval(c))
    <3>1. id \in DOMAIN pending /\ now' = now /\ nullifiers' = nullifiers \cup {<<c, id>>}
      BY <2>3 DEF SubmitApproval
    <3>2. /\ \E S : proofs \in Seq(S)
          /\ \A k, l \in DOMAIN proofs : proofs[k].by = proofs[l].by => k = l
          /\ \A k \in DOMAIN proofs :
               /\ proofs[k].at <= tx.expiresAt
               /\ <<proofs[k].by, id>> \in nullifiers \cup {<<c, id>>}
      BY <2>3, <3>1, ProofAdded DEF SubmitApproval
    <3>3. PICK status : pending' = [pending EXCEPT ![id] =
                          [tx EXCEPT !.proofs = proofs, !.status = status]]
                        /\ status \in TxStatuses
      <4>1. Transaction(tx)
        BY <2>0, <3>1
      <4>2. tx.status \in TxStatuses
        BY <4>1 DEF Transaction
      <4> QED
        BY <2>3, <4>2 DEF SubmitApproval, ApprovedStatus, TxStatuses
    <3> HIDE DEF proofs
    <3>4. /\ DOMAIN pending' = DOMAIN pending
          /\ pending' = [i \in DOMAIN pending' |-> pending'[i]]
          /\ pending'[id] = [tx EXCEPT !.proofs = proofs, !.status = status]
          /\ \A i \in DOMAIN pending' \ {id} : pending'[i] = pending[i]
      BY <2>0, <3>1, <3>3
    <3>5. /\ Transaction(pending'[id])
          /\ pending'[id].proofs = proofs /\ pending'[id].expiresAt = tx.expiresAt
      <4>1. PICK T : proofs \in Seq(T)
        BY <3>2
      <4>2. Transaction(tx)
        BY <2>0, <3>1
      <4>3. status \in TxStatuses
        BY <3>3
      <4> HIDE DEF tx
      <4>4. PICK S : tx \in [proofs : Seq(S), expiresAt : Nat,
                             executableAt : Nat \cup {None}, createdAt : Nat,
                             status : TxStatuses]
        BY <4>2 DEF Transaction
      <4> DEFINE new == [tx EXCEPT !.proofs = proofs, !.status = status]
      <4>5. /\ new \in [proofs : Seq(T), expiresAt : Nat,
                        executableAt : Nat \cup {None}, createdAt : Nat,
                        status : TxStatuses]
            /\ new.proofs = proofs /\ new.expiresAt = tx.expiresAt
        BY <4>1, <4>3, <4>4
      <4>6. pending'[id] = new
        BY <3>4
      <4> HIDE DEF new
      <4> QED
        BY <4>5, <4>6 DEF Transaction
    <3>6. Stored'
      BY <2>0, <3>1, <3>4, <3>5 DEF Stored
    <3>7. DistinctApprovers'
      <4>1. \A i \in DOMAIN pending' \ {id} : i \in DOMAIN pending /\ pending'[i] = pending[i]
        BY <3>4
      <4>2. \A k, l \in DOMAIN pending'[id].proofs :
              pending'[id].proofs[k].by = pending'[id].proofs[l].by => k = l
        BY <3>2, <3>5
      <4>3. \A i \in DOMAIN pending' \ {id} : \A k, l \in DOMAIN pending'[i].proofs :
              pending'[i].proofs[k].by = pending'[i].proofs[l].by => k = l
        BY <4>1 DEF ApprovalInv, DistinctApprovers
      <4> QED
        BY <4>2, <4>3 DEF DistinctApprovers
    <3>8. ApprovalsInTime'
      BY <3>1, <3>2, <3>4, <3>5 DEF ApprovalInv, ApprovalsInTime
    <3> QED
      BY <3>6, <3>7, <3>8 DEF ApprovalInv
  <2>4. ASSUME NEW id \in TxIds, Execute(id) PROVE ApprovalInv'
    <3>1. /\ id \in DOMAIN pending /\ now' = now /\ nullifiers' = nullifiers
          /\ pending' = [pending EXCEPT ![id].status = "Executed"]
      BY <2>4 DEF Execute
    <3>2. PICK S : pending[id] \in [proofs : Seq(S), expiresAt : Nat,
                                    executableAt : Nat \cup {None}, createdAt : Nat,
                                    status : TxStatuses]
      BY <2>0, <3>1 DEF Transaction
    <3>3. /\ DOMAIN pending' = DOMAIN pending
          /\ pending' = [i \in DOMAIN pending' |-> pending'[i]]
          /\ pending'[id] = [pending[id] EXCEPT !.status = "Executed"]
          /\ \A i \in DOMAIN pending' \ {id} : pending'[i] = pending[i]
      BY <2>0, <3>1
    <3>4. /\ Transaction(pending'[id])
          /\ pending'[id].proofs = pending[id].proofs
          /\ pending'[id].expiresAt = pending[id].expiresAt
      BY <3>2, <3>3 DEF Transaction, TxStatuses
    <3> QED
      BY <2>0, <3>1, <3>3, <3>4, ProofsKept
  <2> QED
    BY <2>1, <2>2, <2>3, <2>4 DEF Next
<1> QED
  BY <1>1, <1>2, PTL DEF Spec

\* No identity counts twice among the approvals of a transaction.
THEOREM DistinctApproversHolds == Spec => []DistinctApprovers
<1>1. ApprovalInv => DistinctApprovers
  BY DEF ApprovalInv
<1> QED
  BY <1>1, ApprovalInvHolds, PTL

\* No approval is counted that was given after the deadline.
THEOREM ApprovalsInTimeHolds == Spec => []ApprovalsInTime
<1>1. ApprovalInv => ApprovalsInTime
  BY DEF ApprovalInv
<1> QED
  BY <1>1, ApprovalInvHolds, PTL

-----------------------------------------------------------------------------
(* A wallet that is set up once.                                           *)

\* The approvals of a transaction are of the wallet's active guardians, and there are
\* enough of them once it may be carried out.
Backed(tx) ==
    /\ \A k \in DOMAIN tx.proofs :
         tx.proofs[k].by \in Commitments /\ IsGuardian(tx.proofs[k].by)
    /\ tx.status \in {"ReadyToExecute", "Executed"} => Len(tx.proofs) >= threshold

\* No id is given twice: those that are given are below the nonce.
IdsGiven == \A id \in DOMAIN pending : id \in TxIds /\ id[2] < nonce

AllBacked == \A id \in DOMAIN pending : Backed(pending[id])

CustodyInv ==
    /\ nonce \in Nat /\ initialized \in Nat /\ threshold \in Nat
    /\ executions \in [TxIds -> Nat]
    /\ SetUpOnce =>
         /\ initialized = 0 => DOMAIN pending = {}
         /\ IdsGiven
         /\ AllBacked
    /\ ExecutedOnce

\* As many approvals as different identities that gave them.
LEMMA ApproversCounted ==
    ASSUME NEW proofs, NEW S, proofs \in Seq(S), NEW T,
           \A k, l \in DOMAIN proofs : proofs[k].by = proofs[l].by => k = l,
           \A c : c \in T <=> \E k \in DOMAIN proofs : proofs[k].by = c
    PROVE  Cardinality(T) = Len(proofs)
<1> DEFINE n == Len(proofs)
           f == [k \in 1..n |-> proofs[k].by]
<1>1. n \in Nat /\ DOMAIN proofs = 1..n
  OBVIOUS
<1>2. f \in Injection(1..n, T)
  <2>1. f \in [1..n -> T]
    BY <1>1
  <2>2. \A k, l \in 1..n : f[k] = f[l] => k = l
    BY <1>1
  <2> QED
    BY <2>1, <2>2 DEF Injection, IsInjective
<1>3. f \in Surjection(1..n, T)
  <2>1. f \in [1..n -> T]
    BY <1>1
  <2>2. \A c \in T : \E k \in 1..n : f[k] = c
    BY <1>1
  <2> QED
    BY <2>1, <2>2 DEF Surjection
<1>4. ExistsBijection(1..n, T)
  BY <1>2, <1>3 DEF Bijection, ExistsBijection
<1>5. IsFiniteSet(1..n) /\ Cardinality(1..n) = n
  <2>1. Cardinality(1..n) = IF 1 > n THEN 0 ELSE n - 1 + 1
    BY <1>1, FS_Interval
  <2> QED
    BY <1>1, <2>1, FS_Interval
<1> QED
  BY <1>4, <1>5, FS_Bijection

\* One step of a wallet that has been set up once or not at all.
LEMMA CustodyStep ==
    ASSUME ApprovalInv, CustodyInv, [Next]_vars PROVE CustodyInv'
<1> USE DEF SetUpOnce
<1>0. /\ nonce \in Nat /\ initialized \in Nat /\ threshold \in Nat
      /\ executions \in [TxIds -> Nat]
      /\ \A id \in DOMAIN pending : Transaction(pending[id])
  BY DEF CustodyInv, ApprovalInv, Stored
<1>1. CASE Tick \/ UNCHANGED vars
  BY <1>1 DEF Tick, vars, config, CustodyInv, IdsGiven, AllBacked, Backed, IsGuardian,
     Holds, ExecutedOnce
<1>2. CASE Initialize
  <2>1. /\ initialized' = initialized + 1 /\ nonce' = 0
        /\ pending' = pending /\ executions' = executions
        /\ threshold' \in Nat
    BY <1>2, ConfigAssumption DEF Initialize
  <2>2. CASE initialized = 0
    BY <1>0, <2>1, <2>2 DEF CustodyInv, IdsGiven, AllBacked, ExecutedOnce
  <2>3. CASE initialized # 0
    BY <1>0, <2>1, <2>3 DEF CustodyInv, ExecutedOnce
  <2> QED
    BY <2>2, <2>3
<1>3. ASSUME NEW c \in Commitments, NEW data \in Data, NEW expiry \in Expiries,
             Initiate(c, data, expiry)
      PROVE  CustodyInv'
  <2> DEFINE id == <<data, nonce>>
             status == IF threshold = 1 THEN ApprovedStatus(None) ELSE "PendingApprovals"
             new == [proofs |-> <<Approval(c)>>, expiresAt |-> now + expiry,
                     executableAt |-> None, createdAt |-> now, status |-> status]
  <2>1. ExecutableAt(data) = None
    BY DEF ExecutableAt, ExtractAmount
  <2>2. /\ pending' = [i \in DOMAIN pending \cup {id} |->
                         IF i # id THEN pending[i] ELSE new]
        /\ nonce' = nonce + 1 /\ IsGuardian(c) /\ initialized > 0 /\ nonce < MaxNonce
        /\ initialized' = initialized /\ guardians' = guardians /\ threshold' = threshold
        /\ executions' = executions
    BY <1>3, <2>1 DEF Initiate, FirstProofs, config
  <2>3. /\ new.proofs = <<Approval(c)>> /\ Approval(c).by = c
        /\ new.status = "ReadyToExecute" => threshold = 1
        /\ new.status # "Executed"
    BY DEF Approval, ApprovedStatus
  <2>4. id \in TxIds /\ id[2] = nonce
    BY <1>0, <2>2, ConfigAssumption DEF TxIds
  <2> HIDE DEF id, new
  <2>5. /\ DOMAIN pending' = DOMAIN pending \cup {id}
        /\ pending'[id] = new
        /\ \A i \in DOMAIN pending' \ {id} : i \in DOMAIN pending /\ pending'[i] = pending[i]
    BY <2>2
  <2>6. ASSUME SetUpOnce'
        PROVE  IdsGiven' /\ AllBacked' /\ initialized' # 0
    <3>0. SetUpOnce /\ IdsGiven /\ AllBacked
      BY <2>2, <2>6 DEF CustodyInv
    <3>1. IdsGiven'
      BY <1>0, <2>2, <2>4, <2>5, <3>0 DEF IdsGiven, TxIds
    <3>2. \A g : IsGuardian(g)' <=> IsGuardian(g)
      BY <2>2 DEF IsGuardian, Holds
    <3>3. /\ DOMAIN new.proofs = {1} /\ new.proofs[1].by = c
          /\ new.status = "ReadyToExecute" => Len(new.proofs) >= threshold
      BY <1>0, <2>3
    <3> HIDE DEF IsGuardian
    <3>4. AllBacked'
      BY <1>3, <2>2, <2>3, <2>5, <3>0, <3>2, <3>3 DEF AllBacked, Backed
    <3> QED
      BY <1>0, <2>2, <3>1, <3>4
  <2>7. ExecutedOnce'
    <3> SUFFICES ASSUME SetUpOnce PROVE ExecutedOnce'
      BY <2>2 DEF ExecutedOnce
    <3>1. id \notin DOMAIN pending
      BY <1>0, <2>4 DEF CustodyInv, IdsGiven
    <3>2. executions[id] = 0
      BY <2>4, <3>1 DEF CustodyInv, ExecutedOnce
    <3> QED
      BY <2>2, <2>3, <2>5, <3>1, <3>2 DEF CustodyInv, ExecutedOnce
  <2> QED
    BY <1>0, <2>2, <2>6, <2>7 DEF CustodyInv
<1>4. ASSUME NEW c \in Commitments, NEW id \in TxIds, SubmitApproval(c, id)
      PROVE  CustodyInv'
  <2> DEFINE tx == pending[id]
             proofs == Append(tx.proofs, Approval(c))
             status == IF EnoughProofs(Len(proofs))
                       THEN ApprovedStatus(tx.executableAt) ELSE tx.status
             new == [tx EXCEPT !.proofs = proofs, !.status = status]
  <2>1. /\ id \in DOMAIN pending /\ IsGuardian(c) /\ tx.status \notin {"Executed", "Cancelled"}
        /\ initialized' = initialized /\ guardians' = guardians /\ threshold' = threshold
        /\ nonce' = nonce /\ executions' = executions
        /\ pending' = [pending EXCEPT ![id] = new]
    BY <1>4 DEF SubmitApproval, config
  <2>2. PICK S : tx \in [proofs : Seq(S), expiresAt : Nat, executableAt : Nat \cup {None},
                         createdAt : Nat, status : TxStatuses]
    BY <1>0, <2>1 DEF Transaction
  <2>3. tx.proofs \in Seq(S) /\ tx.status \in TxStatuses
    BY <2>2
  <2>4. /\ proofs \in Seq(S \cup {Approval(c)})
        /\ Len(proofs) = Len(tx.proofs) + 1 /\ Len(tx.proofs) \in Nat
        /\ DOMAIN proofs = DOMAIN tx.proofs \cup {Len(tx.proofs) + 1}
        /\ \A k \in DOMAIN tx.proofs : proofs[k] = tx.proofs[k]
        /\ proofs[Len(tx.proofs) + 1].by = c
    <3> HIDE DEF tx
    <3>1. tx.proofs \in Seq(S \cup {Approval(c)})
      BY <2>3
    <3> QED
      BY <2>3, <3>1 DEF Approval
  <2>5. new.proofs = proofs /\ new.status = status
    BY <2>2
  <2>6. status # "Executed" /\ (status = "ReadyToExecute" =>
          tx.status = "ReadyToExecute" \/ Len(proofs) >= threshold)
    BY <2>1 DEF ApprovedStatus, EnoughProofs
  <2> HIDE DEF new, status, proofs
  <2>7. /\ DOMAIN pending' = DOMAIN pending /\ pending'[id] = new
        /\ \A i \in DOMAIN pending \ {id} : pending'[i] = pending[i]
    BY <2>1
  <2>8. ASSUME SetUpOnce'
        PROVE  IdsGiven' /\ AllBacked' /\ initialized' # 0
    <3>0. /\ SetUpOnce /\ IdsGiven /\ AllBacked
          /\ initialized # 0
      BY <2>1, <2>8 DEF CustodyInv
    <3>1. IdsGiven'
      BY <2>1, <2>7, <3>0 DEF IdsGiven, TxIds
    <3>2. \A g : IsGuardian(g)' <=> IsGuardian(g)
      BY <2>1 DEF IsGuardian, Holds
    <3>3. Backed(tx)
      BY <2>1, <3>0 DEF AllBacked
    <3>4. /\ \A k \in DOMAIN proofs :
               proofs[k].by \in Commitments /\ IsGuardian(proofs[k].by)
          /\ status \in {"ReadyToExecute", "Executed"} => Len(proofs) >= threshold
      BY <1>0, <1>4, <2>1, <2>4, <2>6, <3>3 DEF Backed
    <3>5. AllBacked'
      BY <2>1, <2>5, <2>7, <3>0, <3>2, <3>4 DEF AllBacked, Backed
    <3> QED
      BY <2>1, <3>0, <3>1, <3>5
  <2>9. ExecutedOnce'
    BY <2>1, <2>5, <2>6, <2>7 DEF CustodyInv, ExecutedOnce
  <2> QED
    BY <1>0, <2>1, <2>8, <2>9 DEF CustodyInv
<1>5. ASSUME NEW id \in TxIds, Execute(id) PROVE CustodyInv'
  <2>1. /\ id \in DOMAIN pending /\ pending[id].status = "ReadyToExecute"
        /\ initialized' = initialized /\ guardians' = guardians /\ threshold' = threshold
        /\ nonce' = nonce
        /\ pending' = [pending EXCEPT ![id].status = "Executed"]
        /\ executions' = [executions EXCEPT ![id] = executions[id] + 1]
    BY <1>5 DEF Execute, ExecutableStatuses, config
  <2>2. PICK S : pending[id] \in [proofs : Seq(S), expiresAt : Nat,
                                  executableAt : Nat \cup {None}, createdAt : Nat,
                                  status : TxStatuses]
    BY <1>0, <2>1 DEF Transaction
  <2>3. /\ DOMAIN pending' = DOMAIN pending
        /\ pending'[id].proofs = pending[id].proofs /\ pending'[id].status = "Executed"
        /\ \A i \in DOMAIN pending \ {id} : pending'[i] = pending[i]
    BY <2>1, <2>2
  <2>4. ASSUME SetUpOnce'
        PROVE  IdsGiven' /\ AllBacked' /\ initialized' # 0
    <3>0. /\ SetUpOnce /\ IdsGiven /\ AllBacked
          /\ initialized # 0
      BY <2>1, <2>4 DEF CustodyInv
    <3>1. IdsGiven'
      BY <2>1, <2>3, <3>0 DEF IdsGiven, TxIds
    <3>2. \A g : IsGuardian(g)' <=> IsGuardian(g)
      BY <2>1 DEF IsGuardian, Holds
    <3>3. AllBacked'
      BY <2>1, <2>3, <3>0, <3>2 DEF AllBacked, Backed
    <3> QED
      BY <2>1, <3>0, <3>1, <3>3
  <2>5. ExecutedOnce'
    <3> SUFFICES ASSUME SetUpOnce PROVE ExecutedOnce'
      BY <2>1 DEF ExecutedOnce
    <3>1. \A i \in TxIds : executions[i] =
            IF i \in DOMAIN pending /\ pending[i].status = "Executed" THEN 1 ELSE 0
      BY DEF CustodyInv, ExecutedOnce
    <3>2. executions[id] = 0
      BY <2>1, <3>1
    <3>3. id \in DOMAIN executions
      BY <1>0, <1>5
    <3> QED
      BY <2>1, <2>3, <3>1, <3>2, <3>3 DEF ExecutedOnce
  <2> QED
    BY <1>0, <2>1, <2>4, <2>5 DEF CustodyInv
<1> QED
  BY <1>1, <1>2, <1>3, <1>4, <1>5 DEF Next

\* The invariant holds, and with it what it is for.
LEMMA CustodyInvHolds == Spec => [](ApprovalInv /\ CustodyInv)
<1>1. Init => CustodyInv
  BY DEF Init, CustodyInv, SetUpOnce, IdsGiven, AllBacked, ExecutedOnce
<1>2. (ApprovalInv /\ CustodyInv) /\ [Next]_vars => CustodyInv'
  BY CustodyStep
<1> QED
  BY <1>1, <1>2, ApprovalInvHolds, PTL DEF Spec

\* In a wallet that is set up once, whatever may be carried out has the approvals of as
\* many of its active guardians as its threshold asks for.
THEOREM ThresholdMetHolds == Spec => []ThresholdMet
<1>1. ApprovalInv /\ CustodyInv => ThresholdMet
  <2> SUFFICES ASSUME ApprovalInv, CustodyInv, SetUpOnce,
                      NEW id \in DOMAIN pending,
                      pending[id].status \in {"ReadyToExecute", "Executed"}
               PROVE  Cardinality({c \in Commitments : IsGuardian(c) /\
                         \E k \in DOMAIN pending[id].proofs : pending[id].proofs[k].by = c})
                        >= threshold
    BY DEF ThresholdMet
  <2> DEFINE proofs == pending[id].proofs
             T == {c \in Commitments : IsGuardian(c) /\
                     \E k \in DOMAIN proofs : proofs[k].by = c}
  <2>1. PICK S : proofs \in Seq(S)
    BY DEF ApprovalInv, Stored, Transaction
  <2>2. \A k, l \in DOMAIN proofs : proofs[k].by = proofs[l].by => k = l
    BY DEF ApprovalInv, DistinctApprovers
  <2>3. /\ \A k \in DOMAIN proofs : proofs[k].by \in Commitments /\ IsGuardian(proofs[k].by)
        /\ Len(proofs) >= threshold
    BY DEF CustodyInv, AllBacked, Backed
  <2>4. \A c : c \in T <=> \E k \in DOMAIN proofs : proofs[k].by = c
    BY <2>3
  <2> HIDE DEF proofs, T
  <2>5. Cardinality(T) = Len(proofs)
    BY <2>1, <2>2, <2>4, ApproversCounted
  <2> QED
    BY <2>3, <2>5 DEF T, proofs
<1> QED
  BY <1>1, CustodyInvHolds, PTL

\* In a wallet that is set up once, the operation of a transaction is carried out once,
\* when its status becomes Executed, and never otherwise.
THEOREM ExecutedOnceHolds == Spec => []ExecutedOnce
<1>1. CustodyInv => ExecutedOnce
  BY DEF CustodyInv
<1> QED
  BY <1>1, CustodyInvHolds, PTL

-----------------------------------------------------------------------------
(* Types.                                                                  *)

\* What is stored of a transaction, apart from its credit.
Pending(tx) ==
    /\ tx.status \in TxStatuses /\ tx.proofs # <<>>
    /\ tx.expiresAt \in Nat /\ tx.createdAt \in 0..MaxTime

LEMMA TypeStep ==
    ASSUME ApprovalInv, TypeOK, [Next]_vars PROVE TypeOK'
<1> USE ConfigAssumption
<1>0. /\ now \in 0..MaxTime /\ now \in Nat /\ nonce \in 0..MaxNonce
      /\ pending = [id \in DOMAIN pending |-> pending[id]] /\ DOMAIN pending \subseteq TxIds
      /\ \A id \in DOMAIN pending : Pending(pending[id]) /\ Transaction(pending[id])
      /\ list \in Seq(TxIds) /\ executions \in [TxIds -> Nat]
  BY DEF TypeOK, ApprovalInv, Stored, Pending
<1>1. CASE Tick
  BY <1>1 DEF Tick, TypeOK, config
<1>2. CASE Initialize
  BY <1>2 DEF Initialize, TypeOK
<1>3. CASE UNCHANGED vars
  BY <1>3 DEF vars, config, TypeOK
<1>4. ASSUME NEW c \in Commitments, NEW data \in Data, NEW expiry \in Expiries,
             Initiate(c, data, expiry)
      PROVE  TypeOK'
  <2> DEFINE id == <<data, nonce>>
             status == IF threshold = 1 THEN ApprovedStatus(None) ELSE "PendingApprovals"
             new == [proofs |-> <<Approval(c)>>, expiresAt |-> now + expiry,
                     executableAt |-> None, createdAt |-> now, status |-> status]
  <2>1. ExecutableAt(data) = None
    BY DEF ExecutableAt, ExtractAmount
  <2>2. /\ pending' = [i \in DOMAIN pending \cup {id} |->
                         IF i # id THEN pending[i] ELSE new]
        /\ list' = Append(list, id) /\ nullifiers' = nullifiers \cup {<<c, id>>}
        /\ nonce < MaxNonce /\ nonce' = nonce + 1
        /\ UNCHANGED <<now, initialized, config, executions>>
    BY <1>4, <2>1 DEF Initiate, FirstProofs
  <2>3. Pending(new)
    <3>1. status \in TxStatuses
      BY DEF ApprovedStatus, TxStatuses
    <3>2. now + expiry \in Nat
      BY <1>0
    <3> HIDE DEF status
    <3> QED
      BY <1>0, <3>1, <3>2 DEF Pending
  <2>4. id \in TxIds
    BY <1>0 DEF TxIds
  <2> HIDE DEF id, new
  <2>5. /\ DOMAIN pending' \subseteq TxIds
        /\ \A i \in DOMAIN pending' : Pending(pending'[i])
    BY <1>0, <2>2, <2>3, <2>4
  <2>6. list' \in Seq(TxIds)
    BY <1>0, <2>2, <2>4, SeqAppend
  <2>7. nullifiers' \subseteq Nullifiers /\ nonce' \in 0..MaxNonce
    <3>1. nullifiers \subseteq Nullifiers
      BY DEF TypeOK
    <3>2. <<c, id>> \in Nullifiers
      BY <2>4 DEF Nullifiers
    <3>3. nullifiers' = nullifiers \cup {<<c, id>>} /\ nonce < MaxNonce /\ nonce' = nonce + 1
      BY <2>2
    <3>4. nonce' \in 0..MaxNonce
      BY <1>0, <3>3
    <3> QED
      BY <3>1, <3>2, <3>3, <3>4
  <2> QED
    BY <2>2, <2>5, <2>6, <2>7 DEF TypeOK, Pending, config
<1>5. ASSUME NEW c \in Commitments, NEW id \in TxIds, SubmitApproval(c, id)
      PROVE  TypeOK'
  <2> DEFINE tx == pending[id]
             proofs == Append(tx.proofs, Approval(c))
             status == IF EnoughProofs(Len(proofs)) THEN ApprovedStatus(tx.executableAt)
                       ELSE tx.status
             new == [tx EXCEPT !.proofs = proofs, !.status = status]
  <2>1. /\ id \in DOMAIN pending
        /\ nullifiers' = nullifiers \cup {<<c, id>>}
        /\ UNCHANGED <<now, initialized, config, nonce, list, executions>>
        /\ pending' = [pending EXCEPT ![id] = new]
    BY <1>5 DEF SubmitApproval
  <2>2. proofs # <<>>
    <3>1. PICK S : tx.proofs \in Seq(S)
      BY <1>0, <2>1 DEF Transaction
    <3> DEFINE old == tx.proofs
    <3>2. old \in Seq(S \cup {Approval(c)})
      BY <3>1
    <3> HIDE DEF old
    <3>3. Len(Append(old, Approval(c))) = Len(old) + 1 /\ Len(old) \in Nat
      BY <3>2
    <3>4. Append(old, Approval(c)) # <<>>
      BY <3>3
    <3> QED
      BY <3>4 DEF old
  <2>3. status \in TxStatuses
    BY <1>0, <2>1 DEF ApprovedStatus, TxStatuses, Pending
  <2>4. Pending(tx) /\ Transaction(tx)
    BY <1>0, <2>1
  <2> HIDE DEF proofs, status
  <2>5. Pending(new)
    BY <2>2, <2>3, <2>4 DEF Pending, Transaction
  <2> HIDE DEF new
  <2>6. /\ DOMAIN pending' \subseteq TxIds
        /\ \A i \in DOMAIN pending' : Pending(pending'[i])
    BY <1>0, <2>1, <2>5
  <2>7. nullifiers' \subseteq Nullifiers
    BY <2>1 DEF TypeOK, Nullifiers
  <2> QED
    BY <2>1, <2>6, <2>7 DEF TypeOK, Pending, config
<1>6. ASSUME NEW id \in TxIds, Execute(id) PROVE TypeOK'
  <2> DEFINE new == [pending[id] EXCEPT !.status = "Executed"]
  <2>1. /\ id \in DOMAIN pending
        /\ pending' = [pending EXCEPT ![id] = new]
        /\ executions' = [executions EXCEPT ![id] = @ + 1]
        /\ list' = Filtered(list, TxIds \ {id})
        /\ UNCHANGED <<now, initialized, config, nonce, nullifiers>>
    BY <1>6 DEF Execute, ListWithout
  <2>2. Pending(pending[id]) /\ Transaction(pending[id])
    BY <1>0, <2>1
  <2>3. Pending(new)
    BY <2>2 DEF Pending, Transaction, TxStatuses
  <2> HIDE DEF new
  <2>4. /\ DOMAIN pending' \subseteq TxIds
        /\ \A i \in DOMAIN pending' : Pending(pending'[i])
    BY <1>0, <2>1, <2>3
  <2>5. list' \in Seq(TxIds)
    BY <1>0, <2>1, FilteredElements
  <2>6. executions' \in [TxIds -> Nat]
    BY <1>0, <2>1
  <2> QED
    BY <2>1, <2>4, <2>5, <2>6 DEF TypeOK, Pending, config
<1> QED
  BY <1>1, <1>2, <1>3, <1>4, <1>5, <1>6 DEF Next

LEMMA CustodyTyped == Spec => []TypeOK
<1>1. Init => TypeOK
  BY ConfigAssumption DEF Init, TypeOK
<1>2. ApprovalInv /\ TypeOK /\ [Next]_vars => TypeOK'
  BY TypeStep
<1> QED
  BY <1>1, <1>2, ApprovalInvHolds, PTL DEF Spec
=============================================================================
