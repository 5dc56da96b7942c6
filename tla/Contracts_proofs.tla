-------------------------- MODULE Contracts_proofs --------------------------
(***************************************************************************)
(* The contracts of one deployment, for every set of keys, proofs, amounts *)
(* and names: an inductive invariant of each contract and what it means,   *)
(* and that the behaviours of the deployment are, seen from each of its    *)
(* contracts, behaviours of that contract.  MultiCustody_proofs has the    *)
(* proofs about the multi-custody wallet.                                  *)
(***************************************************************************)
EXTENDS Contracts, MultiCustody_proofs

\* The operators on collections that the instances have each of their own.
LEMMA SameLists ==
    /\ \A s : Wallet!ToSet(s) = ToSet(s) /\ Registry!ToSet(s) = ToSet(s)
    /\ \A s : Registry!IsInjective(s) = IsInjective(s)
    /\ \A s, w : Wallet!Filtered(s, w) = Filtered(s, w) /\ Registry!Filtered(s, w) = Filtered(s, w)
BY DEF ToSet, Wallet!ToSet, Registry!ToSet, IsInjective, Registry!IsInjective, Filtered,
   Wallet!Filtered, Registry!Filtered

LEMMA SameSizes ==
    /\ \A S : Facilitator!Cardinality(S) = Cardinality(S) /\ Factory!Cardinality(S) = Cardinality(S)
    /\ \A S : Facilitator!IsFiniteSet(S) = IsFiniteSet(S)
BY DEF Cardinality, Facilitator!Cardinality, Factory!Cardinality, IsFiniteSet,
   Facilitator!IsFiniteSet

LEMMA SameSums == \A f, S : Facilitator!SumFunctionOnSet(f, S) = SumFunctionOnSet(f, S)
BY DEF SumFunctionOnSet, FoldFunctionOnSet, MapThenFoldSet, Facilitator!SumFunctionOnSet,
   Facilitator!FoldFunctionOnSet, Facilitator!MapThenFoldSet

-----------------------------------------------------------------------------
(* SmartWallet.                                                            *)

\* What is stored is sessions of keys, created before their last ledger; nothing at all
\* before there is an identity to grant them under; and the list names the sessions that
\* are not revoked.
SessionsStored ==
    /\ ledger \in 0..MaxLedger /\ walletNonce \in 0..MaxOperations
    /\ identity \in Identities \cup {None}
    /\ granted \in [WalletProofs -> Nat]
    /\ DOMAIN sessions \subseteq WalletKeys
    /\ sessions = [k \in DOMAIN sessions |-> sessions[k]]
    /\ \A k \in DOMAIN sessions :
         /\ sessions[k] \in Wallet!Session
         /\ sessions[k].created_at <= ledger
         /\ sessions[k].created_at < sessions[k].max_epoch
    /\ active_sessions \in Seq(WalletKeys)
    /\ \A i \in DOMAIN active_sessions :
         active_sessions[i] \in DOMAIN sessions /\ sessions[active_sessions[i]].active
    /\ \A k \in DOMAIN sessions :
         sessions[k].active => \E i \in DOMAIN active_sessions : active_sessions[i] = k
    /\ identity = None => walletNonce = 0 /\ DOMAIN sessions = {}

\* The last ledger a key may act in, which the contract never stores as such.
Until == [k \in WalletKeys |-> IF k \in DOMAIN sessions /\ sessions[k].active
                         THEN sessions[k].max_epoch ELSE None]

LEMMA SessionsStoredHold == ASSUME Wallet!WalletAssumption PROVE Wallet!Spec => []SessionsStored
<1>1. Wallet!Init => SessionsStored
  BY DEF Wallet!Init, SessionsStored, Wallet!WalletAssumption
<1>2. SessionsStored /\ [Wallet!Next]_(Wallet!vars) => SessionsStored'
  <2> SUFFICES ASSUME SessionsStored, [Wallet!Next]_(Wallet!vars) PROVE SessionsStored'
    OBVIOUS
  <2>0. /\ ledger \in Nat /\ walletNonce \in Nat /\ MaxLedger \in Nat /\ MaxOperations \in Nat
        /\ \A k \in DOMAIN sessions :
             sessions[k].created_at \in Nat /\ sessions[k].max_epoch \in Nat
    BY DEF SessionsStored, Wallet!WalletAssumption, Wallet!Session
  <2>1. CASE Wallet!NextLedger
    <3>1. /\ ledger' \in 0..MaxLedger /\ ledger' = ledger + 1
          /\ UNCHANGED <<identity, walletNonce, sessions, active_sessions, granted>>
      BY <2>0, <2>1 DEF Wallet!NextLedger, SessionsStored
    <3>2. \A k \in DOMAIN sessions : sessions[k].created_at <= ledger'
      BY <2>0, <3>1 DEF SessionsStored
    <3> QED
      BY <3>1, <3>2 DEF SessionsStored
  <2>2. CASE UNCHANGED Wallet!vars
    BY <2>2 DEF Wallet!vars, SessionsStored
  <2>3. ASSUME NEW i \in Identities, Wallet!Initialize(i) PROVE SessionsStored'
    <3>1. /\ identity' = i /\ identity' # None /\ walletNonce' = 0 /\ active_sessions' = <<>>
          /\ DOMAIN sessions = {} /\ UNCHANGED <<ledger, sessions, granted>>
      BY <2>3 DEF Wallet!Initialize, SessionsStored, Wallet!WalletAssumption
    <3> QED
      BY <2>0, <3>1 DEF SessionsStored
  <2>4. ASSUME NEW p \in WalletProofs, NEW inputs \in Wallet!PublicInputs,
                 Wallet!AddSession(p, inputs)
        PROVE  SessionsStored'
    <3> DEFINE k == inputs.eph_pk
               new == [max_epoch |-> inputs.max_epoch, proof |-> p,
                       created_at |-> ledger, active |-> TRUE]
               n == Len(active_sessions)
    <3>1. /\ sessions' = [i \in DOMAIN sessions \cup {k} |->
                            IF i = k THEN new ELSE sessions[i]]
          /\ active_sessions' = Append(active_sessions, k)
          /\ granted' = [granted EXCEPT ![p] = @ + 1]
          /\ ledger' = ledger /\ identity' = identity /\ identity # None /\ walletNonce'
            = walletNonce
      BY <2>4 DEF Wallet!AddSession, Wallet!PublicInputs, Wallet!WalletAssumption
    <3>2. /\ new \in Wallet!Session /\ k \in WalletKeys /\ new.active
          /\ new.created_at = ledger /\ new.max_epoch > ledger
      BY <2>0, <2>4 DEF Wallet!Session, Wallet!PublicInputs, Wallet!AddSession, Wallet!StillOpen
    <3>3. /\ active_sessions' \in Seq(WalletKeys) /\ n \in Nat /\ DOMAIN active_sessions = 1..n
          /\ DOMAIN active_sessions' = 1..(n + 1) /\ active_sessions'[n + 1] = k
          /\ \A j \in DOMAIN active_sessions : active_sessions'[j] = active_sessions[j]
      BY <3>1, <3>2, SeqAppend DEF SessionsStored
    <3>4. granted' \in [WalletProofs -> Nat]
      BY <3>1 DEF SessionsStored
    <3> HIDE DEF k, new, n
    <3>5. /\ \A j \in 1..(n + 1) : j \in 1..n \/ j = n + 1
          /\ \A j \in 1..n : j \in 1..(n + 1)
          /\ n + 1 \in 1..(n + 1)
      BY <3>3
    <3>6. /\ DOMAIN sessions' = DOMAIN sessions \cup {k} /\ sessions'[k] = new
          /\ \A i \in DOMAIN sessions \ {k} : sessions'[i] = sessions[i]
          /\ sessions' = [i \in DOMAIN sessions' |-> sessions'[i]]
      BY <3>1
    <3>7. ASSUME NEW i \in DOMAIN sessions'
          PROVE  /\ sessions'[i] \in Wallet!Session
                 /\ sessions'[i].created_at <= ledger'
                 /\ sessions'[i].created_at < sessions'[i].max_epoch
                 /\ sessions'[i].active
                   => \E j \in DOMAIN active_sessions' : active_sessions'[j] = i
      <4>1. CASE i = k
        BY <2>0, <3>1, <3>2, <3>3, <3>5, <3>6, <4>1
      <4>2. CASE i \in DOMAIN sessions \ {k}
        <5>1. sessions'[i].active => \E j \in DOMAIN active_sessions : active_sessions[j] = i
          BY <3>6, <4>2 DEF SessionsStored
        <5>2. sessions'[i].active => \E j \in DOMAIN active_sessions' : active_sessions'[j] = i
          BY <3>3, <3>5, <5>1
        <5> QED
          BY <3>1, <3>6, <4>2, <5>2 DEF SessionsStored
      <4> QED
        BY <3>6, <4>1, <4>2
    <3>8. ASSUME NEW j \in DOMAIN active_sessions'
          PROVE  active_sessions'[j] \in DOMAIN sessions' /\ sessions'[active_sessions'[j]].active
      <4>1. CASE j = n + 1
        BY <3>2, <3>3, <3>6, <4>1
      <4>2. CASE j \in 1..n
        BY <3>2, <3>3, <3>6, <4>2 DEF SessionsStored
      <4> QED
        BY <3>3, <3>5, <4>1, <4>2
    <3> QED
      BY <3>1, <3>2, <3>3, <3>4, <3>6, <3>7, <3>8 DEF SessionsStored
  <2>5. ASSUME NEW by \in WalletKeys, NEW k \in WalletKeys, Wallet!RevokeSession(by, k)
        PROVE  SessionsStored'
    <3> DEFINE new == [sessions[k] EXCEPT !.active = FALSE]
    <3>1. /\ sessions' = [sessions EXCEPT ![k] = new] /\ k \in DOMAIN sessions
          /\ active_sessions' = Filtered(active_sessions, WalletKeys \ {k})
          /\ UNCHANGED <<ledger, identity, walletNonce, granted>>
      BY <2>5, SameLists DEF Wallet!RevokeSession, Wallet!Without
    <3>2. /\ new \in Wallet!Session /\ ~new.active /\ new.created_at = sessions[k].created_at
          /\ new.max_epoch = sessions[k].max_epoch
      <4>1. sessions[k] \in Wallet!Session
        BY <3>1 DEF SessionsStored
      <4> QED
        BY <4>1 DEF Wallet!Session
    <3> HIDE DEF new
    <3>3. /\ DOMAIN sessions' = DOMAIN sessions /\ sessions'[k] = new
          /\ \A i \in DOMAIN sessions \ {k} : sessions'[i] = sessions[i]
          /\ sessions' = [i \in DOMAIN sessions' |-> sessions'[i]]
      BY <3>1 DEF SessionsStored
    <3>4. /\ active_sessions' \in Seq(WalletKeys)
          /\ {active_sessions'[i] : i \in DOMAIN active_sessions'}
               = {active_sessions[i] : i \in DOMAIN active_sessions} \cap (WalletKeys \ {k})
      <4> DEFINE before == active_sessions
                 wanted == WalletKeys \ {k}
      <4>1. before \in Seq(WalletKeys) /\ active_sessions' = Filtered(before, wanted)
        BY <3>1 DEF SessionsStored
      <4> HIDE DEF before, wanted
      <4>2. /\ Filtered(before, wanted) \in Seq(WalletKeys)
            /\ {Filtered(before, wanted)[i] : i \in DOMAIN Filtered(before, wanted)}
                 = {before[i] : i \in DOMAIN before} \cap wanted
        BY <4>1, FilteredElements
      <4> QED
        BY <4>1, <4>2 DEF before, wanted
    <3>5. ASSUME NEW j \in DOMAIN active_sessions'
          PROVE  active_sessions'[j] \in DOMAIN sessions' /\ sessions'[active_sessions'[j]].active
      <4>1. /\ active_sessions'[j] \in {active_sessions[i] : i \in DOMAIN active_sessions}
            /\ active_sessions'[j] # k
        BY <3>4
      <4>2. PICK i \in DOMAIN active_sessions : active_sessions'[j] = active_sessions[i]
        BY <4>1
      <4> QED
        BY <3>3, <4>1, <4>2 DEF SessionsStored
    <3>6. ASSUME NEW i \in DOMAIN sessions', sessions'[i].active
          PROVE  \E j \in DOMAIN active_sessions' : active_sessions'[j] = i
      <4>1. i # k /\ sessions[i].active /\ i \in DOMAIN sessions /\ i \in WalletKeys
        BY <3>2, <3>3, <3>6 DEF SessionsStored
      <4>2. i \in {active_sessions[j] : j \in DOMAIN active_sessions}
        BY <4>1 DEF SessionsStored
      <4>3. i \in {active_sessions'[j] : j \in DOMAIN active_sessions'}
        BY <3>4, <4>1, <4>2
      <4> QED
        BY <4>3
    <3>7. \A i \in DOMAIN sessions' :
            /\ sessions'[i] \in Wallet!Session
            /\ sessions'[i].created_at <= ledger'
            /\ sessions'[i].created_at < sessions'[i].max_epoch
      BY <3>1, <3>2, <3>3 DEF SessionsStored
    <3> QED
      BY <3>1, <3>3, <3>4, <3>5, <3>6, <3>7 DEF SessionsStored
  <2>6. ASSUME NEW by \in WalletKeys, Wallet!Execute(by) PROVE SessionsStored'
    <3>1. /\ walletNonce' \in 0..MaxOperations /\ identity # None
          /\ UNCHANGED <<ledger, identity, sessions, active_sessions, granted>>
      BY <2>0, <2>6 DEF Wallet!Execute, SessionsStored, Wallet!Authentic
    <3> QED
      BY <3>1 DEF SessionsStored
  <2> QED
    BY <2>1, <2>2, <2>3, <2>4, <2>5, <2>6 DEF Wallet!Next
<1> QED
  BY <1>1, <1>2, PTL DEF Wallet!Spec

LEMMA SessionsStoredMean == ASSUME SessionsStored PROVE Wallet!TypeOK /\ Wallet!ListMatchesSessions
<1>1. Wallet!TypeOK
  BY DEF SessionsStored, Wallet!TypeOK
<1>2. Wallet!ListMatchesSessions
  BY SameLists DEF SessionsStored, Wallet!ListMatchesSessions, ToSet
<1> QED
  BY <1>1, <1>2

\* Who may act by the promise is who passes the wallet's check.
LEMMA AuthenticMayAct ==
    ASSUME Wallet!WalletAssumption, SessionsStored, NEW k \in WalletKeys, Wallet!Authentic(k)
    PROVE  Wallet!Authority!MayAct(k)
BY DEF SessionsStored, Wallet!Authentic, Wallet!Authority!MayAct, Wallet!Session,
   Wallet!WalletAssumption

LEMMA AuthorityStep ==
    ASSUME Wallet!WalletAssumption, SessionsStored, [Wallet!Next]_(Wallet!vars)
    PROVE  [Wallet!Authority!Next]_(Wallet!Authority!vars)
<1>1. CASE Wallet!NextLedger
  BY <1>1 DEF Wallet!NextLedger, Wallet!Authority!Next, Wallet!Authority!NextLedger
<1>2. CASE UNCHANGED Wallet!vars
  BY <1>2 DEF Wallet!vars, Wallet!Authority!vars
<1>3. ASSUME NEW i \in Identities, Wallet!Initialize(i)
      PROVE  [Wallet!Authority!Next]_(Wallet!Authority!vars)
  BY <1>3 DEF Wallet!Initialize, Wallet!Authority!vars, SessionsStored
<1>4. ASSUME NEW p \in WalletProofs, NEW inputs \in Wallet!PublicInputs, Wallet!AddSession(p,
               inputs)
      PROVE  Wallet!Authority!Next
  <2> DEFINE k == inputs.eph_pk
             e == inputs.max_epoch
             new == [max_epoch |-> e, proof |-> p, created_at |-> ledger, active |-> TRUE]
  <2>1. /\ sessions' = [i \in DOMAIN sessions \cup {k} |->
                          IF i = k THEN new ELSE sessions[i]]
        /\ e > ledger /\ ledger' = ledger /\ walletNonce' = walletNonce
    BY <1>4 DEF Wallet!AddSession, Wallet!StillOpen
  <2>2. k \in WalletKeys /\ e \in Epochs
    BY DEF Wallet!PublicInputs
  <2>3. new.max_epoch = e /\ new.active
    OBVIOUS
  <2> HIDE DEF k, e, new
  <2>4. Until' = [Until EXCEPT ![k] = e]
    BY <2>1, <2>2, <2>3 DEF Until
  <2>5. Wallet!Authority!Grant(k, e)
    BY <2>1, <2>4 DEF Wallet!Authority!Grant, Until
  <2> QED
    BY <2>2, <2>5 DEF Wallet!Authority!Next
<1>5. ASSUME NEW by \in WalletKeys, NEW k \in WalletKeys, Wallet!RevokeSession(by, k)
      PROVE  Wallet!Authority!Next
  <2>1. /\ sessions' = [sessions EXCEPT ![k].active = FALSE]
        /\ k \in DOMAIN sessions /\ sessions[k].active
        /\ ledger' = ledger /\ walletNonce' = walletNonce
    BY <1>5 DEF Wallet!RevokeSession
  <2>2. Wallet!Authority!MayAct(by)
    BY <1>5, AuthenticMayAct DEF Wallet!RevokeSession
  <2>3. Until[k] # None
    BY <2>1 DEF Until, SessionsStored, Wallet!Session, Wallet!WalletAssumption
  <2>4. /\ DOMAIN sessions' = DOMAIN sessions /\ ~sessions'[k].active
        /\ \A i \in DOMAIN sessions \ {k} : sessions'[i] = sessions[i]
    BY <2>1 DEF SessionsStored, Wallet!Session
  <2>5. Until' = [Until EXCEPT ![k] = None]
    BY <2>4 DEF Until
  <2>6. Wallet!Authority!Revoke(by, k)
    BY <2>1, <2>2, <2>3, <2>5 DEF Wallet!Authority!Revoke, Until
  <2> QED
    BY <2>6 DEF Wallet!Authority!Next
<1>6. ASSUME NEW by \in WalletKeys, Wallet!Execute(by) PROVE Wallet!Authority!Next
  <2>1. Wallet!Authority!Operate(by)
    BY <1>6, AuthenticMayAct DEF Wallet!Execute, Wallet!Authority!Operate
  <2> QED
    BY <2>1 DEF Wallet!Authority!Next
<1> QED
  BY <1>1, <1>2, <1>3, <1>4, <1>5, <1>6 DEF Wallet!Next

\* The wallet implements the sessions it promises: whoever operates or revokes holds an
\* unexpired grant at that moment.
LEMMA WalletImplementsAuthority ==
    ASSUME Wallet!WalletAssumption PROVE Wallet!Spec => Wallet!ImplementsAuthority
<1>1. Wallet!Init => Wallet!Authority!Init
  BY DEF Wallet!Init, Wallet!Authority!Init
<1>2. SessionsStored /\ [Wallet!Next]_(Wallet!vars)
      => [Wallet!Authority!Next]_(Wallet!Authority!vars)
  BY AuthorityStep
<1> QED
  BY <1>1, <1>2, SessionsStoredHold, PTL DEF Wallet!Spec, Wallet!ImplementsAuthority,
     Wallet!Authority!Spec

-----------------------------------------------------------------------------
(* ZkVerifier.                                                             *)

\* What the contract has stored and what it has accepted by then: a proof whose nullifier
\* is spent was accepted, for one statement, and no other proof was.
Accounted ==
    /\ ledger \in 0..MaxLedger
    /\ vk \in WellFormed \cup {None}
    /\ usedNullifiers \subseteq Proofs \ ZeroPoint
    /\ accepted \in [Proofs \X Statements -> Nat]
    /\ \A p \in usedNullifiers : \E s \in Statements : accepted[<<p, s>>] > 0
    /\ \A p \in Proofs, s \in Statements : accepted[<<p, s>>] > 0 => p \in usedNullifiers
    /\ Verifier!AcceptedOnce

LEMMA AccountedHolds == ASSUME Verifier!VerifierAssumption PROVE Verifier!Spec => []Accounted
<1>1. Verifier!Init => Accounted
  <2> SUFFICES ASSUME Verifier!Init PROVE Accounted
    OBVIOUS
  <2>1. /\ ledger = 0 /\ vk = None /\ usedNullifiers = {}
        /\ accepted = [ps \in Proofs \X Statements |-> 0]
    BY DEF Verifier!Init
  <2>2. \A p \in Proofs, s \in Statements : accepted[<<p, s>>] = 0
    BY <2>1
  <2>3. accepted \in [Proofs \X Statements -> Nat]
    BY <2>1
  <2>4. Verifier!AcceptedOnce
    BY <2>2 DEF Verifier!AcceptedOnce
  <2> QED
    BY <2>1, <2>2, <2>3, <2>4 DEF Accounted, Verifier!VerifierAssumption
<1>2. Accounted /\ [Verifier!Next]_(Verifier!vars) => Accounted'
  <2> SUFFICES ASSUME Accounted, [Verifier!Next]_(Verifier!vars) PROVE Accounted'
    OBVIOUS
  <2>1. CASE Verifier!NextLedger
    BY <2>1 DEF Verifier!NextLedger, Accounted, Verifier!AcceptedOnce,
       Verifier!VerifierAssumption
  <2>2. CASE UNCHANGED Verifier!vars
    BY <2>2 DEF Verifier!vars, Accounted, Verifier!AcceptedOnce
  <2>3. ASSUME NEW key \in Vks, Verifier!Initialize(key) \/ Verifier!UpdateVerificationKey(key)
        PROVE  Accounted'
    <3>1. vk' = key /\ key \in WellFormed /\ UNCHANGED <<ledger, usedNullifiers, accepted>>
      BY <2>3 DEF Verifier!Initialize, Verifier!UpdateVerificationKey, Verifier!KeptNullifiers
    <3> QED
      BY <3>1 DEF Accounted, Verifier!AcceptedOnce
  <2>4. ASSUME NEW p \in Proofs, NEW s \in Statements, Verifier!VerifyZkloginProof(p, s)
        PROVE  Accounted'
    <3>1. /\ p \notin usedNullifiers /\ p \notin ZeroPoint
          /\ usedNullifiers' = usedNullifiers \cup {p}
          /\ accepted' = [accepted EXCEPT ![<<p, s>>] = @ + 1]
          /\ UNCHANGED <<ledger, vk>>
      BY <2>4 DEF Verifier!VerifyZkloginProof, Verifier!IsValid
    <3>2. \A t \in Statements : accepted[<<p, t>>] = 0
      <4> TAKE t \in Statements
      <4>1. accepted[<<p, t>>] \in Nat
        BY DEF Accounted
      <4> QED
        BY <3>1, <4>1 DEF Accounted
    <3>3. /\ accepted'[<<p, s>>] = 1
          /\ \A q \in Proofs, t \in Statements :
               <<q, t>> # <<p, s>> => accepted'[<<q, t>>] = accepted[<<q, t>>]
          /\ accepted' \in [Proofs \X Statements -> Nat]
      BY <3>1, <3>2 DEF Accounted
    <3>4. Verifier!AcceptedOnce'
      <4>1. ASSUME NEW q \in Proofs, NEW t \in Statements, NEW u \in Statements
            PROVE  /\ accepted'[<<q, t>>] <= 1
                   /\ accepted'[<<q, t>>] > 0 /\ accepted'[<<q, u>>] > 0 => t = u
        <5>1. CASE q = p
          <6>1. \A x \in Statements : x # s => accepted'[<<p, x>>] = 0
            BY <3>2, <3>3
          <6> QED
            BY <3>3, <5>1, <6>1
        <5>2. CASE q # p
          <6>1. <<q, t>> # <<p, s>> /\ <<q, u>> # <<p, s>>
            BY <5>2
          <6>2. accepted'[<<q, t>>] = accepted[<<q, t>>] /\ accepted'[<<q, u>>] = accepted[<<q, u>>]
            BY <3>3, <6>1
          <6> QED
            BY <6>2 DEF Accounted, Verifier!AcceptedOnce
        <5> QED
          BY <5>1, <5>2
      <4> QED
        BY <4>1 DEF Verifier!AcceptedOnce
    <3> QED
      BY <3>1, <3>3, <3>4 DEF Accounted
  <2> QED
    BY <2>1, <2>2, <2>3, <2>4 DEF Verifier!Next
<1> QED
  BY <1>1, <1>2, PTL DEF Verifier!Spec

LEMMA VerifierTyped == Accounted => Verifier!TypeOK
<1> SUFFICES ASSUME Accounted PROVE Verifier!TypeOK
  OBVIOUS
<1>1. usedNullifiers = {p \in Proofs : \E s \in Statements : accepted[<<p, s>>] > 0}
  BY DEF Accounted
<1> QED
  BY <1>1 DEF Accounted, Verifier!TypeOK

-----------------------------------------------------------------------------
(* X402Facilitator.                                                        *)

\* A tenth at most of a payment is taken, and what is left of an amount below nothing is
\* below nothing.
LEMMA FeeIsATenth ==
    ASSUME NEW a \in Int, fee_bps \in Nat, fee_bps <= 1000
    PROVE  /\ Facilitator!Fee(a) \in Int
           /\ a >= 0 => Facilitator!Fee(a) >= 0 /\ 10 * Facilitator!Fee(a) <= a
           /\ a < 0 => a - Facilitator!Fee(a) < 0
<1> DEFINE f == fee_bps
<1>1. ASSUME NEW b \in Nat
      PROVE  /\ (b * f) \div 10000 \in Nat
             /\ 10 * ((b * f) \div 10000) <= b
  <2>1. b * f \in Nat /\ b * f <= b * 1000
    OBVIOUS
  <2> DEFINE m == b * f
  <2> HIDE DEF m
  <2>2. m \in Nat /\ m <= b * 1000
    BY <2>1 DEF m
  <2>3. m \div 10000 \in Nat /\ 10000 * (m \div 10000) <= m
    BY <2>2
  <2>4. 10 * (m \div 10000) <= b
    BY <2>2, <2>3
  <2> QED
    BY <2>3, <2>4 DEF m
<1>2. CASE a >= 0
  BY <1>1, <1>2 DEF Facilitator!Fee
<1>3. CASE a < 0
  <2>1. -a \in Nat
    BY <1>3
  <2> DEFINE q == (-a * f) \div 10000
  <2>2. q \in Nat /\ 10 * q <= -a
    BY <1>1, <2>1
  <2>3. Facilitator!Fee(a) = -q
    BY <1>3 DEF Facilitator!Fee
  <2> HIDE DEF q
  <2> QED
    BY <1>3, <2>2, <2>3
<1> QED
  BY <1>2, <1>3

LEMMA TransferTyped ==
    ASSUME NEW b \in [Accounts \X Assets -> Nat], NEW asset \in Assets,
           NEW from \in Accounts, NEW to \in Accounts, NEW amount \in Int,
           Facilitator!Transferable(b, asset, from, amount)
    PROVE  Facilitator!Transfer(b, asset, from, to, amount) \in [Accounts \X Assets -> Nat]
BY DEF Facilitator!Transferable, Facilitator!Transfer

\* The requests with their proofs and what they have brought, the configuration, and the
\* statistics, which nothing but the paid requests goes into.
Ledgered ==
    /\ clock \in 0..MaxSeconds
    /\ fee_bps \in Fees \cup {None} /\ fee_recipient \in Accounts \cup {None}
    /\ admin \in Accounts \cup {None}
    /\ fee_bps # None => fee_bps <= 1000 /\ fee_recipient \in Accounts
    /\ fee_bps = None => Facilitator!Paid = {}
    /\ requests \in Seq(Facilitator!Request)
    /\ DOMAIN proofs = DOMAIN requests /\ received \in Seq(Int)
    /\ proofs \in Seq([payer : Accounts, amount_paid : Amounts] \cup {None})
    /\ DOMAIN received = DOMAIN requests
    /\ \A r \in DOMAIN requests :
         /\ proofs[r] # None <=> requests[r].paid
         /\ requests[r].paid =>
              /\ requests[r].amount >= 0
              /\ 10 * received[r] >= 9 * requests[r].amount
              /\ received[r] <= requests[r].amount
         /\ ~requests[r].paid => received[r] = 0
    /\ balance \in [Accounts \X Assets -> Nat]
    /\ IsFiniteSet(Facilitator!Paid)
    /\ Facilitator!StatisticsMatchRequests

LEMMA LedgeredHolds == ASSUME Facilitator!FacilitatorAssumption PROVE Facilitator!Spec => []Ledgered
<1>1. Facilitator!Init => Ledgered
  <2> SUFFICES ASSUME Facilitator!Init PROVE Ledgered
    OBVIOUS
  <2>1. Facilitator!Paid = {} /\ DOMAIN requests = {}
    BY DEF Facilitator!Init, Facilitator!Paid
  <2>2. IsFiniteSet(Facilitator!Paid) /\ Cardinality(Facilitator!Paid) = 0
          /\ SumFunctionOnSet(Facilitator!AmountOf, Facilitator!Paid) = 0
    BY <2>1, FS_EmptySet, SumEmpty
  <2>3. balance \in [Accounts \X Assets -> Nat]
    BY DEF Facilitator!Init, Facilitator!FacilitatorAssumption
  <2> QED
    BY <2>1, <2>2, <2>3, SameSizes, SameSums DEF Facilitator!Init, Ledgered,
       Facilitator!StatisticsMatchRequests, Facilitator!FacilitatorAssumption
<1>2. Ledgered /\ [Facilitator!Next]_(Facilitator!vars) => Ledgered'
  <2> SUFFICES ASSUME Facilitator!FacilitatorAssumption, Ledgered,
                        [Facilitator!Next]_(Facilitator!vars) PROVE Ledgered'
    OBVIOUS
  <2>0. ASSUME UNCHANGED <<Facilitator!statistics, requests, proofs, balance, received>>,
               clock' \in 0..MaxSeconds, admin' \in Accounts \cup {None},
               fee_bps' \in Fees \cup {None}, fee_recipient' \in Accounts \cup {None},
               fee_bps' # None => fee_bps' <= 1000 /\ fee_recipient' \in Accounts,
               fee_bps' = None => Facilitator!Paid = {}
        PROVE  Ledgered'
    <3>1. Facilitator!Paid' = Facilitator!Paid /\ Facilitator!AmountOf' = Facilitator!AmountOf
      BY <2>0 DEF Facilitator!Paid, Facilitator!AmountOf
    <3> QED
      BY <2>0, <3>1 DEF Ledgered, Facilitator!statistics, Facilitator!StatisticsMatchRequests
  <2>a. /\ \A q \in DOMAIN requests : requests[q] \in Facilitator!Request
        /\ Fees \subseteq Nat
    <3>1. requests \in Seq(Facilitator!Request)
      BY DEF Ledgered
    <3> QED
      BY <3>1 DEF Facilitator!FacilitatorAssumption
  <2>1. CASE UNCHANGED Facilitator!vars
    BY <2>0, <2>1 DEF Facilitator!vars, Facilitator!config, Ledgered
  <2>2. CASE Facilitator!Tick
    BY <2>0, <2>2 DEF Facilitator!Tick, Facilitator!config, Ledgered,
       Facilitator!FacilitatorAssumption
  <2>3. ASSUME NEW by \in Accounts, NEW a \in Accounts, NEW bps \in Fees,
                 Facilitator!Initialize(by, a, bps)
        PROVE  Ledgered'
    <3>1. Facilitator!Paid = {}
      BY <2>3 DEF Facilitator!Initialize, Ledgered
    <3>2. total_payments = 0 /\ total_volume = 0
      BY <3>1, SumEmpty, FS_EmptySet, SameSizes, SameSums DEF Ledgered,
         Facilitator!StatisticsMatchRequests
    <3> QED
      BY <2>0, <2>3, <3>1, <3>2 DEF Facilitator!Initialize, Facilitator!ValidFee,
         Facilitator!statistics, Ledgered,
         Facilitator!FacilitatorAssumption
  <2>4. ASSUME NEW by \in Accounts, NEW bps \in Fees, Facilitator!UpdateFee(by, bps)
        PROVE  Ledgered'
    <3>1. /\ UNCHANGED <<clock, admin, fee_recipient, Facilitator!statistics, requests,
            proofs, balance,
                         received>>
          /\ fee_bps # None /\ fee_bps' = bps /\ bps <= 1000 /\ fee_bps' # None
      BY <2>4 DEF Facilitator!UpdateFee, Facilitator!ValidFee, Facilitator!FacilitatorAssumption
    <3> QED
      BY <2>0, <3>1 DEF Ledgered
  <2>5. ASSUME NEW by \in Accounts, NEW a \in Accounts, Facilitator!UpdateFeeRecipient(by, a)
        PROVE  Ledgered'
    BY <2>0, <2>5 DEF Facilitator!UpdateFeeRecipient, Ledgered
  <2>6. ASSUME NEW by \in Accounts, NEW a \in Accounts, Facilitator!TransferAdmin(by, a)
        PROVE  Ledgered'
    BY <2>0, <2>6 DEF Facilitator!TransferAdmin, Ledgered
  <2>7. ASSUME NEW caller \in Accounts, NEW destination \in Accounts, NEW asset \in Assets,
               NEW amount \in Amounts, NEW valid_for \in Validity,
               Facilitator!CreateRequest(caller, asset, amount, destination, valid_for)
        PROVE  Ledgered'
    <3> DEFINE new == [asset |-> asset, amount |-> amount, destination |-> destination,
                       valid_until |-> clock + valid_for, caller |-> caller, paid |-> FALSE]
               n == Len(requests)
    <3>1. /\ requests' = Append(requests, new) /\ proofs' = Append(proofs, None)
          /\ received' = Append(received, 0)
            /\ UNCHANGED <<clock, Facilitator!config, Facilitator!statistics, balance>>
      BY <2>7 DEF Facilitator!CreateRequest
    <3>2. new \in Facilitator!Request /\ ~new.paid
      BY DEF Facilitator!Request, Ledgered, Facilitator!FacilitatorAssumption
    <3> HIDE DEF new
    <3>3. /\ n \in Nat /\ DOMAIN requests = 1..n /\ Len(proofs) = n /\ Len(received) = n
      BY DEF Ledgered
    <3>4. /\ requests' \in Seq(Facilitator!Request) /\ Len(requests') = n + 1
          /\ proofs' \in Seq([payer : Accounts, amount_paid : Amounts] \cup {None})
          /\ received' \in Seq(Int) /\ Len(proofs') = n + 1 /\ Len(received') = n + 1
      BY <3>1, <3>2, <3>3 DEF Ledgered
    <3>5. /\ \A r \in 1..n : requests'[r] = requests[r] /\ proofs'[r] = proofs[r]
                             /\ received'[r] = received[r]
          /\ requests'[n + 1] = new /\ proofs'[n + 1] = None /\ received'[n + 1] = 0
      BY <3>1, <3>3 DEF Ledgered
    <3>6. DOMAIN requests' = 1..(n + 1) /\ DOMAIN proofs' = 1..(n + 1) /\ DOMAIN received'
            = 1..(n + 1)
      BY <3>3, <3>4
    <3> HIDE DEF n
    <3>7. Facilitator!Paid' = Facilitator!Paid
      BY <3>2, <3>3, <3>5, <3>6 DEF Facilitator!Paid
    <3>8. SumFunctionOnSet(Facilitator!AmountOf', Facilitator!Paid)
            = SumFunctionOnSet(Facilitator!AmountOf, Facilitator!Paid)
      <4>1. ASSUME NEW r \in Facilitator!Paid
            PROVE  /\ Facilitator!AmountOf[r] \in Int
                   /\ Facilitator!AmountOf'[r] = Facilitator!AmountOf[r]
        <5>1. r \in 1..n /\ r \in DOMAIN requests' /\ requests[r] \in Facilitator!Request
          BY <3>3, <3>6 DEF Facilitator!Paid, Ledgered
        <5> QED
          BY <3>3, <3>5, <5>1 DEF Facilitator!AmountOf, Facilitator!Request,
             Facilitator!FacilitatorAssumption
      <4>2. IsFiniteSet(Facilitator!Paid)
        BY DEF Ledgered
      <4> HIDE DEF Facilitator!AmountOf, Facilitator!Paid
      <4> QED
        BY <4>1, <4>2, SumSame
    <3>9. Facilitator!StatisticsMatchRequests'
      BY <3>1, <3>7, <3>8, SameSizes, SameSums DEF Ledgered,
         Facilitator!StatisticsMatchRequests, Facilitator!statistics
    <3>10. ASSUME NEW r \in DOMAIN requests'
           PROVE  /\ proofs'[r] # None <=> requests'[r].paid
                  /\ requests'[r].paid =>
                       /\ requests'[r].amount >= 0
                       /\ 10 * received'[r] >= 9 * requests'[r].amount
                       /\ received'[r] <= requests'[r].amount
                  /\ ~requests'[r].paid => received'[r] = 0
      <4>1. CASE r \in 1..n
        BY <3>3, <3>5, <4>1 DEF Ledgered
      <4>2. CASE r = n + 1
        BY <3>2, <3>5, <4>2
      <4> QED
        BY <3>3, <3>6, <4>1, <4>2
    <3> QED
      BY <3>1, <3>4, <3>6, <3>7, <3>9, <3>10 DEF Ledgered, Facilitator!config
  <2>8. ASSUME NEW r \in DOMAIN requests, NEW payer \in Accounts, Facilitator!Pay(r, payer)
        PROVE  Ledgered'
    <3> DEFINE rq == requests[r]
               fee == Facilitator!Fee(rq.amount)
               net == rq.amount - fee
               between == Facilitator!Transfer(balance, rq.asset, payer, rq.destination, net)
    <3>1. /\ ~rq.paid /\ fee_bps # None
          /\ Facilitator!Transferable(balance, rq.asset, payer, net)
          /\ fee > 0 => Facilitator!Transferable(between, rq.asset, payer, fee)
          /\ balance' = IF fee > 0
                        THEN Facilitator!Transfer(between, rq.asset, payer, fee_recipient, fee)
                        ELSE between
          /\ requests' = [requests EXCEPT ![r].paid = TRUE]
          /\ proofs' = [proofs EXCEPT ![r] = [payer |-> payer, amount_paid |-> rq.amount]]
          /\ total_payments' = total_payments + 1
          /\ total_volume' = total_volume + rq.amount
          /\ received' = [received EXCEPT ![r] = @ + net]
          /\ UNCHANGED <<clock, Facilitator!config>>
      BY <2>8 DEF Facilitator!Pay, Facilitator!Open, Facilitator!VolumeOf
    <3>2. rq \in Facilitator!Request /\ rq.amount \in Int /\ rq.amount \in Amounts
            /\ rq.asset \in Assets
          /\ rq.destination \in Accounts
      <4>1. rq \in Facilitator!Request
        BY <2>a
      <4> QED
        BY <4>1 DEF Facilitator!Request, Facilitator!FacilitatorAssumption
    <3>3. fee_bps \in Nat /\ fee_bps <= 1000 /\ fee_recipient \in Accounts
      BY <3>1 DEF Ledgered, Facilitator!FacilitatorAssumption
    <3>4. /\ fee \in Int /\ net \in Int /\ net >= 0
          /\ rq.amount >= 0 /\ fee >= 0 /\ 10 * net >= 9 * rq.amount /\ net <= rq.amount
      <4>1. net >= 0
        BY <3>1 DEF Facilitator!Transferable
      <4> QED
        BY <3>2, <3>3, <4>1, FeeIsATenth
    <3>5. balance' \in [Accounts \X Assets -> Nat]
      <4>1. between \in [Accounts \X Assets -> Nat]
        BY <3>1, <3>2, <3>4, TransferTyped DEF Ledgered
      <4> QED
        BY <3>1, <3>2, <3>3, <3>4, <4>1, TransferTyped
    <3> HIDE DEF net, fee, between
    <3>6. /\ requests' \in Seq(Facilitator!Request) /\ DOMAIN requests' = DOMAIN requests
          /\ requests'[r].paid /\ requests'[r].amount = rq.amount
          /\ \A q \in DOMAIN requests \ {r} : requests'[q] = requests[q]
      <4>1. [rq EXCEPT !.paid = TRUE] \in Facilitator!Request
        BY <3>2 DEF Facilitator!Request
      <4> DEFINE new == [rq EXCEPT !.paid = TRUE]
      <4>2. requests' = [requests EXCEPT ![r] = new]
        BY <3>1
      <4>3. new.paid /\ new.amount = rq.amount
        BY <3>2 DEF Facilitator!Request
      <4>7. new \in Facilitator!Request
        BY <4>1
      <4> HIDE DEF new
      <4>4. requests \in Seq(Facilitator!Request) /\ r \in DOMAIN requests
        BY DEF Ledgered
      <4> HIDE DEF rq
      <4>5. requests' \in Seq(Facilitator!Request) /\ DOMAIN requests' = DOMAIN requests
            /\ requests'[r] = new
        BY <4>2, <4>4, <4>7, SeqReplace
      <4>6. \A q \in DOMAIN requests \ {r} : requests'[q] = requests[q]
        BY <4>2, <4>4
      <4> QED
        BY <4>3, <4>5, <4>6
    <3>7. /\ proofs'[r] # None /\ received'[r] = net
          /\ proofs' \in Seq([payer : Accounts, amount_paid : Amounts] \cup {None})
          /\ received' \in Seq(Int)
          /\ DOMAIN proofs' = DOMAIN proofs /\ DOMAIN received' = DOMAIN received
          /\ \A q \in DOMAIN requests \ {r} : proofs'[q] = proofs[q] /\ received'[q] = received[q]
      <4> DEFINE proof == [payer |-> payer, amount_paid |-> rq.amount]
      <4>1. proof \in [payer : Accounts, amount_paid : Amounts] /\ proof # None
        BY <3>2 DEF Facilitator!FacilitatorAssumption
      <4>2. proofs' = [proofs EXCEPT ![r] = proof] /\ received' = [received EXCEPT ![r] = @ + net]
        BY <3>1
      <4>3. r \in DOMAIN proofs /\ r \in DOMAIN received /\ received[r] = 0
        BY <3>1 DEF Ledgered
      <4> HIDE DEF proof
      <4> QED
        BY <3>4, <4>1, <4>2, <4>3 DEF Ledgered
    <3>8. r \notin Facilitator!Paid /\ Facilitator!Paid' = Facilitator!Paid \cup {r}
      BY <3>1, <3>6 DEF Facilitator!Paid
    <3>9. \A q \in Facilitator!Paid \cup {r} : Facilitator!AmountOf[q] \in Int
            /\ Facilitator!AmountOf'[q] = Facilitator!AmountOf[q]
      <4> SUFFICES ASSUME NEW q \in DOMAIN requests
                   PROVE  Facilitator!AmountOf[q] \in Int /\ Facilitator!AmountOf'[q]
                            = Facilitator!AmountOf[q]
        BY DEF Facilitator!Paid
      <4>1. requests[q] \in Facilitator!Request /\ requests'[q].amount = requests[q].amount
        BY <2>a, <3>6
      <4> QED
        BY <3>6, <4>1 DEF Facilitator!AmountOf, Facilitator!Request,
           Facilitator!FacilitatorAssumption
    <3>10. IsFiniteSet(Facilitator!Paid) /\ IsFiniteSet(Facilitator!Paid')
           /\ Cardinality(Facilitator!Paid') = Cardinality(Facilitator!Paid) + 1
      BY <3>8, FS_AddElement DEF Ledgered
    <3>11. SumFunctionOnSet(Facilitator!AmountOf', Facilitator!Paid')
             = rq.amount + SumFunctionOnSet(Facilitator!AmountOf, Facilitator!Paid)
      <4>1. Facilitator!AmountOf[r] = rq.amount
        BY DEF Facilitator!AmountOf
      <4> HIDE DEF Facilitator!AmountOf, Facilitator!Paid, rq
      <4>2. SumFunctionOnSet(Facilitator!AmountOf, Facilitator!Paid \cup {r})
              = Facilitator!AmountOf[r] + SumFunctionOnSet(Facilitator!AmountOf, Facilitator!Paid)
        BY <3>8, <3>9, <3>10, SumAdd
      <4>3. SumFunctionOnSet(Facilitator!AmountOf, Facilitator!Paid \cup {r})
              = SumFunctionOnSet(Facilitator!AmountOf', Facilitator!Paid \cup {r})
        BY <3>8, <3>9, <3>10, SumSame
      <4> QED
        BY <3>8, <4>1, <4>2, <4>3
    <3>12. Facilitator!StatisticsMatchRequests'
      <4>1. SumFunctionOnSet(Facilitator!AmountOf, Facilitator!Paid) \in Int
        BY <3>9, <3>10, SumType
      <4> QED
        BY <3>1, <3>2, <3>10, <3>11, <4>1, SameSizes, SameSums DEF Ledgered,
           Facilitator!StatisticsMatchRequests
    <3>13. ASSUME NEW q \in DOMAIN requests'
           PROVE  /\ proofs'[q] # None <=> requests'[q].paid
                  /\ requests'[q].paid =>
                       /\ requests'[q].amount >= 0
                       /\ 10 * received'[q] >= 9 * requests'[q].amount
                       /\ received'[q] <= requests'[q].amount
                  /\ ~requests'[q].paid => received'[q] = 0
      <4>1. CASE q = r
        BY <3>4, <3>6, <3>7, <4>1
      <4>2. CASE q # r
        BY <3>6, <3>7, <4>2 DEF Ledgered
      <4> QED
        BY <4>1, <4>2
    <3>14. UNCHANGED <<clock, admin, fee_bps, fee_recipient, updates>> /\ fee_bps # None
      BY <3>1 DEF Facilitator!config
    <3> QED
      BY <3>5, <3>6, <3>7, <3>10, <3>12, <3>13, <3>14 DEF Ledgered
  <2> QED
    BY <2>1, <2>2, <2>3, <2>4, <2>5, <2>6, <2>7, <2>8 DEF Facilitator!Next
<1> QED
  BY <1>1, <1>2, PTL DEF Facilitator!Spec

LEMMA LedgeredMeans ==
    ASSUME Facilitator!FacilitatorAssumption, Ledgered
    PROVE  Facilitator!TypeOK /\ Facilitator!StatisticsMatchRequests
             /\ Facilitator!DestinationGetsNineTenths
<1>1. Facilitator!DestinationGetsNineTenths /\ Facilitator!StatisticsMatchRequests
  BY DEF Ledgered, Facilitator!DestinationGetsNineTenths
<1>2. total_payments \in Nat
  BY FS_CardinalityType, SameSizes DEF Ledgered, Facilitator!StatisticsMatchRequests
<1>3. total_volume \in Nat
  <2> DEFINE zero == [r \in Facilitator!Paid |-> 0]
  <2>1. \A r \in Facilitator!Paid : Facilitator!AmountOf[r] \in Int /\ Facilitator!AmountOf[r] >= 0
    <3> SUFFICES ASSUME NEW r \in Facilitator!Paid PROVE Facilitator!AmountOf[r] \in Int
                          /\ Facilitator!AmountOf[r] >= 0
      OBVIOUS
    <3>1. r \in DOMAIN requests /\ requests[r].paid /\ requests[r] \in Facilitator!Request
      BY DEF Facilitator!Paid, Ledgered
    <3> QED
      BY <3>1 DEF Ledgered, Facilitator!AmountOf, Facilitator!Request,
         Facilitator!FacilitatorAssumption
  <2>2. SumFunctionOnSet(Facilitator!AmountOf, Facilitator!Paid) \in Int
    BY <2>1, SumType DEF Ledgered
  <2>3. SumFunctionOnSet(Facilitator!AmountOf, Facilitator!Paid) >= 0
    BY <2>1, SumAtLeastZero DEF Ledgered
  <2> QED
    BY <2>2, <2>3, SameSums DEF Ledgered, Facilitator!StatisticsMatchRequests
<1> QED
  BY <1>1, <1>2, <1>3 DEF Ledgered, Facilitator!TypeOK

-----------------------------------------------------------------------------
(* JwkRegistry.                                                            *)

Provider == [issuer : Issuers, active_kids : Seq(Kids), oracle : Oracles]
Jwk == [modulus : Moduli, active : BOOLEAN]

\* The storage is entries under their keys.
EntriesStored ==
    /\ providers = [p \in DOMAIN providers |-> providers[p]]
    /\ jwks = [pk \in DOMAIN jwks |-> jwks[pk]]
    /\ issuerMap = [i \in Issuers |-> issuerMap[i]]
    /\ keyList \in Seq(Providers)

\* The registered providers are those of the list, and there are none before initialize.
Listed ==
    /\ DOMAIN providers = ToSet(keyList)
    /\ ~registryInitialized => DOMAIN providers = {}

\* An issuer's entry names a provider that has the issuer.
Mapped ==
    \A i \in Issuers :
      issuerMap[i] # None =>
        issuerMap[i] \in DOMAIN providers /\ providers[issuerMap[i]].issuer = i

\* The kids a provider lists are those it has stored keys of, each once.
KidsStored ==
    \A p \in DOMAIN providers :
      /\ p \in Providers /\ providers[p] \in Provider
      /\ IsInjective(providers[p].active_kids)
      /\ \A k \in ToSet(providers[p].active_kids) : <<p, k>> \in DOMAIN jwks
      /\ \A k \in Kids : <<p, k>> \in DOMAIN jwks => k \in ToSet(providers[p].active_kids)

\* A stored key is a registered provider's and has a full modulus.
KeysWhole ==
    \A pk \in DOMAIN jwks :
      /\ pk \in Providers \X Kids /\ pk[1] \in DOMAIN providers
      /\ jwks[pk] \in Jwk
      /\ ChunkCount[jwks[pk].modulus] = Registry!RSA_MODULUS_CHUNKS

Published == EntriesStored /\ Listed /\ Mapped /\ KidsStored /\ KeysWhole

LEMMA WithKidLists ==
    ASSUME NEW kids \in Seq(Kids), IsInjective(kids), NEW k \in Kids
    PROVE  /\ Registry!WithKid(kids, k) \in Seq(Kids) /\ IsInjective(Registry!WithKid(kids, k))
           /\ ToSet(Registry!WithKid(kids, k)) = ToSet(kids) \cup {k}
<1>1. CASE k \in ToSet(kids)
  BY <1>1, SameLists DEF Registry!WithKid
<1>2. CASE k \notin ToSet(kids)
  <2> DEFINE new == Append(kids, k)
             n == Len(kids)
  <2>1. /\ new \in Seq(Kids) /\ n \in Nat /\ DOMAIN kids = 1..n /\ DOMAIN new = 1..(n + 1)
        /\ new[n + 1] = k /\ \A j \in DOMAIN kids : new[j] = kids[j]
    BY SeqAppend
  <2> HIDE DEF new, n
  <2>2. /\ \A j \in 1..(n + 1) : j \in 1..n \/ j = n + 1
        /\ \A j \in 1..n : j \in 1..(n + 1)
        /\ n + 1 \in 1..(n + 1) /\ n + 1 \notin 1..n
    BY <2>1
  <2>3. \A j \in 1..n : new[j] # k
    BY <1>2, <2>1 DEF ToSet
  <2>4. IsInjective(new)
    BY <2>1, <2>2, <2>3 DEF IsInjective
  <2>5. {new[j] : j \in DOMAIN new} = {kids[j] : j \in DOMAIN kids} \cup {k}
    BY <2>1, <2>2
  <2>6. Registry!WithKid(kids, k) = new
    BY <1>2, SameLists DEF Registry!WithKid, new
  <2> QED
    BY <2>1, <2>4, <2>5, <2>6 DEF ToSet
<1> QED
  BY <1>1, <1>2

LEMMA PublishedHolds == ASSUME Registry!RegistryAssumption PROVE Registry!Spec => []Published
<1>1. Registry!Init => Published
  BY DEF Registry!Init, Published, EntriesStored, Listed, Mapped, KidsStored, KeysWhole, ToSet
<1>2. Published /\ [Registry!Next]_(Registry!vars) => Published'
  <2> SUFFICES ASSUME Published, [Registry!Next]_(Registry!vars) PROVE Published'
    OBVIOUS
  <2>1. CASE UNCHANGED Registry!vars
    BY <2>1 DEF Registry!vars, Published, EntriesStored, Listed, Mapped, KidsStored, KeysWhole
  <2>2. CASE Registry!Initialize
    <3>1. DOMAIN providers = {} /\ keyList' = <<>> /\ UNCHANGED <<providers, issuerMap, jwks>>
      BY <2>2 DEF Registry!Initialize, Published, Listed
    <3>2. ToSet(keyList') = {} /\ keyList' \in Seq(Providers)
      BY <3>1 DEF ToSet
    <3>3. EntriesStored' /\ Listed'
      BY <3>1, <3>2 DEF Published, EntriesStored, Listed
    <3>4. Mapped' /\ KidsStored' /\ KeysWhole'
      BY <3>1 DEF Published, Mapped, KidsStored, KeysWhole
    <3> QED
      BY <3>3, <3>4 DEF Published
  <2>3. ASSUME NEW p \in Providers, NEW oracle \in Oracles, NEW issuer \in Issuers,
               Registry!RegisterProvider(p, issuer, oracle)
        PROVE  Published'
    <3> DEFINE new == [issuer |-> issuer, active_kids |-> <<>>, oracle |-> oracle]
    <3>1. /\ registryInitialized /\ p \notin DOMAIN providers
          /\ providers' = [q \in DOMAIN providers \cup {p} |->
                             IF q # p THEN providers[q] ELSE new]
          /\ issuerMap' = [issuerMap EXCEPT ![issuer] = p]
          /\ keyList' = Append(keyList, p) /\ UNCHANGED <<registryInitialized, jwks>>
      BY <2>3 DEF Registry!RegisterProvider
    <3>2. /\ new \in Provider
          /\ new.issuer = issuer /\ ToSet(new.active_kids) = {} /\ IsInjective(new.active_kids)
      BY DEF ToSet, IsInjective, Provider
    <3> HIDE DEF new
    <3>3. /\ DOMAIN providers' = DOMAIN providers \cup {p} /\ providers'[p] = new
          /\ \A q \in DOMAIN providers : providers'[q] = providers[q]
          /\ providers' = [q \in DOMAIN providers' |-> providers'[q]]
      BY <3>1
    <3>4. keyList' \in Seq(Providers) /\ ToSet(keyList') = ToSet(keyList) \cup {p}
      <4> DEFINE n == Len(keyList)
      <4>1. /\ keyList' \in Seq(Providers) /\ n \in Nat /\ DOMAIN keyList = 1..n
            /\ DOMAIN keyList' = 1..(n + 1) /\ keyList'[n + 1] = p
            /\ \A j \in DOMAIN keyList : keyList'[j] = keyList[j]
        BY <3>1, SeqAppend DEF Published, EntriesStored
      <4> HIDE DEF n
      <4>2. /\ \A j \in 1..(n + 1) : j \in 1..n \/ j = n + 1
            /\ \A j \in 1..n : j \in 1..(n + 1)
            /\ n + 1 \in 1..(n + 1)
        BY <4>1
      <4>3. {keyList'[j] : j \in DOMAIN keyList'} = {keyList[j] : j \in DOMAIN keyList} \cup {p}
        BY <4>1, <4>2
      <4> QED
        BY <4>1, <4>3 DEF ToSet
    <3>5. \A k \in Kids : <<p, k>> \notin DOMAIN jwks
      BY <3>1 DEF Published, KeysWhole
    <3>6. ASSUME NEW i \in Issuers, issuerMap'[i] # None
          PROVE  issuerMap'[i] \in DOMAIN providers' /\ providers'[issuerMap'[i]].issuer = i
      <4>1. CASE i = issuer
        BY <3>1, <3>2, <3>3, <4>1 DEF Published, EntriesStored, Mapped
      <4>2. CASE i # issuer
        <5>1. issuerMap'[i] = issuerMap[i]
          BY <3>1, <4>2 DEF Published, EntriesStored, Mapped
        <5> QED
          BY <3>3, <3>6, <5>1 DEF Published, EntriesStored, Mapped
      <4> QED
        BY <4>1, <4>2
    <3>7. issuerMap' = [i \in Issuers |-> issuerMap'[i]]
      BY <3>1 DEF Published, EntriesStored
    <3>8. ASSUME NEW q \in DOMAIN providers'
          PROVE  /\ q \in Providers
                 /\ providers'[q] \in Provider
                 /\ IsInjective(providers'[q].active_kids)
                 /\ \A k \in ToSet(providers'[q].active_kids) : <<q, k>> \in DOMAIN jwks
                 /\ \A k \in Kids : <<q, k>> \in DOMAIN jwks
                                      => k \in ToSet(providers'[q].active_kids)
      <4>1. CASE q = p
        BY <3>2, <3>3, <3>5, <4>1
      <4>2. CASE q \in DOMAIN providers
        BY <3>3, <4>2 DEF Published, KidsStored
      <4> QED
        BY <3>3, <4>1, <4>2
    <3>9. /\ \A pk \in DOMAIN jwks : pk[1] \in DOMAIN providers'
          /\ DOMAIN providers' = ToSet(keyList')
      BY <3>3, <3>4 DEF Published, Listed, KeysWhole
    <3> QED
      <4>1. EntriesStored' /\ Listed'
        BY <3>1, <3>3, <3>4, <3>7, <3>9 DEF EntriesStored, Listed, Published
      <4>2. Mapped'
        BY <3>6 DEF Mapped
      <4>3. KidsStored'
        BY <3>1, <3>8 DEF KidsStored
      <4>4. KeysWhole'
        BY <3>1, <3>9 DEF KeysWhole, Published
      <4> QED
        BY <4>1, <4>2, <4>3, <4>4 DEF Published
  <2>4. ASSUME NEW p \in Providers, NEW oracle \in Oracles, Registry!UpdateProviderOracle(p, oracle)
        PROVE  Published'
    <3>1. /\ providers' = [providers EXCEPT ![p] = [@ EXCEPT !.oracle = oracle]]
          /\ p \in DOMAIN providers /\ UNCHANGED <<registryInitialized, keyList, issuerMap, jwks>>
      BY <2>4 DEF Registry!UpdateProviderOracle, Registry!WithOracle
    <3> DEFINE old == providers[p]
               new == [old EXCEPT !.oracle = oracle]
    <3>2. /\ new \in Provider
          /\ new.issuer = old.issuer /\ new.active_kids = old.active_kids
      <4>1. old \in Provider
        BY <3>1 DEF Published, KidsStored
      <4> HIDE DEF old
      <4> QED
        BY <4>1 DEF Provider
    <3>3. providers' = [providers EXCEPT ![p] = new]
      BY <3>1
    <3> HIDE DEF new
    <3>4. /\ DOMAIN providers' = DOMAIN providers /\ providers'[p] = new
          /\ \A q \in DOMAIN providers \ {p} : providers'[q] = providers[q]
          /\ providers' = [q \in DOMAIN providers' |-> providers'[q]]
      BY <3>1, <3>3
    <3>5. ASSUME NEW q \in DOMAIN providers
          PROVE  /\ providers'[q] \in Provider
                 /\ providers'[q].active_kids = providers[q].active_kids
                 /\ providers'[q].issuer = providers[q].issuer
      BY <3>2, <3>4 DEF Published, KidsStored
    <3> QED
      <4>1. EntriesStored' /\ Listed'
        BY <3>1, <3>4 DEF EntriesStored, Listed, Published
      <4>2. Mapped'
        BY <3>1, <3>4, <3>5 DEF Mapped, Published
      <4>3. KidsStored'
        BY <3>1, <3>4, <3>5 DEF KidsStored, Published
      <4>4. KeysWhole'
        BY <3>1, <3>4 DEF KeysWhole, Published
      <4> QED
        BY <4>1, <4>2, <4>3, <4>4 DEF Published
  <2>5. ASSUME NEW p \in Providers, NEW oracle \in Oracles, NEW k \in Kids,
               Registry!RevokeJwk(oracle, p, k)
        PROVE  Published'
    <3>1. /\ <<p, k>> \in DOMAIN jwks /\ jwks' = [jwks EXCEPT ![<<p, k>>].active = FALSE]
          /\ UNCHANGED <<registryInitialized, providers, keyList, issuerMap>>
      BY <2>5 DEF Registry!RevokeJwk
    <3> DEFINE pk == <<p, k>>
               new == [jwks[pk] EXCEPT !.active = FALSE]
    <3>2. jwks[pk] \in Jwk
      BY <3>1 DEF Published, KeysWhole
    <3>3. new \in Jwk /\ new.modulus = jwks[pk].modulus
      BY <3>2 DEF Jwk
    <3>4. jwks' = [jwks EXCEPT ![pk] = new]
      BY <3>1
    <3> HIDE DEF pk, new
    <3>5. /\ DOMAIN jwks' = DOMAIN jwks
          /\ jwks' = [q \in DOMAIN jwks' |-> jwks'[q]]
          /\ \A q \in DOMAIN jwks : jwks'[q] \in Jwk
                                    /\ jwks'[q].modulus = jwks[q].modulus
      BY <3>3, <3>4 DEF Published, EntriesStored, KeysWhole
    <3> QED
      <4>1. EntriesStored' /\ Listed' /\ Mapped'
        BY <3>1, <3>5 DEF EntriesStored, Listed, Mapped, Published
      <4>2. KidsStored'
        BY <3>1, <3>5 DEF KidsStored, Published
      <4>3. KeysWhole'
        BY <3>1, <3>5 DEF KeysWhole, Published
      <4> QED
        BY <4>1, <4>2, <4>3 DEF Published
  <2>6. ASSUME NEW p \in Providers, NEW oracle \in Oracles, NEW k \in Kids, NEW m \in Moduli,
               Registry!RegisterJwk(oracle, p, k, m)
        PROVE  Published'
    <3> DEFINE pk == <<p, k>>
               key == [modulus |-> m, active |-> TRUE]
               old == providers[p]
               kids == Registry!WithKid(old.active_kids, k)
               new == [old EXCEPT !.active_kids = kids]
    <3>1. /\ p \in DOMAIN providers /\ ChunkCount[m] = Registry!RSA_MODULUS_CHUNKS
          /\ jwks' = [q \in DOMAIN jwks \cup {pk} |-> IF q # pk THEN jwks[q] ELSE key]
          /\ providers' = [providers EXCEPT ![p] = new]
          /\ UNCHANGED <<registryInitialized, keyList, issuerMap>>
      BY <2>6 DEF Registry!RegisterJwk, Registry!WholeModulus
    <3>2. /\ old \in Provider
          /\ IsInjective(old.active_kids) /\ old.active_kids \in Seq(Kids)
      BY <3>1 DEF Published, KidsStored, Provider
    <3>3. kids \in Seq(Kids) /\ IsInjective(kids) /\ ToSet(kids) = ToSet(old.active_kids) \cup {k}
      <4> DEFINE before == old.active_kids
      <4>1. before \in Seq(Kids) /\ IsInjective(before)
        BY <3>2
      <4> HIDE DEF before
      <4>2. /\ Registry!WithKid(before, k) \in Seq(Kids) /\ IsInjective(Registry!WithKid(before, k))
            /\ ToSet(Registry!WithKid(before, k)) = ToSet(before) \cup {k}
        BY <4>1, WithKidLists
      <4> QED
        BY <4>2 DEF before
    <3> HIDE DEF kids
    <3>4. /\ new \in Provider
          /\ new.issuer = old.issuer /\ new.active_kids = kids
      <4> HIDE DEF old
      <4> QED
        BY <3>2, <3>3 DEF Provider
    <3>5. key \in Jwk /\ key.modulus = m
      BY DEF Jwk
    <3>6. /\ pk \in Providers \X Kids /\ pk[1] = p
          /\ \A q \in Providers, i \in Kids : <<q, i>> = pk <=> q = p /\ i = k
      OBVIOUS
    <3> HIDE DEF new, key, pk
    <3>7. /\ DOMAIN jwks' = DOMAIN jwks \cup {pk} /\ jwks'[pk] = key
          /\ \A q \in DOMAIN jwks \ {pk} : jwks'[q] = jwks[q]
          /\ jwks' = [q \in DOMAIN jwks' |-> jwks'[q]]
      BY <3>1
    <3>8. /\ DOMAIN providers' = DOMAIN providers /\ providers'[p] = new
          /\ \A q \in DOMAIN providers \ {p} : providers'[q] = providers[q]
          /\ providers' = [q \in DOMAIN providers' |-> providers'[q]]
      BY <3>1 DEF Published, EntriesStored
    <3>9. ASSUME NEW q \in DOMAIN jwks'
          PROVE  /\ q \in Providers \X Kids /\ q[1] \in DOMAIN providers'
                 /\ jwks'[q] \in Jwk
                 /\ ChunkCount[jwks'[q].modulus] = Registry!RSA_MODULUS_CHUNKS
      <4>1. CASE q = pk
        BY <3>1, <3>5, <3>6, <3>7, <3>8, <4>1
      <4>2. CASE q \in DOMAIN jwks \ {pk}
        BY <3>7, <3>8, <4>2 DEF Published, KeysWhole
      <4> QED
        BY <3>7, <4>1, <4>2
    <3>10. ASSUME NEW q \in DOMAIN providers'
           PROVE  /\ q \in Providers
                  /\ providers'[q] \in Provider
                  /\ IsInjective(providers'[q].active_kids)
                  /\ \A i \in ToSet(providers'[q].active_kids) : <<q, i>> \in DOMAIN jwks'
                  /\ \A i \in Kids : <<q, i>> \in DOMAIN jwks'
                                       => i \in ToSet(providers'[q].active_kids)
                  /\ providers'[q].issuer = providers[q].issuer
      <4>1. CASE q = p
        <5>1. \A i \in ToSet(kids) : i \in ToSet(old.active_kids) \/ i = k
          BY <3>3
        <5>2. \A i \in ToSet(old.active_kids) : <<p, i>> \in DOMAIN jwks
          BY <3>1 DEF Published, KidsStored
        <5>3. \A i \in Kids : <<p, i>> \in DOMAIN jwks => i \in ToSet(old.active_kids)
          BY <3>1 DEF Published, KidsStored
        <5>4. \A i \in Kids : <<p, i>> \in DOMAIN jwks' => i \in ToSet(kids)
          BY <3>3, <3>6, <3>7, <5>3
        <5>5. \A i \in ToSet(kids) : <<p, i>> \in DOMAIN jwks'
          BY <3>7, <5>1, <5>2 DEF pk
        <5> QED
          BY <3>3, <3>4, <3>8, <4>1, <5>4, <5>5
      <4>2. CASE q # p
        <5>1. q \in DOMAIN providers /\ providers'[q] = providers[q]
          BY <3>8, <4>2
        <5>2. \A i \in Kids : <<q, i>> \in DOMAIN jwks' => <<q, i>> \in DOMAIN jwks
          BY <3>6, <3>7, <4>2, <5>1 DEF Published, KidsStored, KeysWhole
        <5> QED
          BY <3>7, <5>1, <5>2 DEF Published, KidsStored
      <4> QED
        BY <4>1, <4>2
    <3> QED
      <4>1. EntriesStored' /\ Listed'
        BY <3>1, <3>7, <3>8 DEF EntriesStored, Listed, Published
      <4>2. Mapped'
        BY <3>1, <3>8, <3>10 DEF Mapped, Published
      <4>3. KidsStored'
        BY <3>10 DEF KidsStored
      <4>4. KeysWhole'
        BY <3>9 DEF KeysWhole
      <4> QED
        BY <4>1, <4>2, <4>3, <4>4 DEF Published
  <2> QED
    BY <2>1, <2>2, <2>3, <2>4, <2>5, <2>6 DEF Registry!Next
<1> QED
  BY <1>1, <1>2, PTL DEF Registry!Spec

LEMMA PublishedMeans ==
    ASSUME Published PROVE Registry!TypeOK /\ Registry!JwksNamedOnce
<1>1. ASSUME NEW p \in DOMAIN providers
      PROVE  ToSet(providers[p].active_kids) = {k \in Kids : <<p, k>> \in DOMAIN jwks}
  <2>1. providers[p].active_kids \in Seq(Kids)
    BY DEF Published, KidsStored, Provider
  <2>2. \A k \in ToSet(providers[p].active_kids) : k \in Kids
    BY <2>1 DEF ToSet
  <2>3. /\ \A k \in ToSet(providers[p].active_kids) : <<p, k>> \in DOMAIN jwks
        /\ \A k \in Kids : <<p, k>> \in DOMAIN jwks => k \in ToSet(providers[p].active_kids)
    BY DEF Published, KidsStored
  <2> QED
    BY <2>2, <2>3
<1>2. Registry!TypeOK
  BY <1>1, SameLists DEF Published, EntriesStored, Listed, Mapped, KidsStored, KeysWhole,
     Provider, Jwk, Registry!TypeOK
<1>3. ASSUME NEW p \in DOMAIN providers
      PROVE  /\ IsInjective(Registry!GetProviderJwks(p))
             /\ ToSet(Registry!GetProviderJwks(p)) = Registry!ActiveKids(p)
  <2> DEFINE kids == providers[p].active_kids
             wanted == Registry!ActiveKids(p)
  <2>1. kids \in Seq(Kids) /\ IsInjective(kids)
    BY DEF Published, KidsStored, Provider
  <2>2. wanted \subseteq {kids[i] : i \in DOMAIN kids}
    BY <1>1 DEF Registry!ActiveKids, ToSet
  <2>3. Registry!GetProviderJwks(p) = Filtered(kids, wanted)
    BY SameLists DEF Registry!GetProviderJwks, Registry!ActiveOf
  <2> HIDE DEF kids, wanted
  <2>4. /\ {Filtered(kids, wanted)[i] : i \in DOMAIN Filtered(kids, wanted)}
             = {kids[i] : i \in DOMAIN kids} \cap wanted
        /\ IsInjective(Filtered(kids, wanted))
    <3>1. IsInjective(kids) => IsInjective(Filtered(kids, wanted))
      BY <2>1, FilteredElements
    <3> QED
      BY <2>1, <3>1, FilteredElements
  <2>5. ToSet(Filtered(kids, wanted)) = wanted
    BY <2>2, <2>4 DEF ToSet
  <2> QED
    BY <2>3, <2>4, <2>5 DEF wanted
<1> QED
  BY <1>2, <1>3, SameLists DEF Registry!JwksNamedOnce

\* The provider and key that a lookup names, of what is stored.
LEMMA InForceMeans ==
    ASSUME Published, NEW pk \in Providers \X Kids
    PROVE  Registry!InForce[pk] = IF pk \in DOMAIN jwks
             /\ jwks[pk].active THEN jwks[pk].modulus ELSE None
<1> DEFINE p == pk[1]
           k == pk[2]
<1>1. pk = <<p, k>> /\ k \in Kids /\ p \in Providers
  OBVIOUS
<1>2. pk \in DOMAIN jwks => p \in DOMAIN providers
  BY DEF Published, KeysWhole
<1>3. p \in DOMAIN providers => ToSet(Registry!GetProviderJwks(p)) = Registry!ActiveKids(p)
  BY PublishedMeans, SameLists DEF Registry!JwksNamedOnce
<1>4. k \in Registry!ActiveKids(p) <=> pk \in DOMAIN jwks /\ jwks[pk].active
  BY <1>1 DEF Registry!ActiveKids
<1>5. Registry!InForce[pk] = IF p \in DOMAIN providers /\ k \in ToSet(Registry!GetProviderJwks(p))
                    THEN jwks[pk].modulus ELSE None
  BY SameLists DEF Registry!InForce
<1> QED
  BY <1>2, <1>3, <1>4, <1>5

\* The keys in force, as they are stored.
KeyOf ==
    [pk \in Providers \X Kids |->
       IF pk \in DOMAIN jwks /\ jwks[pk].active THEN jwks[pk].modulus ELSE None]

LEMMA InForceIsStored == Published => Registry!InForce = KeyOf
<1> SUFFICES ASSUME Published PROVE Registry!InForce = KeyOf
  OBVIOUS
<1>1. \A pk \in Providers \X Kids : Registry!InForce[pk] = KeyOf[pk]
  BY InForceMeans DEF KeyOf
<1> QED
  BY <1>1 DEF Registry!InForce, KeyOf

LEMMA KeysStep ==
    ASSUME Published, Registry!InForce = KeyOf, (Registry!InForce
             = KeyOf)', [Registry!Next]_(Registry!vars)
    PROVE  [Registry!Keys!Next]_(Registry!InForce)
<1>1. CASE UNCHANGED Registry!vars
  BY <1>1 DEF Registry!vars, KeyOf
<1>2. CASE Registry!Initialize
  BY <1>2 DEF Registry!Initialize, KeyOf
<1>3. ASSUME NEW p \in Providers, NEW oracle \in Oracles,
             \/ \E issuer \in Issuers : Registry!RegisterProvider(p, issuer, oracle)
             \/ Registry!UpdateProviderOracle(p, oracle)
      PROVE  Registry!InForce' = Registry!InForce
  <2>1. jwks' = jwks
    BY <1>3 DEF Registry!RegisterProvider, Registry!UpdateProviderOracle
  <2> QED
    BY <2>1 DEF KeyOf
<1>4. ASSUME NEW p \in Providers, NEW oracle \in Oracles, NEW k \in Kids,
             Registry!RevokeJwk(oracle, p, k)
      PROVE  Registry!Keys!Revoke(p, k)
  <2>1. <<p, k>> \in DOMAIN jwks /\ jwks' = [jwks EXCEPT ![<<p, k>>].active = FALSE]
    BY <1>4 DEF Registry!RevokeJwk
  <2> DEFINE pk == <<p, k>>
  <2>2. jwks[pk] \in Jwk
    BY <2>1 DEF Published, KeysWhole
  <2>3. /\ DOMAIN jwks' = DOMAIN jwks /\ ~jwks'[pk].active
        /\ \A q \in DOMAIN jwks \ {pk} : jwks'[q] = jwks[q]
    BY <2>1, <2>2 DEF Jwk
  <2>4. pk \in Providers \X Kids
    OBVIOUS
  <2> HIDE DEF pk
  <2>5. KeyOf' = [KeyOf EXCEPT ![pk] = None]
    BY <2>3, <2>4 DEF KeyOf
  <2> QED
    BY <2>5 DEF Registry!Keys!Revoke, pk
<1>5. ASSUME NEW p \in Providers, NEW oracle \in Oracles, NEW k \in Kids, NEW m \in Moduli,
             Registry!RegisterJwk(oracle, p, k, m)
      PROVE  Registry!Keys!Publish(p, k, m)
  <2> DEFINE pk == <<p, k>>
             key == [modulus |-> m, active |-> TRUE]
  <2>1. jwks' = [q \in DOMAIN jwks \cup {pk} |-> IF q # pk THEN jwks[q] ELSE key]
    BY <1>5 DEF Registry!RegisterJwk
  <2>2. key.active /\ key.modulus = m
    OBVIOUS
  <2>3. pk \in Providers \X Kids
    OBVIOUS
  <2> HIDE DEF pk, key
  <2>4. KeyOf' = [KeyOf EXCEPT ![pk] = m]
    BY <2>1, <2>2, <2>3 DEF KeyOf
  <2> QED
    BY <2>4 DEF Registry!Keys!Publish, pk
<1> QED
  BY <1>1, <1>2, <1>3, <1>4, <1>5 DEF Registry!Next, Registry!Keys!Next

LEMMA RegistryImplementsKeys == ASSUME Registry!RegistryAssumption PROVE Registry!Spec
        => Registry!Keys!Spec
<1>1. Registry!Init => Registry!Keys!Init
  BY DEF Registry!Init, Registry!Keys!Init, Registry!InForce
<1>2. /\ Published /\ Published' /\ Registry!InForce = KeyOf /\ (Registry!InForce
        = KeyOf)' /\ [Registry!Next]_(Registry!vars)
      => [Registry!Keys!Next]_(Registry!InForce)
  BY KeysStep
<1> QED
  BY <1>1, <1>2, PublishedHolds, InForceIsStored, PTL DEF Registry!Spec, Registry!Keys!Spec

-----------------------------------------------------------------------------
(* GatewayFactory.                                                         *)

\* Every seed with a wallet has it at the address that its salt names, as the record
\* says, and nobody was told another one.
Deployments ==
    /\ services \in Services \cup {None} /\ wasm \in Wasms \cup {None}
    /\ factoryAdmin \in Admins \cup {None} /\ factoryUpdates \in 0..MaxFactoryUpdates
    /\ services # None => wasm \in Wasms
    /\ services = None => Factory!Recorded = {}
    /\ records \in [Seeds -> Factory!Records \cup {None}]
    /\ seedOf \in [Factory!Salts -> Seeds \cup {None}]
    /\ wallets \in [Factory!Salts -> [wasm : Wasms, config : Factory!Configs] \cup {None}]
    /\ IsFiniteSet(Factory!Recorded) /\ wallet_count = Cardinality(Factory!Recorded)
    /\ \A s \in Factory!Recorded :
         /\ records[s].wallet_address = Factory!DeploySalt(s)
         /\ seedOf[Factory!DeploySalt(s)] = s
         /\ wallets[Factory!DeploySalt(s)] =
              [wasm |-> records[s].wasm,
               config |-> Factory!Config(s, records[s].iss_hash, records[s].services)]
    /\ \A a \in Factory!Salts : seedOf[a] # None => seedOf[a] \in Factory!Recorded /\ a
      = Factory!DeploySalt(seedOf[a])
    /\ \A a \in Factory!Salts : wallets[a] # None <=> seedOf[a] # None
    /\ answers \subseteq Seeds \X IssuerHashes \X Factory!Salts
    /\ \A x \in answers : x[1] \in Factory!Recorded /\ x[3] = Factory!DeploySalt(x[1])

LEMMA DeploySalts ==
    ASSUME NEW s \in Seeds
    PROVE  Factory!DeploySalt(s) \in Factory!Salts
             /\ \A t \in Seeds : Factory!DeploySalt(t) = Factory!DeploySalt(s) => t = s
BY DEF Factory!DeploySalt, Factory!Salts

LEMMA DeploymentsHold == ASSUME Factory!FactoryAssumption PROVE Factory!Spec => []Deployments
<1>1. Factory!Init => Deployments
  <2> SUFFICES ASSUME Factory!Init PROVE Deployments
    OBVIOUS
  <2>1. Factory!Recorded = {}
    BY DEF Factory!Init, Factory!Recorded
  <2>2. IsFiniteSet(Factory!Recorded) /\ Cardinality(Factory!Recorded) = 0
    BY <2>1, FS_EmptySet
  <2> QED
    BY <2>1, <2>2 DEF Factory!Init, Deployments, Factory!FactoryAssumption
<1>2. Deployments /\ [Factory!Next]_(Factory!vars) => Deployments'
  <2> SUFFICES ASSUME Deployments, [Factory!Next]_(Factory!vars) PROVE Deployments'
    OBVIOUS
  <2>0. ASSUME UNCHANGED <<Factory!registry, wallets, answers>>,
               services' \in Services \cup {None}, wasm' \in Wasms \cup {None},
               factoryAdmin' \in Admins \cup {None}, factoryUpdates' \in 0..MaxFactoryUpdates,
               services' # None => wasm' \in Wasms,
               services' = None => Factory!Recorded = {}
        PROVE  Deployments'
    BY <2>0 DEF Deployments, Factory!registry, Factory!Recorded
  <2>1. CASE UNCHANGED Factory!vars
    BY <2>0, <2>1 DEF Factory!vars, Factory!config, Deployments
  <2>2. ASSUME NEW by \in Admins, NEW s \in Services, Factory!UpdateServices(by, s)
        PROVE  Deployments'
    BY <2>0, <2>2 DEF Factory!UpdateServices, Deployments, Factory!FactoryAssumption
  <2>3. ASSUME NEW by \in Admins, NEW w \in Wasms, Factory!UpdateWasm(by, w) PROVE Deployments'
    BY <2>0, <2>3 DEF Factory!UpdateWasm, Deployments, Factory!FactoryAssumption
  <2>4. ASSUME NEW by \in Admins, NEW new_admin \in Admins, Factory!TransferAdmin(by, new_admin)
        PROVE  Deployments'
    BY <2>0, <2>4 DEF Factory!TransferAdmin, Deployments
  <2>5. ASSUME NEW by \in Admins, NEW s \in Services, NEW w \in Wasms, Factory!Initialize(by, s, w)
        PROVE  Deployments'
    <3>1. Factory!Recorded = {} /\ wallet_count = 0 /\ wallet_count' = 0
      BY <2>5, FS_EmptySet DEF Factory!Initialize, Deployments
    <3> QED
      BY <2>0, <2>5, <3>1 DEF Factory!Initialize, Deployments, Factory!registry,
         Factory!FactoryAssumption
  <2>6. ASSUME NEW seed \in Seeds, NEW issuer \in IssuerHashes, Factory!ExistingWallet(seed, issuer)
        PROVE  Deployments'
    <3>1. seed \in Factory!Recorded /\ records[seed].wallet_address = Factory!DeploySalt(seed)
      BY <2>6 DEF Factory!ExistingWallet, Factory!Recorded, Deployments
    <3>2. answers' = answers \cup {<<seed, issuer, Factory!DeploySalt(seed)>>}
      BY <2>6, <3>1 DEF Factory!ExistingWallet, Factory!Answer
    <3>3. answers' \subseteq Seeds \X IssuerHashes \X Factory!Salts
      BY <3>2, DeploySalts DEF Deployments
    <3>4. \A x \in answers' : x[1] \in Factory!Recorded /\ x[3] = Factory!DeploySalt(x[1])
      BY <3>1, <3>2 DEF Deployments
    <3>5. UNCHANGED <<Factory!config, Factory!registry, wallets>>
      BY <2>6 DEF Factory!ExistingWallet
    <3> QED
      BY <3>3, <3>4, <3>5 DEF Deployments, Factory!config, Factory!registry, Factory!Recorded
  <2>7. ASSUME NEW seed \in Seeds, NEW issuer \in IssuerHashes, Factory!DeployWallet(seed, issuer)
        PROVE  Deployments'
    <3> DEFINE address == Factory!DeploySalt(seed)
               cfg == Factory!Config(seed, issuer, services)
               record == [wallet_address |-> address, iss_hash |-> issuer,
                          services |-> services, wasm |-> wasm]
               wallet == [wasm |-> wasm, config |-> cfg]
    <3>1. /\ services # None /\ records[seed] = None /\ wallets[address] = None
          /\ wallets' = [wallets EXCEPT ![address] = wallet]
          /\ records' = [records EXCEPT ![seed] = record]
          /\ seedOf' = [seedOf EXCEPT ![address] = seed]
          /\ wallet_count' = wallet_count + 1
          /\ answers' = answers \cup {<<seed, issuer, address>>}
          /\ UNCHANGED <<factoryAdmin, services, wasm, factoryUpdates>>
      BY <2>7 DEF Factory!DeployWallet, Factory!Deployed, Factory!config
    <3>2. services \in Services /\ wasm \in Wasms
      BY <3>1 DEF Deployments
    <3>3. address \in Factory!Salts /\ \A t \in Seeds : Factory!DeploySalt(t) = address
          => t = seed
      BY DeploySalts
    <3>4. cfg \in Factory!Configs
      BY <3>2 DEF Factory!Config, Factory!Configs
    <3>5. record \in Factory!Records /\ record # None
      BY <3>2, <3>3 DEF Factory!Records, Factory!FactoryAssumption
    <3>6. wallet \in [wasm : Wasms, config : Factory!Configs] /\ wallet # None
      BY <3>2, <3>4 DEF Factory!FactoryAssumption
    <3>7. /\ record.wallet_address = address /\ record.iss_hash = issuer
          /\ record.services = services /\ record.wasm = wasm
      OBVIOUS
    <3>8. wallet = [wasm |-> record.wasm, config |-> Factory!Config(seed, record.iss_hash,
            record.services)]
      BY <3>7
    <3> HIDE DEF record, wallet, cfg
    <3>9. seed \notin Factory!Recorded /\ Factory!Recorded' = Factory!Recorded \cup {seed}
      BY <3>1, <3>5 DEF Factory!Recorded, Deployments
    <3>10. IsFiniteSet(Factory!Recorded') /\ wallet_count' = Cardinality(Factory!Recorded')
      BY <3>1, <3>9, FS_AddElement DEF Deployments
    <3>11. /\ records' \in [Seeds -> Factory!Records \cup {None}]
           /\ seedOf' \in [Factory!Salts -> Seeds \cup {None}]
           /\ wallets' \in [Factory!Salts -> [wasm : Wasms, config : Factory!Configs] \cup {None}]
      BY <3>1, <3>3, <3>5, <3>6 DEF Deployments
    <3>12. /\ records'[seed] = record /\ \A t \in Seeds \ {seed} : records'[t] = records[t]
           /\ seedOf'[address] = seed /\ \A a \in Factory!Salts \ {address} : seedOf'[a] = seedOf[a]
           /\ wallets'[address] = wallet
             /\ \A a \in Factory!Salts \ {address} : wallets'[a] = wallets[a]
      BY <3>1, <3>3 DEF Deployments
    <3> HIDE DEF address
    <3>13. ASSUME NEW s \in Factory!Recorded'
           PROVE  /\ records'[s].wallet_address = Factory!DeploySalt(s)
                  /\ seedOf'[Factory!DeploySalt(s)] = s
                  /\ wallets'[Factory!DeploySalt(s)] =
                       [wasm |-> records'[s].wasm,
                        config |-> Factory!Config(s, records'[s].iss_hash, records'[s].services)]
      <4>1. CASE s = seed
        BY <3>7, <3>8, <3>12, <4>1 DEF address
      <4>2. CASE s # seed
        <5>1. s \in Factory!Recorded /\ s \in Seeds /\ Factory!DeploySalt(s) # address
                /\ Factory!DeploySalt(s) \in Factory!Salts
          BY <3>3, <3>9, <4>2, DeploySalts DEF Factory!Recorded
        <5> QED
          BY <3>12, <4>2, <5>1 DEF Deployments
      <4> QED
        BY <4>1, <4>2
    <3>14. ASSUME NEW a \in Factory!Salts
           PROVE  /\ seedOf'[a] # None => seedOf'[a] \in Factory!Recorded' /\ a
                    = Factory!DeploySalt(seedOf'[a])
                  /\ wallets'[a] # None <=> seedOf'[a] # None
      <4>1. CASE a = address
        BY <3>6, <3>9, <3>12, <4>1 DEF address, Factory!FactoryAssumption
      <4>2. CASE a # address
        BY <3>9, <3>12, <4>2 DEF Deployments
      <4> QED
        BY <4>1, <4>2
    <3>15. /\ answers' \subseteq Seeds \X IssuerHashes \X Factory!Salts
           /\ \A x \in answers' : x[1] \in Factory!Recorded' /\ x[3] = Factory!DeploySalt(x[1])
      BY <3>1, <3>3, <3>9 DEF Deployments, address
    <3> QED
      BY <3>1, <3>2, <3>10, <3>11, <3>13, <3>14, <3>15 DEF Deployments
  <2>8. ASSUME NEW a \in Factory!Salts, NEW new \in Factory!Configs,
                 Factory!WalletInitialize(a, new)
        PROVE  Deployments'
    <3>1. wallets[a] \in [wasm : Wasms, config : Factory!Configs]
      BY <2>8 DEF Factory!WalletInitialize, Deployments
    <3>2. Factory!Accepted(wallets[a].config, new) = wallets[a].config
      BY <3>1 DEF Factory!Accepted, Factory!FactoryAssumption
    <3>3. wallets' = [wallets EXCEPT ![a].config = Factory!Accepted(@, new)]
      BY <2>8 DEF Factory!WalletInitialize
    <3>4. wallets' = wallets
      BY <3>1, <3>2, <3>3 DEF Deployments
    <3> QED
      BY <2>0, <2>8, <3>4 DEF Factory!WalletInitialize, Factory!config, Deployments
  <2>9. ASSUME NEW seed \in Seeds, NEW issuer \in IssuerHashes, NEW s \in Services
        PROVE  Factory!Config(seed, issuer, s) \in Factory!Configs
    BY DEF Factory!Config, Factory!Configs
  <2> QED
    BY <2>1, <2>2, <2>3, <2>4, <2>5, <2>6, <2>7, <2>8, <2>9 DEF Factory!Next
<1> QED
  BY <1>1, <1>2, PTL DEF Factory!Spec

LEMMA DeploymentsMean ==
    ASSUME Deployments PROVE Factory!TypeOK /\ Factory!WalletsAsRecorded
             /\ Factory!OneAddressPerSeed
<1>1. ASSUME NEW s \in Factory!Recorded
      PROVE  s \in Seeds /\ Factory!DeploySalt(s) \in Factory!Salts
  BY DeploySalts DEF Factory!Recorded
<1>2. Factory!TypeOK
  BY <1>1, SameSizes DEF Deployments, Factory!TypeOK
<1>3. Factory!WalletsAsRecorded
  <2> SUFFICES ASSUME NEW s \in Factory!Recorded
               PROVE  LET r == records[s]
                          w == wallets[r.wallet_address]
                      IN  w.wasm = r.wasm /\ w.config = Factory!Config(s, r.iss_hash, r.services)
    BY DEF Factory!WalletsAsRecorded
  <2>1. wallets[records[s].wallet_address] =
          [wasm |-> records[s].wasm,
           config |-> Factory!Config(s, records[s].iss_hash, records[s].services)]
    BY DEF Deployments
  <2> QED
    BY <2>1
<1>4. Factory!OneAddressPerSeed
  BY DEF Deployments, Factory!OneAddressPerSeed
<1> QED
  BY <1>2, <1>3, <1>4

-----------------------------------------------------------------------------
(* The deployment: each contract's part of a step of it is a step of that  *)
(* contract, or none.                                                      *)

LEMMA CustodyPart == ContractsSpec => Spec
<1>1. ContractsInit => Init
  BY DEF ContractsInit
<1>2. [ContractsNext]_<<called, vars, ledger, walletVars, verifierVars, facilitatorVars,
                        registryVars, factoryVars>>
        => [Next]_vars
  BY DEF ContractsNext
<1> QED
  BY <1>1, <1>2, PTL DEF ContractsSpec, Spec

LEMMA WalletPart == ContractsSpec => Wallet!Spec
<1> USE DEF walletVars, verifierVars, facilitatorVars, registryVars, factoryVars
<1>1. ContractsInit => Wallet!Init
  BY DEF ContractsInit
<1>2. [ContractsNext]_<<called, vars, ledger, walletVars, verifierVars, facilitatorVars,
                        registryVars, factoryVars>>
        => [Wallet!Next]_(Wallet!vars)
  <2>1. Verifier!Next /\ UNCHANGED walletVars => Wallet!NextLedger \/ UNCHANGED ledger
    BY DEF Verifier!Next, Verifier!NextLedger, Wallet!NextLedger, Verifier!Initialize,
       Verifier!UpdateVerificationKey, Verifier!VerifyZkloginProof
  <2> QED
    BY <2>1 DEF ContractsNext, Wallet!vars, Wallet!Next
<1> QED
  BY <1>1, <1>2, PTL DEF ContractsSpec, Wallet!Spec

LEMMA VerifierPart == ContractsSpec => Verifier!Spec
<1> USE DEF walletVars, verifierVars, facilitatorVars, registryVars, factoryVars
<1>1. ContractsInit => Verifier!Init
  BY DEF ContractsInit
<1>2. [ContractsNext]_<<called, vars, ledger, walletVars, verifierVars, facilitatorVars,
                        registryVars, factoryVars>>
        => [Verifier!Next]_(Verifier!vars)
  <2>1. Wallet!Next /\ UNCHANGED verifierVars => Verifier!NextLedger \/ UNCHANGED ledger
    BY DEF Wallet!NextLedger, Verifier!NextLedger, Wallet!Next, Wallet!Initialize,
       Wallet!AddSession, Wallet!Execute, Wallet!RevokeSession
  <2> QED
    BY <2>1 DEF ContractsNext, Verifier!vars, Verifier!Next
<1> QED
  BY <1>1, <1>2, PTL DEF ContractsSpec, Verifier!Spec

LEMMA FacilitatorPart == ContractsSpec => Facilitator!Spec
<1>1. ContractsInit => Facilitator!Init
  BY DEF ContractsInit
<1>2. [ContractsNext]_<<called, vars, ledger, walletVars, verifierVars, facilitatorVars,
                        registryVars, factoryVars>>
        => [Facilitator!Next]_(Facilitator!vars)
  BY DEF ContractsNext, facilitatorVars, Facilitator!vars, Facilitator!config,
     Facilitator!statistics
<1> QED
  BY <1>1, <1>2, PTL DEF ContractsSpec, Facilitator!Spec

LEMMA RegistryPart == ContractsSpec => Registry!Spec
<1>1. ContractsInit => Registry!Init
  BY DEF ContractsInit
<1>2. [ContractsNext]_<<called, vars, ledger, walletVars, verifierVars, facilitatorVars,
                        registryVars, factoryVars>>
        => [Registry!Next]_(Registry!vars)
  BY DEF ContractsNext, registryVars, Registry!vars
<1> QED
  BY <1>1, <1>2, PTL DEF ContractsSpec, Registry!Spec

LEMMA FactoryPart == ContractsSpec => Factory!Spec
<1>1. ContractsInit => Factory!Init
  BY DEF ContractsInit
<1>2. [ContractsNext]_<<called, vars, ledger, walletVars, verifierVars, facilitatorVars,
                        registryVars, factoryVars>>
        => [Factory!Next]_(Factory!vars)
  BY DEF ContractsNext, factoryVars, Factory!vars, Factory!config, Factory!registry
<1> QED
  BY <1>1, <1>2, PTL DEF ContractsSpec, Factory!Spec

\* Each contract's invariant, over the behaviours of the deployment.
LEMMA PartsHold ==
    ContractsSpec => [](TypeOK /\ SessionsStored /\ Accounted /\ Ledgered /\ Published
      /\ Deployments)
<1>1. /\ Wallet!Spec => []SessionsStored
      /\ Verifier!Spec => []Accounted
      /\ Facilitator!Spec => []Ledgered
      /\ Registry!Spec => []Published
      /\ Factory!Spec => []Deployments
  BY SessionsStoredHold, AccountedHolds, LedgeredHolds, PublishedHolds, DeploymentsHold,
     ContractsAssumption
<1> QED
  BY <1>1, CustodyPart, CustodyTyped, WalletPart, VerifierPart, FacilitatorPart, RegistryPart,
     FactoryPart, PTL

\* Whatever calls a deployment receives, each contract's storage stays in its domain: no
\* balance or statistic of the facilitator below nothing, no key without its provider, no
\* session without an identity.
THEOREM ContractsTypeCorrect == ContractsSpec => []ContractsTypeOK
<1>1. /\ TypeOK /\ SessionsStored /\ Accounted /\ Ledgered /\ Published /\ Deployments
      => ContractsTypeOK
  BY SessionsStoredMean, VerifierTyped, LedgeredMeans, PublishedMeans, DeploymentsMean,
     ContractsAssumption DEF ContractsTypeOK
<1> QED
  BY <1>1, PartsHold, PTL

\* In every deployment the multi-custody wallet, while it is set up once, carries out a
\* transaction exactly when its status says so and with enough guardians, and however
\* often it is set up it counts no guardian twice and no approval after the deadline.
THEOREM CustodyHolds ==
    ContractsSpec => [](ThresholdMet /\ ExecutedOnce /\ DistinctApprovers /\ ApprovalsInTime)
BY CustodyPart, ThresholdMetHolds, ExecutedOnceHolds, DistinctApproversHolds,
   ApprovalsInTimeHolds, PTL

\* The lists that the smart wallet and the key registry keep beside their entries name
\* exactly the sessions and the keys in force, after any additions and revocations.
THEOREM ListsMatchStorageHolds == ContractsSpec => []ListsMatchStorage
<1>1. SessionsStored /\ Published => ListsMatchStorage
  BY SessionsStoredMean, PublishedMeans DEF ListsMatchStorage
<1> QED
  BY <1>1, PartsHold, PTL

\* No Groth16 proof is accepted twice, also across changes of the verification key.
THEOREM AcceptedOnceHolds == ContractsSpec => []AcceptedOnce
<1>1. Accounted => AcceptedOnce
  BY DEF Accounted, AcceptedOnce
<1> QED
  BY <1>1, PartsHold, PTL

\* However often the fee is changed, the destination of a paid request has nine tenths of
\* it at least, once, and the statistics count it once and in full.
THEOREM DestinationGetsNineTenthsHolds == ContractsSpec => []DestinationGetsNineTenths
<1>1. Ledgered => DestinationGetsNineTenths
  BY LedgeredMeans, ContractsAssumption DEF DestinationGetsNineTenths
<1> QED
  BY <1>1, PartsHold, PTL

\* A seed has one wallet, which keeps what it was deployed with, and a record that no
\* later deployment writes over.
THEOREM WalletsAsRecordedHolds == ContractsSpec => []WalletsAsRecorded
<1>1. Deployments => WalletsAsRecorded
  BY DeploymentsMean, ContractsAssumption DEF WalletsAsRecorded
<1> QED
  BY <1>1, PartsHold, PTL

\* The smart wallet implements the sessions it promises: whoever operates or revokes holds
\* an unexpired grant at that moment.
THEOREM ImplementsAuthorityHolds == ContractsSpec => ImplementsAuthority
<1>1. Wallet!Spec => Wallet!ImplementsAuthority
  BY WalletImplementsAuthority, ContractsAssumption
<1> QED
  BY <1>1, WalletPart, PTL DEF ImplementsAuthority

\* The key registry, a list and a map of keys that are written apart, implements one map
\* of keys: no call changes more than one key of one provider.
THEOREM ImplementsKeysHolds == ContractsSpec => ImplementsKeys
<1>1. Registry!Spec => Registry!Keys!Spec
  BY RegistryImplementsKeys, ContractsAssumption
<1> QED
  BY <1>1, RegistryPart, PTL DEF ImplementsKeys, Registry!ImplementsKeys
=============================================================================
