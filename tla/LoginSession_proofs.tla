------------------------ MODULE LoginSession_proofs ------------------------
(***************************************************************************)
(* The SDK's login keeps its sessions apart, for any number of logins,     *)
(* rejections and logouts: what makes it so is that the buttons heed one   *)
(* flag, so that no two logins wait at once.                               *)
(***************************************************************************)
EXTENDS LoginSession, TLAPS

\* A session whose parts are all of login n, as far as they are there.
Own(s, n) ==
    /\ s \in Sessions
    /\ s.key = n
    /\ \A p \in Parts : s[p] \in {0, n}

\* The parts are there.
Has(s, parts) == \A p \in parts : s[p] # 0

\* The parts that a session has got before an await.
Behind(await) ==
    CASE await = "salt" -> {"jwt"}
      [] await = "address" -> {"jwt", "salt"}
      [] await = "proof" -> {"jwt", "salt", "address"}
      [] await \in {"registration", "result"} -> {"jwt", "salt", "address", "proof"}
      [] OTHER -> {}

Typed ==
    /\ logins \in 0..MaxLogins
    /\ waiting \in [Numbers -> Awaits]
    /\ isLoading \in BOOLEAN
    /\ tx \in [Numbers -> Sessions \cup {None}]

\* One login waits at most, and while it does the flag is up.
Alone ==
    \A n \in Numbers :
        waiting[n] # "done" => isLoading /\ \A m \in Numbers \ {n} : waiting[m] = "done"

\* The session is that of the login which waits, if one is past its first await.
SessionOfTheLogin ==
    /\ currentSession # None => \E n \in Numbers : Own(currentSession, n)
    /\ \A n \in Numbers :
         waiting[n] \notin {"done", "ledger"} /\ currentSession # None
            => /\ Own(currentSession, n)
               /\ currentSession.sessionId = 0
               /\ Has(currentSession, Behind(waiting[n]))

\* The registration on its way is the session, if there still is one, and is on the
\* ledger when its answer is awaited.
OnItsWay(n) ==
    waiting[n] \in {"registration", "result"}
        => /\ Own(tx[n], n)
           /\ currentSession # None => currentSession = tx[n]
           /\ waiting[n] = "result" => tx[n] \in registered

\* What the ledger has registered is of one login each.
RegisteredOwn == \A s \in registered : \E n \in Numbers : Own(s, n)

\* The inductive invariant of both theorems.
LoginInv ==
    /\ Typed /\ Alone /\ SessionOfTheLogin
    /\ \A n \in Numbers : OnItsWay(n)
    /\ RegisteredOwn /\ RegisteredWhole

\* These are parts.
LEMMA BehindParts ==
    ASSUME NEW await \in {"token", "salt", "address", "proof"}
    PROVE  Behind(await) \subseteq Parts
<1>1. CASE await = "token"
  BY <1>1 DEF Behind
<1>2. CASE await = "salt"
  BY <1>2 DEF Behind, Parts
<1>3. CASE await = "address"
  BY <1>3 DEF Behind, Parts
<1>4. CASE await = "proof"
  BY <1>4 DEF Behind, Parts
<1> QED
  BY <1>1, <1>2, <1>3, <1>4

\* A new session of a login.
LEMMA FreshOwn ==
    ASSUME NEW n \in Numbers
    PROVE  Own(Fresh(n), n) /\ Fresh(n).sessionId = 0
BY LoginAssumption DEF Fresh, Own, Sessions, Parts, Numbers

\* The parts of such a session are those of its login.
LEMMA OwnPresent ==
    ASSUME NEW n \in Numbers, NEW s, Own(s, n)
    PROVE  Present(s) = {s.key}
BY LoginAssumption DEF Own, Present, Sessions, Parts, Numbers

-----------------------------------------------------------------------------
\* The flag and the awaits, when the login that waits goes on or ends.
LEMMA AwaitKeeps ==
    ASSUME Typed, Alone, NEW n \in Numbers, waiting[n] # "done", NEW next \in Awaits,
           Await(n, next)
    PROVE  /\ waiting' \in [Numbers -> Awaits]
           /\ waiting'[n] = next
           /\ \A m \in Numbers \ {n} : waiting'[m] = "done"
           /\ isLoading' \in BOOLEAN
           /\ Alone'
<1>1. waiting' \in [Numbers -> Awaits] /\ waiting'[n] = next
  BY DEF Await, Typed
<1>2. \A m \in Numbers \ {n} : waiting[m] = "done" /\ waiting'[m] = waiting[m]
  BY DEF Await, Typed, Alone
<1>3. isLoading = TRUE /\ isLoading' = (isLoading /\ next # "done")
  BY DEF Await, Typed, Alone
<1> QED
  BY <1>1, <1>2, <1>3 DEF Alone

\* What storing an answer does to the session, and where the login goes from there.
LEMMA GoOnStores ==
    ASSUME LoginInv, NEW n \in Numbers,
           waiting[n] \in {"token", "salt", "address", "proof"},
           NEW part \in {"jwt", "salt", "address", "proof"},
           NEW next \in Awaits, next \notin {"done", "ledger"}, NEW needs \in SUBSET Parts,
           GoOn(n, part, next, needs),
           Behind(next) \subseteq Behind(waiting[n]) \cup {part}
    PROVE  /\ Typed /\ UNCHANGED registered /\ tx' \in [Numbers -> Sessions \cup {None}]
                => Typed'
           /\ waiting'[n] \in {next, "done"}
           /\ \A m \in Numbers \ {n} : waiting'[m] = "done"
           /\ Alone'
           /\ SessionOfTheLogin'
           /\ currentSession' = None => waiting'[n] = "done"
           /\ currentSession' # None => currentSession'.sessionId = 0
<1>1. PICK to \in {next, "done"} :
        /\ Await(n, to)
        /\ currentSession' = None => to = "done"
  BY DEF GoOn
<1>2. /\ waiting' \in [Numbers -> Awaits] /\ waiting'[n] = to
      /\ \A m \in Numbers \ {n} : waiting'[m] = "done"
      /\ isLoading' \in BOOLEAN /\ Alone'
  BY <1>1, AwaitKeeps DEF LoginInv, Awaits
<1>3. ASSUME currentSession' # None
      PROVE  /\ Own(currentSession', n) /\ currentSession'.sessionId = 0
             /\ Has(currentSession', Behind(next))
  <2>1. currentSession # None /\ currentSession' = [currentSession EXCEPT ![part] = n]
    BY <1>3 DEF GoOn, Stored
  <2>2. /\ Own(currentSession, n) /\ currentSession.sessionId = 0
        /\ Has(currentSession, Behind(waiting[n]))
    BY <2>1 DEF LoginInv, SessionOfTheLogin
  <2>3. part \in Parts /\ part # "sessionId" /\ "sessionId" \in Parts
    BY DEF Parts
  <2>4. Behind(waiting[n]) \subseteq Parts
    BY BehindParts
  <2>5. /\ Own(currentSession', n) /\ currentSession'[part] # 0
        /\ \A p \in Parts \ {part} : currentSession'[p] = currentSession[p]
    BY <2>1, <2>2, <2>3, LoginAssumption DEF Numbers, Own, Sessions
  <2> QED
    BY <2>2, <2>3, <2>4, <2>5 DEF Has
<1>4. SessionOfTheLogin'
  <2>1. ASSUME NEW m \in Numbers, waiting'[m] \notin {"done", "ledger"}
        PROVE  m = n /\ waiting'[m] = next
    BY <1>2, <2>1
  <2> QED
    BY <1>3, <2>1 DEF SessionOfTheLogin
<1>5. logins' = logins
  BY DEF GoOn
<1> QED
  BY <1>1, <1>2, <1>3, <1>4, <1>5 DEF Typed

-----------------------------------------------------------------------------
LEMMA LoginInvHolds == Spec => []LoginInv
<1>1. Init => LoginInv
  <2> SUFFICES ASSUME Init PROVE LoginInv
    OBVIOUS
  <2>1. Typed
    <3>1. logins \in 0..MaxLogins
      BY LoginAssumption DEF Init
    <3>2. waiting \in [Numbers -> Awaits] /\ tx \in [Numbers -> Sessions \cup {None}]
      BY DEF Init, Awaits
    <3>3. isLoading \in BOOLEAN
      BY DEF Init
    <3> QED
      BY <3>1, <3>2, <3>3 DEF Typed
  <2>2. \A n \in Numbers : waiting[n] = "done"
    BY DEF Init
  <2>3. Alone /\ SessionOfTheLogin /\ RegisteredOwn /\ RegisteredWhole
    BY <2>2 DEF Init, Alone, SessionOfTheLogin, RegisteredOwn, RegisteredWhole
  <2>4. \A n \in Numbers : OnItsWay(n)
    BY <2>2 DEF OnItsWay
  <2> QED
    BY <2>1, <2>3, <2>4 DEF LoginInv
<1>2. LoginInv /\ [Next]_vars => LoginInv'
  <2> SUFFICES ASSUME LoginInv, [Next]_vars PROVE LoginInv'
    OBVIOUS
  <2>0. /\ Typed /\ Alone /\ SessionOfTheLogin /\ RegisteredOwn /\ RegisteredWhole
        /\ \A n \in Numbers : OnItsWay(n)
    BY DEF LoginInv
  <2>1. CASE UNCHANGED vars
    BY <2>0, <2>1 DEF vars, LoginInv, Typed, Alone, SessionOfTheLogin, OnItsWay,
         RegisteredOwn, RegisteredWhole
  <2>2. CASE Login
    <3>1. \A m \in Numbers : waiting[m] = "done"
      BY <2>0, <2>2 DEF Login, Alone
    <3>2. PICK n \in Numbers : waiting' = [waiting EXCEPT ![n] = "ledger"]
      <4>1. logins + 1 \in Numbers
        BY <2>0, <2>2, LoginAssumption DEF Login, Typed, Numbers
      <4> QED
        BY <2>2, <4>1 DEF Login
    <3>3. waiting' \in [Numbers -> Awaits] /\ waiting'[n] = "ledger"
      BY <2>0, <3>2 DEF Typed, Awaits
    <3>4. \A m \in Numbers \ {n} : waiting'[m] = "done"
      BY <2>0, <3>1, <3>2 DEF Typed
    <3>5. /\ logins' \in 0..MaxLogins /\ isLoading' = TRUE
          /\ UNCHANGED <<currentSession, tx, registered>>
      BY <2>0, <2>2, LoginAssumption DEF Login, Typed
    <3>6. Typed' /\ Alone'
      BY <2>0, <3>3, <3>4, <3>5 DEF Typed, Alone
    <3>7. SessionOfTheLogin' /\ \A m \in Numbers : OnItsWay(m)'
      BY <2>0, <3>3, <3>4, <3>5 DEF SessionOfTheLogin, OnItsWay
    <3> QED
      BY <2>0, <3>5, <3>6, <3>7 DEF LoginInv, RegisteredOwn, RegisteredWhole
  <2>3. CASE logout
    BY <2>0, <2>3 DEF logout, LoginInv, Typed, Alone, SessionOfTheLogin, OnItsWay,
         RegisteredOwn, RegisteredWhole
  <2>4. ASSUME NEW n \in Numbers, initializeSession(n) PROVE LoginInv'
    <3>1. waiting[n] # "done" /\ Await(n, "popup") /\ "popup" \in Awaits
      BY <2>4 DEF initializeSession, Awaits
    <3>2. /\ waiting' \in [Numbers -> Awaits] /\ waiting'[n] = "popup"
          /\ \A m \in Numbers \ {n} : waiting'[m] = "done"
          /\ isLoading' \in BOOLEAN /\ Alone'
      BY <2>0, <3>1, AwaitKeeps
    <3>3. /\ currentSession' = Fresh(n) /\ UNCHANGED <<logins, tx, registered>>
      BY <2>4 DEF initializeSession
    <3>4. Own(currentSession', n) /\ currentSession'.sessionId = 0
      BY <3>3, FreshOwn
    <3>5. Has(currentSession', Behind("popup"))
      BY DEF Has, Behind
    <3>6. SessionOfTheLogin' /\ \A m \in Numbers : OnItsWay(m)'
      BY <3>2, <3>4, <3>5 DEF SessionOfTheLogin, OnItsWay
    <3> QED
      BY <2>0, <3>2, <3>3, <3>4, <3>6
      DEF LoginInv, Typed, RegisteredOwn, RegisteredWhole
  <2>5. ASSUME NEW n \in Numbers, handleMessage(n) \/ Reject(n) PROVE LoginInv'
    <3>1. PICK next \in Awaits :
            /\ waiting[n] # "done" /\ Await(n, next)
            /\ next = "done" \/ (waiting[n] = "popup" /\ next = "token")
      BY <2>5 DEF handleMessage, Reject, Awaits
    <3>2. /\ waiting' \in [Numbers -> Awaits] /\ waiting'[n] = next
          /\ \A m \in Numbers \ {n} : waiting'[m] = "done"
          /\ isLoading' \in BOOLEAN /\ Alone'
      BY <2>0, <3>1, AwaitKeeps
    <3>3. UNCHANGED <<currentSession, logins, tx, registered>>
      BY <2>5 DEF handleMessage, Reject
    <3>4. Behind("token") = {}
      BY DEF Behind
    <3>5. SessionOfTheLogin' /\ \A m \in Numbers : OnItsWay(m)'
      BY <2>0, <3>1, <3>2, <3>3, <3>4 DEF SessionOfTheLogin, OnItsWay, Has
    <3> QED
      BY <2>0, <3>2, <3>3, <3>5 DEF LoginInv, Typed, RegisteredOwn, RegisteredWhole
  <2>6. ASSUME NEW n \in Numbers, completeOAuth(n) \/ getSalt(n) \/ computeAddress(n)
        PROVE  LoginInv'
    <3>1. PICK part \in {"jwt", "salt", "address"}, next \in {"salt", "address", "proof"},
               needs \in SUBSET Parts :
            /\ waiting[n] \in {"token", "salt", "address"}
            /\ GoOn(n, part, next, needs)
            /\ Behind(next) \subseteq Behind(waiting[n]) \cup {part}
      <4>1. CASE completeOAuth(n)
        <5>1. Behind("salt") \subseteq {"jwt"}
          BY DEF Behind
        <5> QED
          BY <4>1, <5>1 DEF completeOAuth, Parts
      <4>2. CASE getSalt(n)
        <5>1. Behind("address") \subseteq Behind("salt") \cup {"salt"}
          BY DEF Behind
        <5> QED
          BY <4>2, <5>1 DEF getSalt, Parts
      <4>3. CASE computeAddress(n)
        <5>1. Behind("proof") \subseteq Behind("address") \cup {"address"}
          BY DEF Behind
        <5> QED
          BY <4>3, <5>1 DEF computeAddress, Parts
      <4> QED
        BY <2>6, <4>1, <4>2, <4>3
    <3>2. UNCHANGED <<tx, registered>>
      BY <2>6 DEF completeOAuth, getSalt, computeAddress
    <3>3. /\ Typed' /\ waiting'[n] \in {next, "done"}
          /\ \A m \in Numbers \ {n} : waiting'[m] = "done"
          /\ Alone' /\ SessionOfTheLogin'
          /\ currentSession' # None => currentSession'.sessionId = 0
      BY <2>0, <3>1, <3>2, GoOnStores DEF Awaits, Typed
    <3>4. \A m \in Numbers : OnItsWay(m)'
      BY <3>1, <3>3 DEF OnItsWay
    <3> QED
      BY <2>0, <3>2, <3>3, <3>4 DEF LoginInv, RegisteredOwn, RegisteredWhole
  <2>7. ASSUME NEW n \in Numbers, generateProof(n) PROVE LoginInv'
    <3>1. /\ waiting[n] = "proof"
          /\ GoOn(n, "proof", "registration", {"proof", "address"})
          /\ tx' = [tx EXCEPT ![n] = IF waiting'[n] = "done" THEN @ ELSE currentSession']
          /\ UNCHANGED registered
      BY <2>7 DEF generateProof
    <3>2. Behind("registration") \subseteq Behind("proof") \cup {"proof"}
      BY DEF Behind
    <3>3. {"proof", "address"} \in SUBSET Parts /\ "registration" \in Awaits
      BY DEF Parts, Awaits
    <3>4. /\ Typed /\ tx' \in [Numbers -> Sessions \cup {None}] => Typed'
          /\ waiting'[n] \in {"registration", "done"}
          /\ \A m \in Numbers \ {n} : waiting'[m] = "done"
          /\ Alone' /\ SessionOfTheLogin'
          /\ currentSession' = None => waiting'[n] = "done"
          /\ currentSession' # None => currentSession'.sessionId = 0
      BY <3>1, <3>2, <3>3, GoOnStores
    <3>5. waiting'[n] # "done" => Own(currentSession', n)
      BY <3>4 DEF SessionOfTheLogin
    <3>6. tx' \in [Numbers -> Sessions \cup {None}]
      BY <2>0, <3>1, <3>5 DEF Typed, Own
    <3>7. waiting'[n] # "done" => tx'[n] = currentSession'
      BY <2>0, <3>1 DEF Typed
    <3>8. \A m \in Numbers : OnItsWay(m)'
      BY <3>4, <3>5, <3>7 DEF OnItsWay
    <3> QED
      BY <2>0, <3>1, <3>4, <3>6, <3>8 DEF LoginInv, RegisteredOwn, RegisteredWhole
  <2>8. ASSUME NEW n \in Numbers, submitTransaction(n) PROVE LoginInv'
    <3>1. /\ waiting[n] = "registration" /\ Await(n, "result") /\ "result" \in Awaits
          /\ registered' = registered \cup {tx[n]}
          /\ UNCHANGED <<currentSession, logins, tx>>
      BY <2>8 DEF submitTransaction, Awaits
    <3>2. /\ waiting' \in [Numbers -> Awaits] /\ waiting'[n] = "result"
          /\ \A m \in Numbers \ {n} : waiting'[m] = "done"
          /\ isLoading' \in BOOLEAN /\ Alone'
      BY <2>0, <3>1, AwaitKeeps
    <3>3. Own(tx[n], n) /\ (currentSession # None => currentSession = tx[n])
      BY <2>0, <3>1 DEF OnItsWay
    <3>4. Behind("result") = Behind("registration")
      BY DEF Behind
    <3>5. SessionOfTheLogin' /\ \A m \in Numbers : OnItsWay(m)'
      BY <2>0, <3>1, <3>2, <3>3, <3>4 DEF SessionOfTheLogin, OnItsWay
    <3>6. RegisteredOwn' /\ RegisteredWhole'
      BY <2>0, <3>1, <3>3 DEF RegisteredOwn, RegisteredWhole
    <3> QED
      BY <2>0, <3>1, <3>2, <3>5, <3>6 DEF LoginInv, Typed
  <2>9. ASSUME NEW n \in Numbers, registerSession(n) PROVE LoginInv'
    <3>1. /\ waiting[n] = "result" /\ Await(n, "done") /\ "done" \in Awaits
          /\ currentSession' = Stored(currentSession, n, "sessionId")
          /\ UNCHANGED <<logins, tx, registered>>
      BY <2>9 DEF registerSession, Awaits
    <3>2. /\ waiting' \in [Numbers -> Awaits] /\ \A m \in Numbers : waiting'[m] = "done"
          /\ isLoading' \in BOOLEAN /\ Alone'
      BY <2>0, <3>1, AwaitKeeps
    <3>3. ASSUME currentSession' # None
          PROVE  /\ Own(currentSession', n)
                 /\ \A p \in Parts : currentSession'[p] # 0
                 /\ [currentSession' EXCEPT !.sessionId = 0] \in registered
      <4>1. currentSession # None /\ currentSession' = [currentSession EXCEPT !["sessionId"] = n]
        BY <3>1, <3>3 DEF Stored
      <4>2. currentSession = tx[n] /\ tx[n] \in registered
        BY <2>0, <3>1, <4>1 DEF OnItsWay
      <4>3. /\ Own(currentSession, n) /\ currentSession.sessionId = 0
            /\ Has(currentSession, Behind("result"))
        BY <2>0, <3>1, <4>1 DEF SessionOfTheLogin
      <4>4. Behind("result") = {"jwt", "salt", "address", "proof"}
        BY DEF Behind
      <4>5. n # 0 /\ n \in 0..MaxLogins
        BY LoginAssumption DEF Numbers
      <4>6. Own(currentSession', n)
        BY <4>1, <4>3, <4>5 DEF Own, Sessions, Parts
      <4>7. \A p \in Parts : currentSession'[p] # 0
        BY <4>1, <4>3, <4>4, <4>5 DEF Own, Has, Sessions, Parts
      <4>8. [currentSession' EXCEPT !.sessionId = 0] = currentSession
        BY <4>1, <4>3 DEF Own, Sessions, Parts
      <4> QED
        BY <4>2, <4>6, <4>7, <4>8
    <3>4. SessionOfTheLogin' /\ \A m \in Numbers : OnItsWay(m)'
      BY <3>2, <3>3 DEF SessionOfTheLogin, OnItsWay
    <3>5. RegisteredWhole'
      BY <3>1, <3>3 DEF RegisteredWhole
    <3> QED
      BY <2>0, <3>1, <3>2, <3>4, <3>5 DEF LoginInv, Typed, RegisteredOwn
  <2> QED
    BY <2>1, <2>2, <2>3, <2>4, <2>5, <2>6, <2>7, <2>8, <2>9 DEF Next
<1> QED
  BY <1>1, <1>2, PTL DEF Spec

\* No session, and no registration on the ledger, mixes the parts of two logins.  A
\* login's answers go into whatever session there is when they come; while it waits
\* that is its own, or none once the user has logged out.
THEOREM SessionOfOneLoginHolds == Spec => []SessionOfOneLogin
<1>1. LoginInv => SessionOfOneLogin
  BY OwnPresent DEF LoginInv, SessionOfTheLogin, RegisteredOwn, SessionOfOneLogin
<1> QED
  BY <1>1, LoginInvHolds, PTL

\* A session with an id, which may sign, is whole and registered on the ledger.
THEOREM RegisteredWholeHolds == Spec => []RegisteredWhole
<1>1. LoginInv => RegisteredWhole
  BY DEF LoginInv
<1> QED
  BY <1>1, LoginInvHolds, PTL

\* The flag is up only for a login that waits.
Flags ==
    /\ currentWallet \in BOOLEAN
    /\ isLoading => \E n \in Numbers : waiting[n] # "done"

LEMMA FlagsStep == ASSUME LoginInv, LoginInv', Flags, [Next]_vars PROVE Flags'
<1>0. /\ Typed /\ logins + 1 \in Int /\ MaxLogins \in Nat
  BY LoginAssumption DEF LoginInv, Typed
<1>1. currentWallet' \in BOOLEAN
  <2>1. \/ currentWallet' = currentWallet \/ currentWallet' = FALSE
        \/ currentWallet' = (currentWallet \/ currentSession' # None)
    BY DEF Next, vars, Login, logout, initializeSession, handleMessage, completeOAuth,
       getSalt, computeAddress, generateProof, submitTransaction, registerSession, Reject,
       GoOn
  <2> QED
    BY <2>1 DEF Flags
<1>2. CASE Login
  <2>1. logins + 1 \in Numbers /\ waiting' = [waiting EXCEPT ![logins + 1] = "ledger"]
    BY <1>0, <1>2 DEF Login, Numbers, Typed
  <2>2. waiting'[logins + 1] = "ledger"
    BY <1>0, <2>1 DEF Typed
  <2> QED
    BY <1>1, <2>1, <2>2 DEF Flags
<1>3. CASE logout \/ UNCHANGED vars
  BY <1>1, <1>3 DEF logout, vars, Flags
<1>4. ASSUME NEW n \in Numbers, NEW next, Await(n, next) PROVE Flags'
  <2>1. waiting'[n] = next /\ (isLoading' => next # "done")
    BY <1>0, <1>4 DEF Await, Typed
  <2> QED
    BY <1>1, <2>1 DEF Flags
<1>5. Login \/ logout \/ UNCHANGED vars \/ \E n \in Numbers, next \in Awaits : Await(n, next)
  BY DEF Next, initializeSession, handleMessage, completeOAuth, getSalt, computeAddress,
     generateProof, submitTransaction, registerSession, Reject, GoOn, Awaits
<1> QED
  BY <1>2, <1>3, <1>4, <1>5

\* Every variable stays in its domain, and the buttons are disabled exactly while a login
\* waits, so that one which throws never leaves them so.
THEOREM LoginTypeCorrect == Spec => []TypeOK
<1>1. Init => Flags
  BY DEF Init, Flags
<1>2. LoginInv /\ LoginInv' /\ Flags /\ [Next]_vars => Flags'
  BY FlagsStep
<1>3. LoginInv /\ Flags => TypeOK
  <2> SUFFICES ASSUME LoginInv, Flags PROVE TypeOK
    OBVIOUS
  <2>1. currentSession \in Sessions \cup {None} /\ registered \subseteq Sessions
    BY DEF LoginInv, SessionOfTheLogin, RegisteredOwn, Own
  <2>2. isLoading = (\E n \in Numbers : waiting[n] # "done")
    BY DEF LoginInv, Typed, Alone, Flags
  <2> QED
    BY <2>1, <2>2 DEF LoginInv, Typed, Flags, TypeOK
<1> QED
  BY <1>1, <1>2, <1>3, LoginInvHolds, PTL DEF Spec
=============================================================================
