---------------------------- MODULE LoginSession ----------------------------
(***************************************************************************)
(* The login of the SDK: StellarZkLogin.login drives ZkLoginClient through *)
(* its steps, and each step awaits an answer and then writes a part of     *)
(* this.currentSession, whatever session that is by then.                  *)
(*                                                                         *)
(* JavaScript runs one callback at a time, so a step of the model is what  *)
(* runs between two awaits.  Every part of a session is the number of the  *)
(* login that asked for it, 0 while the part is absent.                    *)
(***************************************************************************)
EXTENDS Integers

CONSTANTS
    MaxLogins,  \* bound on the logins of a run
    None        \* no session

\* The parts of a session.
Parts == {"key", "jwt", "salt", "address", "proof", "sessionId"}
Sessions == [Parts -> 0..MaxLogins]

ASSUME LoginAssumption == MaxLogins \in Nat \ {0} /\ None \notin Sessions

VARIABLES
    currentSession,  \* the client's session
    currentWallet,   \* whether the facade has a wallet to hand out: isLoggedIn
    isLoading,       \* the React provider's flag, which disables its login buttons
    logins,          \* how many logins have begun
    waiting,         \* the await each login is at; "done" when it has ended
    tx,              \* the registration each login has built, as the session it names
    registered       \* the registrations that the ledger has applied

vars == <<currentSession, currentWallet, isLoading, logins, waiting, tx, registered>>

Numbers == 1..MaxLogins
Fresh(n) == [key |-> n, jwt |-> 0, salt |-> 0, address |-> 0, proof |-> 0, sessionId |-> 0]

Init ==
    /\ currentSession = None
    /\ currentWallet = FALSE
    /\ isLoading = FALSE
    /\ logins = 0
    /\ waiting = [n \in Numbers |-> "done"]
    /\ tx = [n \in Numbers |-> None]
    /\ registered = {}

-----------------------------------------------------------------------------
\* Login n goes on to its next await, or ends, with the wallet or without; the
\* provider's flag falls with it.
Await(n, next) ==
    /\ waiting' = [waiting EXCEPT ![n] = next]
    /\ isLoading' = (isLoading /\ next # "done")

\* To write a part of no session is a TypeError: there is still none.  (The first
\* form spreads the session there is, or none, into a new one.)
StoredAnew(session, n, part) ==
    [IF session = None THEN Fresh(0) ELSE session EXCEPT ![part] = n]
Stored(session, n, part) ==
    IF session = None THEN None ELSE [session EXCEPT ![part] = n]

\* The answer that login n awaits is stored, and the next step begins if it finds
\* the parts that it needs.
GoOn(n, part, next, needs) ==
    /\ currentSession' = Stored(currentSession, n, part)
    /\ Await(n, IF currentSession' # None /\ \A p \in needs : currentSession'[p] # 0
                THEN next ELSE "done")
    /\ UNCHANGED <<currentWallet, logins>>

-----------------------------------------------------------------------------
\* The button's handler, up to the ledger's sequence, which initializeSession asks
\* for.  (The first form is a button that does not heed the flag.)
LoginUnguarded ==
    /\ logins < MaxLogins
    /\ logins' = logins + 1
    /\ waiting' = [waiting EXCEPT ![logins + 1] = "ledger"]
    /\ isLoading' = TRUE
    /\ UNCHANGED <<currentSession, currentWallet, tx, registered>>
Login ==
    /\ ~isLoading /\ logins < MaxLogins
    /\ logins' = logins + 1
    /\ waiting' = [waiting EXCEPT ![logins + 1] = "ledger"]
    /\ isLoading' = TRUE
    /\ UNCHANGED <<currentSession, currentWallet, tx, registered>>

\* A session of its own key replaces the one there is, and the popup opens.
initializeSession(n) ==
    /\ waiting[n] = "ledger"
    /\ currentSession' = Fresh(n)
    /\ Await(n, "popup")
    /\ UNCHANGED <<currentWallet, logins, tx, registered>>

\* The popup posts its code; completeOAuth needs a session, and exchanges the code.
handleMessage(n) ==
    /\ waiting[n] = "popup"
    /\ Await(n, IF currentSession = None THEN "done" ELSE "token")
    /\ UNCHANGED <<currentSession, currentWallet, logins, tx, registered>>

\* The token is stored, and getSalt sends it.
completeOAuth(n) ==
    /\ waiting[n] = "token"
    /\ GoOn(n, "jwt", "salt", {"jwt"})
    /\ UNCHANGED <<tx, registered>>

\* The salt is stored, and computeAddress hashes it with the token's claims.
getSalt(n) ==
    /\ waiting[n] = "salt"
    /\ GoOn(n, "salt", "address", {"jwt", "salt"})
    /\ UNCHANGED <<tx, registered>>

\* The address is stored, and generateProof sends the session to the prover.
computeAddress(n) ==
    /\ waiting[n] = "address"
    /\ GoOn(n, "address", "proof", {"jwt", "salt"})
    /\ UNCHANGED <<tx, registered>>

\* The proof is stored, and registerSession takes its transaction from the session.
generateProof(n) ==
    /\ waiting[n] = "proof"
    /\ GoOn(n, "proof", "registration", {"proof", "address"})
    /\ tx' = [tx EXCEPT ![n] = IF waiting'[n] = "done" THEN @ ELSE currentSession']
    /\ UNCHANGED registered

\* The ledger applies it, whatever has become of the session; the answer is polled
\* for.
submitTransaction(n) ==
    /\ waiting[n] = "registration"
    /\ registered' = registered \cup {tx[n]}
    /\ Await(n, "result")
    /\ UNCHANGED <<currentSession, currentWallet, logins, tx>>

\* The hash is stored as the session's id and the wallet handed out: no await lies
\* between them.
registerSession(n) ==
    /\ waiting[n] = "result"
    /\ currentSession' = Stored(currentSession, n, "sessionId")
    /\ currentWallet' = (currentWallet \/ currentSession' # None)
    /\ Await(n, "done")
    /\ UNCHANGED <<logins, tx, registered>>

\* An answer is an error or does not come in time, or the user closes the popup:
\* login n throws, and leaves the session and the wallet that there are.
Reject(n) ==
    /\ waiting[n] # "done"
    /\ Await(n, "done")
    /\ UNCHANGED <<currentSession, currentWallet, logins, tx, registered>>

\* At any time, also while a login waits: it does not know of it.
logout ==
    /\ currentSession' = None
    /\ currentWallet' = FALSE
    /\ UNCHANGED <<isLoading, logins, waiting, tx, registered>>

Next ==
    \/ Login \/ logout
    \/ \E n \in Numbers :
         \/ initializeSession(n) \/ handleMessage(n) \/ completeOAuth(n) \/ getSalt(n)
         \/ computeAddress(n) \/ generateProof(n) \/ submitTransaction(n)
         \/ registerSession(n) \/ Reject(n)

Spec == Init /\ [][Next]_vars

-----------------------------------------------------------------------------
(* Properties.                                                             *)

Awaits == {"ledger", "popup", "token", "salt", "address", "proof", "registration", "result",
           "done"}

\* Every variable in its domain, and a login that waits keeps the buttons disabled.
TypeOK ==
    /\ currentSession \in Sessions \cup {None}
    /\ currentWallet \in BOOLEAN
    /\ logins \in 0..MaxLogins
    /\ waiting \in [Numbers -> Awaits]
    /\ isLoading = (\E n \in Numbers : waiting[n] # "done")
    /\ tx \in [Numbers -> Sessions \cup {None}]
    /\ registered \subseteq Sessions

\* The parts of a session that are there.
Present(session) == {session[p] : p \in Parts} \ {0}

\* Nothing stops a login when the user logs out, and its answers go into the session
\* of the moment; yet a session, and a registration on
\* the ledger, never mixes the key of one login with the token, address or proof of
\* another.
SessionOfOneLogin ==
    /\ currentSession # None => Present(currentSession) = {currentSession.key}
    /\ \A s \in registered : Present(s) = {s.key}

\* A session that has its id, and so may sign, has all its parts and is the one that
\* the ledger has registered.
RegisteredWhole ==
    currentSession # None /\ currentSession.sessionId # 0
        => /\ \A p \in Parts : currentSession[p] # 0
           /\ [currentSession EXCEPT !.sessionId = 0] \in registered

=============================================================================
