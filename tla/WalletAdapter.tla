--------------------------- MODULE WalletAdapter ---------------------------
(***************************************************************************)
(* The connection of the SDK's wallet adapter                              *)
(* (src/sdk/src/core/wallet-adapter.ts): connect opens a popup of the      *)
(* OAuth provider, waits for its message or for five minutes, and fetches  *)
(* salt and proof; disconnect forgets the session.                         *)
(*                                                                         *)
(* A step is what runs between two awaits.  A key pair, its nonce and the  *)
(* token that the provider issues for it are known by the number of the    *)
(* login that made the pair.                                               *)
(***************************************************************************)
EXTENDS Integers

CONSTANTS
    MaxLogins,     \* bound on the logins
    PopupTimeout,  \* 300000 ms, in ticks of the clock
    MaxTime        \* bound on the clock when a login begins

ASSUME AdapterAssumption ==
    MaxLogins \in Nat \ {0} /\ PopupTimeout \in Nat \ {0} /\ MaxTime \in Nat

VARIABLES
    persistSessions,    \* config.persistSessions: TRUE unless the application says otherwise
    clock,              \* the wall clock
    currentSession,     \* its key and the nonce of its token; both 0 for no session
    status,
    connectionPromise,  \* whether a promise is handed out to every caller
    loginsBegun,        \* how many logins have begun
    awaiting,           \* the await each login is at, "settled" when its promise is
    token,              \* the nonce in the token of each login, 0 before it has one
    oauthPopup,         \* the login whose popup this.oauthPopup is, 0 for null
    popupWindow,        \* the login whose nonce the open window shows, 0 if it is closed
    listening,          \* the logins whose message handler is installed
    timer               \* when each login's timer fires, 0 if it does not run

popupVars == <<oauthPopup, popupWindow, listening, timer>>
vars == <<persistSessions, clock, currentSession, status, connectionPromise, loginsBegun,
          awaiting, token, popupVars>>

Logins == 1..MaxLogins
NoSession == [key |-> 0, nonce |-> 0]

Init ==
    /\ persistSessions \in BOOLEAN
    /\ clock = 1
    /\ currentSession = NoSession
    /\ status = "disconnected"
    /\ connectionPromise = FALSE
    /\ loginsBegun = 0
    /\ awaiting = [n \in Logins |-> "settled"]
    /\ token = [n \in Logins |-> 0]
    /\ oauthPopup = 0 /\ popupWindow = 0
    /\ listening = {}
    /\ timer = [n \in Logins |-> 0]

-----------------------------------------------------------------------------
\* Who calls connect while a login waits is given the promise of that one.  (The
\* first form begins another.)
MayBeginAny == TRUE
MayBegin == ~connectionPromise

\* A key pair is made, and the ledger asked for its number.
connect ==
    /\ MayBegin
    /\ loginsBegun < MaxLogins /\ clock < MaxTime
    /\ status' = "connecting"
    /\ connectionPromise' = TRUE
    /\ loginsBegun' = loginsBegun + 1
    /\ awaiting' = [awaiting EXCEPT ![loginsBegun + 1] = "ledger"]
    /\ UNCHANGED <<persistSessions, clock, currentSession, token, popupVars>>

\* The promise of login n is rejected, which the catch of _connect notes: the session
\* of an earlier login stays.
Rejected(n) ==
    /\ awaiting' = [awaiting EXCEPT ![n] = "settled"]
    /\ status' = "error"
    /\ connectionPromise' = FALSE

\* A fetch fails or answers with an error, the popup is blocked, the provider is not
\* supported; or the storage has no database and refuses to store.
Throw(n) ==
    /\ awaiting[n] \in {"ledger", "salt", "proof", "storage"}
    /\ Rejected(n)
    /\ UNCHANGED <<persistSessions, clock, currentSession, loginsBegun, token, popupVars>>

\* The nonce is computed and the provider's page opened in the window named "oauth",
\* in place of whatever that shows; the handler and the timer are installed.
openOAuthPopup(n) ==
    /\ awaiting[n] = "ledger"
    /\ awaiting' = [awaiting EXCEPT ![n] = "popup"]
    /\ oauthPopup' = n /\ popupWindow' = n
    /\ listening' = listening \cup {n}
    /\ timer' = [timer EXCEPT ![n] = clock + PopupTimeout]
    /\ UNCHANGED <<persistSessions, clock, currentSession, status, connectionPromise,
                   loginsBegun, token>>

\* The user closes the window, of which the adapter learns nothing.
CloseWindow ==
    /\ popupWindow # 0
    /\ popupWindow' = 0
    /\ UNCHANGED <<persistSessions, clock, currentSession, status, connectionPromise,
                   loginsBegun, awaiting, token, oauthPopup, listening, timer>>

\* handleMessage closes the popup that there is.
ClosePopup == oauthPopup' = 0 /\ popupWindow' = IF oauthPopup = 0 THEN popupWindow ELSE 0

\* The page of the window posts its token to every handler; each takes it for its own
\* login's, and asks for the salt.
handleMessage ==
    /\ popupWindow # 0 /\ listening # {}
    /\ token' = [n \in Logins |-> IF n \in listening THEN popupWindow ELSE token[n]]
    /\ awaiting' = [n \in Logins |-> IF n \in listening THEN "salt" ELSE awaiting[n]]
    /\ listening' = {}
    /\ ClosePopup
    /\ UNCHANGED <<persistSessions, clock, currentSession, status, connectionPromise,
                   loginsBegun, timer>>

\* It posts an error.
handleError(n) ==
    /\ popupWindow # 0 /\ n \in listening
    /\ Rejected(n)
    /\ listening' = listening \ {n}
    /\ ClosePopup
    /\ UNCHANGED <<persistSessions, clock, currentSession, loginsBegun, token, timer>>

\* It posts a message without a token: the handler, already removed, throws, and the
\* promise waits for the timer.
handleMalformed(n) ==
    /\ popupWindow # 0 /\ n \in listening
    /\ listening' = listening \ {n}
    /\ ClosePopup
    /\ UNCHANGED <<persistSessions, clock, currentSession, status, connectionPromise,
                   loginsBegun, awaiting, token, timer>>

\* Five minutes after the popup was opened, whatever came of it: the timer is never
\* cleared.  To reject a settled promise does nothing.  (The first form forgets to
\* reject.)
SettleByTimerSilent(n) == UNCHANGED <<awaiting, status, connectionPromise>>
SettleByTimer(n) ==
    IF awaiting[n] = "popup" THEN Rejected(n)
    ELSE UNCHANGED <<awaiting, status, connectionPromise>>

PopupTimedOut(n) ==
    /\ timer[n] = clock
    /\ timer' = [timer EXCEPT ![n] = 0]
    /\ listening' = listening \ {n}
    /\ ClosePopup
    /\ SettleByTimer(n)
    /\ UNCHANGED <<persistSessions, clock, currentSession, loginsBegun, token>>

\* The salt is there, the address is computed, and the prover asked for its proof.
getSalt(n) ==
    /\ awaiting[n] = "salt"
    /\ awaiting' = [awaiting EXCEPT ![n] = "proof"]
    /\ UNCHANGED <<persistSessions, clock, currentSession, status, connectionPromise,
                   loginsBegun, token, popupVars>>

\* The proof is there.  A session that is to be kept is stored first, and
\* storeSession waits for the storage's init, which is never done (SessionStorage).
generateProof(n) ==
    /\ awaiting[n] = "proof"
    /\ IF persistSessions
       THEN /\ awaiting' = [awaiting EXCEPT ![n] = "storage"]
            /\ UNCHANGED <<currentSession, status, connectionPromise>>
       ELSE /\ awaiting' = [awaiting EXCEPT ![n] = "settled"]
            /\ currentSession' = [key |-> n, nonce |-> token[n]]
            /\ status' = "connected"
            /\ connectionPromise' = FALSE
    /\ UNCHANGED <<persistSessions, clock, loginsBegun, token, popupVars>>

\* Of a session that is kept, the storage is asked first, in vain.
disconnect ==
    /\ currentSession # NoSession => ~persistSessions
    /\ currentSession' = NoSession
    /\ status' = "disconnected"
    /\ UNCHANGED <<persistSessions, clock, connectionPromise, loginsBegun, awaiting,
                   token, popupVars>>

\* A timer that is due fires before time goes on.
Running == {n \in Logins : timer[n] # 0}
Tick ==
    /\ clock < MaxTime \/ Running # {}
    /\ \A n \in Running : timer[n] > clock
    /\ clock' = clock + 1
    /\ UNCHANGED <<persistSessions, currentSession, status, connectionPromise,
                   loginsBegun, awaiting, token, popupVars>>

Next ==
    \/ connect \/ disconnect \/ handleMessage \/ CloseWindow \/ Tick
    \/ \E n \in Logins :
         \/ openOAuthPopup(n) \/ handleError(n) \/ handleMalformed(n) \/ PopupTimedOut(n)
         \/ getSalt(n) \/ generateProof(n) \/ Throw(n)

\* Every fetch is answered or fails, time goes on and timers fire.  Nothing makes the
\* user finish, and nothing the storage, whose init waits for itself.
Fairness ==
    /\ \A n \in Logins :
         WF_vars(openOAuthPopup(n) \/ getSalt(n) \/ generateProof(n)) /\ WF_vars(PopupTimedOut(n))
    /\ WF_vars(Tick)

Spec == Init /\ [][Next]_vars /\ Fairness

-----------------------------------------------------------------------------
(* Properties.                                                             *)

TypeOK ==
    /\ persistSessions \in BOOLEAN
    /\ clock \in 1..(MaxTime + 2 * PopupTimeout)
    /\ currentSession \in [key : 0..MaxLogins, nonce : 0..MaxLogins]
    /\ status \in {"disconnected", "connecting", "connected", "error"}
    /\ loginsBegun \in 0..MaxLogins
    /\ awaiting \in [Logins -> {"ledger", "popup", "salt", "proof", "storage", "settled"}]
    /\ connectionPromise = (\E n \in Logins : awaiting[n] # "settled")
    /\ token \in [Logins -> 0..MaxLogins]
    /\ {oauthPopup, popupWindow} \subseteq 0..MaxLogins
    /\ listening \subseteq Logins
    /\ timer \in [Logins -> 0..(MaxTime + 2 * PopupTimeout)]

\* The handler takes any message of its origin for the answer to its own login, and
\* checks no nonce; popups time out, are closed and opened again meanwhile.  Yet the
\* token of a session was issued for the nonce of that session's own key, without
\* which its proof is worth nothing.
TokenOfOwnNonce == currentSession.nonce = currentSession.key

\* Whatever becomes of the popup, and whoever closes it, connect comes to an end, or to
\* the one await that is never answered, where sessions are to be kept: the storage's
\* (wallet-adapter.ts:358).  What is handed out to later callers is not the promise of a
\* login that is stuck anywhere else.
ConnectEnds ==
    connectionPromise ~>
      \/ ~connectionPromise
      \/ persistSessions /\ \E n \in Logins : awaiting[n] = "storage"
=============================================================================
