----------------------------- MODULE Sdk_proofs -----------------------------
(***************************************************************************)
(* The protocols of the SDK, for any number of logins, payments, resources *)
(* and subjects, whatever is closed, switched, lost or restarted: an       *)
(* inductive invariant of each and what it means.  SdkValues_proofs has    *)
(* the proofs about what the login computes.                               *)
(***************************************************************************)
EXTENDS Sdk, SdkValues_proofs

-----------------------------------------------------------------------------
(* WalletAdapter: the connection.                                          *)

Awaits == {"ledger", "popup", "salt", "proof", "storage", "settled"}

Shape ==
    /\ loginsBegun \in Nat
    /\ connectionPromise \in BOOLEAN
    /\ awaiting \in [Logins -> Awaits]
    /\ token \in [Logins -> Int]
    /\ listening \subseteq Logins

\* The promise that is handed out keeps a second login from beginning while one waits.
Alone ==
    \A n \in Logins : awaiting[n] # "settled" => connectionPromise /\ n = loginsBegun

\* Only the login that waits for its popup listens, and the window shows its page or is
\* closed: it was opened in place of whatever an earlier login left open.
OwnPopup ==
    /\ \A n \in listening : awaiting[n] = "popup"
    /\ \A n \in Logins : awaiting[n] = "popup" => popupWindow \in {0, n}

\* So the token a login goes on with is its own.
OwnToken == \A n \in Logins : awaiting[n] \in {"salt", "proof"} => token[n] = n

AdapterInv == Shape /\ Alone /\ OwnPopup /\ OwnToken /\ TokenOfOwnNonce

\* What happens to a login that is already under way: at most that it settles, or goes on
\* from one of the awaits that a token is not waited for at.
LEMMA Goes ==
    ASSUME AdapterInv, NEW n \in Logins, NEW goesTo \in Awaits,
           awaiting[n] # "settled",
           awaiting' = [awaiting EXCEPT ![n] = goesTo],
           connectionPromise' \in BOOLEAN,
           goesTo # "settled" => connectionPromise' = connectionPromise,
           goesTo = "popup" => popupWindow' \in {0, n},
           goesTo \in {"salt", "proof"} => token[n] = n,
           loginsBegun' = loginsBegun, token' = token,
           listening' \subseteq Logins,
           \A m \in listening' : (m \in listening /\ m # n) \/ (m = n /\ goesTo = "popup"),
           goesTo = "popup" \/ popupWindow' \in {0, popupWindow},
           TokenOfOwnNonce'
    PROVE  AdapterInv'
<1>1. \A m \in Logins \ {n} : awaiting[m] = "settled" /\ awaiting'[m] = "settled"
  BY DEF AdapterInv, Alone, Shape
<1>2. awaiting'[n] = goesTo
  BY DEF AdapterInv, Shape
<1>3. Shape'
  BY DEF AdapterInv, Shape, Logins
<1>4. Alone'
  BY <1>1, <1>2 DEF AdapterInv, Alone, Logins
<1>5. OwnPopup'
  BY <1>1, <1>2 DEF AdapterInv, OwnPopup, Shape, Logins
<1>6. OwnToken'
  BY <1>1, <1>2 DEF AdapterInv, OwnToken, Logins
<1> QED
  BY <1>3, <1>4, <1>5, <1>6 DEF AdapterInv

\* A step that leaves the logins where they are, and at most closes the window or stops
\* a handler.
LEMMA Stays ==
    ASSUME AdapterInv, UNCHANGED <<awaiting, connectionPromise, loginsBegun, token>>,
           listening' \subseteq listening, popupWindow' \in {0, popupWindow},
           TokenOfOwnNonce'
    PROVE  AdapterInv'
BY DEF AdapterInv, Shape, Alone, OwnPopup, OwnToken, Logins

LEMMA AdapterStep ==
    ASSUME AdapterInv, [Next]_vars PROVE AdapterInv'
<1> USE DEF TokenOfOwnNonce
<1>0. /\ awaiting \in [Logins -> Awaits] /\ listening \subseteq Logins
      /\ connectionPromise \in BOOLEAN /\ loginsBegun \in Nat /\ token \in [Logins -> Int]
      /\ currentSession.nonce = currentSession.key
  BY DEF AdapterInv, Shape
<1>1. CASE connect
  <2> DEFINE new == loginsBegun + 1
  <2>1. /\ ~connectionPromise /\ connectionPromise' /\ loginsBegun' = new
        /\ awaiting' = [awaiting EXCEPT ![new] = "ledger"] /\ new \in Logins
        /\ UNCHANGED <<currentSession, token, popupWindow, listening>>
        /\ connectionPromise' \in BOOLEAN
    BY <1>0, <1>1, AdapterAssumption DEF connect, MayBegin, popupVars, Logins
  <2>2. /\ \A m \in Logins : awaiting[m] = "settled"
        /\ \A m \in Logins \ {new} : awaiting'[m] = "settled"
        /\ awaiting'[new] = "ledger"
    BY <1>0, <2>1 DEF AdapterInv, Alone
  <2>3. listening = {}
    BY <1>0, <2>2 DEF AdapterInv, OwnPopup
  <2>4. Shape'
    BY <1>0, <2>1, <2>3 DEF Shape, Awaits, Logins
  <2> QED
    BY <2>1, <2>2, <2>3, <2>4, <1>0 DEF AdapterInv, Alone, OwnPopup, OwnToken, Logins
<1>2. CASE disconnect
  <2>1. TokenOfOwnNonce'
    BY <1>2 DEF disconnect, NoSession
  <2> QED
    BY <1>2, <2>1, Stays DEF disconnect, popupVars
<1>3. CASE CloseWindow \/ Tick \/ UNCHANGED vars
  BY <1>0, <1>3, Stays DEF CloseWindow, Tick, vars, popupVars
<1>4. CASE handleMessage
  <2>1. PICK n \in Logins : n \in listening
    BY <1>0, <1>4 DEF handleMessage
  <2>2. /\ awaiting[n] = "popup" /\ popupWindow = n /\ listening = {n}
        /\ \A m \in Logins \ {n} : awaiting[m] = "settled"
    BY <1>0, <1>4, <2>1 DEF AdapterInv, Alone, OwnPopup, handleMessage
  <2>3. /\ token' = [m \in Logins |-> IF m = n THEN n ELSE token[m]]
        /\ awaiting' = [m \in Logins |-> IF m = n THEN "salt" ELSE awaiting[m]]
        /\ listening' = {}
        /\ UNCHANGED <<currentSession, connectionPromise, loginsBegun>>
    BY <1>4, <2>2 DEF handleMessage
  <2>4. n \in Int
    BY <2>1 DEF Logins
  <2>5. Shape'
    BY <1>0, <2>3, <2>4 DEF Shape, Awaits, Logins
  <2>6. Alone'
    BY <2>1, <2>2, <2>3 DEF AdapterInv, Alone, Logins
  <2> QED
    BY <1>0, <2>2, <2>3, <2>5, <2>6 DEF AdapterInv, OwnPopup, OwnToken, Logins
<1>5. ASSUME NEW n \in Logins, openOAuthPopup(n) PROVE AdapterInv'
  <2>1. /\ awaiting[n] # "settled" /\ awaiting' = [awaiting EXCEPT ![n] = "popup"]
        /\ popupWindow' = n /\ listening' = listening \cup {n}
        /\ UNCHANGED <<connectionPromise, loginsBegun, token, currentSession>>
    BY <1>5 DEF openOAuthPopup
  <2>2. listening = {}
    BY <1>0, <1>5 DEF AdapterInv, Alone, OwnPopup, openOAuthPopup
  <2> QED
    BY <1>0, <2>1, <2>2, Goes DEF Awaits
<1>6. ASSUME NEW n \in Logins, Throw(n) \/ handleError(n) PROVE AdapterInv'
  <2>1. /\ awaiting[n] # "settled" /\ Rejected(n)
        /\ UNCHANGED <<loginsBegun, token, currentSession>>
        /\ listening' \subseteq listening /\ n \notin listening'
        /\ popupWindow' \in {0, popupWindow}
    BY <1>0, <1>6 DEF Throw, handleError, ClosePopup, popupVars, AdapterInv, OwnPopup
  <2> QED
    BY <1>0, <2>1, Goes DEF Rejected, Awaits
<1>7. ASSUME NEW n \in Logins, handleMalformed(n) PROVE AdapterInv'
  BY <1>0, <1>7, Stays DEF handleMalformed, ClosePopup
<1>8. ASSUME NEW n \in Logins, PopupTimedOut(n) PROVE AdapterInv'
  <2>1. /\ listening' = listening \ {n} /\ popupWindow' \in {0, popupWindow}
        /\ UNCHANGED <<loginsBegun, token, currentSession>>
        /\ SettleByTimer(n)
    BY <1>8 DEF PopupTimedOut, ClosePopup
  <2>2. CASE awaiting[n] = "popup"
    <3>1. Rejected(n) /\ awaiting[n] # "settled"
      BY <2>1, <2>2 DEF SettleByTimer
    <3> QED
      BY <1>0, <2>1, <3>1, Goes DEF Rejected, Awaits
  <2>3. CASE awaiting[n] # "popup"
    BY <1>0, <2>1, <2>3, Stays DEF SettleByTimer
  <2> QED
    BY <2>2, <2>3
<1>9. ASSUME NEW n \in Logins, getSalt(n) PROVE AdapterInv'
  <2>1. /\ awaiting[n] = "salt" /\ awaiting' = [awaiting EXCEPT ![n] = "proof"]
        /\ UNCHANGED <<connectionPromise, loginsBegun, token, currentSession, popupWindow,
                       listening>>
    BY <1>9 DEF getSalt, popupVars
  <2>2. token[n] = n /\ n \notin listening
    BY <2>1 DEF AdapterInv, OwnToken, OwnPopup
  <2> QED
    BY <1>0, <2>1, <2>2, Goes DEF Awaits
<1>10. ASSUME NEW n \in Logins, generateProof(n) PROVE AdapterInv'
  <2>1. /\ awaiting[n] = "proof"
        /\ UNCHANGED <<loginsBegun, token, popupWindow, listening>>
    BY <1>10 DEF generateProof, popupVars
  <2>2. token[n] = n /\ n \notin listening
    BY <2>1 DEF AdapterInv, OwnToken, OwnPopup
  <2>3. CASE persistSessions
    <3>1. /\ awaiting' = [awaiting EXCEPT ![n] = "storage"]
          /\ UNCHANGED <<currentSession, connectionPromise>>
      BY <1>10, <2>3 DEF generateProof
    <3> QED
      BY <1>0, <2>1, <2>2, <3>1, Goes DEF Awaits
  <2>4. CASE ~persistSessions
    <3>1. /\ awaiting' = [awaiting EXCEPT ![n] = "settled"]
          /\ currentSession' = [key |-> n, nonce |-> token[n]]
          /\ connectionPromise' = FALSE
      BY <1>10, <2>4 DEF generateProof
    <3>2. TokenOfOwnNonce'
      BY <2>2, <3>1
    <3> QED
      BY <1>0, <2>1, <2>2, <3>1, <3>2, Goes DEF Awaits
  <2> QED
    BY <2>3, <2>4
<1> QED
  BY <1>1, <1>2, <1>3, <1>4, <1>5, <1>6, <1>7, <1>8, <1>9, <1>10 DEF Next

LEMMA AdapterBegins == Init => AdapterInv
<1> SUFFICES ASSUME Init PROVE AdapterInv
  OBVIOUS
<1>1. Shape
  <2>1. connectionPromise \in BOOLEAN
    BY Zenon DEF Init
  <2>2. awaiting \in [Logins -> Awaits]
    BY DEF Init, Awaits
  <2>3. loginsBegun \in Nat /\ token \in [Logins -> Int] /\ listening \subseteq Logins
    BY DEF Init
  <2> QED
    BY <2>1, <2>2, <2>3 DEF Shape
<1>2. Alone /\ OwnPopup /\ OwnToken
  BY DEF Init, Alone, OwnPopup, OwnToken
<1> QED
  BY <1>1, <1>2 DEF Init, AdapterInv, TokenOfOwnNonce, NoSession

-----------------------------------------------------------------------------
Numbers ==
    /\ clock \in Nat \ {0}
    /\ currentSession \in [key : 0..MaxLogins, nonce : 0..MaxLogins]
    /\ status \in {"disconnected", "connecting", "connected", "error"}
    /\ loginsBegun <= MaxLogins
    /\ token \in [Logins -> 0..MaxLogins]
    /\ oauthPopup \in 0..MaxLogins /\ popupWindow \in 0..MaxLogins
    /\ timer \in [Logins -> Nat]

\* A promise that is handed out is that of a login which still waits.
Awaited == connectionPromise => \E n \in Logins : awaiting[n] # "settled"

\* A login begins before MaxTime and opens its popup no later than the timer of another
\* may fire that was started before MaxTime; after that none begins.
Early ==
    /\ clock <= MaxTime + PopupTimeout
    /\ \A n \in Logins : timer[n] <= MaxTime + PopupTimeout
Late ==
    /\ MaxTime <= clock /\ clock <= MaxTime + 2 * PopupTimeout
    /\ \A n \in Logins :
         timer[n] <= MaxTime + 2 * PopupTimeout /\ awaiting[n] # "ledger"

InTime == Numbers /\ Awaited /\ (Early \/ Late)

\* A step in which time stands still and no timer is started.
LEMMA NoTimer ==
    ASSUME InTime, clock' = clock, timer' \in [Logins -> Nat],
           \A n \in Logins : timer'[n] <= timer[n],
           \A n \in Logins : awaiting'[n] = "ledger" =>
             awaiting[n] = "ledger" \/ clock < MaxTime
    PROVE  Early' \/ Late'
<1>1. MaxTime \in Nat /\ PopupTimeout \in Nat /\ clock \in Nat /\ timer \in [Logins -> Nat]
  BY AdapterAssumption DEF InTime, Numbers
<1>2. CASE Early
  BY <1>1, <1>2 DEF Early
<1>3. CASE Late
  BY <1>1, <1>3 DEF Late
<1> QED
  BY <1>2, <1>3 DEF InTime

LEMMA InTimeStep ==
    ASSUME AdapterInv, InTime, [Next]_vars PROVE InTime'
<1>0. /\ Numbers /\ Awaited /\ Shape
      /\ MaxTime \in Nat /\ PopupTimeout \in Nat /\ MaxLogins \in Nat /\ Logins = 1..MaxLogins
  BY AdapterAssumption DEF InTime, AdapterInv, Logins
<1>t. clock \in Nat /\ timer \in [Logins -> Nat] /\ \A n \in Logins : timer[n] \in Nat
  BY <1>0 DEF Numbers
<1>1. CASE UNCHANGED vars
  BY <1>1 DEF vars, popupVars, InTime, Numbers, Awaited, Early, Late
<1>2. CASE connect
  <2> DEFINE new == loginsBegun + 1
  <2>1. /\ loginsBegun' = new /\ new <= MaxLogins /\ new \in Logins /\ clock < MaxTime
        /\ status' = "connecting" /\ awaiting' = [awaiting EXCEPT ![new] = "ledger"]
        /\ UNCHANGED <<clock, currentSession, token, oauthPopup, popupWindow, timer>>
    BY <1>0, <1>2 DEF connect, popupVars, Shape, Numbers
  <2>2. Numbers'
    BY <1>0, <2>1 DEF Numbers
  <2>3. Awaited'
    BY <1>0, <2>1 DEF Awaited, Shape
  <2>4. Early' \/ Late'
    BY <1>0, <2>1, NoTimer DEF Numbers
  <2> QED
    BY <2>2, <2>3, <2>4 DEF InTime
<1>3. CASE disconnect \/ CloseWindow
  <2>1. Numbers'
    BY <1>0, <1>3 DEF disconnect, CloseWindow, popupVars, NoSession, Numbers
  <2>2. UNCHANGED <<awaiting, connectionPromise, clock, timer>>
    BY <1>3 DEF disconnect, CloseWindow, popupVars
  <2>3. Awaited'
    BY <1>0, <2>2 DEF Awaited
  <2>4. Early' \/ Late'
    BY <1>t, <2>2, NoTimer
  <2> QED
    BY <2>1, <2>3, <2>4 DEF InTime
<1>4. CASE handleMessage
  <2>1. /\ token' = [n \in Logins |-> IF n \in listening THEN popupWindow ELSE token[n]]
        /\ awaiting' = [n \in Logins |-> IF n \in listening THEN "salt" ELSE awaiting[n]]
        /\ oauthPopup' = 0 /\ popupWindow' \in {0, popupWindow}
        /\ UNCHANGED <<clock, currentSession, status, connectionPromise, loginsBegun, timer>>
    BY <1>4 DEF handleMessage, ClosePopup
  <2>2. Numbers'
    BY <1>0, <2>1 DEF Numbers
  <2>3. Awaited'
    BY <1>0, <2>1 DEF Awaited
  <2>4. Early' \/ Late'
    BY <1>0, <2>1, NoTimer DEF Numbers
  <2> QED
    BY <2>2, <2>3, <2>4 DEF InTime
<1>5. CASE Tick
  <2>1. /\ clock' = clock + 1
        /\ clock < MaxTime \/ \E n \in Logins : timer[n] > clock
        /\ UNCHANGED <<currentSession, status, connectionPromise, loginsBegun, awaiting,
                       token, oauthPopup, popupWindow, timer>>
    BY <1>5 DEF Tick, Running, popupVars
  <2>2. Numbers'
    <3>1. clock' \in Nat \ {0}
      BY <1>t, <2>1
    <3> QED
      BY <1>0, <2>1, <3>1 DEF Numbers
  <2>6. Awaited'
    BY <1>0, <2>1 DEF Awaited
  <2>7. PICK n \in Logins : clock < MaxTime \/ timer[n] > clock
    BY <2>1, AdapterAssumption DEF Logins
  <2>3. ASSUME Early PROVE Early'
    <3>1. clock + 1 <= MaxTime + PopupTimeout
      BY <1>0, <1>t, <2>7, <2>3, AdapterAssumption DEF Early
    <3> QED
      BY <2>1, <2>3, <3>1 DEF Early
  <2>4. ASSUME Late PROVE Late'
    <3>1. timer[n] > clock /\ timer[n] <= MaxTime + 2 * PopupTimeout /\ MaxTime <= clock
      BY <1>0, <1>t, <2>7, <2>4 DEF Late
    <3>2. MaxTime <= clock + 1 /\ clock + 1 <= MaxTime + 2 * PopupTimeout
      BY <1>0, <1>t, <3>1
    <3> QED
      BY <2>1, <2>4, <3>2 DEF Late
  <2>5. Early' \/ Late'
    BY <2>3, <2>4 DEF InTime
  <2> QED
    BY <2>2, <2>5, <2>6 DEF InTime
<1>6. ASSUME NEW n \in Logins, openOAuthPopup(n) PROVE InTime'
  <2>1. /\ awaiting[n] = "ledger" /\ awaiting' = [awaiting EXCEPT ![n] = "popup"]
        /\ oauthPopup' = n /\ popupWindow' = n
        /\ timer' = [timer EXCEPT ![n] = clock + PopupTimeout]
        /\ UNCHANGED <<clock, currentSession, status, connectionPromise, loginsBegun, token>>
    BY <1>6 DEF openOAuthPopup
  <2>2. Numbers'
    BY <1>0, <2>1 DEF Numbers
  <2>3. Awaited'
    BY <1>0, <2>1 DEF Awaited, Shape
  <2>4. /\ awaiting'[n] = "popup"
        /\ \A m \in Logins \ {n} : awaiting'[m] = "settled" /\ timer'[m] = timer[m]
        /\ timer'[n] = clock + PopupTimeout /\ clock \in Nat
        /\ timer \in [Logins -> Nat]
    BY <1>0, <2>1 DEF AdapterInv, Alone, Shape, Numbers
  <2>5. Early
    BY <2>1 DEF InTime, Late
  <2>8. /\ clock + PopupTimeout <= MaxTime + 2 * PopupTimeout
        /\ clock <= MaxTime + 2 * PopupTimeout
        /\ \A m \in Logins : timer[m] <= MaxTime + 2 * PopupTimeout
    BY <1>0, <1>t, <2>5 DEF Early
  <2>6. ASSUME clock <= MaxTime PROVE Early'
    <3>1. clock + PopupTimeout <= MaxTime + PopupTimeout
      BY <1>0, <1>t, <2>6
    <3>2. \A m \in Logins : timer'[m] <= MaxTime + PopupTimeout
      BY <2>4, <2>5, <3>1 DEF Early
    <3>3. clock' <= MaxTime + PopupTimeout
      BY <2>1, <2>5 DEF Early
    <3> QED
      BY <3>2, <3>3 DEF Early
  <2>7. ASSUME MaxTime < clock PROVE Late'
    <3>1. MaxTime <= clock
      BY <1>0, <1>t, <2>7
    <3>2. \A m \in Logins :
            timer'[m] <= MaxTime + 2 * PopupTimeout /\ awaiting'[m] # "ledger"
      BY <2>4, <2>8
    <3>3. MaxTime <= clock' /\ clock' <= MaxTime + 2 * PopupTimeout
      BY <2>1, <2>8, <3>1
    <3> QED
      BY <3>2, <3>3 DEF Late
  <2> QED
    BY <1>0, <2>2, <2>3, <2>4, <2>6, <2>7 DEF InTime
<1>7. ASSUME NEW n \in Logins, NEW goesTo \in Awaits \ {"ledger"}, awaiting[n] # "settled",
             awaiting' = [awaiting EXCEPT ![n] = goesTo],
             goesTo = "settled" => connectionPromise' = FALSE,
             UNCHANGED <<clock, token, loginsBegun>>,
             timer' = timer \/ timer' = [timer EXCEPT ![n] = 0],
             oauthPopup' \in {0, oauthPopup}, popupWindow' \in {0, popupWindow},
             status' \in {status, "connected", "error"},
             currentSession' \in {currentSession, [key |-> n, nonce |-> token[n]]}
      PROVE  InTime'
  <2>1. /\ timer' \in [Logins -> Nat] /\ \A m \in Logins : timer'[m] <= timer[m]
    BY <1>t, <1>7
  <2>5. /\ \A m \in Logins : awaiting'[m] = "ledger" => awaiting[m] = "ledger"
        /\ awaiting'[n] = goesTo
    BY <1>0, <1>7 DEF Shape
  <2>2. Numbers'
    BY <1>0, <1>7, <2>1 DEF Numbers
  <2>3. Awaited'
    BY <1>0, <1>7, <2>5 DEF Awaited
  <2>4. Early' \/ Late'
    BY <1>7, <2>1, <2>5, NoTimer
  <2> QED
    BY <2>2, <2>3, <2>4 DEF InTime
<1>8. ASSUME NEW n \in Logins, handleError(n) \/ Throw(n) PROVE InTime'
  <2>1. /\ awaiting[n] # "settled" /\ Rejected(n)
        /\ UNCHANGED <<clock, token, loginsBegun, timer, currentSession>>
        /\ oauthPopup' \in {0, oauthPopup} /\ popupWindow' \in {0, popupWindow}
    BY <1>8 DEF handleError, Throw, ClosePopup, popupVars, AdapterInv, OwnPopup
  <2> QED
    BY <1>7, <2>1 DEF Rejected, Awaits
<1>9. ASSUME NEW n \in Logins, UNCHANGED <<awaiting, status, connectionPromise>>,
             UNCHANGED <<clock, token, loginsBegun, currentSession>>,
             timer' = timer \/ timer' = [timer EXCEPT ![n] = 0],
             oauthPopup' \in {0, oauthPopup}, popupWindow' \in {0, popupWindow}
      PROVE  InTime'
  <2>1. /\ timer' \in [Logins -> Nat] /\ \A m \in Logins : timer'[m] <= timer[m]
    BY <1>t, <1>9
  <2>2. Numbers' /\ Awaited'
    BY <1>0, <1>9, <2>1 DEF Numbers, Awaited
  <2>3. Early' \/ Late'
    BY <1>9, <2>1, NoTimer
  <2> QED
    BY <2>2, <2>3 DEF InTime
<1>10. ASSUME NEW n \in Logins, handleMalformed(n) PROVE InTime'
  BY <1>9, <1>10 DEF handleMalformed, ClosePopup
<1>11. ASSUME NEW n \in Logins, PopupTimedOut(n) PROVE InTime'
  <2>1. /\ timer' = [timer EXCEPT ![n] = 0]
        /\ oauthPopup' \in {0, oauthPopup} /\ popupWindow' \in {0, popupWindow}
        /\ UNCHANGED <<clock, token, loginsBegun, currentSession>>
        /\ SettleByTimer(n)
    BY <1>11 DEF PopupTimedOut, ClosePopup
  <2>2. CASE awaiting[n] = "popup"
    BY <1>7, <2>1, <2>2 DEF SettleByTimer, Rejected, Awaits
  <2>3. CASE awaiting[n] # "popup"
    BY <1>9, <2>1, <2>3 DEF SettleByTimer
  <2> QED
    BY <2>2, <2>3
<1>12. ASSUME NEW n \in Logins, getSalt(n) PROVE InTime'
  BY <1>7, <1>12 DEF getSalt, popupVars, Awaits
<1>13. ASSUME NEW n \in Logins, generateProof(n) PROVE InTime'
  BY <1>7, <1>13 DEF generateProof, popupVars, Awaits
<1> QED
  BY <1>1, <1>2, <1>3, <1>4, <1>5, <1>6, <1>8, <1>10, <1>11, <1>12, <1>13 DEF Next

LEMMA InTimeBegins == Init => InTime
<1> SUFFICES ASSUME Init PROVE InTime
  OBVIOUS
<1>1. MaxTime \in Nat /\ PopupTimeout \in Nat /\ 1 <= PopupTimeout /\ MaxLogins \in Nat
  BY AdapterAssumption
<1>2. Numbers
  BY <1>1 DEF Init, Numbers, NoSession
<1>3. Awaited
  BY Zenon DEF Init, Awaited
<1>4. Early
  BY <1>1 DEF Init, Early
<1> QED
  BY <1>2, <1>3, <1>4 DEF InTime

\* What the application has configured stays as it is.
LEMMA ConfigKept == [Next]_vars => UNCHANGED persistSessions
BY DEF Next, vars, connect, disconnect, handleMessage, CloseWindow, Tick, openOAuthPopup,
   handleError, handleMalformed, PopupTimedOut, getSalt, generateProof, Throw

LEMMA InTimeMeans == ASSUME AdapterInv, InTime, persistSessions \in BOOLEAN PROVE TypeOK
<1>1. MaxTime \in Nat /\ PopupTimeout \in Nat /\ 1 <= PopupTimeout /\ MaxLogins \in Nat
  BY AdapterAssumption
<1>2. clock <= MaxTime + 2 * PopupTimeout
  BY <1>1 DEF InTime, Numbers, Early, Late
<1>3. \A n \in Logins : timer[n] <= MaxTime + 2 * PopupTimeout
  BY <1>1 DEF InTime, Numbers, Early, Late
<1>4. clock \in 1..(MaxTime + 2 * PopupTimeout)
  BY <1>1, <1>2 DEF InTime, Numbers
<1>5. timer \in [Logins -> 0..(MaxTime + 2 * PopupTimeout)]
  BY <1>1, <1>3 DEF InTime, Numbers
<1>6. connectionPromise = (\E n \in Logins : awaiting[n] # "settled")
  BY DEF InTime, Awaited, AdapterInv, Alone, Shape
<1> QED
  BY <1>1, <1>4, <1>5, <1>6 DEF InTime, Numbers, AdapterInv, Shape, Awaits, TypeOK

\* The invariant and what it means, whatever is fair.
LEMMA ConnectionHolds == Init /\ [][Next]_vars => [](TypeOK /\ TokenOfOwnNonce)
<1> DEFINE Inv == AdapterInv /\ InTime /\ persistSessions \in BOOLEAN
<1>1. Inv /\ [Next]_vars => Inv'
  BY AdapterStep, InTimeStep, ConfigKept
<1>2. Inv => TypeOK /\ TokenOfOwnNonce
  BY InTimeMeans DEF AdapterInv
<1>3. Init => Inv
  BY AdapterBegins, InTimeBegins DEF Init
<1> QED
  BY <1>1, <1>2, <1>3, PTL

\* The promise that is handed out is always that of a login which still waits, and with
\* timers that nothing clears the clock is never ahead of what they allow.
THEOREM AdapterTypeCorrect == Spec => []TypeOK
BY ConnectionHolds, PTL DEF Spec

\* Whatever popups are closed, time out or are opened again, the token of a session was
\* issued for the nonce of that session's own key.
THEOREM TokenOfOwnNonceHolds == Spec => []TokenOfOwnNonce
BY ConnectionHolds, PTL DEF Spec

-----------------------------------------------------------------------------
(* AdapterPayment.                                                         *)

Outcomes == {None, "thrown", "ERROR", "unknown", "SUCCESS", "FAILED"}
Effects == {None, "SUCCESS", "FAILED"}

PaymentsShape ==
    /\ network \in Networks
    /\ step \in [Payments -> {"unborn", "account", "library", "key", "sendTransaction",
                              "getTransaction", "ended"}]
    /\ outcome \in [Payments -> Outcomes]
    /\ client = [p \in Payments |-> client[p]]
    /\ queued \in [Networks -> SUBSET Payments]
    /\ included \in [Networks -> [Payments -> Effects]]

Nowhere(p) == \A n \in Networks : p \notin queued[n] /\ included[n][p] = None

\* How a payment stands to the ledgers.  It is on its way to the one that its client
\* submitted it to, and to no other; its outcome is known when that ledger has it.
Payment(p) ==
    /\ step[p] # "ended" => outcome[p] = None
    /\ step[p] \notin {"getTransaction", "ended"} => Nowhere(p)
    /\ outcome[p] \in {"thrown", "ERROR"} => Nowhere(p)
    /\ step[p] \in {"sendTransaction", "getTransaction"} => client[p] \in Networks
    /\ outcome[p] \in {"SUCCESS", "FAILED"} =>
         client[p] \in Networks /\ included[client[p]][p] = outcome[p]
    /\ \A n \in Networks : n # client[p] => p \notin queued[n] /\ included[n][p] = None
    /\ \A n \in Networks : included[n][p] # None => p \notin queued[n]

PaymentsInv == PaymentsShape /\ \A p \in Payments : Payment(p)

\* A step of one payment that puts nothing but itself into a queue.
LEMMA OneMoves ==
    ASSUME PaymentsInv, NEW p \in Payments, PaymentsShape', Payment(p)', included' = included,
           \A n \in Networks : \A q \in Payments \ {p} : q \in queued'[n] <=> q \in queued[n],
           \A q \in Payments \ {p} :
             step'[q] = step[q] /\ outcome'[q] = outcome[q] /\ client'[q] = client[q]
    PROVE  PaymentsInv'
<1>1. ASSUME NEW q \in Payments, q # p PROVE Payment(q)'
  <2>1. Payment(q)
    BY DEF PaymentsInv
  <2> QED
    BY <1>1, <2>1 DEF Payment, Nowhere
<1> QED
  BY <1>1 DEF PaymentsInv

\* A payment that has got nowhere and stays there.
LEMMA Unsent ==
    ASSUME Pay!PaymentAssumption, PaymentsInv, NEW p \in Payments, UNCHANGED <<Pay!chain, network>>,
           Nowhere(p), step' \in [Payments -> {"unborn", "account", "library", "key",
                                       "sendTransaction", "getTransaction", "ended"}],
           \A q \in Payments \ {p} :
             step'[q] = step[q] /\ outcome'[q] = outcome[q] /\ client'[q] = client[q],
           outcome' \in [Payments -> Outcomes],
           client' = [q \in Payments |-> client'[q]],
           \/ step'[p] # "ended" /\ outcome'[p] = None
           \/ step'[p] = "ended" /\ outcome'[p] \in {"thrown", "ERROR", "unknown"},
           step'[p] \in {"sendTransaction", "getTransaction"} => client'[p] \in Networks
    PROVE  PaymentsInv'
<1>1. PaymentsShape'
  BY DEF PaymentsInv, PaymentsShape, Pay!chain
<1>2. Payment(p)'
  BY DEF Payment, Nowhere, Pay!chain, Pay!PaymentAssumption
<1> QED
  BY <1>1, <1>2, OneMoves DEF Pay!chain

\* The result of a payment, or none after it was asked for the last time.
LEMMA PaymentEnds ==
    ASSUME Pay!PaymentAssumption, PaymentsInv, NEW p \in Payments, step[p] = "getTransaction",
           NEW how \in {"unknown", "SUCCESS", "FAILED"}, Pay!End(p, how),
           how # "unknown" => included[client[p]][p] = how,
           UNCHANGED <<network, client, Pay!chain>>
    PROVE  PaymentsInv'
<1>1. /\ step' = [step EXCEPT ![p] = "ended"] /\ outcome' = [outcome EXCEPT ![p] = how]
  BY DEF Pay!End, Pay!Goto
<1>2. PaymentsShape' /\ step'[p] = "ended" /\ outcome'[p] = how
      /\ \A q \in Payments \ {p} : step'[q] = step[q] /\ outcome'[q] = outcome[q]
  BY <1>1 DEF PaymentsInv, PaymentsShape, Pay!chain, Outcomes
<1>3. Payment(p)'
  BY <1>2 DEF PaymentsInv, Payment, Nowhere, Pay!chain, Pay!PaymentAssumption
<1> QED
  BY <1>2, <1>3, OneMoves DEF Pay!chain

LEMMA PaymentsStep ==
    ASSUME Pay!PaymentAssumption, PaymentsInv, [Pay!Next]_(Pay!vars) PROVE PaymentsInv'
<1>0. PaymentsShape /\ \A p \in Payments : Payment(p)
  BY DEF PaymentsInv
<1>1. CASE UNCHANGED Pay!vars
  BY <1>1 DEF Pay!vars, Pay!user, Pay!chain, PaymentsInv, PaymentsShape, Payment, Nowhere
<1>2. ASSUME NEW n \in Networks, Pay!switchNetwork(n) PROVE PaymentsInv'
  BY <1>2 DEF Pay!switchNetwork, Pay!chain, PaymentsInv, PaymentsShape, Payment, Nowhere
<1>3. ASSUME NEW s \in Sessions \cup {None}, Pay!ChangeSession(s) PROVE PaymentsInv'
  BY <1>3 DEF Pay!ChangeSession, Pay!chain, PaymentsInv, PaymentsShape, Payment, Nowhere
<1>4. ASSUME NEW p \in Payments, Pay!sendPayment(p) PROVE PaymentsInv'
  <2>1. /\ step[p] = "unborn" /\ step' = [step EXCEPT ![p] = "account"]
        /\ UNCHANGED <<network, client, outcome, Pay!chain>>
    BY <1>4 DEF Pay!sendPayment, Pay!Goto, Pay!user
  <2> QED
    BY <1>0, <2>1, Unsent DEF PaymentsShape, Payment
<1>5. ASSUME NEW p \in Payments, Pay!buildPaymentTransaction(p) PROVE PaymentsInv'
  <2>1. step[p] = "account" /\ UNCHANGED <<network, client, Pay!chain>>
    BY <1>5 DEF Pay!buildPaymentTransaction, Pay!user
  <2>2. \/ /\ step' = [step EXCEPT ![p] = "ended"]
           /\ outcome' = [outcome EXCEPT ![p] = "thrown"]
        \/ step' = [step EXCEPT ![p] = "library"] /\ outcome' = outcome
    BY <1>5 DEF Pay!buildPaymentTransaction, Pay!End, Pay!Goto
  <2> QED
    BY <1>0, <2>1, <2>2, Unsent DEF PaymentsShape, Payment, Outcomes
<1>6. ASSUME NEW p \in Payments, Pay!signTransaction(p) PROVE PaymentsInv'
  <2>1. step[p] = "library" /\ UNCHANGED <<network, client, Pay!chain>>
    BY <1>6 DEF Pay!signTransaction, Pay!user
  <2>2. \/ /\ step' = [step EXCEPT ![p] = "ended"]
           /\ outcome' = [outcome EXCEPT ![p] = "thrown"]
        \/ step' = [step EXCEPT ![p] = "key"] /\ outcome' = outcome
    BY <1>6 DEF Pay!signTransaction, Pay!End, Pay!Goto
  <2> QED
    BY <1>0, <2>1, <2>2, Unsent DEF PaymentsShape, Payment, Outcomes
<1>7. ASSUME NEW p \in Payments, Pay!submitTransaction(p) PROVE PaymentsInv'
  <2>1. /\ step[p] = "key" /\ step' = [step EXCEPT ![p] = "sendTransaction"]
        /\ client' = [client EXCEPT ![p] = network]
        /\ UNCHANGED <<network, outcome, Pay!chain>>
    BY <1>7 DEF Pay!submitTransaction, Pay!Goto, Pay!user
  <2> QED
    BY <1>0, <2>1, Unsent DEF PaymentsShape, Payment
<1>8. ASSUME NEW p \in Payments, Pay!Accept(p) \/ Pay!LoseAnswer(p) PROVE PaymentsInv'
  <2>1. /\ step[p] = "sendTransaction" /\ client[p] \in Networks
        /\ UNCHANGED <<network, client, included>>
        /\ queued' = queued \/ queued' = [queued EXCEPT ![client[p]] = queued[client[p]] \cup {p}]
        /\ \/ step' = [step EXCEPT ![p] = "getTransaction"] /\ outcome' = outcome
           \/ /\ step' = [step EXCEPT ![p] = "ended"]
              /\ outcome' = [outcome EXCEPT ![p] = "unknown"]
    BY <1>0, <1>8 DEF Pay!Accept, Pay!LoseAnswer, Pay!End, Pay!Goto, Pay!user, Payment
  <2>2. /\ PaymentsShape'
        /\ \A n \in Networks : \A q \in Payments \ {p} : q \in queued'[n] <=> q \in queued[n]
        /\ \A n \in Networks \ {client[p]} : queued'[n] = queued[n]
        /\ \A q \in Payments \ {p} : step'[q] = step[q] /\ outcome'[q] = outcome[q]
        /\ \/ step'[p] = "getTransaction" /\ outcome'[p] = None
           \/ step'[p] = "ended" /\ outcome'[p] = "unknown"
    <3>1. /\ queued' \in [Networks -> SUBSET Payments]
          /\ \A n \in Networks : \A q \in Payments \ {p} : q \in queued'[n] <=> q \in queued[n]
          /\ \A n \in Networks \ {client[p]} : queued'[n] = queued[n]
      <4>1. CASE queued' = queued
        BY <1>0, <4>1 DEF PaymentsShape
      <4>2. CASE queued' = [queued EXCEPT ![client[p]] = queued[client[p]] \cup {p}]
        <5>1. PICK c \in Networks : c = client[p]
          BY <2>1
        <5>2. /\ queued'[c] = queued[c] \cup {p}
              /\ \A n \in Networks \ {c} : queued'[n] = queued[n]
              /\ DOMAIN queued' = Networks /\ queued' = [n \in Networks |-> queued'[n]]
          BY <1>0, <4>2, <5>1 DEF PaymentsShape
        <5>3. \A n \in Networks : queued'[n] \subseteq Payments
          BY <1>0, <5>2 DEF PaymentsShape
        <5> QED
          BY <5>1, <5>2, <5>3
      <4> QED
        BY <2>1, <4>1, <4>2
    <3>2. /\ step' \in [Payments -> {"unborn", "account", "library", "key",
                                     "sendTransaction", "getTransaction", "ended"}]
          /\ outcome' \in [Payments -> Outcomes]
          /\ \A q \in Payments \ {p} : step'[q] = step[q] /\ outcome'[q] = outcome[q]
          /\ \/ step'[p] = "getTransaction" /\ outcome'[p] = None
             \/ step'[p] = "ended" /\ outcome'[p] = "unknown"
      BY <1>0, <2>1 DEF PaymentsShape, Outcomes, Payment
    <3> QED
      BY <1>0, <2>1, <3>1, <3>2 DEF PaymentsShape
  <2>3. Payment(p)'
    BY <1>0, <2>1, <2>2 DEF Payment, Nowhere, Pay!PaymentAssumption
  <2> QED
    BY <2>1, <2>2, <2>3, OneMoves
<1>9. ASSUME NEW p \in Payments, Pay!Refuse(p) PROVE PaymentsInv'
  <2>1. /\ step[p] = "sendTransaction" /\ step' = [step EXCEPT ![p] = "ended"]
        /\ outcome' = [outcome EXCEPT ![p] = "ERROR"]
        /\ UNCHANGED <<network, client, Pay!chain>>
    BY <1>9 DEF Pay!Refuse, Pay!End, Pay!Goto, Pay!user
  <2> QED
    BY <1>0, <2>1, Unsent DEF PaymentsShape, Payment, Outcomes
<1>10. ASSUME NEW p \in Payments, Pay!waitForTransaction(p) \/ Pay!PollFails(p)
       PROVE  PaymentsInv'
  <2>1. step[p] = "getTransaction" /\ UNCHANGED <<network, client, Pay!chain>>
    BY <1>10 DEF Pay!waitForTransaction, Pay!PollFails, Pay!user
  <2>2. client[p] \in Networks /\ included[client[p]][p] \in Effects
    BY <1>0, <2>1 DEF PaymentsShape, Payment
  <2>3. CASE UNCHANGED <<step, outcome>>
    BY <2>1, <2>3 DEF PaymentsInv, PaymentsShape, Payment, Nowhere, Pay!chain
  <2>4. CASE Pay!End(p, "unknown")
    BY <2>1, <2>4, PaymentEnds
  <2>5. CASE Pay!End(p, included[client[p]][p]) /\ included[client[p]][p] # None
    BY <2>1, <2>2, <2>5, PaymentEnds DEF Effects
  <2> QED
    BY <1>10, <2>3, <2>4, <2>5 DEF Pay!waitForTransaction, Pay!PollFails, Pay!Status,
       Pay!GivenUp
<1>11. ASSUME NEW n \in Networks, NEW p \in Payments, Pay!Include(n, p) PROVE PaymentsInv'
  <2>1. PICK effect \in {"SUCCESS", "FAILED"} :
          /\ p \in queued[n] /\ queued' = [queued EXCEPT ![n] = queued[n] \ {p}]
          /\ included' = [included EXCEPT ![n][p] = effect]
          /\ UNCHANGED <<network, step, client, outcome>>
    BY <1>11 DEF Pay!Include, Pay!user
  <2>2. /\ PaymentsShape'
        /\ \A m \in Networks : \A q \in Payments :
             IF m = n /\ q = p
             THEN q \notin queued'[m] /\ included'[m][q] = effect
             ELSE (q \in queued'[m] <=> q \in queued[m]) /\ included'[m][q] = included[m][q]
    BY <1>0, <2>1 DEF PaymentsShape, Effects
  <2>3. /\ n = client[p] /\ step[p] \in {"getTransaction", "ended"}
        /\ outcome[p] \notin {"SUCCESS", "FAILED", "thrown", "ERROR"}
    BY <1>0, <2>1 DEF Payment, Nowhere, Pay!PaymentAssumption
  <2>4. Payment(p)'
    BY <1>0, <2>1, <2>2, <2>3 DEF Payment, Nowhere
  <2>5. ASSUME NEW q \in Payments, q # p PROVE Payment(q)'
    BY <1>0, <2>1, <2>2, <2>5 DEF Payment, Nowhere
  <2> QED
    BY <2>2, <2>4, <2>5 DEF PaymentsInv
<1> QED
  BY <1>1, <1>2, <1>3, <1>4, <1>5, <1>6, <1>7, <1>8, <1>9, <1>10, <1>11 DEF Pay!Next

\* The result of a payment is asked for as often as the adapter's bound allows.
Asking ==
    /\ session \in Sessions \cup {None}
    /\ attempts \in [Payments -> Nat]
    /\ \A p \in Payments :
         /\ step[p] = "ended" <=> outcome[p] # None
         /\ attempts[p] <= maxAttempts
         /\ step[p] # "ended" => attempts[p] < maxAttempts

LEMMA AskingStep ==
    ASSUME Pay!PaymentAssumption, PaymentsInv, Asking, [Pay!Next]_(Pay!vars) PROVE Asking'
<1>0. /\ maxAttempts \in Nat \ {0}
      /\ None \notin {"thrown", "ERROR", "unknown", "SUCCESS", "FAILED"}
      /\ PaymentsShape
  BY DEF Pay!PaymentAssumption, PaymentsInv
<1>1. session' \in Sessions \cup {None}
  BY DEF Asking, Pay!Next, Pay!vars, Pay!user, Pay!switchNetwork, Pay!ChangeSession,
     Pay!sendPayment,
     Pay!buildPaymentTransaction, Pay!signTransaction, Pay!submitTransaction, Pay!Accept,
       Pay!Refuse, Pay!LoseAnswer,
     Pay!waitForTransaction, Pay!PollFails, Pay!Include
<1>2. ASSUME NEW p \in Payments, UNCHANGED attempts, NEW next \in {"account", "library", "key",
               "sendTransaction", "getTransaction"},
             step[p] # "ended", Pay!Goto(p, next), outcome' = outcome
      PROVE  Asking'
  BY <1>0, <1>1, <1>2 DEF Asking, Pay!Goto, PaymentsShape
<1>3. ASSUME NEW p \in Payments, UNCHANGED attempts, step[p] # "ended",
             NEW how \in Outcomes \ {None}, Pay!End(p, how)
      PROVE  Asking'
  BY <1>0, <1>1, <1>3 DEF Asking, Pay!End, Pay!Goto, PaymentsShape, Outcomes
<1>4. ASSUME UNCHANGED <<step, attempts, outcome>> PROVE Asking'
  BY <1>1, <1>4 DEF Asking
<1>5. ASSUME NEW p \in Payments, step[p] = "getTransaction",
             attempts' = [attempts EXCEPT ![p] = @ + 1],
             IF attempts[p] + 1 < maxAttempts THEN UNCHANGED <<step, outcome>>
             ELSE Pay!End(p, "unknown")
      PROVE  Asking'
  <2>1. /\ attempts' \in [Payments -> Nat] /\ attempts'[p] = attempts[p] + 1
        /\ \A q \in Payments \ {p} : attempts'[q] = attempts[q]
        /\ attempts[p] < maxAttempts /\ attempts[p] \in Nat
    BY <1>5 DEF Asking
  <2>2. CASE attempts[p] + 1 < maxAttempts
    BY <1>0, <1>1, <1>5, <2>1, <2>2 DEF Asking
  <2>3. CASE ~(attempts[p] + 1 < maxAttempts)
    <3>1. /\ step' = [step EXCEPT ![p] = "ended"]
          /\ outcome' = [outcome EXCEPT ![p] = "unknown"]
      BY <1>5, <2>3 DEF Pay!End, Pay!Goto
    <3>2. /\ step'[p] = "ended" /\ outcome'[p] = "unknown"
          /\ \A q \in Payments \ {p} : step'[q] = step[q] /\ outcome'[q] = outcome[q]
      BY <1>0, <3>1 DEF PaymentsShape
    <3>3. attempts'[p] <= maxAttempts
      BY <1>0, <2>1
    <3> QED
      BY <1>0, <1>1, <2>1, <3>2, <3>3 DEF Asking
  <2> QED
    BY <2>2, <2>3
<1>6. CASE UNCHANGED Pay!vars
  BY <1>4, <1>6 DEF Pay!vars
<1>7. ASSUME NEW n \in Networks, Pay!switchNetwork(n) PROVE Asking'
  BY <1>4, <1>7 DEF Pay!switchNetwork
<1>8. ASSUME NEW s \in Sessions \cup {None}, Pay!ChangeSession(s) PROVE Asking'
  BY <1>4, <1>8 DEF Pay!ChangeSession
<1>9. ASSUME NEW n \in Networks, NEW p \in Payments, Pay!Include(n, p) PROVE Asking'
  BY <1>4, <1>9 DEF Pay!Include
<1>10. ASSUME NEW p \in Payments,
              Pay!sendPayment(p) \/ Pay!buildPaymentTransaction(p) \/ Pay!signTransaction(p)
                \/ Pay!submitTransaction(p) \/ Pay!Accept(p) \/ Pay!Refuse(p) \/ Pay!LoseAnswer(p)
       PROVE  Asking'
  <2>1. step[p] # "ended" /\ UNCHANGED attempts
    BY <1>10 DEF Pay!sendPayment, Pay!buildPaymentTransaction, Pay!signTransaction,
       Pay!submitTransaction,
       Pay!Accept, Pay!Refuse, Pay!LoseAnswer
  <2>2. \/ \E next \in {"account", "library", "key", "sendTransaction", "getTransaction"} :
             Pay!Goto(p, next) /\ outcome' = outcome
        \/ \E how \in Outcomes \ {None} : Pay!End(p, how)
    BY <1>0, <1>10 DEF Pay!sendPayment, Pay!buildPaymentTransaction, Pay!signTransaction,
       Pay!submitTransaction, Pay!Accept, Pay!Refuse, Pay!LoseAnswer, Outcomes
  <2> QED
    BY <1>2, <1>3, <2>1, <2>2
<1>11. ASSUME NEW p \in Payments, Pay!waitForTransaction(p) \/ Pay!PollFails(p) PROVE Asking'
  <2>1. step[p] = "getTransaction" /\ client[p] \in Networks
    BY <1>11 DEF Pay!waitForTransaction, Pay!PollFails, PaymentsInv, Payment
  <2>2. Pay!Status(p) \in Outcomes
    BY <1>0, <2>1 DEF Pay!Status, PaymentsShape, Effects, Outcomes
  <2>3. CASE Pay!Status(p) # None /\ Pay!End(p, Pay!Status(p)) /\ UNCHANGED attempts
    BY <1>3, <2>1, <2>2, <2>3
  <2>4. CASE ~(Pay!Status(p) # None /\ Pay!End(p, Pay!Status(p)) /\ UNCHANGED attempts)
    BY <1>5, <1>11, <2>1, <2>4 DEF Pay!waitForTransaction, Pay!PollFails, Pay!GivenUp
  <2> QED
    BY <2>3, <2>4
<1> QED
  BY <1>6, <1>7, <1>8, <1>9, <1>10, <1>11 DEF Pay!Next

\* Whatever accounts and networks are switched while payments are on their way, a success
\* that is reported is on the ledger it was sent to and on no other, and what is reported
\* as failed will not be applied anywhere.
THEOREM PaymentsHold ==
    ASSUME Pay!PaymentAssumption PROVE Pay!Spec => [](Pay!TypeOK /\ Pay!ReportedTruthfully)
<1>1. Pay!Init => PaymentsInv /\ Asking
  <2>1. Pay!Init => PaymentsInv
    BY DEF Pay!Init, PaymentsInv, PaymentsShape, Payment, Nowhere, Outcomes, Effects,
       Pay!PaymentAssumption
  <2>2. Pay!Init => Asking
    BY DEF Pay!Init, Asking, Pay!PaymentAssumption
  <2> QED
    BY <2>1, <2>2
<1>2. PaymentsInv /\ Asking /\ [Pay!Next]_(Pay!vars) => (PaymentsInv /\ Asking)'
  BY PaymentsStep, AskingStep
<1>3. PaymentsInv => Pay!ReportedTruthfully
  BY DEF PaymentsInv, PaymentsShape, Payment, Nowhere, Pay!ReportedTruthfully,
     Pay!PaymentAssumption
<1>4. PaymentsInv /\ Asking => Pay!TypeOK
  BY DEF PaymentsInv, PaymentsShape, Asking, Pay!TypeOK, Outcomes, Pay!PaymentAssumption
<1> QED
  BY <1>1, <1>2, <1>3, <1>4, PTL DEF Pay!Spec

-----------------------------------------------------------------------------
(* X402Client.                                                             *)

Sent == pending \cup applied

\* What has been sent for one resource and may still be applied, or is.
SentFor(r) == {t \in Sent : t.resource = r}

CallsShape ==
    /\ now \in Int
    /\ calls \in Nat
    /\ early \in [Resources -> Nat]
    /\ at \in [Resources -> {"ended", "response", "account", "signature", "result",
                             "resource"}]
    /\ request = [r \in Resources |-> request[r]]
    /\ tx = [r \in Resources |-> tx[r]]
    /\ proof = [r \in Resources |-> proof[r]]
    /\ endedAt \in [Resources -> Int]

\* What is under way can still be included, and not for longer than the timeout; of what
\* is under way or applied, the tokens are within the threshold.
SentInTime ==
    /\ IsFiniteSet(Sent)
    /\ \A t \in pending : t.maxTime \in Int /\ now <= t.maxTime /\ t.maxTime <= now + Timeout
    /\ \A t \in Sent : t.asset = "token" => t.amount <= autoPayThreshold

\* How the call for a resource stands to what has been sent for it: no more than one
\* transaction and one for each early call, and one less while this call has still to
\* send its own.
Call(r) ==
    /\ Cardinality(SentFor(r)) <= 1 + early[r]
    /\ at[r] \in {"response", "account", "signature"} => Cardinality(SentFor(r)) <= early[r]
    /\ at[r] \in {"ended", "response"} => request[r] = None
    /\ at[r] \in {"account", "signature", "result", "resource"} =>
         /\ request[r] \in Asks /\ request[r].amount <= autoPayThreshold
    /\ at[r] \in {"signature", "result", "resource"} =>
         /\ tx[r].resource = r /\ tx[r].asset = request[r].asset
         /\ tx[r].amount = Client!Moved(request[r])
         /\ tx[r].maxTime \in Int /\ tx[r].maxTime <= now + Timeout
    /\ at[r] = "ended" =>
         \A t \in pending : t.resource = r => t.maxTime <= endedAt[r] + Timeout
    /\ proof[r] # None => at[r] = "resource" /\ proof[r] = tx[r] /\ proof[r] \in applied

ClientInv == CallsShape /\ SentInTime /\ \A r \in Resources : Call(r)

LEMMA SentCounted ==
    ASSUME ClientInv, NEW r \in Resources
    PROVE  IsFiniteSet(SentFor(r)) /\ Cardinality(SentFor(r)) \in Nat
<1>1. IsFiniteSet(SentFor(r))
  BY FS_Subset DEF ClientInv, SentInTime, SentFor
<1> QED
  BY <1>1, FS_CardinalityType

\* A step that sends nothing more for a resource.
LEMMA NoMoreSent ==
    ASSUME ClientInv, NEW r \in Resources, SentFor(r)' \subseteq SentFor(r)
    PROVE  /\ Cardinality(SentFor(r)') \in Nat
           /\ Cardinality(SentFor(r)') <= Cardinality(SentFor(r))
<1>1. IsFiniteSet(SentFor(r)') /\ Cardinality(SentFor(r)') <= Cardinality(SentFor(r))
  BY SentCounted, FS_Subset
<1> QED
  BY <1>1, FS_CardinalityType

\* A step of one resource's call that sends nothing for another resource.
LEMMA OthersKeep ==
    ASSUME ClientInv, NEW r \in Resources, NEW q \in Resources, q # r,
           UNCHANGED <<now, applied>>,
           \A t \in pending' : t \in pending \/ t.resource = r,
           at'[q] = at[q], request'[q] = request[q], tx'[q] = tx[q], proof'[q] = proof[q],
           endedAt'[q] = endedAt[q], early'[q] = early[q]
    PROVE  Call(q)'
<1>1. SentFor(q)' \subseteq SentFor(q)
  BY DEF SentFor, Sent
<1>2. /\ Cardinality(SentFor(q)') \in Nat /\ Cardinality(SentFor(q)) \in Nat
      /\ Cardinality(SentFor(q)') <= Cardinality(SentFor(q))
  BY <1>1, NoMoreSent, SentCounted
<1>3. early[q] \in Nat /\ Call(q)
  BY DEF ClientInv, CallsShape
<1>4. /\ Cardinality(SentFor(q)') <= 1 + early[q]
      /\ at[q] \in {"response", "account", "signature"}
           => Cardinality(SentFor(q)') <= early[q]
  BY <1>2, <1>3 DEF Call
<1> QED
  BY <1>3, <1>4 DEF Call, Client!Moved

\* A step of a call that leaves the ledger alone.
LEMMA CallMoves ==
    ASSUME ClientInv, NEW r \in Resources, UNCHANGED <<now, Client!ledger>>, CallsShape',
           \A q \in Resources \ {r} :
             /\ at'[q] = at[q] /\ request'[q] = request[q] /\ tx'[q] = tx[q]
             /\ proof'[q] = proof[q] /\ endedAt'[q] = endedAt[q] /\ early'[q] = early[q],
           Call(r)'
    PROVE  ClientInv'
<1>1. \A q \in Resources \ {r} : Call(q)'
  BY OthersKeep DEF Client!ledger
<1>2. SentInTime'
  BY DEF ClientInv, SentInTime, Sent, Client!ledger
<1> QED
  BY <1>1, <1>2 DEF ClientInv

\* A call that returns or throws: its transaction is not included after its timeout.
LEMMA CallEnds ==
    ASSUME Client!ClientAssumption, ClientInv, NEW r \in Resources, at[r] # "ended", Client!End(r),
           UNCHANGED <<now, Client!ledger>>
    PROVE  ClientInv'
<1>1. /\ at' = [at EXCEPT ![r] = "ended"] /\ endedAt' = [endedAt EXCEPT ![r] = now]
      /\ request' = [request EXCEPT ![r] = None] /\ tx' = [tx EXCEPT ![r] = None]
      /\ proof' = [proof EXCEPT ![r] = None] /\ UNCHANGED <<calls, early>>
  BY DEF Client!End
<1>2. CallsShape'
  BY <1>1 DEF ClientInv, CallsShape
<1>3. /\ at'[r] = "ended" /\ endedAt'[r] = now /\ request'[r] = None /\ proof'[r] = None
      /\ \A q \in Resources \ {r} :
           /\ at'[q] = at[q] /\ request'[q] = request[q] /\ tx'[q] = tx[q]
           /\ proof'[q] = proof[q] /\ endedAt'[q] = endedAt[q]
  BY <1>1 DEF ClientInv, CallsShape
<1>4. \A t \in pending : t.maxTime <= now + Timeout
  BY DEF ClientInv, SentInTime
<1>5. SentFor(r)' = SentFor(r) /\ Cardinality(SentFor(r)) <= 1 + early[r]
  BY DEF SentFor, Sent, Client!ledger, ClientInv, Call
<1>6. Call(r)'
  BY <1>1, <1>3, <1>4, <1>5 DEF Call, Client!ledger
<1> QED
  BY <1>1, <1>2, <1>3, <1>6, CallMoves

\* The application calls for a resource that is settled, or once more too early.
LEMMA CallBegins ==
    ASSUME Client!ClientAssumption, ClientInv, NEW r \in Resources, Client!fetchWithPayment(r)
    PROVE  ClientInv'
<1>0. CallsShape /\ SentInTime /\ Call(r) /\ Timeout \in Nat
  BY DEF ClientInv, Client!ClientAssumption
<1>1. /\ at[r] = "ended" /\ at' = [at EXCEPT ![r] = "response"] /\ calls' = calls + 1
      /\ early' = [early EXCEPT ![r] = IF Client!Settled(r) THEN early[r] ELSE early[r] + 1]
      /\ UNCHANGED <<now, Client!ledger, request, tx, proof, endedAt>>
  BY DEF Client!fetchWithPayment
<1>2. /\ CallsShape' /\ at'[r] = "response"
      /\ early'[r] = (IF Client!Settled(r) THEN early[r] ELSE early[r] + 1)
      /\ \A q \in Resources \ {r} : at'[q] = at[q] /\ early'[q] = early[q]
  BY <1>0, <1>1 DEF CallsShape
<1>3. /\ SentFor(r)' = SentFor(r) /\ Cardinality(SentFor(r)) \in Nat
      /\ early[r] \in Nat /\ Cardinality(SentFor(r)) <= 1 + early[r]
  BY <1>0, <1>1, SentCounted DEF SentFor, Sent, Client!ledger, Call, CallsShape
<1>4. CASE Client!Settled(r)
  <2>1. \A t \in Sent : t.resource # r
    BY <1>0, <1>1, <1>4 DEF Client!Settled, CallsShape, SentInTime, Call, Sent
  <2>2. SentFor(r) = {}
    BY <2>1 DEF SentFor
  <2>3. Cardinality(SentFor(r)) = 0
    BY <2>2, FS_EmptySet
  <2>4. Call(r)'
    BY <1>0, <1>1, <1>2, <1>3, <1>4, <2>3 DEF Call, Client!ledger
  <2> QED
    BY <1>1, <1>2, <2>4, CallMoves
<1>5. CASE ~Client!Settled(r)
  <2>1. Call(r)'
    BY <1>0, <1>1, <1>2, <1>3, <1>5 DEF Call, Client!ledger
  <2> QED
    BY <1>1, <1>2, <2>1, CallMoves
<1> QED
  BY <1>4, <1>5

\* The signed transaction is the one that this call had still to send.
LEMMA CallSends ==
    ASSUME Client!ClientAssumption, ClientInv, NEW r \in Resources, Client!signTransaction(r)
    PROVE  ClientInv'
<1>0. /\ CallsShape /\ SentInTime /\ Call(r) /\ early[r] \in Nat
      /\ autoPayThreshold \in Nat
  BY DEF ClientInv, CallsShape, Client!ClientAssumption
<1>1. /\ at[r] = "signature" /\ at' = [at EXCEPT ![r] = "result"]
      /\ pending' = pending \cup {t \in {tx[r]} : t.maxTime >= now /\ t.sequence > sequence}
      /\ UNCHANGED <<now, applied, calls, early, request, tx, proof, endedAt>>
  BY DEF Client!signTransaction, Client!Goto
<1>2. /\ \A t \in pending' : t \in pending \/ (t = tx[r] /\ now <= t.maxTime)
      /\ pending \subseteq pending' /\ Sent' \subseteq Sent \cup {tx[r]}
  BY <1>1 DEF Sent
<1>3. /\ tx[r].resource = r /\ tx[r].maxTime \in Int /\ tx[r].maxTime <= now + Timeout
      /\ tx[r].asset = "token" => tx[r].amount <= autoPayThreshold
      /\ Cardinality(SentFor(r)) <= early[r]
  BY <1>0, <1>1 DEF Call, Client!Moved
<1>4. /\ CallsShape' /\ at'[r] = "result" /\ \A q \in Resources \ {r} : at'[q] = at[q]
  BY <1>0, <1>1 DEF CallsShape
<1>5. SentInTime'
  <2>1. IsFiniteSet(Sent')
    BY <1>0, <1>2, FS_AddElement, FS_Subset DEF SentInTime
  <2> QED
    BY <1>0, <1>1, <1>2, <1>3, <2>1 DEF SentInTime
<1>6. Cardinality(SentFor(r)') <= 1 + early[r]
  <2>1. SentFor(r)' \subseteq SentFor(r) \cup {tx[r]}
    BY <1>2 DEF SentFor
  <2>2. /\ IsFiniteSet(SentFor(r) \cup {tx[r]}) /\ Cardinality(SentFor(r)) \in Nat
        /\ Cardinality(SentFor(r) \cup {tx[r]}) <= 1 + Cardinality(SentFor(r))
    <3>1. IsFiniteSet(SentFor(r)) /\ Cardinality(SentFor(r)) \in Nat
      BY SentCounted
    <3>2. /\ IsFiniteSet(SentFor(r) \cup {tx[r]})
          /\ Cardinality(SentFor(r) \cup {tx[r]}) =
               IF tx[r] \in SentFor(r) THEN Cardinality(SentFor(r))
               ELSE Cardinality(SentFor(r)) + 1
      BY <3>1, FS_AddElement
    <3> QED
      BY <3>1, <3>2
  <2>3. /\ Cardinality(SentFor(r)') <= Cardinality(SentFor(r) \cup {tx[r]})
        /\ IsFiniteSet(SentFor(r)')
    BY <2>1, <2>2, FS_Subset
  <2>4. Cardinality(SentFor(r)') \in Nat /\ Cardinality(SentFor(r) \cup {tx[r]}) \in Nat
    BY <2>2, <2>3, FS_CardinalityType
  <2> QED
    BY <1>0, <1>3, <2>2, <2>3, <2>4
<1>7. Call(r)'
  BY <1>0, <1>1, <1>3, <1>4, <1>6 DEF Call, Client!Moved
<1>8. \A q \in Resources \ {r} : Call(q)'
  BY <1>1, <1>2, <1>3, <1>4, OthersKeep
<1> QED
  BY <1>4, <1>5, <1>7, <1>8 DEF ClientInv

LEMMA ClientStep ==
    ASSUME Client!ClientAssumption, ClientInv, [Client!Next]_(Client!vars) PROVE ClientInv'
<1>0. CallsShape /\ SentInTime /\ \A r \in Resources : Call(r)
  BY DEF ClientInv
<1>1. CASE UNCHANGED Client!vars
  <2>1. /\ UNCHANGED <<now, sequence, pending, applied, calls, early, at, request, tx, proof,
                       endedAt>>
    BY <1>1 DEF Client!vars, Client!ledger
  <2> QED
    BY <1>0, <2>1 DEF ClientInv, CallsShape, SentInTime, Call, SentFor, Sent, Client!Moved
<1>2. CASE Client!Tick
  <2>1. /\ now' = now + 1 /\ pending' = {t \in pending : t.maxTime > now}
        /\ UNCHANGED <<applied, calls, early, at, request, tx, proof, endedAt>>
    BY <1>2 DEF Client!Tick
  <2>2. CallsShape' /\ Timeout \in Nat
    BY <1>0, <2>1 DEF CallsShape, Client!ClientAssumption
  <2>3. SentInTime'
    <3>1. IsFiniteSet(Sent') /\ Sent' \subseteq Sent
      BY <1>0, <2>1, FS_Subset DEF SentInTime, Sent
    <3> QED
      BY <1>0, <2>1, <2>2, <3>1 DEF CallsShape, SentInTime
  <2>4. ASSUME NEW r \in Resources PROVE Call(r)'
    <3>1. /\ Cardinality(SentFor(r)') \in Nat /\ Cardinality(SentFor(r)) \in Nat
          /\ Cardinality(SentFor(r)') <= Cardinality(SentFor(r))
      BY <2>1, NoMoreSent, SentCounted DEF SentFor, Sent
    <3> QED
      BY <1>0, <2>1, <2>2, <3>1 DEF CallsShape, Call, Client!Moved
  <2> QED
    BY <2>2, <2>3, <2>4 DEF ClientInv
<1>3. ASSUME NEW t \in pending, Client!Include(t) PROVE ClientInv'
  <2>1. /\ pending' \subseteq pending /\ applied' \subseteq applied \cup {t}
        /\ applied \subseteq applied'
        /\ UNCHANGED <<now, calls, early, at, request, tx, proof, endedAt>>
    BY <1>3 DEF Client!Include
  <2>2. Sent' \subseteq Sent
    BY <2>1 DEF Sent
  <2>3. SentInTime'
    BY <1>0, <2>1, <2>2, FS_Subset DEF SentInTime
  <2>4. ASSUME NEW r \in Resources PROVE Call(r)'
    <3>1. /\ Cardinality(SentFor(r)') \in Nat /\ Cardinality(SentFor(r)) \in Nat
          /\ Cardinality(SentFor(r)') <= Cardinality(SentFor(r))
      BY <2>2, NoMoreSent, SentCounted DEF SentFor
    <3> QED
      BY <1>0, <2>1, <3>1 DEF CallsShape, Call, Client!Moved
  <2> QED
    BY <1>0, <2>1, <2>3, <2>4 DEF ClientInv, CallsShape
<1>4. ASSUME NEW r \in Resources, Client!fetchWithPayment(r) PROVE ClientInv'
  BY <1>4, CallBegins
<1>5. ASSUME NEW r \in Resources, Client!Return(r) \/ Client!Retry(r) \/ Client!Throw(r)
      PROVE  ClientInv'
  BY <1>5, CallEnds DEF Client!Return, Client!Retry, Client!Throw
<1>6. ASSUME NEW r \in Resources, NEW asked \in Asks, NEW valid \in Validity,
             Client!parsePaymentRequired(r, asked, now + valid)
      PROVE  ClientInv'
  <2>1. at[r] = "response" /\ UNCHANGED <<now, Client!ledger>>
    BY <1>6 DEF Client!parsePaymentRequired
  <2>2. CASE Client!End(r)
    BY <2>1, <2>2, CallEnds
  <2>3. CASE ~Client!End(r)
    <3>1. /\ asked.amount <= autoPayThreshold
          /\ request' = [request EXCEPT ![r] = asked]
          /\ at' = [at EXCEPT ![r] = "account"]
          /\ UNCHANGED <<calls, early, endedAt, tx, proof>>
      BY <1>6, <2>3 DEF Client!parsePaymentRequired, Client!shouldAutoPay, Client!Goto
    <3>2. /\ CallsShape' /\ at'[r] = "account" /\ request'[r] = asked
          /\ \A q \in Resources \ {r} : at'[q] = at[q] /\ request'[q] = request[q]
      BY <1>0, <2>1, <3>1 DEF CallsShape
    <3>3. SentFor(r)' = SentFor(r)
      BY <2>1 DEF SentFor, Sent, Client!ledger
    <3>4. Call(r)'
      BY <1>0, <2>1, <3>1, <3>2, <3>3 DEF Call, Client!ledger
    <3> QED
      BY <2>1, <3>1, <3>2, <3>4, CallMoves
  <2> QED
    BY <2>2, <2>3
<1>7. ASSUME NEW r \in Resources, Client!buildPaymentTransaction(r) PROVE ClientInv'
  <2> DEFINE new == [resource |-> r, asset |-> request[r].asset,
                     amount |-> Client!Moved(request[r]),
                     sequence |-> sequence + 1, maxTime |-> now + Timeout]
  <2>1. /\ at[r] = "account" /\ tx' = [tx EXCEPT ![r] = new]
        /\ at' = [at EXCEPT ![r] = "signature"]
        /\ UNCHANGED <<now, Client!ledger, calls, early, request, proof, endedAt>>
    BY <1>7 DEF Client!buildPaymentTransaction, Client!Goto, Client!TimeBound
  <2>2. /\ new.resource = r /\ new.asset = request[r].asset
        /\ new.amount = Client!Moved(request[r])
        /\ new.maxTime \in Int /\ new.maxTime <= now + Timeout
    BY <1>0 DEF CallsShape, Client!ClientAssumption
  <2> HIDE DEF new
  <2>3. /\ CallsShape' /\ at'[r] = "signature" /\ tx'[r] = new
        /\ \A q \in Resources \ {r} : at'[q] = at[q] /\ tx'[q] = tx[q]
    BY <1>0, <2>1 DEF CallsShape
  <2>4. SentFor(r)' = SentFor(r)
    BY <2>1 DEF SentFor, Sent, Client!ledger
  <2>5. Call(r)'
    BY <1>0, <2>1, <2>2, <2>3, <2>4 DEF Call, Client!Moved, Client!ledger
  <2> QED
    BY <2>1, <2>3, <2>5, CallMoves
<1>8. ASSUME NEW r \in Resources, Client!signTransaction(r) PROVE ClientInv'
  BY <1>8, CallSends
<1>9. ASSUME NEW r \in Resources, Client!submitPaymentTransaction(r) PROVE ClientInv'
  <2>1. /\ at[r] = "result" /\ at' = [at EXCEPT ![r] = "resource"]
        /\ tx[r] \in applied /\ proof' = [proof EXCEPT ![r] = tx[r]]
        /\ UNCHANGED <<now, Client!ledger, calls, early, request, tx, endedAt>>
    BY <1>9 DEF Client!submitPaymentTransaction, Client!Goto, Client!Succeeded
  <2>2. /\ CallsShape' /\ at'[r] = "resource" /\ proof'[r] = tx[r]
        /\ \A q \in Resources \ {r} : at'[q] = at[q] /\ proof'[q] = proof[q]
    BY <1>0, <2>1 DEF CallsShape
  <2>3. SentFor(r)' = SentFor(r)
    BY <2>1 DEF SentFor, Sent, Client!ledger
  <2>4. Call(r)'
    BY <1>0, <2>1, <2>2, <2>3 DEF Call, Client!Moved, Client!ledger
  <2> QED
    BY <2>1, <2>2, <2>4, CallMoves
<1> QED
  BY <1>1, <1>2, <1>3, <1>4, <1>5, <1>6, <1>7, <1>8, <1>9 DEF Client!Next

LEMMA ClientBegins == ASSUME Client!ClientAssumption, Client!Init PROVE ClientInv
<1>1. Sent = {} /\ \A r \in Resources : SentFor(r) = {}
  BY DEF Client!Init, Sent, SentFor
<1>2. IsFiniteSet(Sent) /\ \A r \in Resources : Cardinality(SentFor(r)) = 0
  BY <1>1, FS_EmptySet
<1> QED
  BY <1>1, <1>2 DEF Client!Init, ClientInv, CallsShape, SentInTime, Call, Client!ClientAssumption

LEMMA ClientInvHolds == ASSUME Client!ClientAssumption PROVE Client!Spec => []ClientInv
BY ClientBegins, ClientStep, PTL DEF Client!Spec

\* Whatever competes for the account's sequence number, and whichever answers are lost, a
\* resource is paid for once and once more at most for each call that was made too early;
\* and no token's payment is above the threshold.
THEOREM PaidOnceHolds ==
    ASSUME Client!ClientAssumption PROVE Client!Spec => []Client!PaidOnce
<1>1. ASSUME ClientInv, NEW r \in Resources
      PROVE  Cardinality(Client!Paid(r)) <= 1 + early[r]
  <2>1. Client!Paid(r) \in SUBSET SentFor(r)
    BY DEF Client!Paid, SentFor, Sent
  <2>2. /\ IsFiniteSet(Client!Paid(r)) /\ Cardinality(SentFor(r)) \in Nat
        /\ Cardinality(Client!Paid(r)) <= Cardinality(SentFor(r))
    BY <1>1, <2>1, SentCounted, FS_Subset
  <2>3. Cardinality(Client!Paid(r)) \in Nat
    BY <2>2, FS_CardinalityType
  <2> QED
    BY <1>1, <2>2, <2>3 DEF ClientInv, CallsShape, Call
<1>2. \A r \in Resources : Client!Cardinality(Client!Paid(r)) = Cardinality(Client!Paid(r))
  BY DEF Client!Cardinality, Cardinality
<1>3. ASSUME ClientInv PROVE Client!PaidOnce
  <2>1. \A t \in applied : t.asset = "token" => t.amount <= autoPayThreshold
    BY <1>3 DEF ClientInv, SentInTime, Sent
  <2> QED
    BY <1>1, <1>2, <1>3, <2>1 DEF Client!PaidOnce
<1> QED
  BY <1>3, ClientInvHolds, PTL

\* What is presented to a server is a payment that the ledger has applied for that
\* server's own request.
THEOREM PresentedIsPaidHolds ==
    ASSUME Client!ClientAssumption PROVE Client!Spec => []Client!PresentedIsPaid
<1>1. ClientInv => Client!PresentedIsPaid
  BY DEF ClientInv, Call, Client!PresentedIsPaid, Client!Moved
<1> QED
  BY <1>1, ClientInvHolds, PTL

\* What is sent, and what a call has to send, is a transaction for an amount that some
\* server may ask for; no more calls are early than there are.
Sendable ==
    /\ now \in 0..ClientMaxTime /\ sequence \in Nat
    /\ calls \in 0..MaxCalls /\ \A r \in Resources : early[r] <= calls
    /\ Sent \subseteq Client!Transaction
    /\ \A r \in Resources :
         at[r] \in {"signature", "result", "resource"} => tx[r] \in Client!Transaction

LEMMA SendableStep ==
    ASSUME Client!ClientAssumption, ClientInv, Sendable, [Client!Next]_(Client!vars) PROVE Sendable'
<1>0. /\ CallsShape /\ now \in Nat /\ ClientMaxTime \in Nat /\ Timeout \in Nat
      /\ MaxCalls \in Nat
  BY DEF ClientInv, Sendable, Client!ClientAssumption
<1>1. CASE UNCHANGED Client!vars
  BY <1>1 DEF Client!vars, Client!ledger, Sendable, Sent
<1>2. CASE Client!Tick
  <2>1. /\ now' = now + 1 /\ now < ClientMaxTime /\ Sent' \subseteq Sent
        /\ UNCHANGED <<sequence, calls, early, at, tx>>
    BY <1>2 DEF Client!Tick, Sent
  <2> QED
    BY <1>0, <2>1 DEF Sendable
<1>3. ASSUME NEW t \in pending, Client!Include(t) PROVE Sendable'
  <2>1. /\ t \in Client!Transaction /\ sequence' = t.sequence /\ Sent' \subseteq Sent
        /\ UNCHANGED <<now, calls, early, at, tx>>
    BY <1>3 DEF Client!Include, Sent, Sendable
  <2> QED
    BY <2>1 DEF Sendable, Client!Transaction
<1>4. ASSUME NEW r \in Resources, UNCHANGED <<now, Client!ledger, calls, early>>,
             NEW next \in {"account", "result", "resource", "ended"},
             at' = [at EXCEPT ![r] = next],
             next \in {"result", "resource"} =>
               at[r] \in {"signature", "result"} /\ UNCHANGED tx,
             \A q \in Resources \ {r} : tx'[q] = tx[q]
      PROVE  Sendable'
  BY <1>0, <1>4 DEF Sendable, CallsShape, Sent, Client!ledger
<1>5. ASSUME NEW r \in Resources, Client!End(r), UNCHANGED <<now, Client!ledger>>
      PROVE  Sendable'
  <2>1. \A q \in Resources \ {r} : tx'[q] = tx[q]
    BY <1>0, <1>5 DEF Client!End, CallsShape
  <2> QED
    BY <1>4, <1>5, <2>1 DEF Client!End
<1>6. ASSUME NEW r \in Resources, Client!fetchWithPayment(r) PROVE Sendable'
  <2>1. /\ at' = [at EXCEPT ![r] = "response"] /\ calls' = calls + 1 /\ calls < MaxCalls
        /\ early' = [early EXCEPT ![r] = IF Client!Settled(r) THEN early[r] ELSE early[r] + 1]
        /\ UNCHANGED <<now, Client!ledger, tx>>
    BY <1>6 DEF Client!fetchWithPayment
  <2>2. /\ early \in [Resources -> Nat] /\ early'[r] \in {early[r], early[r] + 1}
        /\ \A q \in Resources \ {r} : early'[q] = early[q]
    BY <1>0, <2>1 DEF CallsShape
  <2>3. calls' \in 0..MaxCalls /\ \A q \in Resources : early'[q] <= calls'
    BY <1>0, <2>1, <2>2 DEF Sendable
  <2>4. \A q \in Resources : at'[q] = at[q] \/ at'[q] = "response"
    BY <1>0, <2>1 DEF CallsShape
  <2> QED
    BY <2>1, <2>3, <2>4 DEF Sendable, Sent, Client!ledger
<1>7. ASSUME NEW r \in Resources, Client!Return(r) \/ Client!Retry(r) \/ Client!Throw(r)
      PROVE  Sendable'
  BY <1>5, <1>7 DEF Client!Return, Client!Retry, Client!Throw
<1>8. ASSUME NEW r \in Resources, NEW asked \in Asks, NEW valid \in Validity,
             Client!parsePaymentRequired(r, asked, now + valid)
      PROVE  Sendable'
  <2>1. CASE Client!End(r)
    BY <1>5, <1>8, <2>1 DEF Client!parsePaymentRequired
  <2>2. CASE ~Client!End(r)
    <3>1. /\ at' = [at EXCEPT ![r] = "account"]
          /\ UNCHANGED <<now, Client!ledger, calls, early, tx>>
      BY <1>8, <2>2 DEF Client!parsePaymentRequired, Client!Goto
    <3> QED
      BY <1>4, <3>1
  <2> QED
    BY <2>1, <2>2
<1>9. ASSUME NEW r \in Resources, Client!buildPaymentTransaction(r) PROVE Sendable'
  <2> DEFINE new == [resource |-> r, asset |-> request[r].asset,
                     amount |-> Client!Moved(request[r]),
                     sequence |-> sequence + 1, maxTime |-> now + Timeout]
  <2>1. /\ at[r] = "account" /\ tx' = [tx EXCEPT ![r] = new]
        /\ at' = [at EXCEPT ![r] = "signature"]
        /\ UNCHANGED <<now, Client!ledger, calls, early>>
    BY <1>9 DEF Client!buildPaymentTransaction, Client!Goto, Client!TimeBound
  <2>2. /\ request[r].asset \in {"native", "token"} /\ request[r].amount \in Nat
        /\ Unit \in Nat
    BY <2>1 DEF ClientInv, Call, Client!ClientAssumption
  <2>3. Client!Moved(request[r]) \in Nat
    BY <2>2 DEF Client!Moved
  <2>4. new \in Client!Transaction
    BY <1>0, <2>2, <2>3 DEF Sendable, Client!Transaction
  <2> HIDE DEF new
  <2> QED
    BY <1>0, <2>1, <2>4 DEF Sendable, CallsShape, Sent, Client!ledger
<1>10. ASSUME NEW r \in Resources, Client!signTransaction(r) PROVE Sendable'
  <2>1. /\ at[r] = "signature" /\ at' = [at EXCEPT ![r] = "result"]
        /\ pending' \subseteq pending \cup {tx[r]}
        /\ UNCHANGED <<now, sequence, applied, calls, early, tx>>
    BY <1>10 DEF Client!signTransaction, Client!Goto
  <2>2. tx[r] \in Client!Transaction
    BY <2>1 DEF Sendable
  <2> QED
    BY <1>0, <2>1, <2>2 DEF Sendable, CallsShape, Sent
<1>11. ASSUME NEW r \in Resources, Client!submitPaymentTransaction(r) PROVE Sendable'
  BY <1>4, <1>11 DEF Client!submitPaymentTransaction, Client!Goto
<1> QED
  BY <1>1, <1>2, <1>3, <1>6, <1>7, <1>8, <1>9, <1>10, <1>11 DEF Client!Next

LEMMA ClientTyped == ASSUME Client!ClientAssumption PROVE Client!Spec => []Client!TypeOK
<1>1. Client!Init => Sendable
  BY DEF Client!Init, Sendable, Sent, Client!ClientAssumption
<1>2. ClientInv /\ Sendable /\ [Client!Next]_(Client!vars) => Sendable'
  BY SendableStep
<1>3. ASSUME ClientInv, Sendable PROVE Client!TypeOK
  <2>1. early \in [Resources -> 0..MaxCalls]
    BY <1>3 DEF ClientInv, CallsShape, Sendable, Client!ClientAssumption
  <2>2. ASSUME NEW r \in Resources
        PROVE  /\ request[r] \in Asks \cup {None} /\ proof[r] \in {None, tx[r]}
               /\ at[r] \in {"ended", "response", "account", "signature", "result", "resource"}
    BY <1>3 DEF ClientInv, CallsShape, Call
  <2> QED
    BY <1>3, <2>1, <2>2 DEF Sendable, Sent, Client!TypeOK
<1> QED
  BY <1>1, <1>2, <1>3, ClientInvHolds, PTL DEF Client!Spec

-----------------------------------------------------------------------------
(* SaltService.                                                            *)

\* The keys that a service knows are such as were published once.
SaltTyped ==
    /\ published \in [Salt!Issuers -> SUBSET Kids]
    /\ jwks \in [Salt!Issuers -> {None} \cup SUBSET Kids]
    /\ refreshing \in {"google", "apple", "sleep"}
    /\ DOMAIN saltCache \subseteq Salt!Identities

LEMMA SaltTypedStep == ASSUME SaltTyped, [Salt!Next]_(Salt!vars) PROVE SaltTyped'
<1>1. CASE UNCHANGED Salt!vars
  BY <1>1 DEF Salt!vars, Salt!service, SaltTyped
<1>2. ASSUME NEW i \in Salt!Issuers, NEW k \in Kids, Salt!Rotate(i, k) PROVE SaltTyped'
  BY <1>2 DEF Salt!Rotate, Salt!service, SaltTyped
<1>3. ASSUME NEW i \in Salt!Issuers, Salt!refresh_jwks(i) PROVE SaltTyped'
  BY <1>3 DEF Salt!refresh_jwks, Salt!Loaded, SaltTyped, Salt!Issuers
<1>4. CASE Salt!RefreshFails \/ Salt!WakeUp
  BY <1>4 DEF Salt!RefreshFails, Salt!WakeUp, SaltTyped
<1>5. ASSUME NEW i \in Salt!Issuers, NEW sub \in Subjects, NEW kid \in Kids, Salt!get_salt(i,
               sub, kid)
      PROVE  SaltTyped'
  BY <1>5 DEF Salt!get_salt, Salt!service, SaltTyped
<1>6. ASSUME NEW i \in Salt!Issuers, NEW sub \in Subjects, Salt!POST(i, sub) PROVE SaltTyped'
  <2>1. /\ DOMAIN saltCache' = DOMAIN saltCache \cup {<<i, sub>>}
        /\ UNCHANGED <<published, jwks, refreshing>>
    BY <1>6 DEF Salt!POST, Salt!cacheKey, Salt!service
  <2> QED
    BY <2>1 DEF SaltTyped, Salt!Identities
<1>7. CASE Salt!RestartService
  BY <1>7 DEF Salt!RestartService, SaltTyped, Salt!Issuers
<1>8. CASE Salt!RestartDemo
  BY <1>8 DEF Salt!RestartDemo, Salt!service, SaltTyped
<1> QED
  BY <1>1, <1>2, <1>3, <1>4, <1>5, <1>6, <1>7, <1>8 DEF Salt!Next

\* With a configured key, what is answered and what is cached is derived from the keys of
\* the environment, which are the same after every start.
Derived ==
    /\ master_key = SALT_MASTER_KEY
    /\ \A key \in DOMAIN saltCache : saltCache[key] = <<SALT_DERIVATION_SECRET, key>>
    /\ \A a \in answered :
         /\ a.by \in {"service", "demo"}
         /\ a.salt = <<IF a.by = "service" THEN SALT_MASTER_KEY
                       ELSE SALT_DERIVATION_SECRET, a.who>>

LEMMA DerivedStep ==
    ASSUME SALT_MASTER_KEY # None, Derived, [Salt!Next]_(Salt!vars) PROVE Derived'
<1>1. CASE UNCHANGED Salt!vars
  BY <1>1 DEF Salt!vars, Salt!service, Derived
<1>2. ASSUME UNCHANGED <<master_key, saltCache, answered>> PROVE Derived'
  BY <1>2 DEF Derived
<1>3. ASSUME NEW i \in Salt!Issuers, NEW k \in Kids, Salt!Rotate(i, k) PROVE Derived'
  BY <1>2, <1>3 DEF Salt!Rotate, Salt!service
<1>4. ASSUME NEW i \in Salt!Issuers, Salt!refresh_jwks(i) PROVE Derived'
  BY <1>2, <1>4 DEF Salt!refresh_jwks
<1>5. CASE Salt!RefreshFails \/ Salt!WakeUp
  BY <1>2, <1>5 DEF Salt!RefreshFails, Salt!WakeUp
<1>6. ASSUME NEW i \in Salt!Issuers, NEW sub \in Subjects, NEW kid \in Kids, Salt!get_salt(i,
               sub, kid)
      PROVE  Derived'
  <2>1. /\ answered' = answered \cup
             {[by |-> "service", who |-> <<i, sub>>, salt |-> <<master_key, <<i, sub>>>>]}
        /\ UNCHANGED <<master_key, saltCache>>
    BY <1>6 DEF Salt!get_salt, Salt!derive_salt, Salt!service
  <2> QED
    BY <2>1 DEF Derived
<1>7. ASSUME NEW i \in Salt!Issuers, NEW sub \in Subjects, Salt!POST(i, sub) PROVE Derived'
  <2> DEFINE key == <<i, sub>>
             salt == IF key \in DOMAIN saltCache THEN saltCache[key]
                     ELSE <<SALT_DERIVATION_SECRET, key>>
  <2>1. /\ saltCache' = [k \in DOMAIN saltCache \cup {key} |->
                           IF k = key THEN salt ELSE saltCache[k]]
        /\ answered' = answered \cup {[by |-> "demo", who |-> key, salt |-> salt]}
        /\ UNCHANGED master_key
    BY <1>7 DEF Salt!POST, Salt!cacheKey, Salt!derive_salt, Salt!service
  <2>2. salt = <<SALT_DERIVATION_SECRET, key>>
    BY DEF Derived
  <2> HIDE DEF key, salt
  <2> QED
    BY <2>1, <2>2 DEF Derived
<1>8. CASE Salt!RestartService
  BY <1>2, <1>8 DEF Salt!RestartService, Salt!load_master_key, Derived
<1>9. CASE Salt!RestartDemo
  BY <1>9 DEF Salt!RestartDemo, Salt!service, Derived
<1> QED
  BY <1>1, <1>3, <1>4, <1>5, <1>6, <1>7, <1>8, <1>9 DEF Salt!Next

LEMMA SaltHolds == Salt!Init /\ [][Salt!Next]_(Salt!vars) => []Salt!TypeOK
<1>1. Salt!Init => SaltTyped
  BY DEF Salt!Init, SaltTyped
<1>2. SaltTyped => Salt!TypeOK
  BY DEF SaltTyped, Salt!TypeOK
<1> QED
  BY <1>1, <1>2, SaltTypedStep, PTL

LEMMA IdentityHolds ==
    ASSUME SALT_MASTER_KEY # None PROVE Salt!Init /\ [][Salt!Next]_(Salt!vars)
             => []Salt!SaltIsOfIdentity
<1>1. Salt!Init => Derived
  BY DEF Salt!Init, Salt!load_master_key, Derived
<1>2. Derived => Salt!SaltIsOfIdentity
  BY DEF Derived, Salt!SaltIsOfIdentity
<1>3. Derived /\ [Salt!Next]_(Salt!vars) => Derived'
  BY DerivedStep
<1> QED
  BY <1>1, <1>2, <1>3, PTL

-----------------------------------------------------------------------------
(* The protocols: each part's share of a step of them is a step of that    *)
(* part, or none.                                                          *)

LEMMA OneProtocolSteps ==
    ASSUME [PartsNext]_partsVars
    PROVE  /\ [Next]_vars /\ [Pay!Next]_(Pay!vars) /\ [Client!Next]_(Client!vars)
           /\ [Salt!Next]_(Salt!vars) /\ [Hash!Next]_(Hash!vars) /\ [Arith!Next]_(Arith!vars)
           /\ [Xdr!Next]_(Xdr!vars)
BY DEF PartsNext, partsVars, payVars, clientVars, saltVars, hashVars, circuitVars, xdrVars,
   Pay!vars, Pay!user, Pay!chain, Client!vars, Client!ledger, Salt!vars, Salt!service,
   Hash!vars, Arith!vars, Xdr!vars, Xdr!xdr

LEMMA ProtocolsHold ==
    SdkSpec => /\ [](TypeOK /\ TokenOfOwnNonce)
               /\ [](Pay!TypeOK /\ Pay!ReportedTruthfully)
               /\ []Client!TypeOK /\ []Client!PaidOnce
               /\ []Client!PresentedIsPaid
               /\ []Salt!TypeOK
               /\ [](Hash!TypeOK /\ Hash!HashesAgree)
               /\ [](Arith!TypeOK /\ Arith!ArithmeticRight /\ Arith!BytesKept)
               /\ [](Xdr!TypeOK /\ Xdr!ReadsBack)
<1>1. PartsInit => /\ Init /\ Pay!Init /\ Client!Init /\ Salt!Init /\ Hash!Init /\ Arith!Init
                   /\ Xdr!Init
  BY DEF PartsInit
<1>2. [PartsNext]_partsVars => /\ [Next]_vars /\ [Pay!Next]_(Pay!vars)
                               /\ [Client!Next]_(Client!vars) /\ [Salt!Next]_(Salt!vars)
                               /\ [Hash!Next]_(Hash!vars) /\ [Arith!Next]_(Arith!vars)
                               /\ [Xdr!Next]_(Xdr!vars)
  BY OneProtocolSteps
<1>3. /\ Pay!Spec => [](Pay!TypeOK /\ Pay!ReportedTruthfully)
      /\ Client!Spec => []Client!TypeOK
      /\ Client!Spec => []Client!PaidOnce
      /\ Client!Spec => []Client!PresentedIsPaid
  BY PartsAssumption, PaymentsHold, ClientTyped, PaidOnceHolds,
     PresentedIsPaidHolds
<1> QED
  BY <1>1, <1>2, <1>3, ConnectionHolds, SaltHolds, HashesHold, ArithHolds, XdrHolds, PTL
     DEF SdkSpec, Pay!Spec, Client!Spec

\* Whatever is lost, switched, timed out or restarted, the state of every protocol of the
\* SDK stays in its domain: an ended payment is one with an outcome, asked for at most as
\* often as allowed, a promise that is handed out is that of a login which waits, and
\* every chunk of a sum or a carried product fits its bits.
THEOREM SdkTypeCorrect == SdkSpec => []SdkTypeOK
<1>1. /\ TypeOK /\ TokenOfOwnNonce /\ Pay!TypeOK /\ Pay!ReportedTruthfully
      /\ Client!TypeOK /\ Salt!TypeOK /\ Hash!TypeOK /\ Arith!TypeOK /\ Xdr!TypeOK
      /\ Xdr!ReadsBack
      => SdkTypeOK
  BY DEF SdkTypeOK
<1> QED
  BY <1>1, ProtocolsHold, PTL

\* The token of the adapter's session was issued for the nonce of that session's key.
THEOREM SessionsOwnNonceHolds == SdkSpec => []TokenOfOwnNonce
BY ProtocolsHold, PTL

\* A success that the adapter reports is on the ledger its payment was sent to and on no
\* other, and what it reports as failed will not be applied anywhere.
THEOREM ReportedTruthfullyHolds == SdkSpec => []ReportedTruthfully
<1>1. Pay!TypeOK /\ Pay!ReportedTruthfully => ReportedTruthfully
  BY DEF ReportedTruthfully
<1> QED
  BY <1>1, ProtocolsHold, PTL

\* Whatever the application does after a lost answer, a resource is paid for once, and once
\* more at most for each call that was made before the payment was settled; a token's
\* payment is within the threshold, and what is presented to a server has been paid to it
\* as that server asked.
THEOREM PaidAndPresentedHolds == SdkSpec => []PaidAndPresented
<1>1. Client!PaidOnce /\ Client!PresentedIsPaid => PaidAndPresented
  BY DEF PaidAndPresented
<1> QED
  BY <1>1, ProtocolsHold, PTL

\* With the service's key configured, one identity has one salt and shares it with no
\* other, through every restart, rotation and cached answer.
THEOREM SaltIsOfIdentityHolds ==
    ASSUME SALT_MASTER_KEY # None PROVE SdkSpec => []SaltIsOfIdentity
<1>1. PartsInit => Salt!Init
  BY DEF PartsInit
<1>2. [PartsNext]_partsVars => [Salt!Next]_(Salt!vars)
  BY OneProtocolSteps
<1>3. Salt!SaltIsOfIdentity <=> SaltIsOfIdentity
  BY DEF SaltIsOfIdentity
<1> QED
  BY <1>1, <1>2, <1>3, IdentityHolds, PTL DEF SdkSpec

\* The SDK, the contracts, the circuit and the smart wallet agree on the hash of a key, the
\* nonce and the modulus wherever what they compute has to meet, and the SDK's client and
\* the contracts on the seed of an account, whatever the lengths of its claims; no program
\* gives two accounts, keys or moduli the same hash, not even the prover, which reads the
\* texts of a key and a salt for other numbers than the SDK or refuses them.
THEOREM HashesAgreeHolds == SdkSpec => []HashesAgree
<1>1. Hash!TypeOK /\ Hash!HashesAgree => HashesAgree
  BY DEF HashesAgree
<1> QED
  BY <1>1, ProtocolsHold, PTL

\* For every width and number of chunks, bytes and words: what the circuits' templates
\* assign chunk by chunk and bit by bit is the comparison, sum, difference and product of
\* the numbers, and the same bytes again; and whatever fields follow one another in a
\* message, each is read back as what was written, but for the sign of numbers of 64 and
\* 128 bits, and an amount from its text.
THEOREM NumbersKeptHolds == SdkSpec => []NumbersKept
<1>1. /\ Arith!TypeOK /\ Arith!ArithmeticRight /\ Arith!BytesKept
      /\ Xdr!TypeOK /\ Xdr!ReadsBack
      => NumbersKept
  BY DEF NumbersKept
<1> QED
  BY <1>1, ProtocolsHold, PTL
=============================================================================
