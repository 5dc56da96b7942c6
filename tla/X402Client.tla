----------------------------- MODULE X402Client -----------------------------
(***************************************************************************)
(* The SDK's x402 client (src/sdk/src/x402/index.ts): fetchWithPayment     *)
(* fetches a resource, pays what a 402 answer asks for and fetches again   *)
(* with the payment's hash.  The server, Horizon and the ledger are        *)
(* external, and so is the application, which calls again whenever it      *)
(* likes: at once, as the message of a failed transaction tells it to      *)
(* (types.ts:292), or when the first payment cannot come any more.         *)
(*                                                                         *)
(* An amount is asked for and compared with the threshold as a number of   *)
(* smallest units.  The ledger is given that number of whole units of its  *)
(* native asset, or that number of smallest units of a token.              *)
(*                                                                         *)
(* The calls for different resources overlap; all of them pay from one     *)
(* account, so they may load the same sequence number.                     *)
(***************************************************************************)
EXTENDS Integers, FiniteSets

CONSTANTS
    Resources,         \* what is fetched, each by one call at a time
    Asks,              \* what their servers may ask for: an asset and an amount
    autoPayThreshold,  \* config.autoPayThreshold
    Unit,              \* smallest units in a whole one: ten million
    Validity,          \* how far from now a request's validUntil is
    Timeout,           \* setTimeout(300), in ticks of the clock
    MaxTime,           \* bound on the clock
    MaxCalls,          \* bound on the calls
    None

ClientAssumption ==
    /\ Asks \subseteq [resource : Resources, asset : {"native", "token"}, amount : Nat]
    /\ autoPayThreshold \in Nat /\ Unit \in Nat /\ Validity \subseteq Int
    /\ Timeout \in Nat /\ MaxTime \in Nat /\ MaxCalls \in Nat

VARIABLES
    now,       \* Date.now() and the ledgers' clock
    sequence,  \* the payer's account: the number of its last transaction
    pending,   \* transactions on their way to the ledger
    applied,   \* payments that the ledger has applied
    calls,     \* how many calls there were
    early,     \* how many for each resource, before it was settled that nothing is paid for it
    at,        \* what the call for each resource awaits
    request,   \* what its 402 answer asks for
    tx,        \* the transaction that it has built
    proof,     \* the transaction that its X-PAYMENT header names
    endedAt    \* when it ended

ledger == <<sequence, pending, applied>>
vars == <<now, ledger, calls, early, at, request, tx, proof, endedAt>>

Transaction == [resource : Resources, asset : {"native", "token"}, amount : Nat,
                sequence : Nat, maxTime : Nat]

Init ==
    /\ now = 0
    /\ sequence = 0 /\ pending = {} /\ applied = {}
    /\ calls = 0
    /\ early = [r \in Resources |-> 0]
    /\ at = [r \in Resources |-> "ended"]
    /\ request = [r \in Resources |-> None]
    /\ tx = [r \in Resources |-> None]
    /\ proof = [r \in Resources |-> None]
    /\ endedAt = [r \in Resources |-> -Timeout - 1]

-----------------------------------------------------------------------------
\* The call goes on to its next await, with its variables the same but for x.
Goto(r, next) == at' = [at EXCEPT ![r] = next] /\ UNCHANGED <<calls, early, endedAt>>

\* The call returns or throws, and its variables are gone.
End(r) ==
    /\ at' = [at EXCEPT ![r] = "ended"]
    /\ endedAt' = [endedAt EXCEPT ![r] = now]
    /\ request' = [request EXCEPT ![r] = None]
    /\ tx' = [tx EXCEPT ![r] = None]
    /\ proof' = [proof EXCEPT ![r] = None]
    /\ UNCHANGED <<calls, early>>

\* No payment for the resource is on the ledger, and none that was sent can come any more:
\* the timeout of the call before has passed.
Settled(r) ==
    /\ now > endedAt[r] + Timeout
    /\ \A t \in applied : t.resource # r

\* The application asks for the resource, once more or for the first time.
fetchWithPayment(r) ==
    /\ at[r] = "ended" /\ calls < MaxCalls
    /\ calls' = calls + 1
    /\ early' = [early EXCEPT ![r] = IF Settled(r) THEN @ ELSE @ + 1]
    /\ at' = [at EXCEPT ![r] = "response"]
    /\ UNCHANGED <<now, ledger, request, tx, proof, endedAt>>

\* The resource is free, or the 402 answer has no header: the response is returned.
Return(r) ==
    /\ at[r] = "response"
    /\ End(r)
    /\ UNCHANGED <<now, ledger>>

\* BigInt(amount) <= BigInt(threshold).  (The first form has the operands swapped.)
shouldAutoPaySwapped(amount) == autoPayThreshold <= amount
shouldAutoPay(amount) == amount <= autoPayThreshold

\* The version, scheme and network do not change what follows; the expiry does.
validatePaymentRequest(validUntil) == validUntil >= now

\* A 402 answer with its header: parsed, compared with the threshold and validated
\* before the next await.  What does not pass is thrown.
parsePaymentRequired(r, asked, validUntil) ==
    /\ at[r] = "response" /\ asked.resource = r
    /\ IF shouldAutoPay(asked.amount) /\ validatePaymentRequest(validUntil)
       THEN /\ request' = [request EXCEPT ![r] = asked]
            /\ Goto(r, "account")
            /\ UNCHANGED <<tx, proof>>
       ELSE End(r)
    /\ UNCHANGED <<now, ledger>>

\* The time bound of a transaction built now.  (The first form has none.)
TimeBoundNone == MaxTime
TimeBound == now + Timeout

\* What the transaction moves, in smallest units: Operation.payment takes the number for
\* whole units of the native asset, a token's transfer takes it as it is.
Moved(asked) == IF asked.asset = "native" THEN asked.amount * Unit ELSE asked.amount

\* The account is loaded, and the transaction built with the number after the one
\* that was loaded: the wallet is asked to sign it.
buildPaymentTransaction(r) ==
    /\ at[r] = "account"
    /\ tx' = [tx EXCEPT ![r] = [resource |-> r, asset |-> request[r].asset,
                                amount |-> Moved(request[r]),
                                sequence |-> sequence + 1, maxTime |-> TimeBound]]
    /\ Goto(r, "signature")
    /\ UNCHANGED <<now, ledger, request, proof>>

\* The signed transaction is sent, late or in time.
signTransaction(r) ==
    /\ at[r] = "signature"
    /\ pending' = pending \cup {t \in {tx[r]} : t.maxTime >= now /\ t.sequence > sequence}
    /\ Goto(r, "result")
    /\ UNCHANGED <<now, sequence, applied, request, tx, proof>>

\* The ledger includes a transaction that has the next number, with effect or, where
\* its operation fails, without.  Others of that number are refused.
Include(t) ==
    /\ t \in pending /\ t.sequence = sequence + 1
    /\ sequence' = t.sequence
    /\ pending' = {p \in pending : p.sequence > t.sequence}
    /\ applied' \in {applied, applied \cup {t}}
    /\ UNCHANGED <<now, calls, early, at, request, tx, proof, endedAt>>

\* Horizon's answer is a success for what the ledger has applied.  (The first form
\* takes the answer to anything that is no longer under way for one.)
SucceededAny(t) == t \notin pending
Succeeded(t) == t \in applied

\* The payment's hash goes into the header of the second request.
submitPaymentTransaction(r) ==
    /\ at[r] = "result"
    /\ Succeeded(tx[r])
    /\ proof' = [proof EXCEPT ![r] = tx[r]]
    /\ Goto(r, "resource")
    /\ UNCHANGED <<now, ledger, request, tx>>

\* The answer to the second request: whatever it is, it is returned.
Retry(r) ==
    /\ at[r] = "resource"
    /\ End(r)
    /\ UNCHANGED <<now, ledger>>

\* Any await may throw: no answer, a refused signature, an account that does not
\* exist, a transaction that the ledger refuses, or one whose answer is a 504 or is
\* lost while the ledger may still apply it.
Throw(r) ==
    /\ at[r] # "ended"
    /\ End(r)
    /\ UNCHANGED <<now, ledger>>

\* What is not included in time never will be.
Tick ==
    /\ now < MaxTime
    /\ now' = now + 1
    /\ pending' = {t \in pending : t.maxTime > now}
    /\ UNCHANGED <<sequence, applied, calls, early, at, request, tx, proof, endedAt>>

Next ==
    \/ Tick
    \/ \E t \in pending : Include(t)
    \/ \E r \in Resources :
         \/ fetchWithPayment(r) \/ Return(r)
         \/ \E asked \in Asks, valid \in Validity :
              parsePaymentRequired(r, asked, now + valid)
         \/ buildPaymentTransaction(r) \/ signTransaction(r) \/ submitPaymentTransaction(r)
         \/ Retry(r) \/ Throw(r)

Spec == Init /\ [][Next]_vars

-----------------------------------------------------------------------------
(* Properties.                                                             *)

TypeOK ==
    /\ now \in 0..MaxTime /\ sequence \in Nat
    /\ \A t \in pending \cup applied : t \in Transaction
    /\ calls \in 0..MaxCalls /\ early \in [Resources -> 0..MaxCalls]
    /\ \A r \in Resources :
         /\ request[r] \in Asks \cup {None}
         /\ at[r] \in {"ended", "response", "account", "signature", "result", "resource"}
         /\ at[r] \in {"signature", "result", "resource"} => tx[r] \in Transaction
         /\ proof[r] \in {None, tx[r]}

\* What was paid for a resource.
Paid(r) == {t \in applied : t.resource = r}

\* A resource is paid for once, and once more at most for every call that was made before
\* it was settled that nothing is paid for it.  A call after that, when the answer of the
\* one before was lost, never pays a second time, although transactions are late and
\* compete for one sequence number.  A token's payment is within the threshold.
PaidOnce ==
    /\ \A r \in Resources : Cardinality(Paid(r)) <= 1 + early[r]
    /\ \A t \in applied : t.asset = "token" => t.amount <= autoPayThreshold

\* A hash that is presented to a server is that of a payment which the ledger has
\* applied, for this resource and of what this server's own request comes to,
\* although the payments of several calls may compete for one sequence number.
PresentedIsPaid ==
    \A r \in Resources : proof[r] # None =>
        /\ proof[r] \in applied
        /\ proof[r].resource = r
        /\ proof[r].asset = request[r].asset /\ proof[r].amount = Moved(request[r])

\* "Auto-pay if amount below threshold": what is paid without asking is at most the
\* threshold.
WithinThreshold == \A t \in applied : t.amount <= autoPayThreshold
=============================================================================
