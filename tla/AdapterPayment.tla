--------------------------- MODULE AdapterPayment ---------------------------
(***************************************************************************)
(* Transactions of the SDK's wallet adapter: sendPayment builds, signs,    *)
(* submits and polls, with awaits between them in which the user may       *)
(* disconnect, connect as someone else or switch the network               *)
(* (src/sdk/src/core/wallet-adapter.ts and soroban-client.ts).             *)
(*                                                                         *)
(* The two networks' ledgers and their RPC servers are external.  A        *)
(* session stands for the account and the key that it signs with.          *)
(***************************************************************************)
EXTENDS Integers

CONSTANTS
    Payments,     \* calls of sendPayment or callContract
    Sessions,     \* sessions that the user may have
    Networks,     \* testnet, mainnet
    maxAttempts,  \* of waitForTransaction
    MaxSwitches,  \* bound on the changes of session or network
    None

PaymentAssumption ==
    /\ maxAttempts \in Nat \ {0} /\ MaxSwitches \in Nat
    /\ None \notin Sessions \cup {"thrown", "ERROR", "unknown", "SUCCESS", "FAILED"}

VARIABLES
    session,    \* this.currentSession
    network,    \* this.config.network, which is this.sorobanClient's
    switches,
    step,       \* what each payment awaits
    built,      \* its transaction: source, number and the network it was built on
    signature,  \* the key that signed it, and the network it was signed for
    client,     \* the client that submitted it, known by its network
    attempts,   \* how often its result was asked for
    outcome,    \* how it ended
    number,     \* on each network, the number of each account's last transaction
    queued,     \* the payments whose transaction a network's server has accepted
    included    \* on each network, the effect of each included one: "SUCCESS" or "FAILED"

user == <<session, network, switches>>
chain == <<number, queued, included>>
vars == <<user, step, built, signature, client, attempts, outcome, chain>>

Init ==
    /\ session \in Sessions /\ network \in Networks /\ switches = 0
    /\ step = [p \in Payments |-> "unborn"]
    /\ built = [p \in Payments |-> None]
    /\ signature = [p \in Payments |-> None]
    /\ client = [p \in Payments |-> None]
    /\ attempts = [p \in Payments |-> 0]
    /\ outcome = [p \in Payments |-> None]
    /\ number = [n \in Networks |-> [s \in Sessions |-> 0]]
    /\ queued = [n \in Networks |-> {}]
    /\ included = [n \in Networks |-> [p \in Payments |-> None]]

-----------------------------------------------------------------------------
Goto(p, next) == step' = [step EXCEPT ![p] = next]
End(p, how) == Goto(p, "ended") /\ outcome' = [outcome EXCEPT ![p] = how]

\* The session and the network of this moment are those whose account is loaded.
sendPayment(p) ==
    /\ step[p] = "unborn" /\ session # None
    /\ built' = [built EXCEPT ![p] = [source |-> session, network |-> network, number |-> 0]]
    /\ Goto(p, "account")
    /\ UNCHANGED <<user, signature, client, attempts, outcome, chain>>

\* The account is loaded, or Horizon's error is taken for an account that has sent
\* nothing yet.  signTransaction wants a session.
buildPaymentTransaction(p) ==
    /\ step[p] = "account"
    /\ \E last \in {0, number[built[p].network][built[p].source]} :
         built' = [built EXCEPT ![p].number = last + 1]
    /\ IF session = None THEN End(p, "thrown") ELSE Goto(p, "library") /\ UNCHANGED outcome
    /\ UNCHANGED <<user, signature, client, attempts, chain>>

\* The passphrase and the key are those of the session and the network of now.
signTransaction(p) ==
    /\ step[p] = "library"
    /\ IF session = None
       THEN End(p, "thrown") /\ UNCHANGED signature
       ELSE /\ signature' = [signature EXCEPT ![p] = [key |-> session, network |-> network]]
            /\ Goto(p, "key") /\ UNCHANGED outcome
    /\ UNCHANGED <<user, built, client, attempts, chain>>

\* The key is decoded, the transaction signed and sent by the client of now.
submitTransaction(p) ==
    /\ step[p] = "key"
    /\ client' = [client EXCEPT ![p] = network]
    /\ Goto(p, "sendTransaction")
    /\ UNCHANGED <<user, built, signature, attempts, outcome, chain>>

\* A network's server accepts what is signed for it with the source's key.
Acceptable(p) == signature[p] = [key |-> built[p].source, network |-> client[p]]

\* It queues the transaction, or says that it is to be sent again later; the answer,
\* or what is not an error, is followed by polling.
Accept(p) ==
    /\ step[p] = "sendTransaction" /\ Acceptable(p)
    /\ queued' \in {queued, [queued EXCEPT ![client[p]] = @ \cup {p}]}
    /\ Goto(p, "getTransaction")
    /\ UNCHANGED <<user, built, signature, client, attempts, outcome, number, included>>

\* Status ERROR.
Refuse(p) ==
    /\ step[p] = "sendTransaction"
    /\ End(p, "ERROR")
    /\ UNCHANGED <<user, built, signature, client, attempts, chain>>

\* The answer is lost: what the caller reads is a failure too, but without a hash.
LoseAnswer(p) ==
    /\ step[p] = "sendTransaction"
    /\ queued' \in {queued} \cup
         (IF Acceptable(p) THEN {[queued EXCEPT ![client[p]] = @ \cup {p}]} ELSE {})
    /\ End(p, "unknown")
    /\ UNCHANGED <<user, built, signature, client, attempts, number, included>>

\* A ledger includes one that has the next number of its source, with effect or not.
Include(n, p) ==
    /\ p \in queued[n]
    /\ number[n][built[p].source] = built[p].number - 1
    /\ number' = [number EXCEPT ![n][built[p].source] = built[p].number]
    /\ queued' = [queued EXCEPT ![n] = @ \ {p}]
    /\ \E effect \in {"SUCCESS", "FAILED"} :
         included' = [included EXCEPT ![n][p] = effect]
    /\ UNCHANGED <<user, step, built, signature, client, attempts, outcome>>

\* The status, asked of the client that submitted, whatever client there is now.
Status(p) == included[client[p]][p]

\* What is reported when there was no result to the last: a timeout of the
\* confirmation.  (The first form is that of a failed transaction.)
GivenUpFailed == "FAILED"
GivenUp == "unknown"

\* The result is asked for until there is one, or for the last time.
waitForTransaction(p) ==
    /\ step[p] = "getTransaction"
    /\ IF Status(p) # None THEN End(p, Status(p)) /\ UNCHANGED attempts
       ELSE /\ attempts' = [attempts EXCEPT ![p] = @ + 1]
            /\ IF attempts[p] + 1 < maxAttempts THEN UNCHANGED <<step, outcome>>
               ELSE End(p, GivenUp)
    /\ UNCHANGED <<user, built, signature, client, chain>>

\* The request to poll fails, which is as if there were no result yet.
PollFails(p) ==
    /\ step[p] = "getTransaction"
    /\ attempts' = [attempts EXCEPT ![p] = @ + 1]
    /\ IF attempts[p] + 1 < maxAttempts THEN UNCHANGED <<step, outcome>> ELSE End(p, GivenUp)
    /\ UNCHANGED <<user, built, signature, client, chain>>

switchNetwork(n) ==
    /\ switches < MaxSwitches /\ n # network
    /\ network' = n /\ switches' = switches + 1
    /\ UNCHANGED <<session, step, built, signature, client, attempts, outcome, chain>>

\* connect and disconnect, as WalletAdapter has them.
ChangeSession(s) ==
    /\ switches < MaxSwitches /\ s # session
    /\ session' = s /\ switches' = switches + 1
    /\ UNCHANGED <<network, step, built, signature, client, attempts, outcome, chain>>

Next ==
    \/ \E n \in Networks : switchNetwork(n)
    \/ \E s \in Sessions \cup {None} : ChangeSession(s)
    \/ \E p \in Payments :
         \/ sendPayment(p) \/ buildPaymentTransaction(p) \/ signTransaction(p)
         \/ submitTransaction(p) \/ Accept(p) \/ Refuse(p) \/ LoseAnswer(p)
         \/ waitForTransaction(p) \/ PollFails(p)
         \/ \E n \in Networks : Include(n, p)

Spec == Init /\ [][Next]_vars

-----------------------------------------------------------------------------
(* Properties.                                                             *)

TypeOK ==
    /\ session \in Sessions \cup {None} /\ network \in Networks
    /\ \A p \in Payments :
         /\ step[p] \in {"unborn", "account", "library", "key", "sendTransaction",
                         "getTransaction", "ended"}
         /\ outcome[p] \in {None, "thrown", "ERROR", "unknown", "SUCCESS", "FAILED"}
         /\ attempts[p] \in 0..maxAttempts
         /\ step[p] = "ended" <=> outcome[p] # None

\* Whatever the user switches while a payment is on its way, a success that is
\* reported is on the ledger that the payment was sent to, and on no other; a failure
\* that is reported, and is not one of asking, will not be applied anywhere.
ReportedTruthfully ==
    \A p \in Payments :
      /\ outcome[p] = "SUCCESS" =>
           \A n \in Networks : included[n][p] = IF n = client[p] THEN "SUCCESS" ELSE None
      /\ outcome[p] \in {"ERROR", "FAILED", "thrown"} =>
           \A n \in Networks : included[n][p] # "SUCCESS" /\ p \notin queued[n]
=============================================================================
