---------------------------- MODULE StreamCreate ----------------------------
(***************************************************************************)
(* How a payment stream comes to be: handleCreateStream of the page        *)
(* (src/demo/src/app/streams/page.tsx) checks the balance it knows, makes  *)
(* an id, pays the deposit into the escrow account of that id and posts    *)
(* the stream to /api/streams/create, whose handler looks at the escrow    *)
(* and inserts the row.  StreamEscrow begins where this module ends.       *)
(*                                                                         *)
(* A stream here is an attempt at one: every call makes an id of its own,  *)
(* the call after an error too.  Horizon, the ledger and the database are  *)
(* external.                                                               *)
(***************************************************************************)
EXTENDS Integers, FiniteSets

CONSTANTS
    Streams,       \* ids that generateStreamId may return
    Totals,        \* total amounts that a user may ask for
    Tabs,          \* pages that the user has open: calls that overlap
    Balance,       \* what the sender's account holds in the beginning
    FundingExtra,  \* what is deposited on top of the total: 1.5
    Buffer,        \* what the balance check adds to the total: 2
    None

CreateAssumption ==
    /\ Totals \subseteq Nat \ {0} /\ Tabs \in Nat /\ Balance \in Nat
    /\ FundingExtra \in Nat /\ Buffer \in Nat /\ None \notin Nat \cup {"success", "error"}

VARIABLES
    known,    \* the balance that the page knows
    at,       \* what the call for each stream awaits
    total,    \* its formData.totalAmount
    tx,       \* the number of its transaction
    server,   \* what the route's handler for it awaits
    answer,   \* the answer on its way to the page
    account,  \* the sender's account: its balance, the number of its last transaction
    pending,  \* the streams whose deposit is on its way to the ledger
    escrow,   \* what the ledger has paid into each stream's escrow account
    rows      \* payment_streams, by id: the total, None without a row

page == <<known, at, total, tx>>
route == <<server, answer, rows>>
ledger == <<account, pending, escrow>>
vars == <<page, route, ledger>>

Init ==
    /\ known = Balance
    /\ at = [s \in Streams |-> "unborn"]
    /\ total = [s \in Streams |-> None]
    /\ tx = [s \in Streams |-> None]
    /\ server = [s \in Streams |-> "idle"]
    /\ answer = [s \in Streams |-> None]
    /\ account = [balance |-> Balance, number |-> 0]
    /\ pending = {}
    /\ escrow = [s \in Streams |-> 0]
    /\ rows = [s \in Streams |-> None]

-----------------------------------------------------------------------------
InFlight == {s \in Streams : at[s] \notin {"unborn", "ended"}}
Goto(s, next) == at' = [at EXCEPT ![s] = next]

\* The total and 1.5 more.  (The first form is the bare total.)
DepositBare(s) == total[s]
Deposit(s) == total[s] + FundingExtra

\* The button of a page is disabled while its call is not settled.  A balance that is
\* not sufficient is an error before anything is done.
handleCreateStream(s, amount) ==
    /\ at[s] = "unborn" /\ Cardinality(InFlight) < Tabs
    /\ known >= amount + Buffer
    /\ total' = [total EXCEPT ![s] = amount]
    /\ Goto(s, "source")
    /\ UNCHANGED <<known, tx, route, ledger>>

\* sendPayment loads the sender's account.
LoadSource(s) ==
    /\ at[s] = "source"
    /\ tx' = [tx EXCEPT ![s] = account.number + 1]
    /\ Goto(s, "destination")
    /\ UNCHANGED <<known, total, route, ledger>>

\* The escrow's account is not found; the transaction that creates it is sent.  One
\* whose number is taken by now is refused.
Submit(s) ==
    /\ at[s] = "destination"
    /\ pending' = pending \cup {p \in {s} : tx[s] > account.number}
    /\ Goto(s, "result")
    /\ UNCHANGED <<known, total, tx, route, account, escrow>>

\* The ledger includes the one that has the next number, with effect where the balance
\* allows it, and refuses the others of that number.
Include(s) ==
    /\ s \in pending /\ tx[s] = account.number + 1
    /\ pending' = {p \in pending : tx[p] > tx[s]}
    /\ IF account.balance >= Deposit(s)
       THEN /\ escrow' = [escrow EXCEPT ![s] = Deposit(s)]
            /\ account' = [balance |-> account.balance - Deposit(s), number |-> tx[s]]
       ELSE /\ account' = [account EXCEPT !.number = tx[s]]
            /\ UNCHANGED escrow
    /\ UNCHANGED <<page, route>>

\* setTimeout(180) has passed.
Expire(s) ==
    /\ s \in pending
    /\ pending' = pending \ {s}
    /\ UNCHANGED <<page, route, account, escrow>>

\* Horizon's answer is a success for what the ledger has applied: the stream is posted.
RegisterStream(s) ==
    /\ at[s] = "result" /\ escrow[s] > 0
    /\ server' = [server EXCEPT ![s] = "escrow"]
    /\ Goto(s, "create")
    /\ UNCHANGED <<known, total, tx, answer, rows, ledger>>

\* Any await of the page may throw, and the error is shown: the account is not loaded,
\* the payment is refused or its answer lost, the route's answer is an error or lost.
\* What the calls have set going goes on.
Throw(s) ==
    /\ at[s] \in {"source", "destination", "result", "create"}
    /\ Goto(s, "ended")
    /\ UNCHANGED <<known, total, tx, route, ledger>>

\* accountExists and getAccountBalance, with no other way out of the escrow than the
\* routes of a row that does not exist yet.
VerifyEscrow(s) ==
    /\ server[s] = "escrow"
    /\ IF escrow[s] > 0 /\ escrow[s] >= total[s]
       THEN server' = [server EXCEPT ![s] = "insert"] /\ UNCHANGED answer
       ELSE /\ server' = [server EXCEPT ![s] = "idle"]
            /\ answer' = [answer EXCEPT ![s] = "error"]
    /\ UNCHANGED <<page, rows, ledger>>

\* The INSERT of createStreamWithId.
createStreamWithId(s) ==
    /\ server[s] = "insert"
    /\ rows' = [rows EXCEPT ![s] = total[s]]
    /\ server' = [server EXCEPT ![s] = "idle"]
    /\ answer' = [answer EXCEPT ![s] = "success"]
    /\ UNCHANGED <<page, ledger>>

\* The user's session has ended, Horizon or the database throws, or the instance is
\* killed: an error, or no answer, after an INSERT whose answer was lost too.
RouteFails(s) ==
    /\ server[s] # "idle"
    /\ server' = [server EXCEPT ![s] = "idle"]
    /\ answer' \in {answer, [answer EXCEPT ![s] = "error"]}
    /\ \/ UNCHANGED rows
       \/ server[s] = "insert" /\ rows' = [rows EXCEPT ![s] = total[s]]
    /\ UNCHANGED <<page, ledger>>

\* A success is shown: the modal is closed and the balances are loaded.
Created(s) ==
    /\ at[s] = "create" /\ answer[s] = "success"
    /\ known' = account.balance
    /\ Goto(s, "ended")
    /\ UNCHANGED <<total, tx, route, ledger>>

\* A second after a payment, or with the reload of the page.
refreshData ==
    /\ known' = account.balance
    /\ UNCHANGED <<at, total, tx, route, ledger>>

Next ==
    \/ refreshData
    \/ \E s \in Streams :
         \/ \E amount \in Totals : handleCreateStream(s, amount)
         \/ LoadSource(s) \/ Submit(s) \/ Include(s) \/ Expire(s)
         \/ RegisterStream(s) \/ Throw(s)
         \/ VerifyEscrow(s) \/ createStreamWithId(s) \/ RouteFails(s)
         \/ Created(s)

Spec == Init /\ [][Next]_vars

-----------------------------------------------------------------------------
(* Properties.                                                             *)

TypeOK ==
    /\ known \in 0..Balance
    /\ at \in [Streams -> {"unborn", "source", "destination", "result", "create", "ended"}]
    /\ \A s \in Streams : total[s] \in Totals \cup {None} /\ rows[s] \in {None, total[s]}
    /\ server \in [Streams -> {"idle", "escrow", "insert"}]
    /\ answer \in [Streams -> {None, "success", "error"}]
    /\ account.balance \in 0..Balance
    /\ pending \subseteq Streams

\* "Verify escrow account exists and is funded": behind every row, however many calls
\* compete for one balance and one sequence number, is a deposit of its own that covers
\* the total and the 1.5 on top of it, which withdrawals and cancellation live on.
RowsBacked ==
    /\ \A s \in Streams : rows[s] # None => escrow[s] >= rows[s] + FundingExtra
    /\ \A s \in Streams : at[s] = "ended" /\ answer[s] = "success" => rows[s] # None
=============================================================================
