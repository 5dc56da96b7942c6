---------------------------- MODULE StreamEscrow ----------------------------
(***************************************************************************)
(* One payment stream of the demo server: its row of payment_streams, the  *)
(* Stellar escrow account that holds its money, and the HTTP handlers that *)
(* read the one and pay out of the other.                                  *)
(*                                                                         *)
(* A handler is a serverless function: nothing locks the row between its   *)
(* awaits, so each await is a step of its own and the handlers interleave. *)
(* Streams share nothing (one row, one derived account each), so one       *)
(* stream is the whole system.  Amounts are whole units (the code rounds   *)
(* to 7 decimals at each payment; StreamCurve studies that rounding).      *)
(***************************************************************************)
EXTENDS Integers

CONSTANTS
    Requests,          \* in-flight HTTP requests; each is handled once
    Routes,            \* the kinds of request the environment sends
    Faults,            \* the faults the environment may show
    Total,             \* total_amount
    Duration,          \* end_time - start_time
    Curve,             \* amount streamed after 0..Duration time units
    Starts,            \* the start times a client may ask for
    RequestedAmounts,  \* amounts in a request body; 0: none or unreadable
    Reserve,           \* base reserve of a Stellar account
    FundingExtra,      \* what the client deposits on top of Total
    Fee,               \* network fee of one transaction
    MaxTime,           \* bound on the clock
    NoHash,            \* SQL NULL in a transaction-hash column
    ClientHash         \* a hash supplied by a client, of unknown origin

RouteKinds == {"get", "withdraw", "report", "cancel", "delete"}
FaultKinds == {"overlap", "timeout", "drop", "crash"}

ASSUME RouteAssumption == Routes \subseteq RouteKinds
ASSUME FaultAssumption == Faults \subseteq FaultKinds
ASSUME AmountAssumption ==
    /\ Total \in Nat \ {0} /\ Duration \in Nat \ {0}
    /\ Reserve \in Nat /\ FundingExtra \in Nat /\ Fee \in Nat
    /\ RequestedAmounts \subseteq Nat
    /\ MaxTime \in Nat /\ Starts \subseteq Int
ASSUME CurveAssumption ==
    /\ Curve \in [0..Duration -> 0..Total]
    /\ \A e, f \in 0..Duration : e <= f => Curve[e] <= Curve[f]
ASSUME HashAssumption ==
    NoHash \notin Requests /\ ClientHash \notin Requests /\ NoHash # ClientHash

VARIABLES
    now,       \* the clock every `new Date()` reads
    row,       \* the row of payment_streams; status "none" before the INSERT
    escrow,    \* the escrow account on the ledger
    received,  \* what the ledger has paid from the escrow to the recipient
    refunded,  \* what the ledger has paid from the escrow back to the sender
    req,       \* the local state of each request's handler
    tx         \* the transaction each handler submitted

vars == <<now, row, escrow, received, refunded, req, tx>>

-----------------------------------------------------------------------------
(* Data.                                                                   *)

Statuses == {"pending", "active", "completed", "cancelled"}
Hashes == Requests \cup {NoHash, ClientHash}

NewRow(status, start) ==
    [status |-> status, start |-> start, withdrawn |-> 0,
     cancelledAt |-> 0, cancelTx |-> NoHash, lastTx |-> NoHash]

NoRow == NewRow("none", 0)

\* A handler that has not read anything yet, or has returned.
Blank(pc, kind, outcome) ==
    [pc |-> pc, kind |-> kind, outcome |-> outcome, status |-> "none",
     withdrawn |-> 0, amount |-> 0, hash |-> NoHash]

NoTx == [state |-> "none", seq |-> 0, to |-> "recipient", amount |-> 0]

\* calculateStreamedAmount at clock time t for a stream that began at start.
Streamed(t, start) ==
    IF t <= start THEN 0
    ELSE IF t >= start + Duration THEN Total
    ELSE Curve[t - start]

\* calculateStreamMetrics(...).withdrawableAmount over the row a handler read;
\* every caller has turned away a row it read as cancelled.  (The first two
\* forget the withdrawals, and the vesting.)
WithdrawableGross(r) == Streamed(now, row.start)
WithdrawableUnvested(r) == Total - req[r].withdrawn
Withdrawable(r) ==
    LET left == Streamed(now, row.start) - req[r].withdrawn
    IN  IF left > 0 THEN left ELSE 0

InFlight(r) == req[r].pc \notin {"idle", "done"}

\* The handler returns: its locals are gone.
Finish(r, outcome) ==
    req' = [req EXCEPT ![r] = Blank("done", req[r].kind, outcome)]

Goto(r, pc) == req' = [req EXCEPT ![r].pc = pc]

Init ==
    /\ now = 0
    /\ row = NoRow
    /\ escrow = [exists |-> FALSE, balance |-> 0, seq |-> 0]
    /\ received = 0
    /\ refunded = 0
    /\ req = [r \in Requests |-> Blank("idle", "get", "none")]
    /\ tx = [r \in Requests |-> NoTx]

Tick ==
    /\ now < MaxTime
    /\ now' = now + 1
    /\ UNCHANGED <<row, escrow, received, refunded, req, tx>>

-----------------------------------------------------------------------------
(* Opening the stream: the client pays the deposit into the derived account *)
(* and only then posts the stream.                                          *)

\* handleCreateStream, steps 3 and 4: createAccount with Total + 1.5 XLM.
DepositBare == Total
Deposit == Total + FundingExtra

FundEscrow ==
    /\ ~escrow.exists
    /\ escrow' = [exists |-> TRUE, balance |-> Deposit, seq |-> 0]
    /\ UNCHANGED <<now, row, received, refunded, req, tx>>

\* POST /api/streams/create.  Its two account reads and its INSERT make one
\* step: until the row exists no handler can move the escrow.
CreateStream ==
    /\ row.status = "none"
    /\ escrow.exists
    /\ escrow.balance >= Total
    /\ \E start \in Starts \cup {now} :
         row' = NewRow(IF start <= now THEN "active" ELSE "pending", start)
    /\ UNCHANGED <<now, escrow, received, refunded, req, tx>>

-----------------------------------------------------------------------------
(* getStream: SELECT, then the lazy status update.                         *)

\* A request arrives.  Without "overlap" it waits until no other is in flight.
Begin(r, kind) ==
    /\ req[r].pc = "idle"
    /\ kind \in Routes
    /\ "overlap" \in Faults \/ \A q \in Requests : ~InFlight(q)
    /\ req' = [req EXCEPT ![r] = [@ EXCEPT !.pc = "read", !.kind = kind]]
    /\ UNCHANGED <<now, row, escrow, received, refunded, tx>>

\* SELECT * FROM payment_streams: the handler's copy of the row.
ReadRow(r) ==
    /\ req[r].pc = "read"
    /\ IF row.status = "none"
       THEN Finish(r, "not found")
       ELSE req' = [req EXCEPT ![r] =
                      [@ EXCEPT !.pc = "refresh", !.status = row.status,
                                !.withdrawn = row.withdrawn]]
    /\ UNCHANGED <<now, row, escrow, received, refunded, tx>>

\* The status getStream moves the copy to.  The end is tested before the start,
\* so a pending stream found after its end becomes active, not completed.
RefreshedStatus(status) ==
    IF status = "active" /\ now >= row.start + Duration THEN "completed"
    ELSE IF status = "pending" /\ now >= row.start THEN "active"
    ELSE status

\* The UPDATE is conditional on the row still having the status that was read;
\* the copy takes the new status whether or not the UPDATE found its row.
RefreshUpdatesAny(r) == TRUE
RefreshUpdates(r) == row.status = req[r].status

RefreshStatus(r) ==
    LET next == RefreshedStatus(req[r].status)
    IN  /\ req[r].pc = "refresh"
        /\ next # req[r].status
        /\ row' = IF RefreshUpdates(r) THEN [row EXCEPT !.status = next] ELSE row
        /\ req' = [req EXCEPT ![r] = [@ EXCEPT !.status = next, !.pc = "check"]]
        /\ UNCHANGED <<now, escrow, received, refunded, tx>>

\* The route's own checks follow getStream; with no UPDATE to wait for they run
\* in the same turn, at the same time of the clock.
Checking(r, kind) ==
    /\ req[r].kind = kind
    /\ \/ req[r].pc = "check"
       \/ req[r].pc = "refresh" /\ RefreshedStatus(req[r].status) = req[r].status

-----------------------------------------------------------------------------
(* What each route decides from its copy of the row.                       *)

\* GET /api/streams/[id].
AnswerGet(r) ==
    /\ Checking(r, "get")
    /\ Finish(r, "ok")
    /\ UNCHANGED <<now, row, escrow, received, refunded, tx>>

\* What the withdraw route turns away: more than is withdrawable, and nothing at
\* all.  (The first form has only the first of the two checks.)
RefusedAboveOnly(r, amount) == amount > Withdrawable(r)
Refused(r, amount) == amount > Withdrawable(r) \/ amount = 0

\* POST /api/streams/[id]/withdraw: no usable amount means all of it.
CheckWithdraw(r) ==
    /\ Checking(r, "withdraw")
    /\ \/ /\ req[r].status = "cancelled"
          /\ Finish(r, "stream cancelled")
       \/ /\ req[r].status # "cancelled"
          /\ \E a \in RequestedAmounts :
               LET amount == IF a = 0 THEN Withdrawable(r) ELSE a
               IN  IF Refused(r, amount)
                   THEN Finish(r, "rejected")
                   ELSE req' = [req EXCEPT ![r] =
                                  [@ EXCEPT !.pc = "pay", !.amount = amount]]
    /\ UNCHANGED <<now, row, escrow, received, refunded, tx>>

\* POST /api/streams/[id]: records a payment the client says it has made.
CheckReport(r) ==
    /\ Checking(r, "report")
    /\ \/ /\ req[r].status = "cancelled"
          /\ Finish(r, "stream cancelled")
       \/ /\ req[r].status # "cancelled"
          /\ \E a \in RequestedAmounts :
               IF a = 0 \/ a > Withdrawable(r)
               THEN Finish(r, "rejected")
               ELSE req' = [req EXCEPT ![r] =
                              [@ EXCEPT !.pc = "record", !.amount = a,
                                        !.hash = ClientHash]]
    /\ UNCHANGED <<now, row, escrow, received, refunded, tx>>

\* POST /api/streams/[id]/cancel: what has not streamed goes back to the sender.
\* (The route's own header and cancelAndRefund's comment call it the total minus what
\* was withdrawn.  The first form takes the withdrawals off what has not streamed.)
RefundLessWithdrawn(r) ==
    LET left == Total - Streamed(now, row.start) - req[r].withdrawn
    IN  IF left > 0 THEN left ELSE 0
Refund(r) == Total - Streamed(now, row.start)

CheckCancel(r) ==
    LET refund == Refund(r)
    IN  /\ Checking(r, "cancel")
        /\ IF req[r].status \in {"cancelled", "completed"}
           THEN Finish(r, "rejected")
           ELSE req' = [req EXCEPT ![r] =
                          [@ EXCEPT !.pc = IF refund > 0 THEN "pay" ELSE "close",
                                    !.amount = refund]]
        /\ UNCHANGED <<now, row, escrow, received, refunded, tx>>

\* DELETE /api/streams/[id]: closes the row and moves no money.
CheckDelete(r) ==
    /\ Checking(r, "delete")
    /\ IF req[r].status \in {"active", "pending"}
       THEN Goto(r, "close") ELSE Finish(r, "rejected")
    /\ UNCHANGED <<now, row, escrow, received, refunded, tx>>

-----------------------------------------------------------------------------
(* Paying out of the escrow: withdrawFromEscrow and cancelAndRefund.       *)

Recipient(kind) == IF kind = "withdraw" THEN "recipient" ELSE "sender"

NextAfterPayment(kind) == IF kind = "withdraw" THEN "record" ELSE "close"

PaymentMade(r) ==
    req' = [req EXCEPT ![r] = [@ EXCEPT !.pc = NextAfterPayment(req[r].kind),
                                         !.hash = r]]

\* What a handler does once it takes its payment to have failed: the withdraw
\* route answers 500; the cancel route swallows the error and goes on.  (The
\* first goes on as if the payment had been made, the second tries again.)
PaymentFailedIgnored(r) == PaymentMade(r)
PaymentFailedRetried(r) == Goto(r, "pay")
PaymentFailed(r) ==
    IF req[r].kind = "withdraw" THEN Finish(r, "payment failed") ELSE Goto(r, "close")

\* loadAccount, then (withdraw only) the balance check, then the signed payment
\* with the next sequence number of the account as it was loaded.
SubmitPayment(r) ==
    /\ req[r].pc = "pay"
    /\ IF req[r].kind = "withdraw" /\ escrow.balance - Reserve < req[r].amount
       THEN PaymentFailed(r) /\ UNCHANGED tx
       ELSE /\ Goto(r, "await")
            /\ tx' = [tx EXCEPT ![r] = [state |-> "pending", seq |-> escrow.seq + 1,
                                        to |-> Recipient(req[r].kind),
                                        amount |-> req[r].amount]]
    /\ UNCHANGED <<now, row, escrow, received, refunded>>

\* The ledger.  A transaction with the next sequence number is included and
\* charged its fee; its payment needs the reserve to stay behind.
Covered(left, amount) == left - amount >= Reserve

ApplyTx(r) ==
    LET left == escrow.balance - Fee
        paid == Covered(left, tx[r].amount)
    IN  /\ tx[r].state = "pending"
        /\ tx[r].seq = escrow.seq + 1
        /\ left >= 0
        /\ tx' = [tx EXCEPT ![r].state = IF paid THEN "applied" ELSE "failed"]
        /\ escrow' = [escrow EXCEPT !.seq = @ + 1,
                        !.balance = IF paid THEN left - tx[r].amount ELSE left]
        /\ received' = IF paid /\ tx[r].to = "recipient"
                       THEN received + tx[r].amount ELSE received
        /\ refunded' = IF paid /\ tx[r].to = "sender"
                       THEN refunded + tx[r].amount ELSE refunded
        /\ UNCHANGED <<now, row, req>>

\* Another transaction took the sequence number, or the fee cannot be paid.
RejectTx(r) ==
    /\ tx[r].state = "pending"
    /\ tx[r].seq # escrow.seq + 1 \/ escrow.balance < Fee
    /\ tx' = [tx EXCEPT ![r].state = "failed"]
    /\ UNCHANGED <<now, row, escrow, received, refunded, req>>

\* Never included before its 180 s time bound, or the destination is missing.
DropTx(r) ==
    /\ "drop" \in Faults
    /\ tx[r].state = "pending"
    /\ tx' = [tx EXCEPT ![r].state = "failed"]
    /\ UNCHANGED <<now, row, escrow, received, refunded, req>>

\* submitTransaction returns a hash or throws.
PaymentAnswer(r) ==
    /\ req[r].pc = "await"
    /\ \/ /\ tx[r].state = "applied"
          /\ PaymentMade(r)
       \/ /\ tx[r].state = "failed"
          /\ PaymentFailed(r)
    /\ UNCHANGED <<now, row, escrow, received, refunded, tx>>

\* submitTransaction throws (Horizon 504, lost answer) whatever the ledger did
\* or is still going to do with the transaction.
PaymentTimeout(r) ==
    /\ "timeout" \in Faults
    /\ req[r].pc = "await"
    /\ PaymentFailed(r)
    /\ UNCHANGED <<now, row, escrow, received, refunded, tx>>

-----------------------------------------------------------------------------
(* Writing the outcome back to the row.                                    *)

\* The statuses the two UPDATEs ask for in their WHERE clauses (and weaker ones).
WithdrawableStatusesAny == Statuses
WithdrawableStatusesOpen == {"active"}
WithdrawableStatuses == {"active", "completed"}
CancellableStatusesAny == Statuses
CancellableStatuses == {"pending", "active"}

RecordWithdrawal(r) ==
    /\ req[r].pc = "record"
    /\ IF row.status \in WithdrawableStatuses
       THEN /\ row' = [row EXCEPT !.withdrawn = @ + req[r].amount,
                                  !.lastTx = req[r].hash]
            /\ Finish(r, "ok")
       ELSE Finish(r, "not recorded") /\ UNCHANGED row
    /\ UNCHANGED <<now, escrow, received, refunded, tx>>

CancelStream(r) ==
    /\ req[r].pc = "close"
    /\ IF row.status \in CancellableStatuses
       THEN /\ row' = [row EXCEPT !.status = "cancelled", !.cancelledAt = now,
                                  !.cancelTx = req[r].hash]
            /\ Finish(r, "ok")
       ELSE Finish(r, "already closed") /\ UNCHANGED row
    /\ UNCHANGED <<now, escrow, received, refunded, tx>>

\* The function instance is killed between two awaits.
Crash(r) ==
    /\ "crash" \in Faults
    /\ InFlight(r)
    /\ Finish(r, "crashed")
    /\ UNCHANGED <<now, row, escrow, received, refunded, tx>>

-----------------------------------------------------------------------------
Handler(r) ==
    \/ ReadRow(r) \/ RefreshStatus(r)
    \/ AnswerGet(r) \/ CheckWithdraw(r) \/ CheckReport(r) \/ CheckCancel(r) \/ CheckDelete(r)
    \/ SubmitPayment(r) \/ PaymentAnswer(r)
    \/ RecordWithdrawal(r) \/ CancelStream(r)

Network(r) == ApplyTx(r) \/ RejectTx(r)

Next ==
    \/ Tick \/ FundEscrow \/ CreateStream
    \/ \E r \in Requests :
         \/ \E kind \in RouteKinds : Begin(r, kind)
         \/ Handler(r) \/ Network(r)
         \/ DropTx(r) \/ PaymentTimeout(r) \/ Crash(r)

Spec == Init /\ [][Next]_vars

\* A handler that is not killed runs on; the ledger includes or refuses what it
\* is given.  Clients, the clock and the faults are not fair.
FairSpec == Spec /\ \A r \in Requests : WF_vars(Handler(r)) /\ WF_vars(Network(r))

-----------------------------------------------------------------------------
(* Properties.                                                             *)

Pcs == {"idle", "read", "refresh", "check", "pay", "await", "record", "close", "done"}
Outcomes == {"none", "ok", "not found", "stream cancelled", "rejected",
             "payment failed", "not recorded", "already closed", "crashed"}

Row == [status : Statuses \cup {"none"}, start : Int, withdrawn : Nat,
        cancelledAt : 0..MaxTime, cancelTx : Hashes, lastTx : Hashes]
Escrow == [exists : BOOLEAN, balance : Nat, seq : Nat]
Request == [pc : Pcs, kind : RouteKinds, status : Statuses \cup {"none"},
            withdrawn : Nat, amount : Nat, hash : Hashes, outcome : Outcomes]
Transaction == [state : {"none", "pending", "applied", "failed"}, seq : Nat,
                to : {"recipient", "sender"}, amount : Nat]

\* No handler goes to the escrow with nothing to pay, and no transaction pays nothing.
PaysSomething ==
    \A r \in Requests :
        /\ req[r].pc = "pay" => req[r].amount > 0
        /\ tx[r].state # "none" => tx[r].amount > 0

\* Every variable stays in its domain: in particular the escrow balance, the
\* recorded withdrawals and what the ledger paid out never become negative, and what
\* a handler pays out of the escrow is always something.
TypeOK ==
    /\ now \in 0..MaxTime
    /\ row \in Row
    /\ escrow \in Escrow
    /\ received \in Nat /\ refunded \in Nat
    /\ req \in [Requests -> Request]
    /\ tx \in [Requests -> Transaction]
    /\ PaysSomething

\* A stream is closed once: whatever stale copies of the row the handlers hold,
\* none of them moves a completed or cancelled row to another status.
ClosedOnce ==
    [][row.status \in {"completed", "cancelled"} => row'.status = row.status]_vars

\* Cancelling freezes the row: a withdrawal that was being paid when the stream
\* was cancelled is not added to it, and no second cancellation re-dates it.
CancelledRowFrozen == [][row.status = "cancelled" => row' = row]_vars

\* No single payment to the recipient exceeds what has streamed, from whatever
\* copy of the row it was computed and however late it is included.
PaymentsVested ==
    \A r \in Requests :
        tx[r].state # "none" /\ tx[r].to = "recipient"
            => tx[r].amount <= Streamed(now, row.start)

\* A transaction hash a handler writes into the row is the hash of a payment
\* the ledger did apply, in the direction the column says.
RecordedHashesApplied ==
    /\ row.lastTx \in Requests =>
         tx[row.lastTx].state = "applied" /\ tx[row.lastTx].to = "recipient"
    /\ row.cancelTx \in Requests =>
         tx[row.cancelTx].state = "applied" /\ tx[row.cancelTx].to = "sender"

\* The books never show a withdrawal the ledger did not pay, as long as no client
\* has recorded one itself: late, failed and racing payments, and handlers killed
\* half-way, only make them show less.
RecordedIsPaid ==
    (\A r \in Requests : req[r].kind = "report" => req[r].outcome # "ok")
        => row.withdrawn <= received

\* Handled one at a time, requests never make the books show more withdrawn than
\* has streamed, whatever times out, is dropped or is killed.
RecordedWithinStreamed == row.withdrawn <= Streamed(now, row.start)

\* What the client deposits on top covers the reserve and every fee: no
\* withdrawal of a vested amount fails for want of money in the escrow.
WithdrawalsCovered == \A r \in Requests : req[r].outcome # "payment failed"

\* With no request in flight the books show exactly what the ledger paid.
BooksAgree == (\A r \in Requests : ~InFlight(r)) => row.withdrawn = received

\* The stream keeps StreamLedger's promise, whose refund is the cancel route's: the
\* total minus what has streamed, and not what two comments beside it say, the total
\* minus what was withdrawn, which would take from the recipient what has vested and
\* is not withdrawn yet.  The sender has asked to close it once a
\* cancellation has passed its checks; it is closed from the moment the refund is
\* on the ledger, which is before the row says so.
Asked == {r \in Requests : req[r].kind = "cancel" /\ req[r].pc \in {"pay", "await", "close"}}

Phase ==
    IF row.status = "none" THEN "none"
    ELSE IF \/ row.status = "cancelled"
            \/ \E r \in Requests : tx[r].state = "applied" /\ tx[r].to = "sender"
    THEN "closed"
    ELSE IF Asked # {} THEN "closing" ELSE "open"

Owed == IF Phase = "closing" THEN req[CHOOSE r \in Asked : TRUE].amount ELSE 0

Promise == INSTANCE StreamLedger WITH
    Vested <- Streamed, phase <- Phase, start <- row.start, owed <- Owed

PromiseKept == Promise!Spec

\* What the promise is for: both shares fit the deposit, and the recipient's fits
\* what has vested.
FairShares == Promise!FairShares

\* Every request that reaches a handler is answered or its handler is killed.
EveryRequestAnswered ==
    \A r \in Requests : req[r].pc = "read" ~> req[r].pc = "done"

-----------------------------------------------------------------------------
(* What the documents say of a stream and the code does not do.            *)

\* WHITEPAPER.md: the recipient can withdraw only the amount that has vested.
OnlyVestedReceived == received <= Streamed(now, row.start)

\* cancel/route.ts: the recipient can still withdraw what was already streamed
\* before cancellation, so no withdrawal of it is turned away for the cancelling.
StreamedStaysWithdrawable ==
    (\E r \in Requests : req[r].outcome = "stream cancelled")
        => received >= Streamed(row.cancelledAt, row.start)
=============================================================================
