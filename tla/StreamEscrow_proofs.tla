------------------------ MODULE StreamEscrow_proofs ------------------------
(***************************************************************************)
(* What StreamEscrow guarantees for every number of requests, every curve  *)
(* and every amount: under all the faults it models, with one request at a *)
(* time, and without faults, when it keeps the promise of StreamLedger.    *)
(***************************************************************************)
EXTENDS StreamEscrow, CollectionLemmas

\* The vested amount is an amount of the stream.
LEMMA StreamedRange ==
    ASSUME NEW t \in Int, NEW start \in Int
    PROVE  Streamed(t, start) \in 0..Total
BY AmountAssumption, CurveAssumption DEF Streamed

\* What has streamed never shrinks as time passes.
LEMMA StreamedMonotone ==
    ASSUME NEW t \in Int, NEW u \in Int, NEW start \in Int, t <= u
    PROVE  Streamed(t, start) <= Streamed(u, start)
<1>1. Streamed(t, start) \in 0..Total /\ Streamed(u, start) \in 0..Total
  BY StreamedRange
<1>2. CASE t <= start
  BY <1>1, <1>2, AmountAssumption DEF Streamed
<1>3. CASE u >= start + Duration
  <2>1. Streamed(u, start) = Total
    BY <1>3, AmountAssumption DEF Streamed
  <2> QED
    BY <1>1, <2>1, AmountAssumption
<1>4. CASE t > start /\ u < start + Duration
  <2>1. t - start \in 0..Duration /\ u - start \in 0..Duration /\ t - start <= u - start
    BY <1>4, AmountAssumption
  <2>2. Streamed(t, start) = Curve[t - start] /\ Streamed(u, start) = Curve[u - start]
    BY <1>4, AmountAssumption DEF Streamed
  <2> QED
    BY <2>1, <2>2, CurveAssumption
<1> QED
  BY <1>2, <1>3, <1>4, AmountAssumption

-----------------------------------------------------------------------------
(* Type correctness.                                                       *)

\* Setting any field of a request to a value of the field's type.
LEMMA RequestUpdate ==
    ASSUME TypeOK, NEW r \in Requests, NEW new \in Request,
           req' = [req EXCEPT ![r] = new]
    PROVE  req' \in [Requests -> Request]
BY DEF TypeOK

LEMMA BlankIsRequest ==
    ASSUME NEW pc \in Pcs, NEW kind \in RouteKinds, NEW outcome \in Outcomes
    PROVE  Blank(pc, kind, outcome) \in Request
BY DEF Blank, Request, Hashes, Statuses

\* A handler that returns leaves the requests well typed, and so does one that
\* only moves to its next step.
LEMMA FinishTyped ==
    ASSUME TypeOK, NEW r \in Requests, NEW outcome \in Outcomes, Finish(r, outcome)
    PROVE  req' \in [Requests -> Request]
<1>1. Blank("done", req[r].kind, outcome) \in Request
  BY BlankIsRequest DEF TypeOK, Request, Pcs
<1> QED
  BY <1>1, RequestUpdate DEF Finish

LEMMA GotoTyped ==
    ASSUME TypeOK, NEW r \in Requests, NEW pc \in Pcs, Goto(r, pc)
    PROVE  req' \in [Requests -> Request]
BY DEF Goto, TypeOK, Request

\* The routes turn away what would pay nothing, so every step keeps PaysSomething.
LEMMA PaysSomethingStep ==
    ASSUME TypeOK, [Next]_vars
    PROVE  PaysSomething'
<1>1. ASSUME NEW r \in Requests
      PROVE  \/ req'[r] = req[r] \/ req'[r].pc # "pay" \/ req'[r].amount > 0
  <2>1. ASSUME NEW q \in Requests, NEW outcome, Finish(q, outcome)
        PROVE  req'[r] = req[r] \/ req'[r].pc # "pay"
    BY <2>1 DEF Finish, Blank, TypeOK
  <2>2. ASSUME NEW q \in Requests, NEW pc, pc # "pay", Goto(q, pc)
        PROVE  req'[r] = req[r] \/ req'[r].pc # "pay"
    BY <2>2 DEF Goto, TypeOK, Request
  <2>3. ASSUME NEW q \in Requests, PaymentFailed(q)
        PROVE  req'[r] = req[r] \/ req'[r].pc # "pay"
    BY <2>1, <2>2, <2>3 DEF PaymentFailed
  <2>4. ASSUME NEW q \in Requests, CheckWithdraw(q)
        PROVE  req'[r] = req[r] \/ req'[r].pc # "pay" \/ req'[r].amount > 0
    <3>1. CASE \E outcome : Finish(q, outcome)
      BY <2>1, <3>1
    <3>2. CASE ~ \E outcome : Finish(q, outcome)
      <4>1. PICK amount :
              /\ ~Refused(q, amount) /\ amount \in Nat
              /\ req' = [req EXCEPT ![q] = [@ EXCEPT !.pc = "pay", !.amount = amount]]
        <5>1. Streamed(now, row.start) \in 0..Total
          <6>1. now \in Int /\ row.start \in Int
            BY AmountAssumption DEF TypeOK, Row
          <6> QED
            BY <6>1, StreamedRange
        <5>2. Withdrawable(q) \in Nat
          BY <5>1, AmountAssumption DEF Withdrawable, TypeOK, Request
        <5> QED
          BY <2>4, <3>2, <5>2, AmountAssumption DEF CheckWithdraw
      <4>2. amount > 0
        BY <4>1 DEF Refused
      <4> QED
        BY <4>1, <4>2 DEF TypeOK, Request
    <3> QED
      BY <3>1, <3>2
  <2>5. ASSUME NEW q \in Requests, CheckReport(q)
        PROVE  req'[r] = req[r] \/ req'[r].pc # "pay"
    BY <2>1, <2>5 DEF CheckReport, TypeOK, Request
  <2>6. ASSUME NEW q \in Requests, CheckCancel(q)
        PROVE  req'[r] = req[r] \/ req'[r].pc # "pay" \/ req'[r].amount > 0
    BY <2>1, <2>6 DEF CheckCancel, TypeOK, Request
  <2>7. ASSUME NEW q \in Requests, PaymentMade(q)
        PROVE  req'[r] = req[r] \/ req'[r].pc # "pay"
    BY <2>7 DEF PaymentMade, NextAfterPayment, TypeOK, Request
  <2>8. CASE Tick \/ FundEscrow \/ CreateStream \/ UNCHANGED vars
    BY <2>8 DEF Tick, FundEscrow, CreateStream, vars
  <2>9. ASSUME NEW q \in Requests,
               ApplyTx(q) \/ RejectTx(q) \/ DropTx(q)
        PROVE  req'[r] = req[r]
    BY <2>9 DEF ApplyTx, RejectTx, DropTx
  <2>10. ASSUME NEW q \in Requests, NEW kind \in RouteKinds, Begin(q, kind)
         PROVE  req'[r] = req[r] \/ req'[r].pc # "pay"
    BY <2>10 DEF Begin, TypeOK, Request
  <2>11. ASSUME NEW q \in Requests, ReadRow(q) \/ RefreshStatus(q)
         PROVE  req'[r] = req[r] \/ req'[r].pc # "pay"
    BY <2>1, <2>11 DEF ReadRow, RefreshStatus, TypeOK, Request
  <2>12. ASSUME NEW q \in Requests, AnswerGet(q) \/ CheckDelete(q) \/ Crash(q)
         PROVE  req'[r] = req[r] \/ req'[r].pc # "pay"
    BY <2>1, <2>2, <2>12 DEF AnswerGet, CheckDelete, Crash
  <2>13. ASSUME NEW q \in Requests, SubmitPayment(q)
         PROVE  req'[r] = req[r] \/ req'[r].pc # "pay"
    BY <2>2, <2>3, <2>13 DEF SubmitPayment
  <2>14. ASSUME NEW q \in Requests, PaymentAnswer(q) \/ PaymentTimeout(q)
         PROVE  req'[r] = req[r] \/ req'[r].pc # "pay"
    BY <2>3, <2>7, <2>14 DEF PaymentAnswer, PaymentTimeout
  <2>15. ASSUME NEW q \in Requests, RecordWithdrawal(q) \/ CancelStream(q)
         PROVE  req'[r] = req[r] \/ req'[r].pc # "pay"
    BY <2>1, <2>15 DEF RecordWithdrawal, CancelStream
  <2> QED
    BY <2>4, <2>5, <2>6, <2>8, <2>9, <2>10, <2>11, <2>12, <2>13, <2>14, <2>15
    DEF Next, Handler, Network
<1>2. ASSUME NEW r \in Requests
      PROVE  \/ tx'[r].state = "none"
             \/ tx[r].state # "none" /\ tx'[r].amount = tx[r].amount
             \/ req[r].pc = "pay" /\ tx'[r].amount = req[r].amount
  <2>1. ASSUME NEW q \in Requests, SubmitPayment(q)
        PROVE  tx'[r] = tx[r] \/ (req[r].pc = "pay" /\ tx'[r].amount = req[r].amount)
    BY <2>1 DEF SubmitPayment, TypeOK
  <2>2. ASSUME NEW q \in Requests, ApplyTx(q) \/ RejectTx(q) \/ DropTx(q)
        PROVE  tx'[r] = tx[r] \/ (tx[r].state # "none" /\ tx'[r].amount = tx[r].amount)
    BY <2>2 DEF ApplyTx, RejectTx, DropTx, TypeOK, Transaction
  <2>3. CASE UNCHANGED tx
    BY <2>3
  <2> QED
    BY <2>1, <2>2, <2>3
    DEF Next, vars, Tick, FundEscrow, CreateStream, Begin, Handler, Network, ReadRow,
        RefreshStatus, AnswerGet, CheckWithdraw, CheckReport, CheckCancel, CheckDelete,
        PaymentAnswer, RecordWithdrawal, CancelStream, PaymentTimeout, Crash
<1> QED
  BY <1>1, <1>2 DEF PaysSomething, TypeOK

\* Every reachable state is well typed; no balance, share or record of the
\* withdrawals goes below zero however the handlers interleave.
THEOREM TypeCorrect == Spec => []TypeOK
<1>1. Init => TypeOK
  <2> SUFFICES ASSUME Init PROVE TypeOK
    OBVIOUS
  <2>1. row \in Row
    BY AmountAssumption DEF Init, NoRow, NewRow, Row, Hashes
  <2>2. req \in [Requests -> Request]
    BY BlankIsRequest DEF Init, Pcs, RouteKinds, Outcomes
  <2>3. tx \in [Requests -> Transaction]
    BY DEF Init, NoTx, Transaction
  <2>4. PaysSomething
    BY DEF Init, Blank, NoTx, PaysSomething
  <2> QED
    BY <2>1, <2>2, <2>3, <2>4, AmountAssumption DEF Init, TypeOK, Escrow
<1>2. TypeOK /\ [Next]_vars => TypeOK'
  <2> SUFFICES ASSUME TypeOK, [Next]_vars PROVE TypeOK'
    OBVIOUS
  <2>p. PaysSomething'
    BY PaysSomethingStep
  <2>0. Streamed(now, row.start) \in 0..Total
    <3>1. now \in Int /\ row.start \in Int
      BY AmountAssumption DEF TypeOK, Row
    <3> QED
      BY <3>1, StreamedRange
  <2>1. CASE Tick
    BY <2>p, <2>1, AmountAssumption DEF Tick, TypeOK
  <2>2. CASE FundEscrow
    BY <2>p, <2>2, AmountAssumption DEF FundEscrow, Deposit, TypeOK, Escrow
  <2>3. CASE CreateStream
    <3>1. row' \in Row
      BY <2>3, AmountAssumption DEF CreateStream, TypeOK, Row, NewRow, Statuses, Hashes
    <3> QED
      BY <2>p, <2>3, <3>1 DEF CreateStream, TypeOK
  <2>4. ASSUME NEW r \in Requests, NEW kind \in RouteKinds, Begin(r, kind)
        PROVE TypeOK'
    <3>1. [req[r] EXCEPT !.pc = "read", !.kind = kind] \in Request
      BY DEF TypeOK, Request, Pcs
    <3> QED
      BY <2>p, <2>4, <3>1 DEF Begin, TypeOK
  <2>5. ASSUME NEW r \in Requests, ReadRow(r) PROVE TypeOK'
    <3>1. req' \in [Requests -> Request]
      <4>1. CASE row.status = "none"
        BY <2>5, <4>1, FinishTyped DEF ReadRow, Outcomes
      <4>2. CASE row.status # "none"
        <5>1. [req[r] EXCEPT !.pc = "refresh", !.status = row.status,
                             !.withdrawn = row.withdrawn] \in Request
          BY DEF TypeOK, Request, Row, Pcs
        <5> QED
          BY <2>5, <4>2, <5>1 DEF ReadRow, TypeOK
      <4> QED
        BY <4>1, <4>2
    <3> QED
      BY <2>p, <2>5, <3>1 DEF ReadRow, TypeOK
  <2>6. ASSUME NEW r \in Requests, RefreshStatus(r) PROVE TypeOK'
    <3>1. RefreshedStatus(req[r].status) \in Statuses \cup {"none"}
      BY DEF TypeOK, Request, RefreshedStatus, Statuses
    <3>2. row' \in Row
      BY <2>6, <3>1 DEF RefreshStatus, TypeOK, Row
    <3>3. req' \in [Requests -> Request]
      <4>1. [req[r] EXCEPT !.status = RefreshedStatus(req[r].status), !.pc = "check"]
              \in Request
        BY <3>1 DEF TypeOK, Request, Pcs
      <4> QED
        BY <2>6, <4>1 DEF RefreshStatus, TypeOK
    <3> QED
      BY <2>p, <2>6, <3>2, <3>3 DEF RefreshStatus, TypeOK
  <2>7. ASSUME NEW r \in Requests, AnswerGet(r) PROVE TypeOK'
    BY <2>p, <2>7, FinishTyped DEF AnswerGet, TypeOK, Outcomes
  <2>8. ASSUME NEW r \in Requests, CheckWithdraw(r) PROVE TypeOK'
    <3>0. Withdrawable(r) \in Nat
      BY <2>0, AmountAssumption DEF Withdrawable, TypeOK, Request
    <3>1. req' \in [Requests -> Request]
      <4>1. ASSUME NEW outcome \in {"stream cancelled", "rejected"}, Finish(r, outcome)
            PROVE req' \in [Requests -> Request]
        BY <4>1, FinishTyped DEF Outcomes
      <4>2. ASSUME NEW a \in Nat,
                   req' = [req EXCEPT ![r] = [@ EXCEPT !.pc = "pay", !.amount = a]]
            PROVE req' \in [Requests -> Request]
        <5>1. [req[r] EXCEPT !.pc = "pay", !.amount = a] \in Request
          BY DEF TypeOK, Request, Pcs
        <5> QED
          BY <4>2, <5>1 DEF TypeOK
      <4> QED
        BY <2>8, <3>0, <4>1, <4>2, AmountAssumption DEF CheckWithdraw
    <3> QED
      BY <2>p, <2>8, <3>1 DEF CheckWithdraw, TypeOK
  <2>9. ASSUME NEW r \in Requests, CheckReport(r) PROVE TypeOK'
    <3>1. req' \in [Requests -> Request]
      <4>1. ASSUME NEW outcome \in {"stream cancelled", "rejected"}, Finish(r, outcome)
            PROVE req' \in [Requests -> Request]
        BY <4>1, FinishTyped DEF Outcomes
      <4>2. ASSUME NEW a \in Nat,
                   req' = [req EXCEPT ![r] = [@ EXCEPT !.pc = "record", !.amount = a,
                                                       !.hash = ClientHash]]
            PROVE req' \in [Requests -> Request]
        <5>1. [req[r] EXCEPT !.pc = "record", !.amount = a, !.hash = ClientHash]
                \in Request
          BY DEF TypeOK, Request, Pcs, Hashes
        <5> QED
          BY <4>2, <5>1 DEF TypeOK
      <4> QED
        BY <2>9, <4>1, <4>2, AmountAssumption DEF CheckReport
    <3> QED
      BY <2>p, <2>9, <3>1 DEF CheckReport, TypeOK
  <2>10. ASSUME NEW r \in Requests, CheckCancel(r) PROVE TypeOK'
    <3>0. Refund(r) \in Nat
      BY <2>0, AmountAssumption DEF Refund
    <3>1. CASE req[r].status \in {"cancelled", "completed"}
      BY <2>p, <2>10, <3>1, FinishTyped DEF CheckCancel, TypeOK, Outcomes
    <3>2. CASE req[r].status \notin {"cancelled", "completed"}
      <4>1. [req[r] EXCEPT !.pc = IF Refund(r) > 0 THEN "pay" ELSE "close",
                           !.amount = Refund(r)] \in Request
        BY <3>0 DEF TypeOK, Request, Pcs
      <4> QED
        BY <2>p, <2>10, <3>2, <4>1 DEF CheckCancel, TypeOK
    <3> QED
      BY <3>1, <3>2
  <2>11. ASSUME NEW r \in Requests, CheckDelete(r) PROVE TypeOK'
    BY <2>p, <2>11, FinishTyped, GotoTyped DEF CheckDelete, TypeOK, Outcomes, Pcs
  <2>12. ASSUME NEW r \in Requests, PaymentFailed(r) PROVE req' \in [Requests -> Request]
    BY <2>12, FinishTyped, GotoTyped DEF PaymentFailed, Outcomes, Pcs
  <2>13. ASSUME NEW r \in Requests, SubmitPayment(r) PROVE TypeOK'
    <3>1. req' \in [Requests -> Request]
      BY <2>12, <2>13, GotoTyped DEF SubmitPayment, Pcs
    <3>2. tx' \in [Requests -> Transaction]
      BY <2>13 DEF SubmitPayment, Recipient, TypeOK, Request, Escrow, Transaction
    <3> QED
      BY <2>p, <2>13, <3>1, <3>2 DEF SubmitPayment, TypeOK
  <2>14. ASSUME NEW r \in Requests, PaymentAnswer(r) PROVE TypeOK'
    <3>1. CASE PaymentFailed(r)
      BY <2>p, <2>12, <2>14, <3>1 DEF PaymentAnswer, TypeOK
    <3>2. CASE PaymentMade(r)
      <4>1. [req[r] EXCEPT !.pc = NextAfterPayment(req[r].kind), !.hash = r] \in Request
        BY DEF NextAfterPayment, TypeOK, Request, Pcs, Hashes
      <4> QED
        BY <2>p, <2>14, <3>2, <4>1 DEF PaymentAnswer, PaymentMade, TypeOK
    <3> QED
      BY <2>p, <2>14, <3>1, <3>2 DEF PaymentAnswer
  <2>15. ASSUME NEW r \in Requests, RecordWithdrawal(r) PROVE TypeOK'
    <3>1. req' \in [Requests -> Request]
      BY <2>15, FinishTyped DEF RecordWithdrawal, Outcomes
    <3>2. row' \in Row
      <4>1. row.withdrawn + req[r].amount \in Nat /\ req[r].hash \in Hashes
        BY DEF TypeOK, Row, Request
      <4>2. [row EXCEPT !.withdrawn = @ + req[r].amount, !.lastTx = req[r].hash] \in Row
        BY <4>1 DEF TypeOK, Row
      <4> QED
        BY <2>15, <4>2 DEF RecordWithdrawal, TypeOK
    <3> QED
      BY <2>p, <2>15, <3>1, <3>2 DEF RecordWithdrawal, TypeOK
  <2>16. ASSUME NEW r \in Requests, CancelStream(r) PROVE TypeOK'
    <3>1. req' \in [Requests -> Request]
      BY <2>16, FinishTyped DEF CancelStream, Outcomes
    <3>2. row' \in Row
      BY <2>16 DEF CancelStream, TypeOK, Row, Request, Statuses
    <3> QED
      BY <2>p, <2>16, <3>1, <3>2 DEF CancelStream, TypeOK
  <2>17. ASSUME NEW r \in Requests, ApplyTx(r) PROVE TypeOK'
    <3>1. tx' \in [Requests -> Transaction]
      BY <2>17 DEF ApplyTx, TypeOK, Transaction
    <3>2. tx[r].amount \in Nat /\ escrow.balance \in Nat /\ escrow.seq \in Nat
      BY DEF TypeOK, Transaction, Escrow
    <3>3. received' \in Nat /\ refunded' \in Nat
      BY <2>17, <3>2 DEF ApplyTx, TypeOK
    <3>4. escrow' \in Escrow
      <4> DEFINE left == escrow.balance - Fee
                 balance == IF Covered(left, tx[r].amount)
                            THEN left - tx[r].amount ELSE left
      <4>1. balance \in Nat
        BY <2>17, <3>2, AmountAssumption DEF ApplyTx, Covered
      <4>2. escrow' = [escrow EXCEPT !.seq = @ + 1, !.balance = balance]
        BY <2>17 DEF ApplyTx
      <4> HIDE DEF left, balance
      <4>3. escrow.seq + 1 \in Nat
        BY <3>2
      <4> QED
        BY <4>1, <4>2, <4>3 DEF TypeOK, Escrow
    <3> QED
      BY <2>p, <2>17, <3>1, <3>3, <3>4 DEF ApplyTx, TypeOK
  <2>18. ASSUME NEW r \in Requests, RejectTx(r) \/ DropTx(r) PROVE TypeOK'
    BY <2>p, <2>18 DEF RejectTx, DropTx, TypeOK, Transaction
  <2>19. ASSUME NEW r \in Requests, PaymentTimeout(r) PROVE TypeOK'
    BY <2>p, <2>12, <2>19 DEF PaymentTimeout, TypeOK
  <2>20. ASSUME NEW r \in Requests, Crash(r) PROVE TypeOK'
    BY <2>p, <2>20, FinishTyped DEF Crash, TypeOK, Outcomes
  <2>21. CASE UNCHANGED vars
    BY <2>p, <2>21 DEF vars, TypeOK
  <2> QED
    BY <2>1, <2>2, <2>3, <2>4, <2>5, <2>6, <2>7, <2>8, <2>9, <2>10, <2>11, <2>13,
       <2>14, <2>15, <2>16, <2>17, <2>18, <2>19, <2>20, <2>21
    DEF Next, Handler, Network
<1> QED
  BY <1>1, <1>2, PTL DEF Spec

-----------------------------------------------------------------------------
(* The row is closed once.                                                 *)

\* No step of any handler moves a completed or cancelled row to another status:
\* each UPDATE asks for a status that is still open, or for the one it changes.
THEOREM ClosedOnceHolds == Spec => ClosedOnce
<1>1. TypeOK /\ [Next]_vars
        => (row.status \in {"completed", "cancelled"} => row'.status = row.status)
  <2> SUFFICES ASSUME TypeOK, [Next]_vars, row.status \in {"completed", "cancelled"}
               PROVE  row'.status = row.status
    OBVIOUS
  <2>1. ASSUME NEW r \in Requests, RefreshStatus(r) PROVE row'.status = row.status
    <3>1. row.status # req[r].status
      BY <2>1 DEF RefreshStatus, RefreshedStatus, RefreshUpdates
    <3> QED
      BY <2>1, <3>1 DEF RefreshStatus, RefreshUpdates
  <2>2. ASSUME NEW r \in Requests, RecordWithdrawal(r) PROVE row'.status = row.status
    BY <2>2 DEF RecordWithdrawal, TypeOK, Row
  <2>3. ASSUME NEW r \in Requests, CancelStream(r) PROVE row'.status = row.status
    BY <2>3 DEF CancelStream, CancellableStatuses
  <2>4. CASE CreateStream
    BY <2>4 DEF CreateStream
  <2> QED
    BY <2>1, <2>2, <2>3, <2>4
    DEF Next, vars, Tick, FundEscrow, Begin, Handler, Network, ReadRow, AnswerGet,
        CheckWithdraw, CheckReport, CheckCancel, CheckDelete, SubmitPayment,
        PaymentAnswer, ApplyTx, RejectTx, DropTx, PaymentTimeout, Crash
<1> QED
  BY <1>1, TypeCorrect, PTL DEF Spec, ClosedOnce

\* A cancelled row is never written again, so a withdrawal paid while the stream
\* was being cancelled never reaches it.
THEOREM CancelledRowFrozenHolds == Spec => CancelledRowFrozen
<1>1. TypeOK /\ [Next]_vars => (row.status = "cancelled" => row' = row)
  <2> SUFFICES ASSUME TypeOK, [Next]_vars, row.status = "cancelled" PROVE row' = row
    OBVIOUS
  <2>1. ASSUME NEW r \in Requests, RefreshStatus(r) PROVE row' = row
    BY <2>1 DEF RefreshStatus, RefreshedStatus, RefreshUpdates
  <2>2. ASSUME NEW r \in Requests, RecordWithdrawal(r) PROVE row' = row
    BY <2>2 DEF RecordWithdrawal, WithdrawableStatuses
  <2>3. ASSUME NEW r \in Requests, CancelStream(r) PROVE row' = row
    BY <2>3 DEF CancelStream, CancellableStatuses
  <2>4. CASE CreateStream
    BY <2>4 DEF CreateStream
  <2> QED
    BY <2>1, <2>2, <2>3, <2>4
    DEF Next, vars, Tick, FundEscrow, Begin, Handler, Network, ReadRow, AnswerGet,
        CheckWithdraw, CheckReport, CheckCancel, CheckDelete, SubmitPayment,
        PaymentAnswer, ApplyTx, RejectTx, DropTx, PaymentTimeout, Crash
<1> QED
  BY <1>1, TypeCorrect, PTL DEF Spec, CancelledRowFrozen

-----------------------------------------------------------------------------
(* The inductive invariant behind the payments: what the place a handler has *)
(* reached says of its locals, of its transaction and of the row.            *)

\* The row exists as soon as one handler has read it, so its start is fixed.
RowRead(r) ==
    row.status = "none" =>
        req[r].pc \in {"idle", "read", "done"} /\ tx[r].state = "none"

\* A withdrawal that is about to be paid, and one that was submitted, is vested.
Vested(r) ==
    /\ req[r].pc = "pay" /\ req[r].kind = "withdraw"
         => req[r].amount <= Streamed(now, row.start)
    /\ tx[r].state # "none" /\ tx[r].to = "recipient"
         => tx[r].amount <= Streamed(now, row.start)

\* A handler submits at most once, and holds a hash of its own only after the
\* ledger has applied its transaction.
Submitted(r) ==
    /\ tx[r].state # "none" => req[r].pc \in {"await", "record", "close", "done"}
    /\ req[r].pc = "await" => tx[r].to = Recipient(req[r].kind)
    /\ req[r].hash \in Requests =>
         /\ req[r].hash = r
         /\ req[r].pc \in {"record", "close"}
         /\ tx[r].state = "applied"
         /\ tx[r].to = Recipient(req[r].kind)
    /\ req[r].pc = "record" => req[r].kind \in {"withdraw", "report"}
    /\ req[r].pc = "record" /\ req[r].hash \in Requests => req[r].kind = "withdraw"
    /\ req[r].pc = "close" => req[r].kind \in {"cancel", "delete"}
    /\ req[r].pc \in {"pay", "await"} => req[r].kind \in {"withdraw", "cancel"}

PaymentInv ==
    /\ \A r \in Requests : RowRead(r) /\ Vested(r) /\ Submitted(r)
    /\ RecordedHashesApplied

\* A step that leaves the clock and the row's start alone, or only lets time
\* pass, keeps vested what was vested.
LEMMA StreamedKept ==
    ASSUME TypeOK, TypeOK', now <= now', row'.start = row.start
    PROVE  \A a \in Nat : a <= Streamed(now, row.start) => a <= Streamed(now', row'.start)
<1>1. now \in Int /\ now' \in Int /\ row.start \in Int
  BY AmountAssumption DEF TypeOK, Row
<1>2. Streamed(now, row.start) \in 0..Total /\ Streamed(now', row.start) \in 0..Total
  BY <1>1, StreamedRange
<1>3. Streamed(now, row.start) <= Streamed(now', row.start)
  BY <1>1, StreamedMonotone
<1> QED
  BY <1>2, <1>3, AmountAssumption

\* What every handler leaves of the row: its existence, its start, and hashes
\* that are the old ones or the hash the handler holds.
RowKept(r) ==
    /\ row.status # "none" => row'.status # "none"
    /\ row'.status # "none" => row'.start = row.start /\ row.status # "none"
    /\ row'.lastTx = row.lastTx \/ (req[r].pc = "record" /\ row'.lastTx = req[r].hash)
    /\ row'.cancelTx = row.cancelTx \/ (req[r].pc = "close" /\ row'.cancelTx = req[r].hash)

\* A step that moves one request, and no transaction but its own, keeps the
\* invariant if it keeps it for that request.
LEMMA OneRequestMoves ==
    ASSUME TypeOK, TypeOK', PaymentInv, NEW r \in Requests,
           now' = now, RowKept(r),
           \A q \in Requests \ {r} : req'[q] = req[q] /\ tx'[q] = tx[q],
           tx[r].state = "applied" => tx'[r] = tx[r],
           RowRead(r)', Vested(r)', Submitted(r)'
    PROVE  PaymentInv'
<1>1. ASSUME NEW q \in Requests \ {r} PROVE RowRead(q)' /\ Vested(q)' /\ Submitted(q)'
  <2>0. req'[q] = req[q] /\ tx'[q] = tx[q] /\ RowRead(q) /\ Vested(q) /\ Submitted(q)
    BY DEF PaymentInv
  <2>1. RowRead(q)'
    BY <2>0 DEF RowRead, RowKept
  <2>2. Vested(q)'
    <3>1. CASE row.status = "none"
      BY <3>1, <2>0, <2>1 DEF RowRead, RowKept, Vested
    <3>2. CASE row.status # "none"
      <4>1. row'.start = row.start
        BY <3>2 DEF RowKept
      <4> QED
        BY <2>0, <4>1 DEF Vested
    <3> QED
      BY <3>1, <3>2
  <2>3. Submitted(q)'
    BY <2>0 DEF Submitted
  <2> QED
    BY <2>1, <2>2, <2>3
<1>2. \A q \in Requests : tx[q].state = "applied" => tx'[q] = tx[q]
  OBVIOUS
<1>3. ASSUME row'.lastTx \in Requests
      PROVE  tx'[row'.lastTx].state = "applied" /\ tx'[row'.lastTx].to = "recipient"
  BY <1>2, <1>3 DEF RowKept, PaymentInv, Submitted, RecordedHashesApplied, Recipient
<1>4. ASSUME row'.cancelTx \in Requests
      PROVE  tx'[row'.cancelTx].state = "applied" /\ tx'[row'.cancelTx].to = "sender"
  BY <1>2, <1>4 DEF RowKept, PaymentInv, Submitted, RecordedHashesApplied, Recipient
<1> QED
  BY <1>1, <1>3, <1>4 DEF PaymentInv, RecordedHashesApplied

\* A handler that returns keeps the invariant.
LEMMA ReturnKeeps ==
    ASSUME TypeOK, TypeOK', PaymentInv, NEW r \in Requests, NEW outcome,
           Finish(r, outcome), InFlight(r), tx' = tx, now' = now, RowKept(r)
    PROVE  PaymentInv'
<1>1. req'[r].pc = "done" /\ req'[r].hash = NoHash
  BY DEF Finish, Blank, TypeOK
<1>2. RowRead(r) /\ Vested(r) /\ Submitted(r)
  BY DEF PaymentInv
<1>3. RowRead(r)'
  BY <1>1, <1>2 DEF RowRead, RowKept
<1>4. Vested(r)'
  BY <1>1, <1>2, <1>3 DEF Vested, RowRead, RowKept
<1>5. Submitted(r)'
  BY <1>1, <1>2, HashAssumption DEF Submitted
<1>6. \A q \in Requests \ {r} : req'[q] = req[q]
  BY DEF Finish, TypeOK
<1> QED
  BY <1>3, <1>4, <1>5, <1>6, OneRequestMoves

\* The inductive invariant holds.
LEMMA PaymentInvHolds == Spec => []PaymentInv
<1>1. Init => PaymentInv
  <2> SUFFICES ASSUME Init PROVE PaymentInv
    OBVIOUS
  <2>1. RecordedHashesApplied
    BY HashAssumption DEF Init, NoRow, NewRow, RecordedHashesApplied
  <2>2. ASSUME NEW r \in Requests PROVE RowRead(r) /\ Vested(r) /\ Submitted(r)
    <3>1. req[r].pc = "idle" /\ req[r].hash = NoHash /\ tx[r].state = "none"
      BY DEF Init, Blank, NoTx
    <3> QED
      BY <3>1, HashAssumption DEF RowRead, Vested, Submitted
  <2> QED
    BY <2>1, <2>2 DEF PaymentInv
<1>2. TypeOK /\ TypeOK' /\ PaymentInv /\ [Next]_vars => PaymentInv'
  <2> SUFFICES ASSUME TypeOK, TypeOK', PaymentInv, [Next]_vars PROVE PaymentInv'
    OBVIOUS
  <2>0. ASSUME NEW r \in Requests PROVE RowRead(r) /\ Vested(r) /\ Submitted(r)
    BY DEF PaymentInv
  <2>1. CASE Tick
    <3>1. now <= now' /\ row' = row /\ req' = req /\ tx' = tx
      BY <2>1, AmountAssumption DEF Tick, TypeOK
    <3>2. \A r \in Requests : Vested(r)'
      BY <2>0, <3>1, StreamedKept DEF Vested, TypeOK, Request, Transaction
    <3> QED
      BY <3>1, <3>2 DEF PaymentInv, RowRead, Submitted, RecordedHashesApplied
  <2>2. CASE CreateStream
    <3>1. ASSUME NEW r \in Requests PROVE RowRead(r)' /\ Vested(r)' /\ Submitted(r)'
      BY <2>0, <2>2 DEF CreateStream, RowRead, Vested, Submitted, NewRow
    <3>2. RecordedHashesApplied'
      BY <2>2, HashAssumption DEF CreateStream, NewRow, RecordedHashesApplied
    <3> QED
      BY <3>1, <3>2 DEF PaymentInv
  <2>3. ASSUME NEW r \in Requests, NEW kind \in RouteKinds, Begin(r, kind)
        PROVE PaymentInv'
    <3>1. req[r].pc = "idle" /\ req'[r] = [req[r] EXCEPT !.pc = "read", !.kind = kind]
      BY <2>3 DEF Begin, TypeOK
    <3>2. req'[r].pc = "read" /\ req'[r].hash = req[r].hash /\ tx' = tx /\ row' = row
      BY <2>3, <3>1 DEF Begin, TypeOK, Request
    <3>3. RowRead(r)' /\ Vested(r)' /\ Submitted(r)'
      BY <2>0, <3>1, <3>2 DEF RowRead, Vested, Submitted
    <3> QED
      BY <2>3, <3>2, <3>3, OneRequestMoves DEF Begin, RowKept, TypeOK
  <2>4. ASSUME NEW r \in Requests, ReadRow(r) PROVE PaymentInv'
    <3>1. CASE row.status = "none"
      BY <2>4, <3>1, ReturnKeeps DEF ReadRow, RowKept, InFlight
    <3>2. CASE row.status # "none"
      <4>1. /\ req[r].pc = "read"
            /\ req'[r] = [req[r] EXCEPT !.pc = "refresh", !.status = row.status,
                                        !.withdrawn = row.withdrawn]
            /\ \A q \in Requests \ {r} : req'[q] = req[q]
            /\ UNCHANGED <<now, row, tx>>
        BY <2>4, <3>2 DEF ReadRow, TypeOK
      <4>2. req'[r].pc = "refresh" /\ req'[r].hash = req[r].hash
        BY <4>1 DEF TypeOK, Request
      <4>3. RowRead(r)' /\ Vested(r)' /\ Submitted(r)'
        BY <2>0, <3>2, <4>1, <4>2 DEF RowRead, Vested, Submitted
      <4> QED
        BY <4>1, <4>3, OneRequestMoves DEF RowKept
    <3> QED
      BY <3>1, <3>2
  <2>5. ASSUME NEW r \in Requests, RefreshStatus(r) PROVE PaymentInv'
    <3>1. /\ req[r].pc = "refresh"
          /\ req'[r] = [req[r] EXCEPT !.status = RefreshedStatus(req[r].status),
                                      !.pc = "check"]
          /\ \A q \in Requests \ {r} : req'[q] = req[q]
          /\ now' = now /\ tx' = tx
      BY <2>5 DEF RefreshStatus, TypeOK
    <3>2. req'[r].pc = "check" /\ req'[r].hash = req[r].hash
      BY <3>1 DEF TypeOK, Request
    <3>3. row.status # "none"
      BY <2>0, <3>1 DEF RowRead
    <3>4. /\ row'.status # "none" /\ row'.start = row.start
          /\ row'.lastTx = row.lastTx /\ row'.cancelTx = row.cancelTx
      BY <2>5, <3>3 DEF RefreshStatus, RefreshedStatus, TypeOK, Row
    <3>5. RowRead(r)' /\ Vested(r)' /\ Submitted(r)'
      BY <2>0, <3>1, <3>2, <3>4 DEF RowRead, Vested, Submitted
    <3> QED
      BY <3>1, <3>3, <3>4, <3>5, OneRequestMoves DEF RowKept
  <2>6. ASSUME NEW r \in Requests, AnswerGet(r) PROVE PaymentInv'
    BY <2>6, ReturnKeeps DEF AnswerGet, Checking, RowKept, InFlight
  <2>7. ASSUME NEW r \in Requests, CheckWithdraw(r) PROVE PaymentInv'
    <3>1. req[r].pc \in {"refresh", "check"} /\ req[r].kind = "withdraw"
          /\ UNCHANGED <<now, row, tx>>
      BY <2>7 DEF CheckWithdraw, Checking
    <3>2. ASSUME NEW outcome, Finish(r, outcome) PROVE PaymentInv'
      BY <3>1, <3>2, ReturnKeeps DEF RowKept, InFlight
    <3>3. ASSUME NEW a \in Nat, a <= Withdrawable(r), a # 0,
                 req' = [req EXCEPT ![r] = [@ EXCEPT !.pc = "pay", !.amount = a]]
          PROVE PaymentInv'
      <4>1. req'[r] = [req[r] EXCEPT !.pc = "pay", !.amount = a]
            /\ \A q \in Requests \ {r} : req'[q] = req[q]
        BY <3>3 DEF TypeOK
      <4>2. req'[r].pc = "pay" /\ req'[r].amount = a /\ req'[r].hash = req[r].hash
            /\ req'[r].kind = req[r].kind
        BY <4>1 DEF TypeOK, Request
      <4>3. a <= Streamed(now, row.start)
        <5>1. now \in Int /\ row.start \in Int /\ req[r].withdrawn \in Nat
          BY DEF TypeOK, Row, Request
        <5>2. Streamed(now, row.start) \in 0..Total
          BY <5>1, StreamedRange
        <5> QED
          BY <3>3, <5>1, <5>2, AmountAssumption DEF Withdrawable
      <4>4. RowRead(r)' /\ Vested(r)' /\ Submitted(r)'
        BY <2>0, <3>1, <4>2, <4>3 DEF RowRead, Vested, Submitted
      <4> QED
        BY <3>1, <4>1, <4>4, OneRequestMoves DEF RowKept
    <3>4. Withdrawable(r) \in Nat
      <4>1. now \in Int /\ row.start \in Int /\ req[r].withdrawn \in Nat
        BY DEF TypeOK, Row, Request
      <4>2. Streamed(now, row.start) \in 0..Total
        BY <4>1, StreamedRange
      <4> QED
        BY <4>1, <4>2, AmountAssumption DEF Withdrawable
    <3>5. QED
      <4>1. CASE Finish(r, "stream cancelled")
        BY <3>2, <4>1
      <4>2. ASSUME NEW a \in RequestedAmounts,
                   LET amount == IF a = 0 THEN Withdrawable(r) ELSE a
                   IN  IF amount > Withdrawable(r) \/ amount = 0
                       THEN Finish(r, "rejected")
                       ELSE req' = [req EXCEPT ![r] =
                                      [@ EXCEPT !.pc = "pay", !.amount = amount]]
            PROVE PaymentInv'
        <5> DEFINE amount == IF a = 0 THEN Withdrawable(r) ELSE a
        <5>1. amount \in Nat
          BY <3>4, AmountAssumption
        <5>2. CASE amount > Withdrawable(r) \/ amount = 0
          BY <3>2, <4>2, <5>2
        <5>3. CASE ~(amount > Withdrawable(r) \/ amount = 0)
          <6>1. amount <= Withdrawable(r)
            BY <3>4, <5>1, <5>3
          <6>2. req' = [req EXCEPT ![r] = [@ EXCEPT !.pc = "pay", !.amount = amount]]
            BY <4>2, <5>3
          <6> QED
            BY <3>3, <5>1, <5>3, <6>1, <6>2
        <5> QED
          BY <5>2, <5>3
      <4> QED
        BY <2>7, <4>1, <4>2 DEF CheckWithdraw, Refused
  <2>8. ASSUME NEW r \in Requests, CheckReport(r) PROVE PaymentInv'
    <3>1. req[r].pc \in {"refresh", "check"} /\ req[r].kind = "report"
          /\ UNCHANGED <<now, row, tx>>
      BY <2>8 DEF CheckReport, Checking
    <3>2. ASSUME NEW outcome, Finish(r, outcome) PROVE PaymentInv'
      BY <3>1, <3>2, ReturnKeeps DEF RowKept, InFlight
    <3>3. ASSUME NEW a \in Nat,
                 req' = [req EXCEPT ![r] = [@ EXCEPT !.pc = "record", !.amount = a,
                                                     !.hash = ClientHash]]
          PROVE PaymentInv'
      <4>1. req'[r] = [req[r] EXCEPT !.pc = "record", !.amount = a, !.hash = ClientHash]
            /\ \A q \in Requests \ {r} : req'[q] = req[q]
        BY <3>3 DEF TypeOK
      <4>2. req'[r].pc = "record" /\ req'[r].hash = ClientHash
            /\ req'[r].kind = req[r].kind
        BY <4>1 DEF TypeOK, Request
      <4>4. RowRead(r)' /\ Vested(r)' /\ Submitted(r)'
        BY <2>0, <3>1, <4>2, HashAssumption DEF RowRead, Vested, Submitted
      <4> QED
        BY <3>1, <4>1, <4>4, OneRequestMoves DEF RowKept
    <3> QED
      BY <2>8, <3>2, <3>3, AmountAssumption DEF CheckReport
  <2>9. ASSUME NEW r \in Requests, CheckCancel(r) PROVE PaymentInv'
    <3>1. req[r].pc \in {"refresh", "check"} /\ req[r].kind = "cancel"
          /\ UNCHANGED <<now, row, tx>>
      BY <2>9 DEF CheckCancel, Checking
    <3>2. CASE req[r].status \in {"cancelled", "completed"}
      BY <2>9, <3>1, <3>2, ReturnKeeps DEF CheckCancel, RowKept, InFlight
    <3>3. CASE req[r].status \notin {"cancelled", "completed"}
      <4>1. PICK pc \in {"pay", "close"} :
              /\ req'[r] = [req[r] EXCEPT !.pc = pc, !.amount = Refund(r)]
              /\ \A q \in Requests \ {r} : req'[q] = req[q]
        BY <2>9, <3>3 DEF CheckCancel, TypeOK
      <4>2. req'[r].pc = pc /\ req'[r].hash = req[r].hash /\ req'[r].kind = req[r].kind
        BY <4>1 DEF TypeOK, Request
      <4>3. RowRead(r)' /\ Vested(r)' /\ Submitted(r)'
        BY <2>0, <3>1, <4>1, <4>2 DEF RowRead, Vested, Submitted
      <4> QED
        BY <3>1, <4>1, <4>3, OneRequestMoves DEF RowKept
    <3> QED
      BY <3>2, <3>3
  <2>10. ASSUME NEW r \in Requests, CheckDelete(r) PROVE PaymentInv'
    <3>1. req[r].pc \in {"refresh", "check"} /\ req[r].kind = "delete"
          /\ UNCHANGED <<now, row, tx>>
      BY <2>10 DEF CheckDelete, Checking
    <3>2. CASE Finish(r, "rejected")
      BY <3>1, <3>2, ReturnKeeps DEF RowKept, InFlight
    <3>3. CASE Goto(r, "close")
      <4>1. req'[r] = [req[r] EXCEPT !.pc = "close"]
            /\ \A q \in Requests \ {r} : req'[q] = req[q]
        BY <3>3 DEF Goto, TypeOK
      <4>2. req'[r].pc = "close" /\ req'[r].hash = req[r].hash /\ req'[r].kind = req[r].kind
        BY <4>1 DEF TypeOK, Request
      <4>3. RowRead(r)' /\ Vested(r)' /\ Submitted(r)'
        BY <2>0, <3>1, <4>1, <4>2 DEF RowRead, Vested, Submitted
      <4> QED
        BY <3>1, <4>1, <4>3, OneRequestMoves DEF RowKept
    <3> QED
      BY <2>10, <3>2, <3>3 DEF CheckDelete
  <2>11. ASSUME NEW r \in Requests, req[r].pc \in {"pay", "await"}, PaymentFailed(r),
                UNCHANGED <<now, row, tx>>
         PROVE PaymentInv'
    <3>1. CASE req[r].kind = "withdraw"
      BY <2>11, <3>1, ReturnKeeps DEF PaymentFailed, RowKept, InFlight
    <3>2. CASE req[r].kind # "withdraw"
      <4>1. req'[r] = [req[r] EXCEPT !.pc = "close"]
            /\ \A q \in Requests \ {r} : req'[q] = req[q]
        BY <2>11, <3>2 DEF PaymentFailed, Goto, TypeOK
      <4>2. req'[r].pc = "close" /\ req'[r].hash = req[r].hash /\ req'[r].kind = req[r].kind
        BY <4>1 DEF TypeOK, Request
      <4>3. RowRead(r)' /\ Vested(r)' /\ Submitted(r)'
        BY <2>0, <2>11, <3>2, <4>2 DEF RowRead, Vested, Submitted
      <4> QED
        BY <2>11, <4>1, <4>3, OneRequestMoves DEF RowKept
    <3> QED
      BY <3>1, <3>2
  <2>12. ASSUME NEW r \in Requests, SubmitPayment(r) PROVE PaymentInv'
    <3>1. CASE req[r].kind = "withdraw" /\ escrow.balance - Reserve < req[r].amount
      BY <2>11, <2>12, <3>1 DEF SubmitPayment
    <3>2. CASE ~(req[r].kind = "withdraw" /\ escrow.balance - Reserve < req[r].amount)
      <4>1. /\ req[r].pc = "pay"
            /\ req'[r] = [req[r] EXCEPT !.pc = "await"]
            /\ tx'[r] = [state |-> "pending", seq |-> escrow.seq + 1,
                         to |-> Recipient(req[r].kind), amount |-> req[r].amount]
            /\ \A q \in Requests \ {r} : req'[q] = req[q] /\ tx'[q] = tx[q]
            /\ UNCHANGED <<now, row>>
        BY <2>12, <3>2 DEF SubmitPayment, Goto, TypeOK
      <4>2. req'[r].pc = "await" /\ req'[r].hash = req[r].hash /\ req'[r].kind = req[r].kind
        BY <4>1 DEF TypeOK, Request
      <4>3. tx'[r].to = Recipient(req[r].kind) /\ tx'[r].amount = req[r].amount
        BY <4>1
      <4>4. tx[r].state = "none"
        BY <2>0, <4>1 DEF Submitted, TypeOK, Transaction
      <4>5. RowRead(r)'
        BY <2>0, <4>1 DEF RowRead
      <4>6. Vested(r)'
        BY <2>0, <4>1, <4>2, <4>3 DEF Vested, Recipient
      <4>7. Submitted(r)'
        BY <2>0, <4>1, <4>2, <4>3 DEF Submitted
      <4> QED
        BY <4>1, <4>4, <4>5, <4>6, <4>7, OneRequestMoves DEF RowKept
    <3> QED
      BY <3>1, <3>2
  <2>13. ASSUME NEW r \in Requests, PaymentAnswer(r) PROVE PaymentInv'
    <3>1. CASE PaymentFailed(r)
      BY <2>11, <2>13, <3>1 DEF PaymentAnswer
    <3>2. CASE tx[r].state = "applied" /\ PaymentMade(r)
      <4>1. /\ req[r].pc = "await"
            /\ req'[r] = [req[r] EXCEPT !.pc = NextAfterPayment(req[r].kind), !.hash = r]
            /\ \A q \in Requests \ {r} : req'[q] = req[q]
            /\ UNCHANGED <<now, row, tx>>
        BY <2>13, <3>2 DEF PaymentAnswer, PaymentMade, TypeOK
      <4>2. /\ req'[r].pc = NextAfterPayment(req[r].kind) /\ req'[r].hash = r
            /\ req'[r].kind = req[r].kind
        BY <4>1 DEF TypeOK, Request
      <4>3. RowRead(r)' /\ Vested(r)'
        BY <2>0, <4>1, <4>2 DEF RowRead, Vested, NextAfterPayment
      <4>4. Submitted(r)'
        BY <2>0, <3>2, <4>1, <4>2 DEF Submitted, NextAfterPayment
      <4> QED
        BY <4>1, <4>3, <4>4, OneRequestMoves DEF RowKept
    <3> QED
      BY <2>13, <3>1, <3>2 DEF PaymentAnswer
  <2>14. ASSUME NEW r \in Requests, RecordWithdrawal(r) PROVE PaymentInv'
    <3>1. req[r].pc = "record" /\ tx' = tx /\ now' = now
      BY <2>14 DEF RecordWithdrawal
    <3>2. RowKept(r)
      BY <2>0, <2>14, <3>1 DEF RecordWithdrawal, RowKept, RowRead, TypeOK, Row
    <3> QED
      BY <2>14, <3>1, <3>2, ReturnKeeps DEF RecordWithdrawal, InFlight
  <2>15. ASSUME NEW r \in Requests, CancelStream(r) PROVE PaymentInv'
    <3>1. req[r].pc = "close" /\ tx' = tx /\ now' = now
      BY <2>15 DEF CancelStream
    <3>2. RowKept(r)
      BY <2>0, <2>15, <3>1 DEF CancelStream, RowKept, RowRead, TypeOK, Row
    <3> QED
      BY <2>15, <3>1, <3>2, ReturnKeeps DEF CancelStream, InFlight
  <2>16. ASSUME NEW r \in Requests, ApplyTx(r) \/ RejectTx(r) \/ DropTx(r)
         PROVE PaymentInv'
    <3>1. PICK state \in {"applied", "failed"} :
            tx[r].state = "pending" /\ tx' = [tx EXCEPT ![r].state = state]
      BY <2>16 DEF ApplyTx, RejectTx, DropTx
    <3>2. /\ tx'[r] = [tx[r] EXCEPT !.state = state]
          /\ \A q \in Requests \ {r} : tx'[q] = tx[q]
          /\ UNCHANGED <<now, row, req>>
      BY <2>16, <3>1 DEF ApplyTx, RejectTx, DropTx, TypeOK
    <3>3. tx'[r].state = state /\ tx'[r].to = tx[r].to /\ tx'[r].amount = tx[r].amount
      BY <3>2 DEF TypeOK, Transaction
    <3>4. RowRead(r)' /\ Vested(r)'
      BY <2>0, <3>1, <3>2, <3>3 DEF RowRead, Vested
    <3>5. Submitted(r)'
      BY <2>0, <3>1, <3>2, <3>3 DEF Submitted
    <3> QED
      BY <3>1, <3>2, <3>4, <3>5, OneRequestMoves DEF RowKept
  <2>17. ASSUME NEW r \in Requests, PaymentTimeout(r) PROVE PaymentInv'
    BY <2>11, <2>17 DEF PaymentTimeout
  <2>18. ASSUME NEW r \in Requests, Crash(r) PROVE PaymentInv'
    BY <2>18, ReturnKeeps DEF Crash, RowKept
  <2>19. CASE FundEscrow \/ UNCHANGED vars
    <3>1. now' = now /\ row' = row /\ req' = req /\ tx' = tx
      BY <2>19 DEF FundEscrow, vars
    <3> QED
      BY <3>1 DEF PaymentInv, RowRead, Vested, Submitted, RecordedHashesApplied, Streamed
  <2> QED
    BY <2>1, <2>2, <2>3, <2>4, <2>5, <2>6, <2>7, <2>8, <2>9, <2>10, <2>12, <2>13,
       <2>14, <2>15, <2>16, <2>17, <2>18, <2>19
    DEF Next, Handler, Network
<1> QED
  BY <1>1, <1>2, TypeCorrect, PTL DEF Spec

\* Whatever the handlers read, and however late the ledger includes what they
\* sent, no single payment to the recipient exceeds what has streamed.
THEOREM PaymentsVestedHolds == Spec => []PaymentsVested
<1>1. PaymentInv => PaymentsVested
  BY DEF PaymentInv, PaymentsVested, Vested
<1> QED
  BY <1>1, PaymentInvHolds, PTL

\* No handler writes into the row the hash of a payment the ledger did not apply,
\* or applied in the other direction.
THEOREM RecordedHashesAppliedHolds == Spec => []RecordedHashesApplied
<1>1. PaymentInv => RecordedHashesApplied
  BY DEF PaymentInv
<1> QED
  BY <1>1, PaymentInvHolds, PTL

-----------------------------------------------------------------------------
(* The books never show more than was paid.                                *)

\* The withdrawals that the ledger has paid and a handler is still going to record,
\* and what they are worth.
ToRecord ==
    {r \in Requests : /\ tx[r].state = "applied" /\ tx[r].to = "recipient"
                      /\ req[r].kind = "withdraw" /\ req[r].pc \in {"await", "record"}}
Amounts == [r \in Requests |-> tx[r].amount]
Outstanding == SumFunctionOnSet(Amounts, ToRecord)
Share(r) == IF r \in ToRecord THEN tx[r].amount ELSE 0

NoneReported == \A r \in Requests : req[r].kind = "report" => req[r].outcome # "ok"

\* A handler has an outcome when it has returned; it waits for the payment of its own
\* amount, and records a withdrawal only with the hash of that payment.
OwnPayment(r) ==
    /\ req[r].outcome # "none" => req[r].pc = "done"
    /\ req[r].pc = "await" => tx[r].amount = req[r].amount
    /\ req[r].pc = "record" /\ req[r].kind = "withdraw"
         => req[r].hash = r /\ tx[r].amount = req[r].amount

RecordInv ==
    /\ \A r \in Requests : OwnPayment(r)
    /\ IsFiniteSet(ToRecord)
    /\ NoneReported => row.withdrawn + Outstanding <= received

\* What is outstanding changes by what is outstanding of the one request that moves.
LEMMA OutstandingMoves ==
    ASSUME TypeOK, TypeOK', IsFiniteSet(ToRecord), NEW r \in Requests,
           \A q \in Requests \ {r} : req'[q] = req[q] /\ tx'[q] = tx[q]
    PROVE  /\ IsFiniteSet(ToRecord') /\ Outstanding \in Int /\ Outstanding' \in Int
           /\ Share(r) \in Nat /\ Share(r)' \in Nat
           /\ Outstanding' = Outstanding - Share(r) + Share(r)'
<1>a. PICK U, V, f, g : U = ToRecord /\ V = ToRecord' /\ f = Amounts /\ g = Amounts'
  OBVIOUS
<1>1. /\ U \subseteq Requests /\ V \subseteq Requests
      /\ U \ {r} = V \ {r} /\ IsFiniteSet(U)
      /\ \A q \in Requests : f[q] \in Int /\ g[q] \in Int /\ f[q] >= 0 /\ g[q] >= 0
      /\ \A q \in Requests \ {r} : f[q] = g[q]
      /\ f[r] = tx[r].amount /\ g[r] = tx'[r].amount
  BY <1>a DEF ToRecord, Amounts, TypeOK, Transaction
<1>b. PICK W : W = U \ {r}
  OBVIOUS
<1>2. IsFiniteSet(W) /\ r \notin W /\ W \subseteq Requests \ {r}
  BY <1>1, <1>b, FS_Subset
<1>3. /\ U = W \/ U = W \cup {r}
      /\ V = W \/ V = W \cup {r}
      /\ r \in U <=> U = W \cup {r}
      /\ r \in V <=> V = W \cup {r}
  BY <1>1, <1>b
<1>4. IsFiniteSet(V)
  BY <1>2, <1>3, FS_AddElement
<1>5. /\ SumFunctionOnSet(f, W) \in Int
      /\ SumFunctionOnSet(g, W) = SumFunctionOnSet(f, W)
  <2>1. \A q \in W : f[q] \in Int /\ g[q] = f[q]
    BY <1>1, <1>2
  <2> QED
    BY <1>2, <2>1, SumType, SumSame
<1>6. /\ SumFunctionOnSet(f, W \cup {r}) = f[r] + SumFunctionOnSet(f, W)
      /\ SumFunctionOnSet(g, W \cup {r}) = g[r] + SumFunctionOnSet(g, W)
  <2>1. \A q \in W \cup {r} : f[q] \in Int /\ g[q] \in Int
    BY <1>1, <1>2
  <2> QED
    BY <1>2, <2>1, SumAdd
<1>7. /\ SumFunctionOnSet(f, U) = SumFunctionOnSet(f, W) + (IF r \in U THEN f[r] ELSE 0)
      /\ SumFunctionOnSet(g, V) = SumFunctionOnSet(f, W) + (IF r \in V THEN g[r] ELSE 0)
  <2>1. f[r] \in Int /\ g[r] \in Int
    BY <1>1
  <2>2. ASSUME NEW h, NEW T, T = W \/ T = W \cup {r}, h[r] \in Int,
               SumFunctionOnSet(h, W) = SumFunctionOnSet(f, W),
               SumFunctionOnSet(h, W \cup {r}) = h[r] + SumFunctionOnSet(h, W)
        PROVE  SumFunctionOnSet(h, T)
                 = SumFunctionOnSet(f, W) + (IF r \in T THEN h[r] ELSE 0)
    <3>1. CASE T = W
      BY <1>2, <1>5, <2>2, <3>1
    <3>2. CASE T = W \cup {r}
      <4>1. r \in T
        BY <3>2
      <4> QED
        BY <1>5, <2>2, <3>2, <4>1
    <3> QED
      BY <2>2, <3>1, <3>2
  <2> QED
    BY <1>3, <1>5, <1>6, <2>1, <2>2
<1>8. /\ Outstanding = SumFunctionOnSet(f, U) /\ Outstanding' = SumFunctionOnSet(g, V)
  BY <1>a DEF Outstanding
<1>9. /\ Share(r) = IF r \in U THEN f[r] ELSE 0
      /\ Share(r)' = IF r \in V THEN g[r] ELSE 0
  BY <1>1, <1>a DEF Share
<1> QED
  BY <1>1, <1>4, <1>5, <1>7, <1>8, <1>9, <1>a

\* A step of one request, or of the ledger for it, keeps the books covered if what it
\* adds to the row it takes from what is outstanding, or the ledger pays it.
LEMMA StepCovered ==
    ASSUME TypeOK, TypeOK', RecordInv, NEW r \in Requests,
           \A q \in Requests \ {r} : req'[q] = req[q] /\ tx'[q] = tx[q],
           req[r].pc # "done" \/ req' = req,
           OwnPayment(r)',
           NoneReported' => row'.withdrawn + Share(r)' + received
                              <= row.withdrawn + Share(r) + received'
    PROVE  RecordInv'
<1>1. /\ IsFiniteSet(ToRecord') /\ Outstanding \in Int /\ Outstanding' \in Int
      /\ Share(r) \in Nat /\ Share(r)' \in Nat
      /\ Outstanding' = Outstanding - Share(r) + Share(r)'
  BY OutstandingMoves DEF RecordInv
<1>2. \A q \in Requests : OwnPayment(q)'
  BY DEF RecordInv, OwnPayment
<1>3. NoneReported' => NoneReported
  BY DEF NoneReported, RecordInv, OwnPayment
<1>4. ASSUME NoneReported' PROVE row'.withdrawn + Outstanding' <= received'
  <2>1. /\ row.withdrawn + Outstanding <= received
        /\ row'.withdrawn + Share(r)' + received <= row.withdrawn + Share(r) + received'
    BY <1>3, <1>4 DEF RecordInv
  <2>2. /\ row.withdrawn \in Int /\ row'.withdrawn \in Int
        /\ received \in Int /\ received' \in Int
    BY DEF TypeOK, Row
  <2> QED
    BY <1>1, <2>1, <2>2
<1> QED
  BY <1>1, <1>2, <1>4 DEF RecordInv

LEMMA RecordStep ==
    ASSUME TypeOK, TypeOK', PaymentInv, RecordInv, [Next]_vars PROVE RecordInv'
<1>0. /\ row.withdrawn \in Nat /\ received \in Nat
      /\ \A q \in Requests : /\ req[q].amount \in Nat /\ tx[q].amount \in Nat
                             /\ Share(q) \in Nat
  BY DEF TypeOK, Row, Request, Transaction, Share
<1>1. CASE UNCHANGED vars
  <2>1. UNCHANGED <<ToRecord, Outstanding>>
    BY <1>1 DEF vars, ToRecord, Outstanding, Amounts
  <2> QED
    BY <1>1, <2>1 DEF vars, RecordInv, OwnPayment, NoneReported
<1>2. CASE Tick \/ FundEscrow \/ CreateStream
  <2>1. /\ UNCHANGED <<req, tx, received>>
        /\ row'.withdrawn = row.withdrawn \/ row'.withdrawn = 0
    BY <1>2 DEF Tick, FundEscrow, CreateStream, NewRow
  <2>2. UNCHANGED <<ToRecord, Outstanding>>
    BY <2>1 DEF ToRecord, Outstanding, Amounts
  <2>3. Outstanding \in Int
    BY SumType DEF RecordInv, Outstanding, Amounts, ToRecord, TypeOK, Transaction
  <2>4. NoneReported' => row'.withdrawn + Outstanding' <= received'
    BY <1>0, <2>1, <2>2, <2>3 DEF RecordInv, NoneReported
  <2> QED
    BY <2>1, <2>2, <2>4 DEF RecordInv, OwnPayment
<1> SUFFICES ASSUME NEW r \in Requests,
                    \/ \E kind \in RouteKinds : Begin(r, kind)
                    \/ Handler(r) \/ Network(r)
                    \/ DropTx(r) \/ PaymentTimeout(r) \/ Crash(r)
             PROVE  RecordInv'
  BY <1>1, <1>2 DEF Next
<1>3. Submitted(r) /\ OwnPayment(r)
  BY DEF PaymentInv, RecordInv
\* Before a request has paid nothing of it is outstanding, nor after it has returned.
<1>4. req[r].pc \notin {"await", "record"} => Share(r) = 0
  BY DEF Share, ToRecord
<1>5. req'[r].pc \notin {"await", "record"} \/ req'[r].kind # "withdraw" => Share(r)' = 0
  BY DEF Share, ToRecord
<1>6. ASSUME NEW outcome, Finish(r, outcome), InFlight(r), UNCHANGED <<tx, received>>,
             row'.withdrawn <= row.withdrawn + Share(r)
                \/ (req[r].kind = "report" /\ outcome = "ok")
      PROVE  RecordInv'
  <2>1. /\ req'[r].pc = "done" /\ req'[r].kind = req[r].kind /\ req'[r].outcome = outcome
        /\ \A q \in Requests \ {r} : req'[q] = req[q]
    BY <1>6 DEF Finish, Blank, TypeOK
  <2>2. OwnPayment(r)' /\ Share(r)' = 0
    BY <1>5, <2>1 DEF OwnPayment
  <2>3. NoneReported' => row'.withdrawn <= row.withdrawn + Share(r)
    BY <1>6, <2>1 DEF NoneReported
  <2>4. row'.withdrawn \in Nat
    BY DEF TypeOK, Row
  <2> QED
    BY <1>0, <1>6, <2>1, <2>2, <2>3, <2>4, StepCovered DEF InFlight
<1>a. ASSUME NEW outcome, Finish(r, outcome), InFlight(r), UNCHANGED <<tx, received>>,
             row'.withdrawn = row.withdrawn
      PROVE  RecordInv'
  <2>1. row'.withdrawn <= row.withdrawn + Share(r)
    BY <1>0, <1>a
  <2> QED
    BY <1>6, <1>a, <2>1
<1>7. ASSUME InFlight(r) \/ req[r].pc = "idle", UNCHANGED received,
             row'.withdrawn = row.withdrawn,
             \A q \in Requests \ {r} : req'[q] = req[q] /\ tx'[q] = tx[q],
             OwnPayment(r)', Share(r)' = 0
      PROVE  RecordInv'
  BY <1>0, <1>7, StepCovered DEF InFlight
<1>8. ASSUME NEW kind \in RouteKinds, Begin(r, kind) PROVE RecordInv'
  <2>1. /\ req'[r].pc = "read" /\ req'[r].outcome = req[r].outcome /\ req[r].pc = "idle"
        /\ \A q \in Requests \ {r} : req'[q] = req[q]
        /\ UNCHANGED <<row, received, tx>>
    BY <1>8 DEF Begin, TypeOK, Request
  <2>2. OwnPayment(r)' /\ Share(r)' = 0
    BY <1>3, <1>5, <2>1 DEF OwnPayment
  <2> QED
    BY <1>7, <2>1, <2>2
<1>9. CASE Handler(r)
  <2>1. CASE ReadRow(r) \/ RefreshStatus(r) \/ CheckWithdraw(r) \/ CheckReport(r)
               \/ CheckCancel(r) \/ CheckDelete(r) \/ AnswerGet(r)
    <3>1. CASE \E outcome : Finish(r, outcome) /\ UNCHANGED <<row, tx, received>>
      <4>1. PICK outcome : Finish(r, outcome) /\ UNCHANGED <<row, tx, received>>
        BY <3>1
      <4>2. InFlight(r)
        BY <2>1 DEF ReadRow, RefreshStatus, CheckWithdraw, CheckReport,
           CheckCancel, CheckDelete, AnswerGet, Checking, InFlight
      <4> QED
        BY <1>a, <4>1, <4>2
    <3>2. CASE ~\E outcome : Finish(r, outcome) /\ UNCHANGED <<row, tx, received>>
      <4>1. /\ req[r].pc \in {"read", "refresh", "check"}
            /\ \A q \in Requests \ {r} : req'[q] = req[q]
            /\ UNCHANGED <<tx, received>> /\ row'.withdrawn = row.withdrawn
            /\ req'[r].kind = req[r].kind /\ req'[r].outcome = req[r].outcome
            /\ \/ req'[r].pc \in {"refresh", "check", "pay", "close"}
               \/ req'[r].pc = "record" /\ req'[r].kind = "report"
        <5>1. CASE ReadRow(r)
          <6>1. /\ req[r].pc = "read" /\ UNCHANGED <<row, tx, received>>
                /\ req' = [req EXCEPT ![r] =
                      [@ EXCEPT !.pc = "refresh", !.status = row.status,
                                !.withdrawn = row.withdrawn]]
            BY <3>2, <5>1 DEF ReadRow
          <6> QED
            BY <6>1 DEF TypeOK, Request
        <5>2. CASE RefreshStatus(r)
          BY <5>2 DEF RefreshStatus, TypeOK, Request, Row
        <5>3. CASE CheckWithdraw(r)
          BY <3>2, <5>3 DEF CheckWithdraw, Checking, TypeOK, Request
        <5>4. CASE CheckReport(r)
          BY <3>2, <5>4 DEF CheckReport, Checking, TypeOK, Request
        <5>5. CASE CheckCancel(r)
          BY <3>2, <5>5 DEF CheckCancel, Checking, TypeOK, Request
        <5>6. CASE CheckDelete(r)
          BY <3>2, <5>6 DEF CheckDelete, Checking, Goto, TypeOK, Request
        <5>7. CASE AnswerGet(r)
          BY <3>2, <5>7 DEF AnswerGet
        <5> QED
          BY <2>1, <5>1, <5>2, <5>3, <5>4, <5>5, <5>6, <5>7
      <4>2. OwnPayment(r)' /\ Share(r)' = 0
        BY <1>3, <1>5, <4>1 DEF OwnPayment
      <4> QED
        BY <1>7, <4>1, <4>2 DEF InFlight
    <3> QED
      BY <3>1, <3>2
  <2>2. CASE SubmitPayment(r)
    <3>1. /\ req[r].pc = "pay" /\ req[r].outcome = "none" /\ Share(r) = 0
          /\ UNCHANGED <<row, received>>
      BY <1>3, <1>4, <2>2 DEF SubmitPayment, OwnPayment
    <3>2. CASE PaymentFailed(r) /\ UNCHANGED tx
      <4>1. CASE req[r].kind = "withdraw"
        BY <1>a, <3>1, <3>2, <4>1 DEF PaymentFailed, InFlight
      <4>2. CASE req[r].kind # "withdraw"
        <5>1. /\ req'[r].pc = "close" /\ req'[r].outcome = "none"
              /\ \A q \in Requests \ {r} : req'[q] = req[q]
          BY <3>1, <3>2, <4>2 DEF PaymentFailed, Goto, TypeOK, Request
        <5>2. OwnPayment(r)' /\ Share(r)' = 0
          BY <1>5, <5>1 DEF OwnPayment
        <5> QED
          BY <1>7, <3>1, <3>2, <5>1, <5>2 DEF InFlight
      <4> QED
        BY <4>1, <4>2
    <3>3. CASE ~(PaymentFailed(r) /\ UNCHANGED tx)
      <4>1. /\ req'[r].pc = "await" /\ req'[r].outcome = "none"
            /\ req'[r].amount = req[r].amount
            /\ tx'[r].state = "pending" /\ tx'[r].amount = req[r].amount
            /\ \A q \in Requests \ {r} : req'[q] = req[q] /\ tx'[q] = tx[q]
        BY <2>2, <3>1, <3>3 DEF SubmitPayment, Goto, TypeOK, Request
      <4>2. OwnPayment(r)' /\ Share(r)' = 0
        BY <4>1 DEF OwnPayment, Share, ToRecord
      <4> QED
        BY <1>7, <3>1, <4>1, <4>2 DEF InFlight
    <3> QED
      BY <3>2, <3>3
  <2>3. CASE PaymentAnswer(r)
    <3>1. /\ req[r].pc = "await" /\ req[r].outcome = "none"
          /\ tx[r].amount = req[r].amount /\ UNCHANGED <<row, received, tx>>
      BY <1>3, <2>3 DEF PaymentAnswer, OwnPayment
    <3>2. CASE PaymentMade(r)
      <4>1. /\ req'[r].pc = NextAfterPayment(req[r].kind) /\ req'[r].outcome = "none"
            /\ req'[r].kind = req[r].kind /\ req'[r].hash = r
            /\ req'[r].amount = req[r].amount
            /\ \A q \in Requests \ {r} : req'[q] = req[q]
        BY <3>1, <3>2 DEF PaymentMade, TypeOK, Request
      <4>2. OwnPayment(r)'
        BY <3>1, <4>1 DEF OwnPayment, NextAfterPayment
      <4>3. Share(r)' <= Share(r)
        BY <1>0, <3>1, <4>1 DEF Share, ToRecord, NextAfterPayment
      <4>4. Share(r)' \in Nat
        BY DEF Share, TypeOK, Transaction
      <4> QED
        BY <1>0, <3>1, <4>1, <4>2, <4>3, <4>4, StepCovered
    <3>3. CASE PaymentFailed(r) /\ req[r].kind = "withdraw"
      BY <1>a, <3>1, <3>3 DEF PaymentFailed, InFlight
    <3>4. CASE PaymentFailed(r) /\ req[r].kind # "withdraw"
      <4>1. /\ req'[r].pc = "close" /\ req'[r].outcome = "none"
            /\ \A q \in Requests \ {r} : req'[q] = req[q]
        BY <3>1, <3>4 DEF PaymentFailed, Goto, TypeOK, Request
      <4>2. OwnPayment(r)' /\ Share(r)' = 0
        BY <1>5, <4>1 DEF OwnPayment
      <4> QED
        BY <1>7, <3>1, <4>1, <4>2 DEF InFlight
    <3> QED
      BY <2>3, <3>2, <3>3, <3>4 DEF PaymentAnswer
  <2>4. CASE RecordWithdrawal(r)
    <3>1. /\ req[r].pc = "record" /\ req[r].kind \in {"withdraw", "report"}
          /\ UNCHANGED <<received, tx>>
      BY <1>3, <2>4 DEF RecordWithdrawal, Submitted
    <3>2. req[r].kind = "withdraw" => Share(r) = req[r].amount
      BY <1>3, <3>1 DEF OwnPayment, Submitted, Share, ToRecord, Recipient
    <3>3. CASE row.status \in WithdrawableStatuses
      <4>1. row'.withdrawn = row.withdrawn + req[r].amount /\ Finish(r, "ok")
        BY <2>4, <3>3 DEF RecordWithdrawal, TypeOK, Row
      <4> QED
        BY <1>0, <1>6, <3>1, <3>2, <4>1 DEF InFlight
    <3>4. CASE row.status \notin WithdrawableStatuses
      <4>1. row'.withdrawn = row.withdrawn /\ Finish(r, "not recorded")
        BY <2>4, <3>4 DEF RecordWithdrawal
      <4> QED
        BY <1>a, <3>1, <4>1 DEF InFlight
    <3> QED
      BY <3>3, <3>4
  <2>5. CASE CancelStream(r)
    <3>1. /\ req[r].pc = "close" /\ UNCHANGED <<received, tx>>
          /\ row'.withdrawn = row.withdrawn
          /\ Finish(r, "ok") \/ Finish(r, "already closed")
          /\ req[r].kind # "report"
      BY <1>3, <2>5 DEF CancelStream, TypeOK, Row, Submitted
    <3> QED
      BY <1>a, <3>1 DEF InFlight
  <2> QED
    BY <1>9, <2>1, <2>2, <2>3, <2>4, <2>5 DEF Handler
<1>10. CASE Network(r) \/ DropTx(r)
  <2>1. /\ UNCHANGED <<row, req>> /\ tx[r].state = "pending" /\ Share(r) = 0
        /\ \A q \in Requests \ {r} : tx'[q] = tx[q]
        /\ tx'[r].amount = tx[r].amount /\ tx'[r].to = tx[r].to
        /\ \/ tx'[r].state = "failed" /\ received' = received
           \/ /\ tx'[r].state = "applied"
              /\ received' = IF tx[r].to = "recipient" THEN received + tx[r].amount ELSE received
    <3>1. CASE ApplyTx(r)
      BY <3>1 DEF ApplyTx, TypeOK, Transaction, Share, ToRecord
    <3>2. CASE RejectTx(r) \/ DropTx(r)
      BY <3>2 DEF RejectTx, DropTx, TypeOK, Transaction, Share, ToRecord
    <3> QED
      BY <1>10, <3>1, <3>2 DEF Network
  <2>2. Share(r)' + received <= received' /\ Share(r)' \in Nat /\ received' \in Nat
    BY <1>0, <2>1 DEF Share, ToRecord, TypeOK, Transaction
  <2>3. OwnPayment(r)'
    BY <1>3, <2>1 DEF OwnPayment
  <2> QED
    BY <1>0, <2>1, <2>2, <2>3, StepCovered
<1>11. CASE PaymentTimeout(r)
  <2>1. /\ req[r].pc = "await" /\ req[r].outcome = "none" /\ UNCHANGED <<row, received, tx>>
        /\ PaymentFailed(r)
    BY <1>3, <1>11 DEF PaymentTimeout, OwnPayment
  <2>2. CASE req[r].kind = "withdraw"
    BY <1>a, <2>1, <2>2 DEF PaymentFailed, InFlight
  <2>3. CASE req[r].kind # "withdraw"
    <3>1. /\ req'[r].pc = "close" /\ req'[r].outcome = "none"
          /\ \A q \in Requests \ {r} : req'[q] = req[q]
      BY <2>1, <2>3 DEF PaymentFailed, Goto, TypeOK, Request
    <3>2. OwnPayment(r)' /\ Share(r)' = 0
      BY <1>5, <3>1 DEF OwnPayment
    <3> QED
      BY <1>7, <2>1, <3>1, <3>2 DEF InFlight
  <2> QED
    BY <2>2, <2>3
<1>12. CASE Crash(r)
  BY <1>a, <1>12 DEF Crash
<1> QED
  BY <1>8, <1>9, <1>10, <1>11, <1>12

LEMMA RecordInvHolds == Spec => []RecordInv
<1>1. Init => RecordInv
  <2> SUFFICES ASSUME Init PROVE RecordInv
    OBVIOUS
  <2>1. ToRecord = {}
    BY DEF Init, ToRecord, Blank, NoTx
  <2>2. Outstanding = 0 /\ IsFiniteSet(ToRecord)
    BY <2>1, SumEmpty, FS_EmptySet DEF Outstanding
  <2> QED
    BY <2>2 DEF Init, RecordInv, OwnPayment, Blank, NoRow, NewRow
<1> QED
  BY <1>1, RecordStep, TypeCorrect, PaymentInvHolds, PTL DEF Spec

\* However late, failed and racing payments are, and whichever handlers are killed:
\* unless a client has recorded one itself, the books show no withdrawal that the
\* ledger did not pay.
THEOREM RecordedIsPaidHolds == Spec => []RecordedIsPaid
<1>1. TypeOK /\ RecordInv => RecordedIsPaid
  <2> SUFFICES ASSUME TypeOK, RecordInv, NoneReported PROVE row.withdrawn <= received
    BY DEF RecordedIsPaid, NoneReported
  <2>1. \A r \in ToRecord : Amounts[r] \in Int /\ Amounts[r] >= 0
    BY DEF ToRecord, Amounts, TypeOK, Transaction
  <2>2. Outstanding \in Int /\ Outstanding >= 0
    BY <2>1, SumType, SumAtLeastZero DEF RecordInv, Outstanding
  <2>3. row.withdrawn + Outstanding <= received /\ row.withdrawn \in Int /\ received \in Int
    BY DEF RecordInv, TypeOK, Row
  <2> QED
    BY <2>2, <2>3
<1> QED
  BY <1>1, RecordInvHolds, TypeCorrect, PTL

-----------------------------------------------------------------------------
(* Requests handled one at a time.                                         *)

\* The copy of the row a handler holds shows the withdrawals the row shows.
Fresh(r) == req[r].pc \notin {"idle", "read", "done"} => req[r].withdrawn = row.withdrawn

\* What a handler is about to add to the withdrawals still fits what has streamed.
Due(r) ==
    req[r].pc = "record" \/ (req[r].pc \in {"pay", "await"} /\ req[r].kind = "withdraw")
        => row.withdrawn + req[r].amount <= Streamed(now, row.start)

SerialInv ==
    /\ \A q, r \in Requests : InFlight(q) /\ InFlight(r) => q = r
    /\ \A r \in Requests : Fresh(r) /\ Due(r)
    /\ RecordedWithinStreamed

\* The one handler in flight may change the row as it likes: no other handler
\* holds a copy of it.
LEMMA HandlerKeepsSerial ==
    ASSUME SerialInv, NEW r \in Requests, InFlight(r),
           \A q \in Requests \ {r} : req'[q] = req[q],
           Fresh(r)', Due(r)', RecordedWithinStreamed'
    PROVE  SerialInv'
<1>1. ASSUME NEW q \in Requests \ {r} PROVE req'[q] = req[q] /\ req[q].pc \in {"idle", "done"}
  BY <1>1 DEF SerialInv, InFlight
<1>2. \A q \in Requests \ {r} : ~InFlight(q)'
  BY <1>1 DEF InFlight
<1>3. \A q \in Requests : Fresh(q)' /\ Due(q)'
  BY <1>1 DEF Fresh, Due
<1> QED
  BY <1>2, <1>3 DEF SerialInv

\* A handler that returns without touching the row keeps the invariant.
LEMMA ReturnKeepsSerial ==
    ASSUME TypeOK, SerialInv, NEW r \in Requests, InFlight(r), NEW outcome,
           Finish(r, outcome), RecordedWithinStreamed'
    PROVE  SerialInv'
<1>1. req'[r].pc = "done" /\ \A q \in Requests \ {r} : req'[q] = req[q]
  BY DEF Finish, Blank, TypeOK
<1>2. Fresh(r)' /\ Due(r)'
  BY <1>1 DEF Fresh, Due
<1> QED
  BY <1>1, <1>2, HandlerKeepsSerial

\* A handler that moves on, with its copy of the row and its amount unchanged,
\* keeps the invariant if what it owed it still owes.
LEMMA MoveKeepsSerial ==
    ASSUME SerialInv, NEW r \in Requests, InFlight(r),
           \A q \in Requests \ {r} : req'[q] = req[q],
           req'[r].withdrawn = req[r].withdrawn,
           req[r].pc # "read", UNCHANGED <<now, row>>, Due(r)'
    PROVE  SerialInv'
<1>1. Fresh(r)'
  BY DEF SerialInv, Fresh, InFlight
<1>2. RecordedWithinStreamed'
  BY DEF SerialInv, RecordedWithinStreamed, Streamed
<1> QED
  BY <1>1, <1>2, HandlerKeepsSerial

\* Every step keeps the invariant of one request at a time.
LEMMA SerialStep ==
    ASSUME TypeOK, TypeOK', PaymentInv, SerialInv, "overlap" \notin Faults, Next
    PROVE  SerialInv'
<1>0. ASSUME NEW r \in Requests PROVE Fresh(r) /\ Due(r) /\ RowRead(r) /\ Submitted(r)
  BY DEF SerialInv, PaymentInv
<1>1. ASSUME row'.withdrawn = row.withdrawn, row'.start = row.start, now <= now'
      PROVE  RecordedWithinStreamed'
  BY <1>1, StreamedKept DEF SerialInv, RecordedWithinStreamed, TypeOK, Row
<1>2. ASSUME req' = req, row' = row, now <= now' PROVE SerialInv'
  <2>1. RecordedWithinStreamed'
    BY <1>1, <1>2
  <2>2. ASSUME NEW r \in Requests PROVE Fresh(r)'
    BY <1>0, <1>2 DEF Fresh
  <2>3. ASSUME NEW r \in Requests PROVE Due(r)'
    <3>1. row.withdrawn + req[r].amount \in Nat
      BY DEF TypeOK, Row, Request
    <3> QED
      BY <1>0, <1>2, <3>1, StreamedKept DEF Due
  <2> QED
    BY <1>2, <2>1, <2>2, <2>3 DEF SerialInv, InFlight
<1>3. CASE Tick
  BY <1>2, <1>3, AmountAssumption DEF Tick, TypeOK
<1>4. CASE FundEscrow
  BY <1>2, <1>4, AmountAssumption DEF FundEscrow, TypeOK
<1>5. ASSUME NEW r \in Requests, ApplyTx(r) \/ RejectTx(r) \/ DropTx(r) PROVE SerialInv'
  BY <1>2, <1>5, AmountAssumption DEF ApplyTx, RejectTx, DropTx, TypeOK
<1>6. CASE CreateStream
  <2>1. row.status = "none" /\ row'.withdrawn = 0 /\ req' = req
    BY <1>6 DEF CreateStream, NewRow
  <2>2. ASSUME NEW r \in Requests PROVE req'[r].pc \in {"idle", "read", "done"}
    BY <1>0, <2>1 DEF RowRead
  <2>3. RecordedWithinStreamed'
    <3>1. now' \in Int /\ row'.start \in Int
      BY AmountAssumption DEF TypeOK, Row
    <3>2. Streamed(now', row'.start) \in 0..Total
      BY <3>1, StreamedRange
    <3> QED
      BY <2>1, <3>2, AmountAssumption DEF RecordedWithinStreamed
  <2> QED
    BY <2>1, <2>2, <2>3 DEF SerialInv, Fresh, Due, InFlight
<1>7. ASSUME NEW r \in Requests, NEW kind \in RouteKinds, Begin(r, kind) PROVE SerialInv'
  <2>1. /\ req'[r].pc = "read"
        /\ \A q \in Requests \ {r} : req'[q] = req[q]
        /\ \A q \in Requests : ~InFlight(q)
        /\ UNCHANGED <<now, row>>
    BY <1>7, FaultAssumption DEF Begin, TypeOK, Request
  <2>2. ASSUME NEW q \in Requests PROVE Fresh(q)' /\ Due(q)'
    BY <2>1 DEF Fresh, Due, InFlight
  <2>3. RecordedWithinStreamed'
    BY <1>1, <2>1, AmountAssumption DEF TypeOK
  <2> QED
    BY <2>1, <2>2, <2>3 DEF SerialInv, InFlight
<1>8. ASSUME NEW r \in Requests, InFlight(r), NEW outcome, Finish(r, outcome),
             UNCHANGED <<now, row>>
      PROVE  SerialInv'
  BY <1>1, <1>8, ReturnKeepsSerial, AmountAssumption DEF TypeOK
<1>9. ASSUME NEW r \in Requests, ReadRow(r) PROVE SerialInv'
  <2>1. CASE row.status = "none"
    BY <1>8, <1>9, <2>1 DEF ReadRow, InFlight
  <2>2. CASE row.status # "none"
    <3>1. /\ req[r].pc = "read"
          /\ req'[r] = [req[r] EXCEPT !.pc = "refresh", !.status = row.status,
                                      !.withdrawn = row.withdrawn]
          /\ \A q \in Requests \ {r} : req'[q] = req[q]
          /\ UNCHANGED <<now, row>>
      BY <1>9, <2>2 DEF ReadRow, TypeOK
    <3>2. req'[r].pc = "refresh" /\ req'[r].withdrawn = row'.withdrawn
      BY <3>1 DEF TypeOK, Request
    <3>3. Fresh(r)' /\ Due(r)' /\ RecordedWithinStreamed'
      BY <1>1, <3>1, <3>2, AmountAssumption DEF Fresh, Due, TypeOK
    <3> QED
      BY <3>1, <3>3, HandlerKeepsSerial DEF InFlight
  <2> QED
    BY <2>1, <2>2
<1>10. ASSUME NEW r \in Requests, RefreshStatus(r) PROVE SerialInv'
  <2>1. /\ req[r].pc = "refresh"
        /\ req'[r] = [req[r] EXCEPT !.status = RefreshedStatus(req[r].status),
                                    !.pc = "check"]
        /\ \A q \in Requests \ {r} : req'[q] = req[q]
        /\ now' = now
    BY <1>10 DEF RefreshStatus, TypeOK
  <2>2. req'[r].pc = "check" /\ req'[r].withdrawn = req[r].withdrawn
    BY <2>1 DEF TypeOK, Request
  <2>3. row'.withdrawn = row.withdrawn /\ row'.start = row.start
    BY <1>10 DEF RefreshStatus, TypeOK, Row
  <2>4. Fresh(r)' /\ Due(r)'
    BY <1>0, <2>1, <2>2, <2>3 DEF Fresh, Due
  <2>5. RecordedWithinStreamed'
    BY <1>1, <2>1, <2>3, AmountAssumption DEF TypeOK
  <2> QED
    BY <2>1, <2>4, <2>5, HandlerKeepsSerial DEF InFlight
<1>11. ASSUME NEW r \in Requests, NEW pc \in {"pay", "record"}, NEW a \in Nat,
              req[r].pc \in {"refresh", "check"},
              a <= Withdrawable(r), a # 0,
              req'[r].pc = pc, req'[r].amount = a,
              req'[r].withdrawn = req[r].withdrawn,
              \A q \in Requests \ {r} : req'[q] = req[q], UNCHANGED <<now, row>>
       PROVE  SerialInv'
  <2>1. req[r].withdrawn = row.withdrawn
    BY <1>0, <1>11 DEF Fresh
  <2>2. Streamed(now, row.start) \in 0..Total
    <3>1. now \in Int /\ row.start \in Int
      BY AmountAssumption DEF TypeOK, Row
    <3> QED
      BY <3>1, StreamedRange
  <2>3. row.withdrawn + a <= Streamed(now, row.start)
    BY <1>11, <2>1, <2>2, AmountAssumption DEF Withdrawable, TypeOK, Row
  <2>4. Due(r)'
    BY <1>11, <2>3 DEF Due
  <2> QED
    BY <1>11, <2>4, MoveKeepsSerial DEF InFlight
<1>12. ASSUME NEW r \in Requests, CheckWithdraw(r) PROVE SerialInv'
  <2>0. req[r].pc \in {"refresh", "check"} /\ InFlight(r) /\ UNCHANGED <<now, row>>
    BY <1>12 DEF CheckWithdraw, Checking, InFlight
  <2>1. CASE \E outcome : Finish(r, outcome)
    BY <1>8, <2>0, <2>1
  <2>2. CASE ~\E outcome : Finish(r, outcome)
    <3> DEFINE amount(a) == IF a = 0 THEN Withdrawable(r) ELSE a
    <3>1. PICK a \in RequestedAmounts :
            /\ ~(amount(a) > Withdrawable(r) \/ amount(a) = 0)
            /\ req' = [req EXCEPT ![r] = [@ EXCEPT !.pc = "pay", !.amount = amount(a)]]
      BY <1>12, <2>2 DEF CheckWithdraw, Refused
    <3>2. Withdrawable(r) \in Nat
      <4>1. now \in Int /\ row.start \in Int /\ req[r].withdrawn \in Nat
        BY AmountAssumption DEF TypeOK, Row, Request
      <4>2. Streamed(now, row.start) \in 0..Total
        BY <4>1, StreamedRange
      <4> QED
        BY <4>1, <4>2, AmountAssumption DEF Withdrawable
    <3>3. amount(a) \in Nat
      BY <3>2, AmountAssumption
    <3>4. amount(a) <= Withdrawable(r) /\ amount(a) # 0
      BY <3>1, <3>2, <3>3
    <3> HIDE DEF amount
    <3>5. /\ req'[r] = [req[r] EXCEPT !.pc = "pay", !.amount = amount(a)]
          /\ \A q \in Requests \ {r} : req'[q] = req[q]
      BY <3>1 DEF TypeOK
    <3>6. /\ req'[r].pc = "pay" /\ req'[r].amount = amount(a)
          /\ req'[r].withdrawn = req[r].withdrawn
      BY <3>5 DEF TypeOK, Request
    <3> QED
      BY <1>11, <2>0, <3>3, <3>4, <3>5, <3>6
  <2> QED
    BY <2>1, <2>2
<1>13. ASSUME NEW r \in Requests, CheckReport(r) PROVE SerialInv'
  <2>0. req[r].pc \in {"refresh", "check"} /\ InFlight(r) /\ UNCHANGED <<now, row>>
    BY <1>13 DEF CheckReport, Checking, InFlight
  <2>1. CASE \E outcome : Finish(r, outcome)
    BY <1>8, <2>0, <2>1
  <2>2. CASE ~\E outcome : Finish(r, outcome)
    <3>1. PICK a \in RequestedAmounts :
            /\ ~(a = 0 \/ a > Withdrawable(r))
            /\ req' = [req EXCEPT ![r] = [@ EXCEPT !.pc = "record", !.amount = a,
                                                   !.hash = ClientHash]]
      BY <1>13, <2>2 DEF CheckReport
    <3>2. Withdrawable(r) \in Nat
      <4>1. now \in Int /\ row.start \in Int /\ req[r].withdrawn \in Nat
        BY AmountAssumption DEF TypeOK, Row, Request
      <4>2. Streamed(now, row.start) \in 0..Total
        BY <4>1, StreamedRange
      <4> QED
        BY <4>1, <4>2, AmountAssumption DEF Withdrawable
    <3>3. a \in Nat /\ a <= Withdrawable(r) /\ a # 0
      BY <3>1, <3>2, AmountAssumption
    <3>4. /\ req'[r] = [req[r] EXCEPT !.pc = "record", !.amount = a, !.hash = ClientHash]
          /\ \A q \in Requests \ {r} : req'[q] = req[q]
      BY <3>1 DEF TypeOK
    <3>5. /\ req'[r].pc = "record" /\ req'[r].amount = a
          /\ req'[r].withdrawn = req[r].withdrawn
      BY <3>4 DEF TypeOK, Request
    <3> QED
      BY <1>11, <2>0, <3>3, <3>4, <3>5
  <2> QED
    BY <2>1, <2>2
<1>14. ASSUME NEW r \in Requests, InFlight(r), req[r].pc # "read", UNCHANGED <<now, row>>,
              req[r].kind # "withdraw", NEW pc \in {"pay", "await", "close"},
              req'[r].pc = pc, req'[r].withdrawn = req[r].withdrawn,
              req'[r].kind = req[r].kind,
              \A q \in Requests \ {r} : req'[q] = req[q]
       PROVE  SerialInv'
  <2>1. Due(r)'
    BY <1>14 DEF Due
  <2> QED
    BY <1>14, <2>1, MoveKeepsSerial
<1>15. ASSUME NEW r \in Requests, CheckCancel(r) PROVE SerialInv'
  <2>0. /\ req[r].pc \in {"refresh", "check"} /\ InFlight(r) /\ UNCHANGED <<now, row>>
        /\ req[r].kind = "cancel"
    BY <1>15 DEF CheckCancel, Checking, InFlight
  <2>1. CASE Finish(r, "rejected")
    BY <1>8, <2>0, <2>1
  <2>2. CASE ~Finish(r, "rejected")
    <3>1. PICK pc \in {"pay", "close"} :
            /\ req'[r] = [req[r] EXCEPT !.pc = pc, !.amount = Refund(r)]
            /\ \A q \in Requests \ {r} : req'[q] = req[q]
      BY <1>15, <2>2 DEF CheckCancel, TypeOK
    <3>2. /\ req'[r].pc = pc /\ req'[r].withdrawn = req[r].withdrawn
          /\ req'[r].kind = req[r].kind
      BY <3>1 DEF TypeOK, Request
    <3> QED
      BY <1>14, <2>0, <3>1, <3>2
  <2> QED
    BY <2>1, <2>2
<1>16. ASSUME NEW r \in Requests, NEW pc, Goto(r, pc)
       PROVE  /\ req'[r].pc = pc /\ req'[r].withdrawn = req[r].withdrawn
              /\ req'[r].amount = req[r].amount /\ req'[r].kind = req[r].kind
              /\ \A q \in Requests \ {r} : req'[q] = req[q]
  BY <1>16 DEF Goto, TypeOK, Request
<1>17. ASSUME NEW r \in Requests, CheckDelete(r) PROVE SerialInv'
  <2>0. /\ req[r].pc \in {"refresh", "check"} /\ InFlight(r) /\ UNCHANGED <<now, row>>
        /\ req[r].kind = "delete"
    BY <1>17 DEF CheckDelete, Checking, InFlight
  <2>1. CASE Finish(r, "rejected")
    BY <1>8, <2>0, <2>1
  <2>2. CASE Goto(r, "close")
    BY <1>14, <1>16, <2>0, <2>2
  <2> QED
    BY <1>17, <2>1, <2>2 DEF CheckDelete
<1>18. ASSUME NEW r \in Requests, req[r].pc \in {"pay", "await"}, PaymentFailed(r),
              UNCHANGED <<now, row>>
       PROVE  SerialInv'
  <2>1. CASE req[r].kind = "withdraw"
    BY <1>8, <1>18, <2>1 DEF PaymentFailed, InFlight
  <2>2. CASE req[r].kind # "withdraw"
    <3>1. Goto(r, "close")
      BY <1>18, <2>2 DEF PaymentFailed
    <3> QED
      BY <1>14, <1>16, <1>18, <2>2, <3>1 DEF InFlight
  <2> QED
    BY <2>1, <2>2
<1>19. ASSUME NEW r \in Requests, SubmitPayment(r) PROVE SerialInv'
  <2>0. req[r].pc = "pay" /\ InFlight(r) /\ UNCHANGED <<now, row>>
    BY <1>19 DEF SubmitPayment, InFlight
  <2>1. CASE PaymentFailed(r)
    BY <1>18, <2>0, <2>1
  <2>2. CASE Goto(r, "await")
    <3>1. Due(r)'
      BY <1>0, <1>16, <2>0, <2>2 DEF Due, Streamed
    <3> QED
      BY <1>16, <2>0, <2>2, <3>1, MoveKeepsSerial
  <2> QED
    BY <1>19, <2>1, <2>2 DEF SubmitPayment
<1>20. ASSUME NEW r \in Requests, PaymentAnswer(r) PROVE SerialInv'
  <2>0. req[r].pc = "await" /\ InFlight(r) /\ UNCHANGED <<now, row>>
    BY <1>20 DEF PaymentAnswer, InFlight
  <2>1. CASE PaymentFailed(r)
    BY <1>18, <2>0, <2>1
  <2>2. CASE PaymentMade(r)
    <3>1. /\ req'[r] = [req[r] EXCEPT !.pc = NextAfterPayment(req[r].kind), !.hash = r]
          /\ \A q \in Requests \ {r} : req'[q] = req[q]
      BY <2>2 DEF PaymentMade, TypeOK
    <3>2. /\ req'[r].pc = NextAfterPayment(req[r].kind)
          /\ req'[r].withdrawn = req[r].withdrawn
          /\ req'[r].amount = req[r].amount /\ req'[r].kind = req[r].kind
      BY <3>1 DEF TypeOK, Request
    <3>3. Due(r)'
      BY <1>0, <2>0, <3>2 DEF Due, Streamed, NextAfterPayment
    <3> QED
      BY <2>0, <3>1, <3>2, <3>3, MoveKeepsSerial
  <2> QED
    BY <1>20, <2>1, <2>2 DEF PaymentAnswer
<1>21. ASSUME NEW r \in Requests, RecordWithdrawal(r) PROVE SerialInv'
  <2>0. req[r].pc = "record" /\ InFlight(r) /\ now' = now /\ Due(r)
    BY <1>0, <1>21 DEF RecordWithdrawal, InFlight
  <2>1. CASE row.status \in WithdrawableStatuses
    <3>1. row'.withdrawn = row.withdrawn + req[r].amount /\ row'.start = row.start
      BY <1>21, <2>1 DEF RecordWithdrawal, TypeOK, Row
    <3>2. RecordedWithinStreamed'
      BY <2>0, <3>1 DEF RecordedWithinStreamed, Due, Streamed
    <3> QED
      BY <1>21, <2>0, <2>1, <3>2, ReturnKeepsSerial DEF RecordWithdrawal
  <2>2. CASE row.status \notin WithdrawableStatuses
    BY <1>8, <1>21, <2>0, <2>2 DEF RecordWithdrawal
  <2> QED
    BY <2>1, <2>2
<1>22. ASSUME NEW r \in Requests, CancelStream(r) PROVE SerialInv'
  <2>0. req[r].pc = "close" /\ InFlight(r) /\ now' = now
    BY <1>22 DEF CancelStream, InFlight
  <2>1. row'.withdrawn = row.withdrawn /\ row'.start = row.start
    BY <1>22 DEF CancelStream, TypeOK, Row
  <2>2. RecordedWithinStreamed'
    BY <1>1, <2>0, <2>1, AmountAssumption DEF TypeOK
  <2> QED
    BY <1>22, <2>0, <2>2, ReturnKeepsSerial DEF CancelStream
<1>23. ASSUME NEW r \in Requests, AnswerGet(r) PROVE SerialInv'
  BY <1>8, <1>23 DEF AnswerGet, Checking, InFlight
<1>24. ASSUME NEW r \in Requests, PaymentTimeout(r) PROVE SerialInv'
  BY <1>18, <1>24 DEF PaymentTimeout
<1>25. ASSUME NEW r \in Requests, Crash(r) PROVE SerialInv'
  BY <1>8, <1>25 DEF Crash
<1> QED
  BY <1>3, <1>4, <1>5, <1>6, <1>7, <1>9, <1>10, <1>12, <1>13, <1>15, <1>17, <1>19,
     <1>20, <1>21, <1>22, <1>23, <1>24, <1>25
  DEF Next, Handler, Network

\* The invariant of one request at a time.
LEMMA SerialInvHolds ==
    ASSUME "overlap" \notin Faults
    PROVE  Spec => []SerialInv
<1>1. Init => SerialInv
  <2> SUFFICES ASSUME Init PROVE SerialInv
    OBVIOUS
  <2>1. \A r \in Requests : req[r].pc = "idle"
    BY DEF Init, Blank
  <2>2. RecordedWithinStreamed
    BY AmountAssumption DEF Init, NoRow, NewRow, RecordedWithinStreamed, Streamed
  <2> QED
    BY <2>1, <2>2 DEF SerialInv, Fresh, Due, InFlight
<1>2. TypeOK /\ TypeOK' /\ PaymentInv /\ SerialInv /\ [Next]_vars => SerialInv'
  <2> SUFFICES ASSUME TypeOK, TypeOK', PaymentInv, SerialInv, [Next]_vars
               PROVE  SerialInv'
    OBVIOUS
  <2>1. CASE Next
    BY <2>1, SerialStep
  <2>2. CASE UNCHANGED vars
    BY <2>2 DEF vars, SerialInv, Fresh, Due, InFlight, RecordedWithinStreamed, Streamed
  <2> QED
    BY <2>1, <2>2
<1> QED
  BY <1>1, <1>2, TypeCorrect, PaymentInvHolds, PTL DEF Spec

\* Without overlapping requests the books never show more withdrawn than has
\* streamed, whatever a client reports and whatever times out, is dropped or is
\* killed: the copy a handler decides from is the row it writes to.
THEOREM SerialBooksHold ==
    ASSUME "overlap" \notin Faults
    PROVE  Spec => []RecordedWithinStreamed
<1>1. SerialInv => RecordedWithinStreamed
  BY DEF SerialInv
<1> QED
  BY <1>1, SerialInvHolds, PTL

-----------------------------------------------------------------------------
(* Without faults the promise of StreamLedger is kept.                     *)

\* Requests one at a time, nothing lost, no payment that a client only reports, no
\* row closed without its refund, and a deposit that leaves the reserve and a fee
\* for every request on top of the stream's amount.
FaultFree ==
    /\ Faults = {}
    /\ Routes \subseteq {"get", "withdraw", "cancel"}
    /\ IsFiniteSet(Requests)
    /\ FundingExtra >= Reserve + Fee * Cardinality(Requests)

\* What the place a handler has reached says of its copy, its payment and the row.
Place(r) ==
    /\ req[r].kind \in {"get", "withdraw", "cancel"}
    /\ req[r].outcome # "payment failed"
    /\ tx[r].state # "failed"
    /\ tx[r].state = "pending" => req[r].pc = "await" /\ tx[r].seq = escrow.seq + 1
    /\ req[r].pc \in {"refresh", "check"} => req[r].status = row.status
    /\ req[r].pc = "check" => row.status \in {"active", "completed"}
    /\ req[r].pc \in {"pay", "await", "record"} /\ req[r].kind = "withdraw"
         => row.status \in {"active", "completed"} /\ req[r].amount > 0
    /\ req[r].pc \in {"pay", "await", "close"} /\ req[r].kind = "cancel"
         => row.status \in {"pending", "active"} /\ received + req[r].amount <= Total
    /\ req[r].pc = "pay" => req[r].amount > 0
    /\ req[r].pc = "await" => tx[r].state # "none" /\ tx[r].amount = req[r].amount
    /\ req[r].pc = "record" => tx[r].state = "applied" /\ tx[r].to = "recipient"
    /\ req[r].pc = "close" => \/ req[r].amount = 0 /\ tx[r].state = "none"
                              \/ tx[r].state = "applied" /\ tx[r].to = "sender"

\* A payment the ledger has made and the row does not show yet.
Unrecorded(r) ==
    tx[r].state = "applied" /\ tx[r].to = "recipient" /\ req[r].pc \in {"await", "record"}

Returned(r) == tx[r].state = "applied" /\ tx[r].to = "sender"

\* The row and the ledger differ by the one payment that is being recorded; what went
\* back to the sender is the refund of the one cancellation.
Books ==
    /\ \A r \in Requests : Unrecorded(r) => received = row.withdrawn + req[r].amount
    /\ (\A r \in Requests : ~Unrecorded(r)) => received = row.withdrawn
    /\ row.status # "cancelled"
         => \A r \in Requests : Returned(r) =>
              req[r].pc \in {"await", "close"} /\ refunded = req[r].amount
    /\ row.status # "cancelled" /\ (\A r \in Requests : ~Returned(r)) => refunded = 0
    /\ row.status = "cancelled" => received + refunded <= Total

\* The escrow has paid what the two parties received and one fee for each payment.
Settled == {r \in Requests : tx[r].state = "applied"}

Money ==
    /\ ~escrow.exists => row.status = "none"
    /\ row.status = "none" => received = 0 /\ refunded = 0
    /\ escrow.exists =>
         escrow.balance + received + refunded + Fee * escrow.seq = Total + FundingExtra
    /\ ~escrow.exists => escrow.seq = 0
    /\ escrow.seq = Cardinality(Settled)

ReliableInv == (\A r \in Requests : Place(r)) /\ Books /\ Money

\* The fee of one more payment is set aside as long as a request has not paid.
LEMMA FeesSetAside ==
    ASSUME FaultFree, TypeOK, Money, escrow.exists,
           NEW r \in Requests, tx[r].state # "applied"
    PROVE  escrow.balance - Fee >= Total + Reserve - received - refunded
<1> DEFINE n == Cardinality(Requests)
<1>1. n \in Nat /\ escrow.seq \in Nat /\ IsFiniteSet(Settled)
  <2>1. Settled \in SUBSET Requests
    BY DEF Settled
  <2> QED
    BY <2>1, FS_CardinalityType, FS_Subset DEF FaultFree, TypeOK, Escrow
<1>2. Cardinality(Settled) < n
  <2>1. Settled \in SUBSET Requests /\ Settled # Requests
    BY DEF Settled
  <2>2. Cardinality(Settled) <= n /\ Cardinality(Settled) # n
    BY <2>1, FS_Subset DEF FaultFree
  <2> QED
    BY <1>1, <2>2, FS_CardinalityType
<1>3. escrow.seq + 1 <= n
  BY <1>1, <1>2 DEF Money
<1>4. Fee * escrow.seq + Fee <= Fee * n
  <2>1. PICK d \in Nat : n = escrow.seq + 1 + d
    <3>1. n - escrow.seq - 1 \in Nat
      BY <1>1, <1>3
    <3> QED
      BY <1>1, <3>1
  <2>2. Fee * n = Fee * escrow.seq + Fee + Fee * d
    BY <1>1, <2>1, AmountAssumption
  <2>3. Fee * d >= 0 /\ Fee * escrow.seq \in Nat
    BY <1>1, AmountAssumption
  <2> QED
    BY <1>1, <2>2, <2>3, AmountAssumption
<1>5. Fee * escrow.seq \in Nat /\ Fee * n \in Nat
  BY <1>1, AmountAssumption
<1> HIDE DEF n
<1>6. FundingExtra >= Reserve + Fee * n
  BY DEF FaultFree, n
<1> QED
  BY <1>4, <1>5, <1>6, AmountAssumption DEF Money, TypeOK, Escrow

\* While a handler is at work no other has a copy, a payment on its way or a refund.
LEMMA OthersPlaced ==
    ASSUME SerialInv, ReliableInv, NEW r \in Requests, InFlight(r),
           NEW q \in Requests \ {r}, req'[q] = req[q], tx'[q] = tx[q]
    PROVE  Place(q)' /\ ~Unrecorded(q) /\ ~Unrecorded(q)' /\ tx[q].state # "pending"
<1>1. req[q].pc \in {"idle", "done"}
  BY DEF SerialInv, InFlight
<1>2. Place(q)
  BY DEF ReliableInv
<1> QED
  BY <1>1, <1>2 DEF Place, Unrecorded

\* A step of one handler that moves no money keeps the invariant if the handler's own
\* place is right, and its payment, if it has made one, is as unrecorded as before.
LEMMA QuietStep ==
    ASSUME TypeOK, TypeOK', SerialInv, ReliableInv, NEW r \in Requests, InFlight(r),
           \A q \in Requests \ {r} : req'[q] = req[q],
           UNCHANGED <<received, refunded, tx, escrow>>,
           row'.withdrawn = row.withdrawn,
           row'.status = "none" <=> row.status = "none",
           row'.status = "cancelled" <=> row.status = "cancelled",
           tx[r].state = "none" \/ (/\ req[r].pc = "await" /\ req'[r].pc \in {"record", "close"}
                                    /\ req'[r].amount = req[r].amount
                                    /\ tx[r].to = Recipient(req[r].kind)
                                    /\ req'[r].pc = NextAfterPayment(req[r].kind)),
           Place(r)'
    PROVE  ReliableInv'
<1>1. ASSUME NEW q \in Requests PROVE Place(q)'
  BY <1>1, OthersPlaced
<1>2. ASSUME NEW q \in Requests \ {r} PROVE ~Unrecorded(q) /\ ~Unrecorded(q)'
  BY <1>2, OthersPlaced
<1>3. Unrecorded(r) <=> Unrecorded(r)'
  BY DEF Unrecorded, Recipient, NextAfterPayment
<1>4. ASSUME Unrecorded(r) PROVE req'[r].amount = req[r].amount
  BY <1>4 DEF Unrecorded
<1>5. ASSUME NEW q \in Requests PROVE Returned(q)' <=> Returned(q)
  BY DEF Returned
<1>6. ASSUME NEW q \in Requests, Returned(q), row.status # "cancelled"
      PROVE  req'[q].pc \in {"await", "close"} /\ refunded' = req'[q].amount
  <2>1. CASE q # r
    BY <1>6, <2>1 DEF ReliableInv, Books
  <2>2. CASE q = r
    BY <1>6, <2>2 DEF ReliableInv, Books, Returned, Recipient, NextAfterPayment
  <2> QED
    BY <2>1, <2>2
<1>7. Books'
  BY <1>2, <1>3, <1>4, <1>5, <1>6 DEF ReliableInv, Books
<1>8. Money'
  BY DEF ReliableInv, Money, Settled
<1> QED
  BY <1>1, <1>7, <1>8 DEF ReliableInv

\* A handler that answers before it has paid anything keeps the invariant.
LEMMA ReturnQuiet ==
    ASSUME TypeOK, TypeOK', SerialInv, ReliableInv, NEW r \in Requests, InFlight(r),
           tx[r].state = "none", NEW outcome, outcome # "payment failed",
           Finish(r, outcome), UNCHANGED <<row, received, refunded, tx, escrow>>
    PROVE  ReliableInv'
<1>1. /\ req'[r].pc = "done" /\ req'[r].outcome = outcome /\ req'[r].kind = req[r].kind
      /\ \A q \in Requests \ {r} : req'[q] = req[q]
  BY DEF Finish, Blank, TypeOK
<1>2. Place(r)'
  BY <1>1 DEF ReliableInv, Place
<1> QED
  BY <1>1, <1>2, QuietStep

\* Whatever is about to be paid fits the deposit, and the escrow can pay it.
LEMMA PaymentFits ==
    ASSUME FaultFree, TypeOK, PaymentInv, SerialInv, ReliableInv,
           NEW r \in Requests, req[r].pc \in {"pay", "await"}, tx[r].state # "applied"
    PROVE  /\ req[r].kind \in {"withdraw", "cancel"}
           /\ row.status \notin {"none", "cancelled"}
           /\ \A q \in Requests : ~Unrecorded(q) /\ ~Returned(q)
           /\ received = row.withdrawn /\ refunded = 0
           /\ received + req[r].amount <= Total
           /\ escrow.exists
           /\ escrow.balance - Fee - req[r].amount >= Reserve
<1>0. Place(r) /\ RowRead(r) /\ Submitted(r) /\ Due(r) /\ InFlight(r)
  BY DEF ReliableInv, PaymentInv, SerialInv, InFlight
<1>1. req[r].kind \in {"withdraw", "cancel"}
  BY <1>0 DEF Submitted
<1>2. row.status \notin {"none", "cancelled"}
  BY <1>0, <1>1 DEF Place, RowRead
<1>3. ASSUME NEW q \in Requests PROVE ~Unrecorded(q) /\ ~Returned(q)
  <2>1. CASE q = r
    BY <2>1 DEF Unrecorded, Returned
  <2>2. CASE q # r
    <3>1. req[q].pc \in {"idle", "done"}
      BY <1>0, <2>2 DEF SerialInv, InFlight
    <3> QED
      BY <1>2, <3>1 DEF Unrecorded, ReliableInv, Books
  <2> QED
    BY <2>1, <2>2
<1>4. received = row.withdrawn /\ refunded = 0
  BY <1>2, <1>3 DEF ReliableInv, Books
<1>5. received + req[r].amount <= Total
  <2>1. CASE req[r].kind = "cancel"
    BY <1>0, <2>1 DEF Place
  <2>2. CASE req[r].kind = "withdraw"
    <3>1. Streamed(now, row.start) \in 0..Total
      <4>1. now \in Int /\ row.start \in Int
        BY AmountAssumption DEF TypeOK, Row
      <4> QED
        BY <4>1, StreamedRange
    <3>2. row.withdrawn + req[r].amount <= Streamed(now, row.start)
      BY <1>0, <2>2 DEF Due
    <3> QED
      BY <1>4, <3>1, <3>2, AmountAssumption DEF TypeOK, Row, Request
  <2> QED
    BY <1>1, <2>1, <2>2
<1>6. escrow.exists
  BY <1>2 DEF ReliableInv, Money
<1>7. escrow.balance - Fee >= Total + Reserve - received - refunded
  BY <1>6, FeesSetAside DEF ReliableInv
<1>8. escrow.balance - Fee - req[r].amount >= Reserve
  BY <1>4, <1>5, <1>7, AmountAssumption DEF TypeOK, Row, Request, Escrow
<1> QED
  BY <1>1, <1>2, <1>3, <1>4, <1>5, <1>6, <1>8

\* Every step of the fault-free stream keeps its invariant.
LEMMA ReliableStep ==
    ASSUME FaultFree, TypeOK, TypeOK', PaymentInv, SerialInv, ReliableInv, Next
    PROVE  ReliableInv'
<1>0. ASSUME NEW r \in Requests PROVE Place(r) /\ RowRead(r) /\ Submitted(r) /\ Due(r)
  BY DEF ReliableInv, PaymentInv, SerialInv
<1>1. CASE Tick
  BY <1>1 DEF Tick, ReliableInv, Place, Books, Money, Unrecorded, Returned, Settled
<1>2. CASE FundEscrow
  <2>1. /\ row.status = "none" /\ received = 0 /\ refunded = 0 /\ escrow.seq = 0
        /\ escrow' = [exists |-> TRUE, balance |-> Total + FundingExtra, seq |-> 0]
        /\ UNCHANGED <<row, received, refunded, req, tx>>
    BY <1>2 DEF FundEscrow, Deposit, ReliableInv, Money
  <2>2. \A r \in Requests : Place(r)'
    BY <1>0, <2>1 DEF Place
  <2>3. Books'
    BY <2>1 DEF ReliableInv, Books, Unrecorded, Returned
  <2>4. Fee * 0 = 0
    BY AmountAssumption
  <2>5. Money'
    BY <2>1, <2>4, AmountAssumption DEF ReliableInv, Money, Settled
  <2> QED
    BY <2>2, <2>3, <2>5 DEF ReliableInv
<1>3. CASE CreateStream
  <2>1. /\ row.status = "none" /\ escrow.exists
        /\ row'.status \in {"active", "pending"} /\ row'.withdrawn = 0
        /\ UNCHANGED <<escrow, received, refunded, req, tx>>
    BY <1>3 DEF CreateStream, NewRow
  <2>2. ASSUME NEW r \in Requests
        PROVE  req[r].pc \in {"idle", "read", "done"} /\ tx[r].state = "none"
    BY <1>0, <2>1 DEF RowRead
  <2>3. ASSUME NEW r \in Requests PROVE Place(r)'
    BY <1>0, <2>1, <2>2 DEF Place
  <2>4. Books'
    BY <2>1, <2>2 DEF ReliableInv, Books, Money, Unrecorded, Returned
  <2>5. Money'
    BY <2>1 DEF ReliableInv, Money, Settled
  <2> QED
    BY <2>3, <2>4, <2>5 DEF ReliableInv
<1>4. ASSUME NEW r \in Requests, NEW kind \in RouteKinds, Begin(r, kind)
      PROVE  ReliableInv'
  <2>1. /\ req[r].pc = "idle" /\ kind \in {"get", "withdraw", "cancel"}
        /\ req'[r] = [req[r] EXCEPT !.pc = "read", !.kind = kind]
        /\ \A q \in Requests \ {r} : req'[q] = req[q]
        /\ \A q \in Requests : ~InFlight(q)
        /\ UNCHANGED <<row, escrow, received, refunded, tx>>
    BY <1>4 DEF Begin, FaultFree, TypeOK
  <2>2. req'[r].pc = "read" /\ req'[r].kind = kind /\ req'[r].outcome = req[r].outcome
    BY <2>1 DEF TypeOK, Request
  <2>3. tx[r].state = "none"
    BY <1>0, <2>1 DEF Submitted, TypeOK, Transaction
  <2>4. ASSUME NEW q \in Requests PROVE Place(q)' /\ ~Unrecorded(q) /\ ~Unrecorded(q)'
    <3>1. CASE q = r
      BY <1>0, <2>1, <2>2, <2>3, <3>1 DEF Place, Unrecorded
    <3>2. CASE q # r
      <4>1. req[q].pc \in {"idle", "done"} /\ req'[q] = req[q] /\ tx'[q] = tx[q]
        BY <2>1, <3>2 DEF InFlight
      <4> QED
        BY <1>0, <2>1, <4>1 DEF Place, Unrecorded
    <3> QED
      BY <3>1, <3>2
  <2>5. \A q \in Requests : Returned(q)' <=> Returned(q)
    BY <2>1 DEF Returned
  <2>6. ASSUME NEW q \in Requests, row.status # "cancelled" PROVE ~Returned(q)
    BY <2>1, <2>6 DEF ReliableInv, Books, InFlight
  <2>7. Books'
    BY <2>1, <2>4, <2>5, <2>6 DEF ReliableInv, Books
  <2>8. Money'
    BY <2>1 DEF ReliableInv, Money, Settled
  <2> QED
    BY <2>4, <2>7, <2>8 DEF ReliableInv
<1>5. ASSUME NEW r \in Requests, ReadRow(r) PROVE ReliableInv'
  <2>0. /\ req[r].pc = "read" /\ InFlight(r) /\ tx[r].state = "none"
        /\ UNCHANGED <<row, received, refunded, tx, escrow>>
    BY <1>0, <1>5 DEF ReadRow, InFlight, Submitted, TypeOK, Transaction
  <2>1. CASE row.status = "none"
    BY <1>5, <2>0, <2>1, ReturnQuiet DEF ReadRow
  <2>2. CASE row.status # "none"
    <3>1. /\ req'[r] = [req[r] EXCEPT !.pc = "refresh", !.status = row.status,
                                      !.withdrawn = row.withdrawn]
          /\ \A q \in Requests \ {r} : req'[q] = req[q]
      BY <1>5, <2>2 DEF ReadRow, TypeOK
    <3>2. /\ req'[r].pc = "refresh" /\ req'[r].status = row.status
          /\ req'[r].kind = req[r].kind /\ req'[r].outcome = req[r].outcome
      BY <3>1 DEF TypeOK, Request
    <3>3. Place(r)'
      BY <1>0, <2>0, <3>2 DEF Place
    <3> QED
      BY <2>0, <3>1, <3>3, QuietStep
  <2> QED
    BY <2>1, <2>2
<1>6. ASSUME NEW r \in Requests, RefreshStatus(r) PROVE ReliableInv'
  <2>1. /\ req[r].pc = "refresh" /\ InFlight(r) /\ tx[r].state = "none"
        /\ req[r].status = row.status
        /\ RefreshedStatus(req[r].status) # req[r].status
        /\ UNCHANGED <<received, refunded, tx, escrow>>
    BY <1>0, <1>6 DEF RefreshStatus, InFlight, Submitted, Place, TypeOK, Transaction
  <2>2. /\ row.status \in {"active", "pending"}
        /\ RefreshedStatus(req[r].status) \in {"active", "completed"}
    BY <2>1 DEF RefreshedStatus
  <2>3. row'.status = RefreshedStatus(req[r].status) /\ row'.withdrawn = row.withdrawn
    BY <1>6, <2>1 DEF RefreshStatus, RefreshUpdates, TypeOK, Row
  <2>4. /\ req'[r] = [req[r] EXCEPT !.status = RefreshedStatus(req[r].status),
                                    !.pc = "check"]
        /\ \A q \in Requests \ {r} : req'[q] = req[q]
    BY <1>6 DEF RefreshStatus, TypeOK
  <2>5. /\ req'[r].pc = "check" /\ req'[r].status = RefreshedStatus(req[r].status)
        /\ req'[r].kind = req[r].kind /\ req'[r].outcome = req[r].outcome
    BY <2>4 DEF TypeOK, Request
  <2>6. Place(r)'
    BY <1>0, <2>1, <2>2, <2>3, <2>5 DEF Place
  <2> QED
    BY <2>1, <2>2, <2>3, <2>4, <2>6, QuietStep
<1>7. ASSUME NEW r \in Requests, NEW kind, Checking(r, kind)
      PROVE  /\ req[r].pc \in {"refresh", "check"} /\ req[r].kind = kind
             /\ InFlight(r) /\ tx[r].state = "none"
             /\ req[r].status = row.status /\ row.status # "none"
             /\ row.status = "pending" => now < row.start
             /\ received = row.withdrawn /\ received <= Streamed(now, row.start)
  <2>1. /\ req[r].pc \in {"refresh", "check"} /\ req[r].kind = kind
        /\ InFlight(r) /\ tx[r].state = "none"
        /\ req[r].status = row.status /\ row.status # "none"
    BY <1>0, <1>7 DEF Checking, InFlight, Submitted, Place, RowRead, TypeOK, Transaction
  <2>2. now \in Int /\ row.start \in Int
    BY AmountAssumption DEF TypeOK, Row
  <2>3. row.status = "pending" => now < row.start
    <3>1. CASE req[r].pc = "check"
      BY <1>0, <3>1 DEF Place
    <3>2. CASE req[r].pc = "refresh" /\ row.status = "pending"
      <4>1. RefreshedStatus("pending") = "pending"
        BY <1>7, <2>1, <3>2 DEF Checking
      <4> QED
        BY <2>2, <4>1 DEF RefreshedStatus
    <3> QED
      BY <2>1, <3>1, <3>2
  <2>4. ASSUME NEW q \in Requests PROVE ~Unrecorded(q)
    BY <2>1 DEF Unrecorded, SerialInv, InFlight
  <2>5. received = row.withdrawn
    BY <2>4 DEF ReliableInv, Books
  <2> QED
    BY <2>1, <2>3, <2>5 DEF SerialInv, RecordedWithinStreamed
<1>8. ASSUME NEW r \in Requests, AnswerGet(r) PROVE ReliableInv'
  BY <1>7, <1>8, ReturnQuiet DEF AnswerGet
<1>9. ASSUME NEW r \in Requests, CheckWithdraw(r) PROVE ReliableInv'
  <2>0. Checking(r, "withdraw") /\ UNCHANGED <<row, received, refunded, tx, escrow>>
    BY <1>9 DEF CheckWithdraw
  <2>1. CASE Finish(r, "stream cancelled") \/ Finish(r, "rejected")
    BY <1>7, <2>0, <2>1, ReturnQuiet
  <2>2. CASE ~(Finish(r, "stream cancelled") \/ Finish(r, "rejected"))
    <3> DEFINE amount(a) == IF a = 0 THEN Withdrawable(r) ELSE a
    <3>1. PICK a \in RequestedAmounts :
            /\ ~(amount(a) > Withdrawable(r) \/ amount(a) = 0)
            /\ req' = [req EXCEPT ![r] = [@ EXCEPT !.pc = "pay", !.amount = amount(a)]]
      BY <1>9, <2>2 DEF CheckWithdraw, Refused
    <3>2. req[r].status # "cancelled"
      BY <1>9, <2>2 DEF CheckWithdraw
    <3>3. now \in Int /\ row.start \in Int /\ req[r].withdrawn \in Nat
          /\ Streamed(now, row.start) \in 0..Total
      <4>1. now \in Int /\ row.start \in Int /\ req[r].withdrawn \in Nat
        BY AmountAssumption DEF TypeOK, Row, Request
      <4> QED
        BY <4>1, StreamedRange
    <3>4. Withdrawable(r) \in Nat
      BY <3>3, AmountAssumption DEF Withdrawable
    <3>5. amount(a) \in Nat /\ amount(a) > 0 /\ Withdrawable(r) > 0
      BY <3>1, <3>4, AmountAssumption
    <3> HIDE DEF amount
    <3>6. row.status \in {"active", "completed"}
      <4>1. row.status # "pending"
        BY <1>7, <2>0, <3>3, <3>5 DEF Withdrawable, Streamed
      <4> QED
        BY <1>7, <2>0, <3>2, <4>1 DEF TypeOK, Row, Statuses
    <3>7. /\ req'[r] = [req[r] EXCEPT !.pc = "pay", !.amount = amount(a)]
          /\ \A q \in Requests \ {r} : req'[q] = req[q]
      BY <3>1 DEF TypeOK
    <3>8. /\ req'[r].pc = "pay" /\ req'[r].amount = amount(a)
          /\ req'[r].kind = req[r].kind /\ req'[r].outcome = req[r].outcome
      BY <3>7 DEF TypeOK, Request
    <3>9. Place(r)'
      <4>1. req[r].kind = "withdraw" /\ tx[r].state = "none"
        BY <1>7, <2>0
      <4> QED
        BY <1>0, <2>0, <3>5, <3>6, <3>8, <4>1 DEF Place
    <3> QED
      BY <1>7, <2>0, <3>7, <3>9, QuietStep
  <2> QED
    BY <2>1, <2>2
<1>10. ASSUME NEW r \in Requests, CheckCancel(r) PROVE ReliableInv'
  <2>0. Checking(r, "cancel") /\ UNCHANGED <<row, received, refunded, tx, escrow>>
    BY <1>10 DEF CheckCancel
  <2>1. CASE req[r].status \in {"cancelled", "completed"}
    BY <1>7, <1>10, <2>0, <2>1, ReturnQuiet DEF CheckCancel
  <2>2. CASE req[r].status \notin {"cancelled", "completed"}
    <3>1. Streamed(now, row.start) \in 0..Total
      <4>1. now \in Int /\ row.start \in Int
        BY AmountAssumption DEF TypeOK, Row
      <4> QED
        BY <4>1, StreamedRange
    <3>2. Refund(r) \in Nat /\ received + Refund(r) <= Total
      BY <1>7, <2>0, <3>1, AmountAssumption DEF Refund, TypeOK
    <3>3. PICK pc \in {"pay", "close"} :
            /\ req'[r] = [req[r] EXCEPT !.pc = pc, !.amount = Refund(r)]
            /\ \A q \in Requests \ {r} : req'[q] = req[q]
            /\ pc = "pay" <=> Refund(r) > 0
      BY <1>10, <2>2 DEF CheckCancel, TypeOK
    <3>4. /\ req'[r].pc = pc /\ req'[r].amount = Refund(r)
          /\ req'[r].kind = req[r].kind /\ req'[r].outcome = req[r].outcome
      BY <3>3 DEF TypeOK, Request
    <3>5. row.status \in {"pending", "active"}
      BY <1>7, <2>0, <2>2 DEF TypeOK, Row, Statuses
    <3>6. pc = "close" => Refund(r) = 0
      BY <3>2, <3>3
    <3>7. Place(r)'
      <4>1. req[r].kind = "cancel" /\ tx[r].state = "none"
        BY <1>7, <2>0
      <4>2. row' = row /\ received' = received /\ tx' = tx
        BY <2>0
      <4> QED
        BY <1>0, <3>2, <3>3, <3>4, <3>5, <3>6, <4>1, <4>2 DEF Place
    <3> QED
      BY <1>7, <2>0, <3>3, <3>7, QuietStep
  <2> QED
    BY <2>1, <2>2
<1>11. ASSUME NEW r \in Requests, CheckReport(r) \/ CheckDelete(r) PROVE FALSE
  BY <1>0, <1>11 DEF CheckReport, CheckDelete, Checking, Place
<1>12. ASSUME NEW r \in Requests, SubmitPayment(r) PROVE ReliableInv'
  <2>0. req[r].pc = "pay" /\ InFlight(r) /\ tx[r].state = "none"
    BY <1>0, <1>12 DEF SubmitPayment, InFlight, Submitted, TypeOK, Transaction
  <2>1. escrow.balance - Reserve >= req[r].amount
    BY <2>0, PaymentFits, AmountAssumption DEF TypeOK, Escrow, Request
  <2>2. /\ Goto(r, "await")
        /\ tx' = [tx EXCEPT ![r] = [state |-> "pending", seq |-> escrow.seq + 1,
                                    to |-> Recipient(req[r].kind),
                                    amount |-> req[r].amount]]
        /\ UNCHANGED <<row, received, refunded, escrow>>
    BY <1>12, <2>1, AmountAssumption DEF SubmitPayment, TypeOK, Escrow, Request
  <2>3. /\ req'[r] = [req[r] EXCEPT !.pc = "await"]
        /\ tx'[r] = [state |-> "pending", seq |-> escrow.seq + 1,
                     to |-> Recipient(req[r].kind), amount |-> req[r].amount]
        /\ \A q \in Requests \ {r} : req'[q] = req[q] /\ tx'[q] = tx[q]
    BY <2>2 DEF Goto, TypeOK
  <2>4. /\ req'[r].pc = "await" /\ req'[r].kind = req[r].kind
        /\ req'[r].amount = req[r].amount /\ req'[r].outcome = req[r].outcome
        /\ tx'[r].state = "pending" /\ tx'[r].seq = escrow.seq + 1
        /\ tx'[r].amount = req[r].amount
    BY <2>3 DEF TypeOK, Request
  <2>5. Place(r)'
    BY <1>0, <2>0, <2>2, <2>4 DEF Place
  <2>6. ASSUME NEW q \in Requests PROVE Place(q)'
    BY <2>0, <2>3, <2>5, OthersPlaced
  <2>7. ASSUME NEW q \in Requests
        PROVE  ~Unrecorded(q)' /\ ~Returned(q)'
    <3>1. ~Unrecorded(q) /\ ~Returned(q)
      BY <2>0, PaymentFits
    <3>2. CASE q = r
      BY <2>4, <3>2 DEF Unrecorded, Returned
    <3>3. CASE q # r
      BY <2>3, <3>1, <3>3 DEF Unrecorded, Returned
    <3> QED
      BY <3>2, <3>3
  <2>8. Books'
    BY <2>0, <2>2, <2>7, PaymentFits DEF Books
  <2>9. Settled' = Settled
    BY <2>0, <2>3, <2>4 DEF Settled
  <2>10. Money'
    BY <2>2, <2>9 DEF ReliableInv, Money
  <2> QED
    BY <2>6, <2>8, <2>10 DEF ReliableInv
<1>13. ASSUME NEW r \in Requests, ApplyTx(r) PROVE ReliableInv'
  <2>0. /\ tx[r].state = "pending" /\ req[r].pc = "await" /\ InFlight(r)
        /\ tx[r].amount = req[r].amount /\ tx[r].to = Recipient(req[r].kind)
    BY <1>0, <1>13 DEF ApplyTx, Place, Submitted, InFlight
  <2>1. /\ req[r].kind \in {"withdraw", "cancel"}
        /\ row.status \notin {"none", "cancelled"}
        /\ \A q \in Requests : ~Unrecorded(q) /\ ~Returned(q)
        /\ received = row.withdrawn /\ refunded = 0
        /\ escrow.exists
        /\ escrow.balance - Fee - req[r].amount >= Reserve
    BY <2>0, PaymentFits
  <2>2. /\ tx' = [tx EXCEPT ![r].state = "applied"]
        /\ escrow' = [escrow EXCEPT !.seq = @ + 1,
                        !.balance = escrow.balance - Fee - tx[r].amount]
        /\ received' = IF tx[r].to = "recipient" THEN received + tx[r].amount ELSE received
        /\ refunded' = IF tx[r].to = "sender" THEN refunded + tx[r].amount ELSE refunded
        /\ UNCHANGED <<row, req>>
    BY <1>13, <2>0, <2>1 DEF ApplyTx, Covered
  <2>3. /\ tx'[r] = [tx[r] EXCEPT !.state = "applied"]
        /\ \A q \in Requests \ {r} : tx'[q] = tx[q]
    BY <2>2 DEF TypeOK
  <2>4. /\ tx'[r].state = "applied" /\ tx'[r].to = tx[r].to /\ tx'[r].amount = tx[r].amount
        /\ tx'[r].seq = tx[r].seq
    BY <2>3 DEF TypeOK, Transaction
  <2>5. Place(r)'
    BY <1>0, <2>0, <2>1, <2>2, <2>4 DEF Place, Recipient
  <2>6. ASSUME NEW q \in Requests PROVE Place(q)'
    BY <2>0, <2>2, <2>3, <2>5, OthersPlaced
  <2>7. ASSUME NEW q \in Requests \ {r} PROVE ~Unrecorded(q)' /\ ~Returned(q)'
    BY <2>1, <2>2, <2>3 DEF Unrecorded, Returned
  <2>8. Books'
    <3>1. CASE req[r].kind = "withdraw"
      BY <2>0, <2>1, <2>2, <2>4, <2>7, <3>1 DEF Books, Unrecorded, Returned, Recipient
    <3>2. CASE req[r].kind = "cancel"
      BY <2>0, <2>1, <2>2, <2>4, <2>7, <3>2, AmountAssumption
      DEF Books, Unrecorded, Returned, Recipient, TypeOK, Request
    <3> QED
      BY <2>1, <3>1, <3>2
  <2>9. escrow'.seq = Cardinality(Settled')
    <3>1. Settled' = Settled \cup {r} /\ r \notin Settled /\ Settled \in SUBSET Requests
      BY <2>0, <2>3, <2>4 DEF Settled
    <3>2. Cardinality(Settled') = Cardinality(Settled) + 1
      BY <3>1, FS_Subset, FS_AddElement DEF FaultFree
    <3> QED
      BY <2>2, <3>2 DEF ReliableInv, Money, TypeOK, Escrow
  <2>10. Money'
    <3>1. /\ escrow'.exists = escrow.exists /\ escrow'.seq = escrow.seq + 1
          /\ escrow'.balance = escrow.balance - Fee - tx[r].amount
      BY <2>2 DEF TypeOK, Escrow
    <3>2. received' + refunded' = received + refunded + tx[r].amount
      BY <2>0, <2>1, <2>2, AmountAssumption DEF Recipient, TypeOK, Row, Transaction
    <3>3. Fee * (escrow.seq + 1) = Fee * escrow.seq + Fee /\ Fee * escrow.seq \in Nat
      BY AmountAssumption DEF TypeOK, Escrow
    <3>4. escrow.balance + received + refunded + Fee * escrow.seq = Total + FundingExtra
      BY <2>1 DEF ReliableInv, Money
    <3>5. /\ escrow.balance \in Nat /\ tx[r].amount \in Nat /\ received \in Nat
          /\ refunded \in Nat /\ received' \in Nat /\ refunded' \in Nat
      BY DEF TypeOK, Escrow, Transaction
    <3>6. escrow'.balance + received' + refunded' + Fee * escrow'.seq = Total + FundingExtra
      BY <3>1, <3>2, <3>3, <3>4, <3>5, AmountAssumption
    <3> QED
      BY <2>1, <2>2, <2>9, <3>1, <3>6 DEF Money
  <2> QED
    BY <2>6, <2>8, <2>10 DEF ReliableInv
<1>14. ASSUME NEW r \in Requests, RejectTx(r) PROVE FALSE
  <2>1. tx[r].state = "pending" /\ req[r].pc = "await" /\ tx[r].seq = escrow.seq + 1
    BY <1>0, <1>14 DEF RejectTx, Place
  <2>2. escrow.balance >= Fee
    BY <2>1, PaymentFits, AmountAssumption DEF TypeOK, Escrow, Request
  <2> QED
    BY <1>14, <2>1, <2>2, AmountAssumption DEF RejectTx, TypeOK, Escrow
<1>15. ASSUME NEW r \in Requests, PaymentAnswer(r) PROVE ReliableInv'
  <2>1. /\ req[r].pc = "await" /\ InFlight(r) /\ tx[r].state = "applied" /\ PaymentMade(r)
        /\ UNCHANGED <<row, escrow, received, refunded, tx>>
        /\ req[r].kind \in {"withdraw", "cancel"} /\ tx[r].to = Recipient(req[r].kind)
    BY <1>0, <1>15 DEF PaymentAnswer, InFlight, Place, Submitted
  <2>2. /\ req'[r] = [req[r] EXCEPT !.pc = NextAfterPayment(req[r].kind), !.hash = r]
        /\ \A q \in Requests \ {r} : req'[q] = req[q]
    BY <2>1 DEF PaymentMade, TypeOK
  <2>3. /\ req'[r].pc = NextAfterPayment(req[r].kind) /\ req'[r].kind = req[r].kind
        /\ req'[r].amount = req[r].amount /\ req'[r].outcome = req[r].outcome
    BY <2>2 DEF TypeOK, Request
  <2>4. Place(r)'
    BY <1>0, <2>1, <2>3 DEF Place, NextAfterPayment, Recipient
  <2>5. req'[r].pc \in {"record", "close"}
    BY <2>3 DEF NextAfterPayment
  <2> QED
    BY <2>1, <2>2, <2>3, <2>4, <2>5, QuietStep
<1>16. ASSUME NEW r \in Requests, RecordWithdrawal(r) PROVE ReliableInv'
  <2>0. /\ req[r].pc = "record" /\ InFlight(r) /\ req[r].kind = "withdraw"
        /\ row.status \in {"active", "completed"}
        /\ tx[r].state = "applied" /\ tx[r].to = "recipient"
        /\ UNCHANGED <<escrow, received, refunded, tx>>
    BY <1>0, <1>16 DEF RecordWithdrawal, InFlight, Place, Submitted
  <2>1. /\ row'.withdrawn = row.withdrawn + req[r].amount /\ row'.status = row.status
        /\ Finish(r, "ok")
    BY <1>16, <2>0 DEF RecordWithdrawal, WithdrawableStatuses, TypeOK, Row
  <2>2. /\ req'[r].pc = "done" /\ req'[r].outcome = "ok" /\ req'[r].kind = req[r].kind
        /\ \A q \in Requests \ {r} : req'[q] = req[q]
    BY <2>1 DEF Finish, Blank, TypeOK
  <2>3. received' = row'.withdrawn
    BY <2>0, <2>1 DEF ReliableInv, Books, Unrecorded
  <2>4. ASSUME NEW q \in Requests PROVE Place(q)' /\ ~Unrecorded(q)'
    <3>1. CASE q = r
      BY <1>0, <2>0, <2>2, <3>1 DEF Place, Unrecorded
    <3>2. CASE q # r
      BY <2>0, <2>2, <3>2, OthersPlaced
    <3> QED
      BY <3>1, <3>2
  <2>5. ASSUME NEW q \in Requests PROVE ~Returned(q) /\ ~Returned(q)'
    <3>1. CASE q = r
      BY <2>0, <3>1 DEF Returned
    <3>2. CASE q # r
      <4>1. req[q].pc \in {"idle", "done"}
        BY <2>0, <3>2 DEF SerialInv, InFlight
      <4> QED
        BY <2>0, <4>1 DEF ReliableInv, Books, Returned
    <3> QED
      BY <3>1, <3>2
  <2>6. Books'
    BY <2>0, <2>1, <2>3, <2>4, <2>5 DEF ReliableInv, Books
  <2>7. Money'
    BY <2>0, <2>1 DEF ReliableInv, Money, Settled
  <2> QED
    BY <2>4, <2>6, <2>7 DEF ReliableInv
<1>17. ASSUME NEW r \in Requests, CancelStream(r) PROVE ReliableInv'
  <2>0. /\ req[r].pc = "close" /\ InFlight(r) /\ req[r].kind = "cancel"
        /\ row.status \in {"pending", "active"} /\ received + req[r].amount <= Total
        /\ UNCHANGED <<escrow, received, refunded, tx>>
    BY <1>0, <1>17 DEF CancelStream, InFlight, Place, Submitted
  <2>1. row'.status = "cancelled" /\ row'.withdrawn = row.withdrawn /\ Finish(r, "ok")
    BY <1>17, <2>0 DEF CancelStream, CancellableStatuses, TypeOK, Row
  <2>2. /\ req'[r].pc = "done" /\ req'[r].outcome = "ok" /\ req'[r].kind = req[r].kind
        /\ \A q \in Requests \ {r} : req'[q] = req[q]
    BY <2>1 DEF Finish, Blank, TypeOK
  <2>3. ASSUME NEW q \in Requests PROVE Place(q)' /\ ~Unrecorded(q) /\ ~Unrecorded(q)'
    <3>1. CASE q = r
      BY <1>0, <2>0, <2>2, <3>1 DEF Place, Unrecorded
    <3>2. CASE q # r
      BY <2>0, <2>2, <3>2, OthersPlaced
    <3> QED
      BY <3>1, <3>2
  <2>4. received = row.withdrawn
    BY <2>3 DEF ReliableInv, Books
  <2>5. refunded = req[r].amount
    <3>1. CASE Returned(r)
      BY <2>0, <3>1 DEF ReliableInv, Books
    <3>2. CASE ~Returned(r)
      <4>1. req[r].amount = 0
        BY <1>0, <2>0, <3>2 DEF Place, Returned
      <4>2. ASSUME NEW q \in Requests PROVE ~Returned(q)
        <5>1. CASE q # r
          <6>1. req[q].pc \in {"idle", "done"}
            BY <2>0, <5>1 DEF SerialInv, InFlight
          <6> QED
            BY <2>0, <6>1 DEF ReliableInv, Books
        <5> QED
          BY <3>2, <5>1
      <4> QED
        BY <2>0, <4>1, <4>2 DEF ReliableInv, Books
    <3> QED
      BY <3>1, <3>2
  <2>6. Books'
    BY <2>0, <2>1, <2>3, <2>4, <2>5 DEF Books
  <2>7. Money'
    BY <2>0, <2>1 DEF ReliableInv, Money, Settled
  <2> QED
    BY <2>3, <2>6, <2>7 DEF ReliableInv
<1>18. ASSUME NEW r \in Requests, DropTx(r) \/ PaymentTimeout(r) \/ Crash(r) PROVE FALSE
  BY <1>18 DEF DropTx, PaymentTimeout, Crash, FaultFree
<1> QED
  BY <1>1, <1>2, <1>3, <1>4, <1>5, <1>6, <1>8, <1>9, <1>10, <1>11, <1>12, <1>13,
     <1>14, <1>15, <1>16, <1>17, <1>18
  DEF Next, Handler, Network

\* The invariant of the fault-free stream.
LEMMA ReliableInvHolds ==
    ASSUME FaultFree
    PROVE  Spec => [](SerialInv /\ ReliableInv)
<1>0. "overlap" \notin Faults
  BY DEF FaultFree
<1>1. Init => ReliableInv
  <2> SUFFICES ASSUME Init PROVE ReliableInv
    OBVIOUS
  <2>1. ASSUME NEW r \in Requests PROVE Place(r) /\ tx[r].state = "none"
    BY DEF Init, Blank, NoTx, Place
  <2>2. Books
    BY <2>1 DEF Init, NoRow, NewRow, Books, Unrecorded, Returned
  <2>3. Settled = {} /\ Cardinality({}) = 0
    BY <2>1, FS_EmptySet DEF Settled
  <2>4. Money
    BY <2>3 DEF Init, NoRow, NewRow, Money
  <2> QED
    BY <2>1, <2>2, <2>4 DEF ReliableInv
<1>2. TypeOK /\ TypeOK' /\ PaymentInv /\ SerialInv /\ ReliableInv /\ [Next]_vars
        => ReliableInv'
  <2> SUFFICES ASSUME TypeOK, TypeOK', PaymentInv, SerialInv, ReliableInv, [Next]_vars
               PROVE  ReliableInv'
    OBVIOUS
  <2>1. CASE Next
    BY <2>1, ReliableStep
  <2>2. CASE UNCHANGED vars
    BY <2>2
    DEF vars, ReliableInv, Place, Books, Money, Unrecorded, Returned, Settled
  <2> QED
    BY <2>1, <2>2
<1> QED
  BY <1>0, <1>1, <1>2, TypeCorrect, PaymentInvHolds, SerialInvHolds, PTL DEF Spec

\* Without faults the books agree with the ledger whenever no request is in flight,
\* and no withdrawal fails for want of money in the escrow.
THEOREM BooksAgreeHolds ==
    ASSUME FaultFree
    PROVE  Spec => [](BooksAgree /\ WithdrawalsCovered)
<1>1. ReliableInv => BooksAgree /\ WithdrawalsCovered
  <2> SUFFICES ASSUME ReliableInv PROVE BooksAgree /\ WithdrawalsCovered
    OBVIOUS
  <2>1. WithdrawalsCovered
    BY DEF ReliableInv, Place, WithdrawalsCovered
  <2>2. ASSUME \A r \in Requests : ~InFlight(r) PROVE row.withdrawn = received
    BY <2>2 DEF ReliableInv, Books, Unrecorded, InFlight
  <2> QED
    BY <2>1, <2>2 DEF BooksAgree
<1> QED
  BY <1>1, ReliableInvHolds, PTL

\* The requests that ask to close the stream.
Asks(r) == req[r].kind = "cancel" /\ req[r].pc \in {"pay", "await", "close"}

\* The only element there is to choose.
LEMMA ChosenOne ==
    ASSUME NEW r PROVE (CHOOSE q \in {r} : TRUE) = r
OBVIOUS

\* A step that leaves open what was open keeps the phase and what is owed.
LEMMA SamePhase ==
    ASSUME row'.status = "none" <=> row.status = "none",
           row'.status = "cancelled" <=> row.status = "cancelled",
           \A q \in Requests : Returned(q)' <=> Returned(q),
           \A q \in Requests : Asks(q)' <=> Asks(q),
           \A q \in Requests : Asks(q) => req'[q].amount = req[q].amount
    PROVE  Phase' = Phase /\ Owed' = Owed
<1>1. Asked' = Asked
  BY DEF Asked, Asks
<1>2. Phase' = Phase
  BY <1>1 DEF Phase, Returned
<1>3. CASE Phase # "closing"
  BY <1>2, <1>3 DEF Owed
<1>4. CASE Phase = "closing"
  <2>1. Asked # {}
    BY <1>4 DEF Phase
  <2>2. PICK q \in Asked : (CHOOSE r \in Asked : TRUE) = q
    BY <2>1
  <2>3. q \in Requests /\ Asks(q)
    BY DEF Asked, Asks
  <2>4. Owed = req[q].amount /\ Owed' = req'[q].amount
    BY <1>1, <1>2, <1>4, <2>2 DEF Owed
  <2> QED
    BY <1>2, <2>3, <2>4
<1> QED
  BY <1>2, <1>3, <1>4

\* While one handler is at work no other has asked to close the stream.
LEMMA OtherDoNotAsk ==
    ASSUME SerialInv, NEW r \in Requests, InFlight(r),
           \A q \in Requests \ {r} : req'[q] = req[q]
    PROVE  \A q \in Requests \ {r} : ~Asks(q) /\ ~Asks(q)'
BY DEF SerialInv, InFlight, Asks

\* A step of a handler that pays nobody and asks for nothing new is no step of the promise.
LEMMA PromiseStutters ==
    ASSUME SerialInv, NEW r \in Requests, InFlight(r),
           \A q \in Requests \ {r} : req'[q] = req[q],
           UNCHANGED <<now, received, refunded>>, row'.start = row.start,
           row'.status = "none" <=> row.status = "none",
           row'.status = "cancelled" <=> row.status = "cancelled",
           \A q \in Requests : Returned(q)' <=> Returned(q),
           Asks(r)' <=> Asks(r), Asks(r) => req'[r].amount = req[r].amount
    PROVE  UNCHANGED Promise!vars
<1>1. \A q \in Requests \ {r} : ~Asks(q) /\ ~Asks(q)'
  BY OtherDoNotAsk
<1>2. Phase' = Phase /\ Owed' = Owed
  BY <1>1, SamePhase
<1> QED
  BY <1>2 DEF Promise!vars

\* Where the handler in flight stands decides the phase of the stream.
LEMMA PhaseOf ==
    ASSUME PaymentInv, SerialInv, ReliableInv, NEW r \in Requests, InFlight(r),
           row.status \notin {"none", "cancelled"}
    PROVE  /\ Returned(r) => Phase = "closed" /\ Owed = 0
           /\ ~Returned(r) /\ Asks(r) => Phase = "closing" /\ Owed = req[r].amount
           /\ ~Asks(r) => Phase = "open" /\ Owed = 0 /\ refunded = 0
           /\ ~Returned(r) => refunded = 0
<1>1. \A q \in Requests \ {r} : req[q].pc \in {"idle", "done"}
  BY DEF SerialInv, InFlight
<1>2. ASSUME NEW q \in Requests \ {r} PROVE ~Asks(q) /\ ~Returned(q)
  BY <1>1 DEF Asks, ReliableInv, Books
<1>3. Returned(r) => Asks(r)
  BY DEF Asks, Returned, ReliableInv, Books, PaymentInv, Submitted, Place, Recipient
<1>4. ASSUME Asks(r) PROVE Asked = {r}
  BY <1>2, <1>4 DEF Asked, Asks
<1>5. ASSUME ~Asks(r) PROVE Asked = {}
  BY <1>2, <1>5 DEF Asked, Asks
<1>6. ASSUME Returned(r) PROVE Phase = "closed" /\ Owed = 0
  <2>1. Phase = "closed"
    BY <1>6 DEF Phase, Returned
  <2> QED
    BY <2>1 DEF Owed
<1>7. ASSUME ~Returned(r) PROVE ~\E q \in Requests : tx[q].state = "applied" /\ tx[q].to = "sender"
  BY <1>2, <1>7 DEF Returned
<1>8. ASSUME ~Returned(r), Asks(r) PROVE Phase = "closing" /\ Owed = req[r].amount
  <2>1. Phase = "closing"
    BY <1>4, <1>7, <1>8 DEF Phase
  <2> QED
    BY <1>4, <1>8, <2>1, ChosenOne DEF Owed
<1>9. ASSUME ~Asks(r) PROVE Phase = "open" /\ Owed = 0
  <2>1. Phase = "open"
    BY <1>3, <1>5, <1>7, <1>9 DEF Phase
  <2> QED
    BY <2>1 DEF Owed
<1>10. ASSUME ~Returned(r) PROVE refunded = 0
  BY <1>2, <1>10 DEF ReliableInv, Books
<1> QED
  BY <1>3, <1>6, <1>8, <1>9, <1>10

\* The recipient has what has vested at most, and with what is owed to the sender or
\* went back to him no more than the deposit.
THEOREM FairSharesHold ==
    ASSUME FaultFree
    PROVE  Spec => []FairShares
<1>1. TypeOK /\ PaymentInv /\ SerialInv /\ ReliableInv => FairShares
  <2> SUFFICES ASSUME TypeOK, PaymentInv, SerialInv, ReliableInv PROVE FairShares
    OBVIOUS
  <2>1. now \in Int /\ row.start \in Int /\ received \in Nat /\ refunded \in Nat
    BY AmountAssumption DEF TypeOK, Row
  <2>2. Streamed(now, row.start) \in 0..Total
    BY <2>1, StreamedRange
  <2>3. received <= Streamed(now, row.start)
    <3>1. CASE \A r \in Requests : ~Unrecorded(r)
      BY <3>1 DEF ReliableInv, Books, SerialInv, RecordedWithinStreamed
    <3>2. CASE \E r \in Requests : Unrecorded(r)
      <4>1. PICK r \in Requests : Unrecorded(r)
        BY <3>2
      <4>2. Due(r) /\ Submitted(r) /\ received = row.withdrawn + req[r].amount
        BY <4>1 DEF SerialInv, PaymentInv, ReliableInv, Books
      <4>3. req[r].pc = "record" \/ (req[r].pc = "await" /\ req[r].kind = "withdraw")
        BY <4>1, <4>2 DEF Unrecorded, Submitted, Recipient
      <4> QED
        BY <4>2, <4>3 DEF Due
    <3> QED
      BY <3>1, <3>2
  <2>4. received + refunded + Owed <= Total
    <3>1. CASE row.status = "none"
      <4>1. Phase = "none" /\ received = 0 /\ refunded = 0
        BY <3>1 DEF Phase, ReliableInv, Money
      <4> QED
        BY <4>1, AmountAssumption DEF Owed
    <3>2. CASE row.status = "cancelled"
      <4>1. Phase = "closed"
        BY <3>2 DEF Phase
      <4>2. Owed = 0 /\ received + refunded <= Total
        BY <3>2, <4>1 DEF Owed, ReliableInv, Books
      <4> QED
        BY <2>1, <4>2, AmountAssumption
    <3>3. CASE row.status \notin {"none", "cancelled"} /\ \E r \in Requests : InFlight(r)
      <4>1. PICK r \in Requests : InFlight(r)
        BY <3>3
      <4>2. Place(r) /\ Submitted(r) /\ req[r].amount \in Nat
        BY DEF ReliableInv, PaymentInv, TypeOK, Request
      <4>3. CASE Returned(r)
        <5>1. refunded = req[r].amount /\ req[r].pc \in {"await", "close"}
          BY <3>3, <4>3 DEF ReliableInv, Books
        <5>2. req[r].kind = "cancel"
          BY <4>2, <4>3, <5>1 DEF Place, Submitted, Returned, Recipient
        <5>3. received + req[r].amount <= Total
          BY <4>2, <5>1, <5>2 DEF Place
        <5>4. Owed = 0
          BY <3>3, <4>1, <4>3, PhaseOf
        <5> QED
          BY <2>1, <5>1, <5>3, <5>4, AmountAssumption
      <4>4. CASE ~Returned(r) /\ Asks(r)
        <5>1. Owed = req[r].amount /\ refunded = 0
          BY <3>3, <4>1, <4>4, PhaseOf
        <5>2. received + req[r].amount <= Total
          BY <4>2, <4>4 DEF Place, Asks
        <5> QED
          BY <2>1, <4>2, <5>1, <5>2, AmountAssumption
      <4>5. CASE ~Asks(r)
        <5>1. Owed = 0 /\ refunded = 0
          BY <3>3, <4>1, <4>5, PhaseOf
        <5> QED
          BY <2>1, <2>2, <2>3, <5>1, AmountAssumption
      <4> QED
        BY <4>3, <4>4, <4>5
    <3>4. CASE row.status \notin {"none", "cancelled"} /\ \A r \in Requests : ~InFlight(r)
      <4>1. ASSUME NEW r \in Requests PROVE ~Asks(r) /\ ~Returned(r)
        BY <3>4 DEF InFlight, Asks, ReliableInv, Books
      <4>2. Asked = {}
        BY <4>1 DEF Asked, Asks
      <4>3. Phase = "open"
        BY <3>4, <4>1, <4>2 DEF Phase, Returned
      <4>4. Owed = 0 /\ refunded = 0
        BY <3>4, <4>1, <4>3 DEF Owed, ReliableInv, Books
      <4> QED
        BY <2>1, <2>2, <2>3, <4>4, AmountAssumption
    <3> QED
      BY <3>1, <3>2, <3>3, <3>4
  <2> QED
    BY <2>3, <2>4 DEF FairShares, Promise!FairShares
<1> QED
  BY <1>1, TypeCorrect, PaymentInvHolds, ReliableInvHolds, PTL

\* Every step of a handler or of the ledger is one of the promise, or none.
LEMMA PromiseStep ==
    ASSUME FaultFree, TypeOK, TypeOK', PaymentInv, SerialInv, ReliableInv, Next
    PROVE  [Promise!Next]_(Promise!vars)
<1>0. ASSUME NEW r \in Requests PROVE Place(r) /\ RowRead(r) /\ Submitted(r) /\ Due(r)
  BY DEF ReliableInv, PaymentInv, SerialInv
<1>1. CASE Tick
  <2>1. now' = now + 1 /\ UNCHANGED <<row, received, refunded, req, tx>>
    BY <1>1 DEF Tick
  <2>2. Phase' = Phase /\ Owed' = Owed
    BY <2>1, SamePhase DEF Returned, Asks
  <2> QED
    BY <2>1, <2>2 DEF Promise!Next, Promise!Pass
<1>2. CASE FundEscrow
  <2>1. UNCHANGED <<now, row, received, refunded, req, tx>>
    BY <1>2 DEF FundEscrow
  <2>2. Phase' = Phase /\ Owed' = Owed
    BY <2>1, SamePhase DEF Returned, Asks
  <2> QED
    BY <2>1, <2>2 DEF Promise!vars
<1>3. CASE CreateStream
  <2>1. /\ row.status = "none" /\ row'.status \in {"active", "pending"}
        /\ row'.start \in Int
        /\ UNCHANGED <<now, received, refunded, req, tx>>
    BY <1>3, AmountAssumption DEF CreateStream, NewRow, TypeOK, Row
  <2>2. ASSUME NEW r \in Requests PROVE ~Asks(r)' /\ ~Returned(r)'
    BY <1>0, <2>1 DEF RowRead, Asks, Returned
  <2>3. Asked' = {}
    BY <2>2 DEF Asked, Asks
  <2>4. Phase = "none" /\ Phase' = "open"
    BY <2>1, <2>2, <2>3 DEF Phase, Returned
  <2>5. Owed = 0 /\ Owed' = 0
    BY <2>4 DEF Owed
  <2> QED
    BY <2>1, <2>4, <2>5 DEF Promise!Next, Promise!Open
<1>4. ASSUME NEW r \in Requests, NEW kind \in RouteKinds, Begin(r, kind)
      PROVE  UNCHANGED Promise!vars
  <2>1. /\ req[r].pc = "idle" /\ req'[r].pc = "read"
        /\ \A q \in Requests \ {r} : req'[q] = req[q]
        /\ UNCHANGED <<now, row, received, refunded, tx>>
    BY <1>4 DEF Begin, TypeOK, Request
  <2>2. \A q \in Requests : (Asks(q)' <=> Asks(q)) /\ (Asks(q) => req'[q].amount = req[q].amount)
    BY <2>1 DEF Asks
  <2>3. Phase' = Phase /\ Owed' = Owed
    BY <2>1, <2>2, SamePhase DEF Returned
  <2> QED
    BY <2>1, <2>3 DEF Promise!vars
<1>5. ASSUME NEW r \in Requests, InFlight(r), ~Asks(r), ~Asks(r)',
             \A q \in Requests \ {r} : req'[q] = req[q],
             UNCHANGED <<now, received, refunded, tx>>, row'.start = row.start,
             row'.status = "none" <=> row.status = "none",
             row'.status = "cancelled" <=> row.status = "cancelled"
      PROVE  UNCHANGED Promise!vars
  BY <1>5, PromiseStutters DEF Returned
<1>6. ASSUME NEW r \in Requests, InFlight(r), ~Asks(r), NEW outcome, Finish(r, outcome),
             UNCHANGED <<now, row, received, refunded, tx>>
      PROVE  UNCHANGED Promise!vars
  <2>1. req'[r].pc = "done" /\ \A q \in Requests \ {r} : req'[q] = req[q]
    BY <1>6 DEF Finish, Blank, TypeOK
  <2> QED
    BY <1>5, <1>6, <2>1 DEF Asks
<1>7. ASSUME NEW r \in Requests, ReadRow(r) PROVE UNCHANGED Promise!vars
  <2>1. /\ InFlight(r) /\ ~Asks(r) /\ UNCHANGED <<now, row, received, refunded, tx>>
    BY <1>7 DEF ReadRow, InFlight, Asks
  <2>2. CASE row.status = "none"
    BY <1>6, <1>7, <2>1, <2>2 DEF ReadRow
  <2>3. CASE row.status # "none"
    <3>1. req'[r].pc = "refresh" /\ \A q \in Requests \ {r} : req'[q] = req[q]
      BY <1>7, <2>3 DEF ReadRow, TypeOK, Request
    <3> QED
      BY <1>5, <2>1, <3>1 DEF Asks
  <2> QED
    BY <2>2, <2>3
<1>8. ASSUME NEW r \in Requests, RefreshStatus(r) PROVE UNCHANGED Promise!vars
  <2>1. /\ req[r].pc = "refresh" /\ InFlight(r) /\ ~Asks(r) /\ req[r].status = row.status
        /\ RefreshedStatus(row.status) # row.status
        /\ UNCHANGED <<now, received, refunded, tx>>
    BY <1>0, <1>8 DEF RefreshStatus, InFlight, Asks, Place
  <2>2. /\ row.status \in {"active", "pending"}
        /\ RefreshedStatus(row.status) \in {"active", "completed"}
    BY <2>1 DEF RefreshedStatus
  <2>3. row'.status = RefreshedStatus(row.status) /\ row'.start = row.start
    BY <1>8, <2>1 DEF RefreshStatus, RefreshUpdates, TypeOK, Row
  <2>4. req'[r].pc = "check" /\ \A q \in Requests \ {r} : req'[q] = req[q]
    BY <1>8 DEF RefreshStatus, TypeOK, Request
  <2> QED
    BY <1>5, <2>1, <2>2, <2>3, <2>4 DEF Asks
<1>9. ASSUME NEW r \in Requests, NEW kind, Checking(r, kind)
      PROVE  /\ InFlight(r) /\ ~Asks(r) /\ ~Returned(r) /\ tx[r].state = "none"
             /\ req[r].status = row.status /\ row.status # "none" /\ req[r].kind = kind
  BY <1>0, <1>9
  DEF Checking, InFlight, Asks, Returned, Submitted, Place, RowRead, TypeOK, Transaction
<1>10. ASSUME NEW r \in Requests, AnswerGet(r) PROVE UNCHANGED Promise!vars
  BY <1>6, <1>9, <1>10 DEF AnswerGet
<1>11. ASSUME NEW r \in Requests, CheckWithdraw(r) PROVE UNCHANGED Promise!vars
  <2>0. /\ InFlight(r) /\ ~Asks(r) /\ req[r].kind = "withdraw"
        /\ UNCHANGED <<now, row, received, refunded, tx>>
    BY <1>9, <1>11 DEF CheckWithdraw
  <2>1. CASE Finish(r, "stream cancelled") \/ Finish(r, "rejected")
    BY <1>6, <2>0, <2>1
  <2>2. CASE ~(Finish(r, "stream cancelled") \/ Finish(r, "rejected"))
    <3>1. PICK amount :
            req' = [req EXCEPT ![r] = [@ EXCEPT !.pc = "pay", !.amount = amount]]
      BY <1>11, <2>2 DEF CheckWithdraw
    <3>2. req'[r].kind = "withdraw" /\ \A q \in Requests \ {r} : req'[q] = req[q]
      BY <2>0, <3>1 DEF TypeOK, Request
    <3> QED
      BY <1>5, <2>0, <3>2 DEF Asks
  <2> QED
    BY <2>1, <2>2
<1>12. ASSUME NEW r \in Requests, CheckCancel(r) PROVE [Promise!Next]_(Promise!vars)
  <2>0. /\ InFlight(r) /\ ~Asks(r) /\ ~Returned(r) /\ req[r].kind = "cancel"
        /\ tx[r].state = "none"
        /\ req[r].status = row.status /\ row.status # "none"
        /\ UNCHANGED <<now, row, received, refunded, tx>>
    BY <1>9, <1>12 DEF CheckCancel
  <2>1. CASE req[r].status \in {"cancelled", "completed"}
    BY <1>6, <1>12, <2>0, <2>1 DEF CheckCancel
  <2>2. CASE req[r].status \notin {"cancelled", "completed"}
    <3>1. PICK pc \in {"pay", "close"} :
            /\ req'[r] = [req[r] EXCEPT !.pc = pc, !.amount = Refund(r)]
            /\ \A q \in Requests \ {r} : req'[q] = req[q]
      BY <1>12, <2>2 DEF CheckCancel, TypeOK
    <3>2. Asks(r)' /\ req'[r].amount = Refund(r)
      BY <2>0, <3>1 DEF TypeOK, Request, Asks
    <3>3. \A q \in Requests \ {r} : ~Asks(q)'
      BY <2>0, <3>1, OtherDoNotAsk
    <3>4. Asked' = {r}
      BY <3>2, <3>3 DEF Asked, Asks
    <3>5. row.status \notin {"none", "cancelled"}
      BY <2>0, <2>2
    <3>6. Phase = "open" /\ Owed = 0
      BY <2>0, <3>5, PhaseOf
    <3>7. \A q \in Requests : ~Returned(q)
      <4>1. ASSUME NEW q \in Requests \ {r} PROVE req[q].pc \in {"idle", "done"}
        BY <2>0 DEF SerialInv, InFlight
      <4> QED
        BY <2>0, <3>5, <4>1 DEF ReliableInv, Books
    <3>8. Phase' = "closing"
      BY <2>0, <3>4, <3>5, <3>7 DEF Phase, Returned
    <3>9. Owed' = Refund(r)
      BY <3>2, <3>4, <3>8, ChosenOne DEF Owed
    <3> QED
      BY <2>0, <3>6, <3>8, <3>9 DEF Promise!Next, Promise!Ask, Refund
  <2> QED
    BY <2>1, <2>2
<1>13. ASSUME NEW r \in Requests, CheckReport(r) \/ CheckDelete(r) PROVE FALSE
  BY <1>0, <1>13 DEF CheckReport, CheckDelete, Checking, Place
<1>14. ASSUME NEW r \in Requests, SubmitPayment(r) PROVE UNCHANGED Promise!vars
  <2>0. req[r].pc = "pay" /\ InFlight(r) /\ tx[r].state = "none"
    BY <1>0, <1>14 DEF SubmitPayment, InFlight, Submitted, TypeOK, Transaction
  <2>1. escrow.balance - Reserve >= req[r].amount
    BY <2>0, PaymentFits, AmountAssumption DEF TypeOK, Escrow, Request
  <2>2. /\ Goto(r, "await")
        /\ tx'[r].state = "pending" /\ \A q \in Requests \ {r} : tx'[q] = tx[q]
        /\ UNCHANGED <<now, row, received, refunded>>
    BY <1>14, <2>1, AmountAssumption DEF SubmitPayment, TypeOK, Escrow, Request
  <2>3. /\ req'[r].pc = "await" /\ req'[r].kind = req[r].kind
        /\ req'[r].amount = req[r].amount
        /\ \A q \in Requests \ {r} : req'[q] = req[q]
    BY <2>2 DEF Goto, TypeOK, Request
  <2>4. \A q \in Requests : Returned(q)' <=> Returned(q)
    BY <2>0, <2>2 DEF Returned
  <2> QED
    BY <2>0, <2>2, <2>3, <2>4, PromiseStutters DEF Asks
<1>15. ASSUME NEW r \in Requests, ApplyTx(r) PROVE [Promise!Next]_(Promise!vars)
  <2>0. /\ tx[r].state = "pending" /\ req[r].pc = "await" /\ InFlight(r)
        /\ tx[r].amount = req[r].amount /\ tx[r].to = Recipient(req[r].kind)
        /\ ~Returned(r)
    BY <1>0, <1>15 DEF ApplyTx, Place, Submitted, InFlight, Returned
  <2>1. /\ req[r].kind \in {"withdraw", "cancel"}
        /\ row.status \notin {"none", "cancelled"}
        /\ \A q \in Requests : ~Returned(q)
        /\ received = row.withdrawn /\ refunded = 0
        /\ escrow.balance - Fee - req[r].amount >= Reserve
    BY <2>0, PaymentFits
  <2>2. /\ tx' = [tx EXCEPT ![r].state = "applied"]
        /\ received' = IF tx[r].to = "recipient" THEN received + tx[r].amount ELSE received
        /\ refunded' = IF tx[r].to = "sender" THEN refunded + tx[r].amount ELSE refunded
        /\ UNCHANGED <<now, row, req>>
    BY <1>15, <2>0, <2>1 DEF ApplyTx, Covered
  <2>3. /\ tx'[r].state = "applied" /\ tx'[r].to = tx[r].to
        /\ \A q \in Requests \ {r} : tx'[q] = tx[q]
    BY <2>2 DEF TypeOK, Transaction
  <2>4. req[r].amount \in Nat /\ received \in Nat
    BY DEF TypeOK, Request
  <2>5. CASE req[r].kind = "withdraw"
    <3>1. ~Asks(r)
      BY <2>5 DEF Asks
    <3>2. Phase = "open" /\ Owed = 0
      BY <2>0, <2>1, <3>1, PhaseOf
    <3>3. \A q \in Requests : Returned(q)' <=> Returned(q)
      BY <2>0, <2>3, <2>5 DEF Returned, Recipient
    <3>4. Phase' = Phase /\ Owed' = Owed
      BY <2>2, <3>3, SamePhase DEF Asks
    <3>5. /\ received' = received + req[r].amount /\ req[r].amount > 0
          /\ received + req[r].amount <= Streamed(now, row.start) /\ refunded' = refunded
      BY <1>0, <2>0, <2>1, <2>2, <2>5 DEF Place, Due, Recipient
    <3>6. received' > received /\ received' <= Streamed(now, row.start)
      BY <2>4, <3>5
    <3> QED
      BY <2>2, <3>2, <3>4, <3>5, <3>6 DEF Promise!Next, Promise!Withdraw
  <2>6. CASE req[r].kind = "cancel"
    <3>1. Asks(r)
      BY <2>0, <2>6 DEF Asks
    <3>2. Phase = "closing" /\ Owed = req[r].amount
      BY <2>0, <2>1, <3>1, PhaseOf
    <3>3. Returned(r)'
      BY <2>0, <2>3, <2>6 DEF Returned, Recipient
    <3>4. Phase' = "closed"
      BY <2>1, <2>2, <3>3 DEF Phase, Returned
    <3>5. Owed' = 0
      BY <3>4 DEF Owed
    <3>6. refunded' = req[r].amount /\ received' = received
      BY <2>0, <2>1, <2>2, <2>4, <2>6 DEF Recipient
    <3> QED
      BY <2>2, <3>2, <3>4, <3>5, <3>6 DEF Promise!Next, Promise!Close
  <2> QED
    BY <2>1, <2>5, <2>6
<1>16. ASSUME NEW r \in Requests, RejectTx(r) PROVE FALSE
  <2>1. tx[r].state = "pending" /\ req[r].pc = "await" /\ tx[r].seq = escrow.seq + 1
    BY <1>0, <1>16 DEF RejectTx, Place
  <2>2. escrow.balance >= Fee
    BY <2>1, PaymentFits, AmountAssumption DEF TypeOK, Escrow, Request
  <2> QED
    BY <1>16, <2>1, <2>2, AmountAssumption DEF RejectTx, TypeOK, Escrow
<1>17. ASSUME NEW r \in Requests, PaymentAnswer(r) PROVE UNCHANGED Promise!vars
  <2>1. /\ req[r].pc = "await" /\ InFlight(r) /\ PaymentMade(r)
        /\ UNCHANGED <<now, row, received, refunded, tx>>
        /\ req[r].kind \in {"withdraw", "cancel"}
    BY <1>0, <1>17 DEF PaymentAnswer, InFlight, Place, Submitted
  <2>2. /\ req'[r].pc = NextAfterPayment(req[r].kind) /\ req'[r].kind = req[r].kind
        /\ req'[r].amount = req[r].amount
        /\ \A q \in Requests \ {r} : req'[q] = req[q]
    BY <2>1 DEF PaymentMade, TypeOK, Request
  <2>3. Asks(r)' <=> Asks(r)
    BY <2>1, <2>2 DEF Asks, NextAfterPayment
  <2> QED
    BY <2>1, <2>2, <2>3, PromiseStutters DEF Returned
<1>18. ASSUME NEW r \in Requests, RecordWithdrawal(r) PROVE UNCHANGED Promise!vars
  <2>0. /\ req[r].pc = "record" /\ InFlight(r) /\ ~Asks(r)
        /\ row.status \in {"active", "completed"}
        /\ UNCHANGED <<now, received, refunded, tx>>
    BY <1>0, <1>18 DEF RecordWithdrawal, InFlight, Asks, Place, Submitted
  <2>1. row'.status = row.status /\ row'.start = row.start /\ Finish(r, "ok")
    BY <1>18, <2>0 DEF RecordWithdrawal, WithdrawableStatuses, TypeOK, Row
  <2>2. req'[r].pc = "done" /\ \A q \in Requests \ {r} : req'[q] = req[q]
    BY <2>1 DEF Finish, Blank, TypeOK
  <2> QED
    BY <1>5, <2>0, <2>1, <2>2 DEF Asks
<1>19. ASSUME NEW r \in Requests, CancelStream(r) PROVE [Promise!Next]_(Promise!vars)
  <2>0. /\ req[r].pc = "close" /\ InFlight(r) /\ req[r].kind = "cancel" /\ Asks(r)
        /\ row.status \in {"pending", "active"}
        /\ UNCHANGED <<now, received, refunded, tx>>
    BY <1>0, <1>19 DEF CancelStream, InFlight, Asks, Place, Submitted
  <2>1. row'.status = "cancelled" /\ row'.start = row.start
    BY <1>19, <2>0 DEF CancelStream, CancellableStatuses, TypeOK, Row
  <2>2. Phase' = "closed"
    BY <2>1 DEF Phase
  <2>3. Owed' = 0
    BY <2>2 DEF Owed
  <2>4. CASE Returned(r)
    <3>1. Phase = "closed" /\ Owed = 0
      BY <2>0, <2>4, PhaseOf
    <3> QED
      BY <2>0, <2>1, <2>2, <2>3, <3>1 DEF Promise!vars
  <2>5. CASE ~Returned(r)
    <3>1. Phase = "closing" /\ Owed = req[r].amount /\ refunded = 0
      BY <2>0, <2>5, PhaseOf
    <3>2. req[r].amount = 0
      BY <1>0, <2>0, <2>5 DEF Place, Returned
    <3> QED
      BY <2>0, <2>1, <2>2, <2>3, <3>1, <3>2 DEF Promise!Next, Promise!Close
  <2> QED
    BY <2>4, <2>5
<1>20. ASSUME NEW r \in Requests, DropTx(r) \/ PaymentTimeout(r) \/ Crash(r) PROVE FALSE
  BY <1>20 DEF DropTx, PaymentTimeout, Crash, FaultFree
<1> QED
  BY <1>1, <1>2, <1>3, <1>4, <1>7, <1>8, <1>10, <1>11, <1>12, <1>13, <1>14, <1>15,
     <1>16, <1>17, <1>18, <1>19, <1>20
  DEF Next, Handler, Network

\* Without faults the handlers, the row and the escrow account together keep the
\* promise of StreamLedger: each of their steps is a step of the promise or none.
THEOREM PromiseKeptHolds ==
    ASSUME FaultFree
    PROVE  Spec => PromiseKept
<1>1. Init => Promise!Init
  <2> SUFFICES ASSUME Init PROVE Promise!Init
    OBVIOUS
  <2>1. Phase = "none"
    BY DEF Init, NoRow, NewRow, Phase
  <2>2. Owed = 0
    BY <2>1 DEF Owed
  <2> QED
    BY <2>1, <2>2 DEF Init, NoRow, NewRow, Promise!Init
<1>2. TypeOK /\ TypeOK' /\ PaymentInv /\ SerialInv /\ ReliableInv /\ [Next]_vars
        => [Promise!Next]_(Promise!vars)
  <2> SUFFICES ASSUME TypeOK, TypeOK', PaymentInv, SerialInv, ReliableInv, [Next]_vars
               PROVE  [Promise!Next]_(Promise!vars)
    OBVIOUS
  <2>1. CASE Next
    BY <2>1, PromiseStep
  <2>2. CASE UNCHANGED vars
    <3>1. Phase' = Phase /\ Owed' = Owed
      BY <2>2, SamePhase DEF vars, Returned, Asks
    <3> QED
      BY <2>2, <3>1 DEF vars, Promise!vars
  <2> QED
    BY <2>1, <2>2
<1> QED
  BY <1>1, <1>2, TypeCorrect, PaymentInvHolds, ReliableInvHolds, PTL
  DEF Spec, PromiseKept, Promise!Spec
=============================================================================
