---------------------------- MODULE PaymentLinks ----------------------------
(***************************************************************************)
(* A payment link of the demo: the row of payment_links, the pages on      *)
(* which it is open, and the payments for it on the Stellar ledger.        *)
(*                                                                         *)
(* A page pays on the ledger first and then tells the service, which does  *)
(* not look at the ledger (src/demo/src/lib/paymentLinks.ts, the routes    *)
(* under src/demo/src/app/api/pay and the page src/demo/src/app/pay).      *)
(***************************************************************************)
EXTENDS Integers

CONSTANTS
    Payers,   \* those who have the link open
    Expiry,   \* times at which the link may expire
    MaxTime,  \* bound on the clock
    MaxPaid,  \* bound on the payments of one payer
    None      \* no row, no expiry, nobody

\* A payment is named by its payer and which of the payer's payments it is; that
\* is what its transaction hash stands for.
Nothing == <<None, 0>>

\* The rows: what has become of the link, until when it is offered, and the payment
\* that closed it.
Statuses == {"active", "paid", "cancelled"}
Links == [status : Statuses, expires_at : Expiry \cup {None},
          payment : (Payers \X (1..MaxPaid)) \cup {Nothing}]

LinksAssumption ==
    /\ Expiry \subseteq Nat /\ MaxTime \in Nat /\ MaxPaid \in Nat
    /\ None \notin Links

VARIABLES
    link,  \* the row, or none
    time,
    page,  \* what each payer's page is at: "closed", "open", "paying", "telling"
    paid   \* how many payments each payer has made on the ledger

vars == <<link, time, page, paid>>

Init ==
    /\ link = None
    /\ time = 0
    /\ page = [p \in Payers |-> "closed"]
    /\ paid = [p \in Payers |-> 0]

Tick ==
    /\ time < MaxTime
    /\ time' = time + 1
    /\ UNCHANGED <<link, page, paid>>

createPaymentLink ==
    /\ link = None
    /\ \E e \in Expiry \cup {None} :
         link' = [status |-> "active", expires_at |-> e, payment |-> Nothing]
    /\ UNCHANGED <<time, page, paid>>

-----------------------------------------------------------------------------
(* The page.                                                               *)

isLinkExpired == link.expires_at # None /\ link.expires_at < time

\* GET shows an active link that is over as expired, and stores nothing.  The page
\* offers to pay an active link.
fetchPaymentLink(p) ==
    /\ link # None
    /\ page[p] \in {"closed", "open"}
    /\ page' = [page EXCEPT ![p] =
                  IF link.status = "active" /\ ~isLinkExpired THEN "open" ELSE "closed"]
    /\ UNCHANGED <<link, time, paid>>

\* The button is disabled while a payment runs.
handlePayWithWallet(p) ==
    /\ page[p] = "open" /\ paid[p] < MaxPaid
    /\ page' = [page EXCEPT ![p] = "paying"]
    /\ UNCHANGED <<link, time, paid>>

\* The payment is applied or not, and the wallet's answer tells, or is an error
\* either way; then the page offers to pay again.
send(p) ==
    /\ page[p] = "paying"
    /\ \/ /\ paid' = [paid EXCEPT ![p] = @ + 1]
          /\ page' = [page EXCEPT ![p] = "telling"]
       \/ /\ paid' \in {paid, [paid EXCEPT ![p] = @ + 1]}
          /\ page' = [page EXCEPT ![p] = "open"]
    /\ UNCHANGED <<link, time>>

\* POST, the UPDATE ... WHERE status = 'active'.  The page does not read the answer
\* and fetches the link anew.  (The first form closes the link whatever its status.)
closedByAny(l, p) == [l EXCEPT !.status = "paid", !.payment = <<p, paid[p]>>]
closedBy(l, p) ==
    IF l.status = "active"
    THEN [l EXCEPT !.status = "paid", !.payment = <<p, paid[p]>>]
    ELSE l
markPaymentLinkAsPaid(p) ==
    /\ page[p] = "telling"
    /\ link' = closedBy(link, p)
    /\ page' = [page EXCEPT ![p] = "closed"]
    /\ UNCHANGED <<time, paid>>

\* The POST, or its answer, is lost: the page shows an error and the button again.
LoseMark(p) ==
    /\ page[p] = "telling"
    /\ \/ UNCHANGED link
       \/ link' = closedBy(link, p)
    /\ page' = [page EXCEPT ![p] = "open"]
    /\ UNCHANGED <<time, paid>>

-----------------------------------------------------------------------------
\* DELETE: it reads the row for the creator's address, which never changes, so
\* that the UPDATE ... WHERE status = 'active' is all there is to it.
cancelPaymentLink ==
    /\ link # None /\ link.status = "active"
    /\ link' = [link EXCEPT !.status = "cancelled"]
    /\ UNCHANGED <<time, page, paid>>

Next ==
    \/ Tick \/ createPaymentLink \/ cancelPaymentLink
    \/ \E p \in Payers :
         \/ fetchPaymentLink(p) \/ handlePayWithWallet(p) \/ send(p)
         \/ markPaymentLinkAsPaid(p) \/ LoseMark(p)

Spec == Init /\ [][Next]_vars

-----------------------------------------------------------------------------
(* Properties.                                                             *)

\* A row in its domain.
TypeOK ==
    /\ link \in Links \cup {None}
    /\ time \in 0..MaxTime
    /\ page \in [Payers -> {"closed", "open", "paying", "telling"}]
    /\ paid \in [Payers -> 0..MaxPaid]

\* However payers and the creator race, a link is closed once: a paid link keeps
\* naming the payment that closed it, a cancelled one names none, and the payment
\* named is one that the ledger has applied.
SettledOnce ==
    [][/\ link # None /\ link.status # "active" => link' = link
       /\ link' # None /\ link'.status # "paid" => link'.payment = Nothing
       /\ link' # None /\ link'.status = "paid"
            => \E p \in Payers : link'.payment[1] = p /\ link'.payment[2] \in 1..paid[p]]_vars

=============================================================================
