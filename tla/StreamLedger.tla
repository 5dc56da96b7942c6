---------------------------- MODULE StreamLedger ----------------------------
(***************************************************************************)
(* What a payment stream promises its two parties, without handlers, rows  *)
(* or an escrow account: the recipient takes what has vested; the sender   *)
(* may ask once to close the stream, gets back what had not vested when he *)
(* asked, and nothing moves after that.  The refund is what the cancel     *)
(* route computes (cancel/route.ts:85-92); the route's header (:8) and the *)
(* comment on cancelAndRefund (streamEscrow.ts:211) describe another one,  *)
(* the total minus what was already withdrawn.                             *)
(***************************************************************************)
EXTENDS Integers

CONSTANTS Total, Vested(_, _)   \* Vested(t, start): vested at time t

VARIABLES now, phase, start, owed, received, refunded

vars == <<now, phase, start, owed, received, refunded>>

Init ==
    /\ now = 0
    /\ phase = "none"
    /\ start = 0
    /\ owed = 0
    /\ received = 0
    /\ refunded = 0

Pass ==
    /\ now' = now + 1
    /\ UNCHANGED <<phase, start, owed, received, refunded>>

Open ==
    /\ phase = "none"
    /\ phase' = "open"
    /\ start' \in Int
    /\ UNCHANGED <<now, owed, received, refunded>>

Withdraw ==
    /\ phase = "open"
    /\ received' > received
    /\ received' <= Vested(now, start)
    /\ UNCHANGED <<now, phase, start, owed, refunded>>

\* The sender asks to close: what has not vested by now is owed to him.
Ask ==
    /\ phase = "open"
    /\ phase' = "closing"
    /\ owed' = Total - Vested(now, start)
    /\ UNCHANGED <<now, start, received, refunded>>

Close ==
    /\ phase = "closing"
    /\ phase' = "closed"
    /\ refunded' = owed
    /\ owed' = 0
    /\ UNCHANGED <<now, start, received>>

Next == Pass \/ Open \/ Withdraw \/ Ask \/ Close

Spec == Init /\ [][Next]_vars

\* The two parties together never get more than was deposited for the stream,
\* and the recipient never more than has vested.
FairShares ==
    /\ received + refunded + owed <= Total
    /\ received <= Vested(now, start)
=============================================================================
