---------------------------- MODULE StreamCurve ----------------------------
(***************************************************************************)
(* The vesting curves of a stream and the rounding of its payments.        *)
(*                                                                         *)
(* StreamEscrow counts in whole units; here an amount is a whole number of *)
(* stroops (1e-7 of the asset) only once toFixed(7) has rounded it, and    *)
(* what has streamed is an exact fraction <<n, d>>, n/d stroops.  One      *)
(* stream is read, withdrawn from and cancelled by one request at a time.  *)
(***************************************************************************)
EXTENDS Integers

CONSTANTS
    Totals,      \* total amounts, in stroops
    Durations,   \* durations, in units of the clock
    Curves,      \* curve types of the streams
    MaxElapsed   \* bound on the clock, counted from the start of the stream

CurveTypes == {"linear", "cliff", "exponential", "steps"}

CurveAssumption ==
    /\ Totals \subseteq Nat \ {0} /\ Durations \subseteq Nat \ {0}
    /\ Curves \subseteq CurveTypes
    /\ MaxElapsed \in Nat

VARIABLES
    stream,     \* its total, duration, cliff (0: none) and curve
    elapsed,    \* clock time since the start; negative before it
    withdrawn,  \* withdrawn_amount
    refunded    \* the refund of the cancellation; -1 before it

vars == <<stream, elapsed, withdrawn, refunded>>

-----------------------------------------------------------------------------
(* Fractions with a positive denominator.                                  *)

Leq(x, y) == x[1] * y[2] <= y[1] * x[2]
Minus(x, y) == <<x[1] * y[2] - y[1] * x[2], x[2] * y[2]>>
Whole(n) == <<n, 1>>

\* toFixed(7): a nearest stroop.  Which one, for half a stroop, depends on the
\* binary approximation of the amount.  (The first form always rounds up.)
RoundedUp(x) == {-((-x[1]) \div x[2])}
Rounded(x) == {n \in {x[1] \div x[2], x[1] \div x[2] + 1} :
                 /\ 2 * (x[1] - n * x[2]) <= x[2]
                 /\ 2 * (n * x[2] - x[1]) <= x[2]}

-----------------------------------------------------------------------------
(* calculateStreamedAmount.                                                *)

Steps == 10

\* The share of the time after the cliff, bent by the curve.
Progress(curve, e, d) ==
    CASE curve = "exponential" -> <<e * e, d * d>>
      [] curve = "steps"       -> <<(Steps * e) \div d, Steps>>
      [] OTHER                 -> <<e, d>>

\* What has streamed between the start and the end.  At the cliff the share of
\* the time before it is added at once.  (The first form forgets that share.)
VestedForfeit(s, e) ==
    LET p == Progress(s.curve, e - s.cliff, s.duration - s.cliff)
    IN  <<(s.duration - s.cliff) * s.total * p[1], s.duration * p[2]>>
Vested(s, e) ==
    LET p == Progress(s.curve, e - s.cliff, s.duration - s.cliff)
    IN  <<s.total * (s.cliff * p[2] + (s.duration - s.cliff) * p[1]), s.duration * p[2]>>

\* (The first form does not ask whether the stream has begun.)
StreamedUnclamped(s, e) ==
    IF e >= s.duration THEN Whole(s.total)
    ELSE IF s.cliff > 0 /\ e < s.cliff THEN Whole(0)
    ELSE Vested(s, e)
Streamed(s, e) ==
    IF e <= 0 THEN Whole(0)
    ELSE IF e >= s.duration THEN Whole(s.total)
    ELSE IF e < s.cliff THEN Whole(0)
    ELSE Vested(s, e)

-----------------------------------------------------------------------------
(* The stream over time.                                                   *)

\* validateStreamInput: the cliff is shorter than the stream.
Terms ==
    UNION {[total : Totals, duration : {d}, cliff : 0..d - 1, curve : Curves] : d \in Durations}

Init ==
    /\ stream \in Terms
    /\ elapsed = -1
    /\ withdrawn = 0
    /\ refunded = -1

Tick ==
    /\ elapsed < MaxElapsed
    /\ elapsed' = elapsed + 1
    /\ UNCHANGED <<stream, withdrawn, refunded>>

\* (The first form forgets the withdrawals.)
WithdrawableGross == Streamed(stream, elapsed)
Withdrawable == Minus(Streamed(stream, elapsed), Whole(withdrawn))

\* The withdraw route pays and records the rounded amount; a payment that rounds
\* to nothing is refused by the ledger.
Pay(amount) ==
    /\ refunded = -1
    /\ \E n \in Rounded(amount) : n > 0 /\ withdrawn' = withdrawn + n
    /\ UNCHANGED <<stream, elapsed, refunded>>

WithdrawAll == Pay(Withdrawable)

\* An amount of the client's choice, given with more than seven decimals.
WithdrawPart ==
    \E halves \in 1..2 * stream.total :
      /\ Leq(<<halves, 2>>, Withdrawable)
      /\ Pay(<<halves, 2>>)

\* The cancel route refunds what has not streamed, if that is over one stroop.
Cancel ==
    LET unstreamed == Minus(Whole(stream.total), Streamed(stream, elapsed))
    IN  /\ refunded = -1
        /\ elapsed < stream.duration
        /\ IF Leq(unstreamed, Whole(1))
           THEN refunded' = 0
           ELSE refunded' \in Rounded(unstreamed)
        /\ UNCHANGED <<stream, elapsed, withdrawn>>

Next == Tick \/ WithdrawAll \/ WithdrawPart \/ Cancel

Spec == Init /\ [][Next]_vars

-----------------------------------------------------------------------------
(* Properties.                                                             *)

\* Every stream keeps a valid cliff, and no more than its total is ever recorded
\* as withdrawn, although each payment is rounded on its own.
TypeOK ==
    /\ stream.total \in Totals /\ stream.duration \in Durations
    /\ stream.cliff \in 0..stream.duration - 1 /\ stream.curve \in Curves
    /\ elapsed \in -1..MaxElapsed
    /\ withdrawn \in 0..stream.total
    /\ refunded \in -1..stream.total

\* What has streamed never shrinks as time passes: not at the start, not at the
\* cliff, not between two unlock steps and not at the end.
NeverShrinks == [][Leq(Streamed(stream, elapsed), Streamed(stream, elapsed'))]_vars

\* A cliff only delays: once it has passed, a stream with a straight curve has
\* streamed what it would have streamed without the cliff.
CliffOnlyDelays ==
    stream.curve \in {"linear", "cliff"} /\ elapsed > 0 /\ elapsed >= stream.cliff
        => LET straight == Streamed([stream EXCEPT !.cliff = 0], elapsed)
               actual == Streamed(stream, elapsed)
           IN  Leq(straight, actual) /\ Leq(actual, straight)

\* The rounding of the payments does not add up: after any number of them the
\* withdrawals exceed what has streamed by at most half a stroop.
RoundingBounded == Leq(Minus(Whole(withdrawn), Streamed(stream, elapsed)), <<1, 2>>)

\* Together the two parties get at most one stroop more than the deposit, both
\* roundings included, and the escrow's reserve covers that stroop.
SharesFitDeposit == withdrawn + refunded <= stream.total + 1

=============================================================================
