------------------------------ MODULE Services ------------------------------
(***************************************************************************)
(* Parts of the demo and of the SDK that share no state: the curve of a    *)
(* stream, streams whose requests are handled one at a time (with every    *)
(* other fault or with none), the creation of streams, the referral        *)
(* quests, a payment link, the two-of-three wallet and the login of the    *)
(* SDK.  What one of them does depends on nothing but the calls of it, and *)
(* the behaviours in which one part is used show all there is to see of    *)
(* it.  The login's definitions are in scope under their own names, the    *)
(* others' behind those of their instances.                                *)
(***************************************************************************)
EXTENDS LoginSession, FiniteSets

CONSTANTS
    Totals, Durations, Curves, MaxElapsed,
    QuestRequests, Emails, Codes, Points, Retries, MaxCount,
    Payers, Expiry, LinkMaxTime, MaxPaid,
    StreamRequests, SerialRoutes, SerialFaults, ReliableRoutes, Total, Duration, Curve,
    Starts, RequestedAmounts, Reserve, FundingExtra, Fee, MaxTime, NoHash, ClientHash,
    Streams, Deposits, Tabs, Balance, DepositExtra, Buffer,
    OAuthAccounts, Wallets

VARIABLES
    used,  \* the part that is used
    stream, elapsed, withdrawn, refunded,
    participants, request,
    link, time, page, paid,
    now, row, escrow, received, returned, req, txs,
    known, at, total, deposit, server, answer, account, pending, funded, rows,
    step, providers, awaited, saved, creation, stored

Shape == INSTANCE StreamCurve

Quest == INSTANCE Quests WITH Requests <- QuestRequests

Pay == INSTANCE PaymentLinks WITH MaxTime <- LinkMaxTime

\* No two requests at once, and every other fault that SerialFaults names.
Serial == INSTANCE StreamEscrow WITH
    Requests <- StreamRequests, Routes <- SerialRoutes, Faults <- SerialFaults,
    refunded <- returned, tx <- txs

Reliable == INSTANCE StreamEscrow WITH
    Requests <- StreamRequests, Routes <- ReliableRoutes, Faults <- {},
    refunded <- returned, tx <- txs

Creation == INSTANCE StreamCreate WITH
    Totals <- Deposits, FundingExtra <- DepositExtra, tx <- deposit, escrow <- funded

Mpc == INSTANCE MpcWallet WITH Accounts <- OAuthAccounts

ASSUME ServicesAssumption ==
    /\ Shape!CurveAssumption
    /\ Quest!QuestsAssumption
    /\ Pay!LinksAssumption
    /\ Creation!CreateAssumption
    /\ Mpc!MpcAssumption
    /\ SerialRoutes \cup ReliableRoutes \subseteq Serial!RouteKinds
    /\ SerialFaults \subseteq Serial!FaultKinds \ {"overlap"}
    /\ Total \in Nat \ {0} /\ Duration \in Nat \ {0}
    /\ Reserve \in Nat /\ FundingExtra \in Nat /\ Fee \in Nat
    /\ RequestedAmounts \subseteq Nat /\ MaxTime \in Nat /\ Starts \subseteq Int
    /\ Curve \in [0..Duration -> 0..Total]
    /\ \A e, f \in 0..Duration : e <= f => Curve[e] <= Curve[f]
    /\ NoHash \notin StreamRequests /\ ClientHash \notin StreamRequests
    /\ NoHash # ClientHash
    \* Without faults: no request that only reports a payment or closes a row without
    \* its refund, and a deposit that leaves the reserve and a fee for every request.
    /\ ReliableRoutes \subseteq {"get", "withdraw", "cancel"}
    /\ IsFiniteSet(StreamRequests)
    /\ FundingExtra >= Reserve + Fee * Cardinality(StreamRequests)

-----------------------------------------------------------------------------
curveVars == <<stream, elapsed, withdrawn, refunded>>
questVars == <<participants, request>>
payVars == <<link, time, page, paid>>
streamVars == <<now, row, escrow, received, returned, req, txs>>
createVars == <<known, at, total, deposit, server, answer, account, pending, funded, rows>>
mpcVars == <<step, providers, awaited, saved, creation, stored>>

\* The streams' parameters are chosen only where the curve is what is used, and what a
\* creation begins with only where streams are created.
ServicesInit ==
    /\ used \in {"curve", "quests", "pay", "login", "serial", "reliable", "creation",
               "mpc"}
    /\ Shape!Init /\ Quest!Init /\ Pay!Init /\ Init /\ Serial!Init /\ Creation!Init
    /\ Mpc!Init
    /\ used = "curve" \/ stream = CHOOSE s \in Shape!Terms : TRUE

ServicesNext ==
    /\ UNCHANGED used
    /\ \/ /\ used = "curve" /\ Shape!Next
          /\ UNCHANGED <<questVars, payVars, vars, streamVars, createVars, mpcVars>>
       \/ /\ used = "quests" /\ Quest!Next
          /\ UNCHANGED <<curveVars, payVars, vars, streamVars, createVars, mpcVars>>
       \/ /\ used = "pay" /\ Pay!Next
          /\ UNCHANGED <<curveVars, questVars, vars, streamVars, createVars, mpcVars>>
       \/ /\ used = "login" /\ Next
          /\ UNCHANGED <<curveVars, questVars, payVars, streamVars, createVars, mpcVars>>
       \/ /\ used = "serial" /\ Serial!Next
          /\ UNCHANGED <<curveVars, questVars, payVars, vars, createVars, mpcVars>>
       \/ /\ used = "reliable" /\ Reliable!Next
          /\ UNCHANGED <<curveVars, questVars, payVars, vars, createVars, mpcVars>>
       \/ /\ used = "creation" /\ Creation!Next
          /\ UNCHANGED <<curveVars, questVars, payVars, vars, streamVars, mpcVars>>
       \/ /\ used = "mpc" /\ Mpc!Next
          /\ UNCHANGED <<curveVars, questVars, payVars, vars, streamVars, createVars>>

ServicesSpec ==
    /\ ServicesInit
    /\ [][ServicesNext]_<<used, curveVars, questVars, payVars, vars, streamVars, createVars,
                        mpcVars>>

-----------------------------------------------------------------------------
\* The properties are those of the parts' own modules, which say what they are
\* about.  Every part's state stays in its domain.
ServicesTypeOK == Shape!TypeOK /\ Quest!TypeOK /\ Pay!TypeOK /\ TypeOK /\ Mpc!TypeOK

\* StreamCurve: what has streamed never shrinks.
NeverShrinks == Shape!NeverShrinks

\* StreamCurve: a cliff only delays, the rounding of the payments does not add up, and
\* withdrawals and refund fit the deposit, to one stroop.
CurvesFitDeposit ==
    Shape!CliffOnlyDelays /\ Shape!RoundingBounded /\ Shape!SharesFitDeposit

\* Quests: nobody has more points than the row itself records reasons for, and a
\* referral that a row names has been counted.
PointsEarned == Quest!NeverOverpaid /\ Quest!ReferralsCovered

\* PaymentLinks: a link is closed once, by a payment that the ledger has applied.
SettledOnce == Pay!SettledOnce

\* StreamEscrow: without overlap the row never shows more than has streamed.
RecordedWithinStreamed == used = "serial" => Serial!RecordedWithinStreamed

\* StreamEscrow: without faults no withdrawal fails for want of money in the escrow, the
\* books agree and both shares are fair.
BooksAgree ==
    used = "reliable" =>
        Reliable!WithdrawalsCovered /\ Reliable!BooksAgree /\ Reliable!FairShares

\* StreamEscrow: without faults the promise of StreamLedger is kept.
PromiseKept ==
    /\ used = "reliable" => Reliable!Promise!Init
    /\ [][used = "reliable" => [Reliable!Promise!Next]_(Reliable!Promise!vars)]_streamVars

\* StreamCreate: its state stays in its domain, and behind every row is a deposit of
\* its own.
RowsBacked == Creation!TypeOK /\ Creation!RowsBacked

\* MpcWallet: a wallet that was made, or that the check answers for, can be had back from
\* any two different accounts.
AnyTwoRecover == Mpc!AnyTwoRecover
=============================================================================
