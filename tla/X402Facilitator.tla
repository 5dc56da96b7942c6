--------------------------- MODULE X402Facilitator ---------------------------
(***************************************************************************)
(* contracts/x402-facilitator: payment requests, their payment with a fee  *)
(* taken out of the amount, and the statistics of what was paid.  A call   *)
(* is atomic and one that fails, the token's transfers included, leaves no *)
(* trace.  A request id hashes the nonce of the one requester there is,    *)
(* the contract itself, so a request is its nonce.                         *)
(***************************************************************************)
EXTENDS Integers, Sequences, FiniteSets, Functions

CONSTANTS
    Accounts,    \* who pays, is paid, takes the fee, and administers the contract
    Assets,      \* token contracts
    Amounts,     \* amounts of a request
    Validity,    \* values of valid_for_secs
    Fees,        \* values of fee_bps given to initialize and update_fee
    Funds,       \* what each account owns of each asset at first
    MaxRequests, \* bound on the requests
    MaxUpdates,  \* bound on the changes of the configuration
    MaxTime,     \* bound on the ledger's clock
    None         \* an entry that is not in storage

FacilitatorAssumption ==
    /\ IsFiniteSet(Accounts)
    /\ Amounts \subseteq Int /\ Validity \subseteq Nat /\ Fees \subseteq Nat
    /\ Funds \in Nat /\ MaxRequests \in Nat /\ MaxUpdates \in Nat /\ MaxTime \in Nat
    /\ None \notin Nat /\ None \notin [payer : Accounts, amount_paid : Amounts]

VARIABLES
    now,            \* env.ledger().timestamp()
    admin,          \* Config: admin, whom the changes of the configuration ask
    fee_bps,        \* Config: fee_bps, None before initialize
    fee_recipient,  \* Config: fee_recipient
    total_payments, total_volume,  \* Config: the statistics
    requests,       \* DataKey::Request, in the order of the nonce
    proofs,         \* DataKey::Proof of each request, None if it has none
    balance,        \* what each account owns of each asset
    updates,        \* how often the configuration was changed
    received        \* what each request has brought its destination

config == <<admin, fee_bps, fee_recipient, updates>>
statistics == <<total_payments, total_volume>>
vars == <<now, config, statistics, requests, proofs, balance, received>>

Request == [asset : Assets, amount : Amounts, destination : Accounts,
            valid_until : Nat, caller : Accounts, paid : BOOLEAN]

-----------------------------------------------------------------------------
\* The fee of an amount, which may be negative: i128 division truncates towards
\* zero, where \div rounds down as in the first form.
FeeFloored(amount) == (amount * fee_bps) \div 10000
Fee(amount) ==
    IF amount >= 0 THEN (amount * fee_bps) \div 10000
    ELSE -((-amount * fee_bps) \div 10000)

\* TokenClient::transfer, of the balances b.
Transferable(b, asset, from, amount) == amount >= 0 /\ b[<<from, asset>>] >= amount
Transfer(b, asset, from, to, amount) ==
    [[b EXCEPT ![<<from, asset>>] = @ - amount] EXCEPT ![<<to, asset>>] = @ + amount]

\* fee_bps may be at most 1000.
ValidFeeAny(bps) == TRUE
ValidFee(bps) == bps <= 1000

-----------------------------------------------------------------------------
Init ==
    /\ now = 0
    /\ admin = None /\ fee_bps = None /\ fee_recipient = None /\ updates = 0
    /\ total_payments = 0 /\ total_volume = 0
    /\ requests = <<>> /\ proofs = <<>> /\ received = <<>>
    /\ balance = [holding \in Accounts \X Assets |-> Funds]

Tick ==
    /\ now < MaxTime
    /\ now' = now + 1
    /\ UNCHANGED <<config, statistics, requests, proofs, balance, received>>

Initialize(by, recipient, bps) ==
    /\ fee_bps = None /\ ValidFee(bps)
    /\ admin' = by /\ fee_bps' = bps /\ fee_recipient' = recipient
    /\ total_payments' = 0 /\ total_volume' = 0
    /\ UNCHANGED <<now, updates, requests, proofs, balance, received>>

\* create_request, which anyone may call for any destination.
CreateRequest(caller, asset, amount, destination, valid_for) ==
    /\ Len(requests) < MaxRequests
    /\ requests' = Append(requests,
         [asset |-> asset, amount |-> amount, destination |-> destination,
          valid_until |-> now + valid_for, caller |-> caller, paid |-> FALSE])
    /\ proofs' = Append(proofs, None)
    /\ received' = Append(received, 0)
    /\ UNCHANGED <<now, config, statistics, balance>>

Open(r) == ~requests[r].paid

\* What a payment adds to total_volume.
VolumeOfNet(amount) == amount - Fee(amount)
VolumeOf(amount) == amount

Pay(r, payer) ==
    LET req == requests[r]
        fee == Fee(req.amount)
        net == req.amount - fee
        paid == Transfer(balance, req.asset, payer, req.destination, net)
    IN  /\ Open(r)
        /\ now <= req.valid_until
        /\ fee_bps # None
        /\ Transferable(balance, req.asset, payer, net)
        /\ fee > 0 => Transferable(paid, req.asset, payer, fee)
        /\ balance' = IF fee > 0
                      THEN Transfer(paid, req.asset, payer, fee_recipient, fee) ELSE paid
        /\ requests' = [requests EXCEPT ![r].paid = TRUE]
        /\ proofs' = [proofs EXCEPT ![r] = [payer |-> payer, amount_paid |-> req.amount]]
        /\ total_payments' = total_payments + 1
        /\ total_volume' = total_volume + VolumeOf(req.amount)
        /\ received' = [received EXCEPT ![r] = @ + net]
        /\ UNCHANGED <<now, config>>

UpdateFee(by, bps) ==
    /\ updates < MaxUpdates
    /\ fee_bps # None /\ by = admin /\ ValidFee(bps)
    /\ fee_bps' = bps
    /\ updates' = updates + 1
    /\ UNCHANGED <<now, admin, fee_recipient, statistics, requests, proofs, balance, received>>

UpdateFeeRecipient(by, recipient) ==
    /\ updates < MaxUpdates
    /\ fee_bps # None /\ by = admin
    /\ fee_recipient' = recipient
    /\ updates' = updates + 1
    /\ UNCHANGED <<now, admin, fee_bps, statistics, requests, proofs, balance, received>>

TransferAdmin(by, new_admin) ==
    /\ fee_bps # None /\ by = admin
    /\ admin' = new_admin
    /\ UNCHANGED <<now, fee_bps, fee_recipient, updates, statistics, requests, proofs,
                   balance, received>>

Next ==
    \/ Tick
    \/ \E caller, destination \in Accounts, asset \in Assets, amount \in Amounts,
          valid_for \in Validity :
         CreateRequest(caller, asset, amount, destination, valid_for)
    \/ \E r \in DOMAIN requests, payer \in Accounts : Pay(r, payer)
    \/ \E by \in Accounts :
         \/ \E bps \in Fees : UpdateFee(by, bps) \/ \E a \in Accounts : Initialize(by, a, bps)
         \/ \E a \in Accounts : UpdateFeeRecipient(by, a) \/ TransferAdmin(by, a)

Spec == Init /\ [][Next]_vars

-----------------------------------------------------------------------------
(* Properties.                                                             *)

Paid == {r \in DOMAIN requests : requests[r].paid}
AmountOf == [r \in DOMAIN requests |-> requests[r].amount]

\* Balances and statistics are never negative, and the paid requests are those
\* with a payment proof.
TypeOK ==
    /\ now \in 0..MaxTime
    /\ fee_bps \in Fees \cup {None} /\ fee_recipient \in Accounts \cup {None}
    /\ admin \in Accounts \cup {None}
    /\ total_payments \in Nat /\ total_volume \in Nat
    /\ requests \in Seq(Request)
    /\ DOMAIN proofs = DOMAIN requests /\ DOMAIN received = DOMAIN requests
    /\ \A r \in DOMAIN proofs : proofs[r] # None <=> requests[r].paid
    /\ balance \in [Accounts \X Assets -> Nat]

\* The statistics count every paid request once and with its full amount, over
\* any number of assets and changes of the fee.
StatisticsMatchRequests ==
    /\ total_payments = Cardinality(Paid)
    /\ total_volume = SumFunctionOnSet(AmountOf, Paid)

\* DOCUMENTATION caps the fee at 10%: the destination of a paid request has had at
\* least nine tenths of its amount, once, however often the fee was changed since
\* the request was made.
DestinationGetsNineTenths ==
    \A r \in DOMAIN requests :
      IF requests[r].paid
      THEN 10 * received[r] >= 9 * requests[r].amount /\ received[r] <= requests[r].amount
      ELSE received[r] = 0
=============================================================================
