# StellaRay verification

TLA+ specifications of StellaRay, the TLC configurations that check them on small
instances, and TLAPS proofs of the properties that matter most.  The definitions follow
the source: each of them is tied to its lines in `PROJECT.json` (`map`), together with the
runs, the mutants that show a property can fail, the hazards the properties are aimed at,
the disagreements found, and the theorems.

Paths below are relative to the repository.

1. [The system](#1-the-system): components, state, operations, interactions
2. [What is hard about it](#2-what-is-hard-about-it)
3. [The modules and the code](#3-the-modules-and-the-code)
4. [The runs](#4-the-runs): what each checks, its bounds, its fairness
5. [Where the code and its documents disagree](#5-where-the-code-and-its-documents-disagree)
6. [What is proved](#6-what-is-proved)
7. [What is not modelled](#7-what-is-not-modelled)
8. [Plan](#8-plan)

## 1. The system

StellaRay lets a user log in with Google or Apple and control a Stellar wallet through a
zero-knowledge proof of the login.  It consists of Soroban contracts (`contracts/`), an SDK
(`sdk/`), a prover and a salt service (`prover/`, `salt-service/`), circuits (`circuits/`)
and a demo application (`demo/`, Next.js over one PostgreSQL database) with streaming
payments, payment links, quests and an MPC wallet.

| Component | State | Operations | Talks to | What makes it correct |
|---|---|---|---|---|
| Streaming payments (`demo/src/lib/streamingPayments.ts`, `streamEscrow.ts`, `demo/src/app/api/streams`) | a row per stream; an escrow account per stream on the Stellar ledger; nothing in memory between requests | read (which refreshes the status), withdraw, report a withdrawal, cancel, delete | database, Horizon | a stream closes once; a payment was vested; the books never show more than was paid; both parties' shares fit the deposit; a request ends |
| Creation of streams (`demo/src/app/streams/page.tsx`, `api/streams/create/route.ts`) | what each open page knows of the balance; the deposit under way | check the balance, deposit, register | ledger, database | behind every row is a deposit of its own |
| Vesting curves (`streamingPayments.ts`) | none | `calculateStreamedAmount`, the rounding of payments | called by the routes | monotone; a cliff only delays; rounding does not add up |
| Multi-custody contract | guardians, threshold, nonce, pending transactions and their list, nullifiers | initialize, initiate, approve, execute; the guardians change by a second initialize only | called by wallets | carried out once, with enough approvals of different guardians, each in time |
| Smart wallet contract | identity, sessions by key, list of keys, nonce | initialize, add and revoke sessions, authentication of a call | ZK verifier, factory | whoever acts holds an unexpired grant of the wallet's identity; the list follows the sessions |
| ZK verifier contract | verification keys, nullifiers | verify, rotate keys | called by wallets | a proof is accepted at most once |
| x402 facilitator contract | fee, requests, proofs, statistics, token balances | create a request, pay it, change the fee | token contracts, SDK client | a request is paid once, the destination gets its share, the statistics add up |
| JWK registry contract | providers with their oracle and kids, keys by kid | initialize, register and revoke keys, change the oracle | oracle, verifier | each key in force is named once; keys come and go by their own calls only |
| Gateway factory contract | wallets by seed, services, wasm, count | deploy, predict, look up, configure | smart wallets | a seed has one address, a wallet keeps the identity it was deployed with |
| Quests (`demo/src/app/api/quests/route.ts`) | `quest_participants` | register with a referral, complete a task | database | points are never made by lost updates; a referral in a row has been counted |
| Payment links (`demo/src/lib/paymentLinks.ts`, `demo/src/app/api/pay`, the page) | `payment_links`; open pages | create, show, pay, mark as paid, cancel | database, Stellar ledger | settled once, by a payment that was made |
| SDK login (`sdk/src/client.ts`, `StellarZkLogin.ts`, `react/`) | one session object, one wallet, a loading flag | the six steps of a login, logout | OAuth popup, salt service, prover, ledger | a session never mixes two logins; one that may sign is registered |
| SDK wallet adapter (`sdk/src/core/wallet-adapter.ts`), connection | session, status, the promise of the connection, a popup with its handler and its timer | connect, disconnect | OAuth popup, salt service, prover, storage | a token is for the key of its session; a connection ends |
| SDK wallet adapter and Soroban client (`core/soroban-client.ts`), transactions | what each payment has built and signed; account and network that may change meanwhile | pay, call a contract, switch the network, connect as someone else | RPC servers of two networks | what is reported is true of the ledgers |
| SDK XDR and addresses (`core/stellar-xdr.ts`, `utils/`) | a buffer and an offset | write, read, encode, decode | every transaction | what is read is what was written, but for the sign of long numbers; a mistyped address is refused |
| SDK storage (`sdk/src/core/storage.ts`) | IndexedDB, cache, `initPromise` | init and, behind it, every other call | browser | a call is answered; stored sessions come back |
| SDK x402 client (`sdk/src/x402/index.ts`) | what each call of a resource has been asked for and has paid | fetch, pay, fetch again | server of the resource, Horizon | paid once, unless the application calls again too early; what is presented was paid as it was asked for |
| Salt service (`salt-service/src/main.rs`; the demo's `api/zk/salt`) | master key, keys of two providers; a cache | refresh the keys, answer a salt; restart | OAuth providers, every login | one salt to one identity; the accepted keys follow the published ones |
| Login hashes (`sdk/src/utils`, `prover/src/witness.rs`, `circuits/lib/field_utils.circom`, contracts) | none | address seeds, addresses, key hashes, nonces, modulus hashes | compared with each other on the ledger | programs that have to meet compute the same of one login, and no program the same of two |
| Circuits (`circuits/lib`) and prover (`prover/src/witness.rs`) | none; each proof on its own | big integers, bytes to chunks, reading a token | prover, verifier contract | carries and borrows are right; the claims are what the issuer wrote |
| Simple Shamir sharing (`demo/src/lib/mpc/shamir-simple.ts`) | two tables | split, combine | MPC routes | two shares give the secret back |
| MPC wallet (`demo/src/app/mpc-wallet/page.tsx`, `api/mpc/create`, `lib/mpc`) | the page's steps, `localStorage`, a file in each of the user's accounts | sign in three times, create, look for the shares | Google Drive, GitHub | any two accounts give a wallet back |
| Waitlist, X-Ray and ZK demonstrations, admin, interface | | | | not modelled, see section 7 |

The contracts are called on one ledger: a call is atomic, and one that returns an error
leaves no trace.  The demo's routes are serverless functions over one database: every
`await` is a point where other requests run, and where the function may be stopped; nothing
takes a lock or opens a transaction.  The SDK runs in one browser thread: what happens
between two awaits is atomic, and everything else may happen at an await.

## 2. What is hard about it

`hazards` in `PROJECT.json` lists them at their lines.  They fall into these groups.

* **Money moves before the books do.**  The withdraw and cancel routes pay on the ledger
  and write the row afterwards; the payment page pays and reports afterwards.  A second
  request, a crash, a lost answer or a late inclusion may come in between.  The page that
  creates a stream, the x402 client and the wallet adapter pay first in the same way.
* **Stale copies.**  A handler computes from a row it read awaits ago; PATCH of the quests
  writes back a whole row; the login writes into whatever session there is by then; a
  payment is built for one account and network and signed when there may be others.
* **Time.**  A stream becomes active and completed only when somebody reads it; approvals,
  sessions and payment requests expire while they are used.
* **Order of calls.**  A contract set up twice, a key registered again after its
  revocation, a configuration changed between request and payment, a wallet deployed twice.
* **Edges of numbers.**  Curves glued at the start, the cliff and the end; rounding of every
  payment; thresholds and deadlines at their boundary; a fee rounded to zero.
* **Waiting.**  A handler waits for Horizon; `init` waits for itself; a popup may be left
  open, closed, or closed by the timer of an earlier one; one provider's failure ends the
  round in which the other's keys would have been refreshed.
* **Several programs, one value.**  What TypeScript writes, Rust, Circom and a contract read
  or compute again: byte order, padding, order of the parts of a number, choice of the hash.
* **One of several steps failing.**  Three uploads of which one fails, a referral counted
  before the row that names it.

## 3. The modules and the code

### Streaming payments

`StreamEscrow` models one stream: streams share no row and no account.  A request is a
handler with a program counter (`req[r].pc`) that stands at an await of the route; `row` is
its row, `escrow` its account with balance and sequence number, `tx[r]` the transaction the
handler has submitted.  `ReadRow` and `RefreshStatus` are the two statements of `getStream`;
`CheckWithdraw`, `CheckReport`, `CheckCancel`, `CheckDelete` the checks of the four routes
that write, each with its early returns; `SubmitPayment`, `PaymentAnswer` and
`PaymentTimeout` the call of Horizon; `RecordWithdrawal` and `CancelStream` the conditional
`UPDATE`s.  `ApplyTx`, `RejectTx` and `DropTx` are what the ledger does with a submitted
transaction, after the handler has stopped waiting for it too.  `Faults` names the faults an
instance admits: overlapping requests, Horizon time-outs, dropped transactions, killed
functions.  Amounts are whole units and the curve is a constant: any monotone function from
the elapsed time to the total, which is all the row's arithmetic depends on.

`StreamLedger` is what a stream promises, with neither handlers nor rows: the recipient
takes what has vested, the sender may ask once to close the stream and gets back what had
not vested when he asked, and nothing moves after that.  The refund is the one that the cancel
route computes, where two comments describe another (section 5).  `StreamEscrow!PromiseKept` is the
refinement: phase, start and what is owed are computed from the row, the requests and the
ledger, and the stream is closed from the moment the refund is on the ledger.

`StreamCurve` is `calculateStreamedAmount` itself: the four curves, the cliff, and
`toFixed(7)` at every payment.  Amounts are exact fractions until they are rounded, so the
model leaves out one thing only, the binary error of doubles, and admits both neighbours
where that error decides which way half a stroop goes.

`StreamCreate` is what comes before: the page that checks a balance it may have read long
ago, deposits, and posts the stream, for several pages at once that spend one balance and
count one sequence number; and the route, which looks at the escrow before it inserts the
row.  The deposit may come later than the page waits, and the post may fail.

### Contracts

One action per entry point that changes state, with its panics and error returns as guards;
`None` is `Option::None` or an absent storage key.  Hashes are injective pairs and proofs are
model values; which proof verifies which statement under which key is a constant relation.

* `MultiCustody` is `contracts/zk-multi-custody`.  The nullifier of an approval is the pair
  of commitment and transaction id; a transaction id is the pair of data and nonce.  The
  amount of a transaction is never found (`extract_amount` is a stub), and the timelock that
  depends on it never starts; the model says so in `ExtractAmount` and keeps the rest.
* `SmartWallet` is `contracts/smart-wallet`, and `SessionAuthority` what it promises:
  someone may act until the ledger their last grant named, or until it is revoked.
  `ImplementsAuthority` is the refinement.
* `ZkVerifier` is `contracts/zk-verifier`: keys rotate, nullifiers stay.
* `X402Facilitator` is `contracts/x402-facilitator` with the token balances it moves.
* `JwkRegistry` is `contracts/jwk-registry`, and `SigningKeys` its promise: a map of keys, of
  which a call changes one at most.  It does not say who may make the call.
* `GatewayFactory` is `contracts/gateway-factory` together with `initialize` of the wallets
  it deploys, which anyone may call.

### Services and SDK

* `Quests`: a request is the SQL statement it is about to run and what it has read.
  `SelectExisting`, `SelectCode`, `SelectReferrer`, `CountReferral`, `Insert` are POST,
  `SelectUser` and `CompleteTask` PATCH; `Fail` ends a request anywhere.
* `PaymentLinks`: one link, the page of each payer, and how often each has paid on the
  ledger.  The page offers to pay again after an error, whatever the error stood for.
* `LoginSession`: the session is a record of parts, each the number of the login that put it
  there.  A login stands at one of its eight awaits; `Stored` is the assignment to
  `this.currentSession`, `isLoading` the flag of the React provider that disables the
  buttons, and `logout` may come at any await.
* `SessionStorage`: promises and who waits for them.
* `WalletAdapter`: `connect` with its popup.  A step is what runs between two awaits; every
  login has its own message handler and its own timer, while `this.oauthPopup` and the window
  are shared, as in the code.  `persistSessions` is on or off for a whole behaviour.  The user
  may close the window, the provider answer with an error or with something that is no token,
  and five minutes pass at any time.
* `AdapterPayment`: `sendPayment` and `callContract`.  What is built, signed and submitted is
  recorded with the account, number and network of that moment, and between any two of the
  awaits the user may connect as someone else or switch the network.  RPC servers accept,
  refuse, lose their answer, and include what they accepted whenever they like.
* `X402Client`: `fetchWithPayment` for several resources that pay from one account.  The
  ledger includes a transaction until its time bound.  The application calls again whenever it
  likes, and `early` counts the calls it makes before the one before is settled, that is, before
  its time bound is over and the ledger shows no payment (the client keeps no note of what it
  paid).  `Moved` is the amount that the ledger moves for the number that was asked for: so many
  whole units of the native asset, or so many smallest units of a token.  The payment is taken
  for the transaction that it stands for, although the client gives the SDK's libraries a string
  and an object `as any` where they want a transaction and a host function (`:314`, `:344`).
* `SaltService`: the Rust service with its hourly task, and the demo's route with its cache.
  Either is restarted at any time and begins with nothing but its environment.  Google's keys
  and Apple's are fetched in one round that ends at the first failure.
* `SdkXdr`: XDR writer and reader with the Soroban values, over messages of any fields, and
  amounts in stroops as text.  How many values a byte has and how many bytes a word are
  constants (256 and 4 in the code).
* `StrKey`: addresses with their checksum.  The base32 coders keep the code's eight and five
  bits, and their accumulator overflows as theirs does.
* `LoginHashes`: what each of the programs computes of a login.  A hash is the term that shows
  how it was made, so two results are equal when and only when they were made alike.  The
  prover is given the texts that the SDK sends, the halves of a key in hexadecimal digits and the
  salt in base 64, and reads their digits as decimal ones or refuses them (`string_to_field`).
  `HashesAssumption` says which claims, keys and moduli are meant: claims without zero bytes that
  fit the circuit's arrays, keys of one length, moduli of one length that fit 17 chunks.
* `CircuitArithmetic` and `JwtCircuit`: what the templates assign to their signals.  A token
  is issued with its claims in any of the given orders; `SplitJWT`, `Base64URLDecode` and
  `JWTClaimParser` are the three steps in which the circuit reads it, and `PositionOf` is
  where the prover says that a claim is.
* `Numerals`: a number and its digits in some base, which hashes, circuits and XDR are all built
  from.  These are recursive functions, so that they can be reasoned about.
* `ShamirSimple`: the loop that builds the tables, one entry a step, then split and combine
  of one byte.
* `MpcWallet`: the page (with its reload and the answers it loses), the route that uploads
  three shares one after the other, and the search for a share, by wallet, in what an
  account holds.

### Composition

`Contracts` puts six contracts on one ledger, `Services` parts of the demo and the login beside
each other (among them a stream under two more sets of faults), and `Sdk` the protocols of the
SDK and what it computes (hashes, circuit arithmetic, XDR).  Their state is disjoint and none
calls another (but the factory its wallets, which one module models), so an interleaving of two
of them projects to a behaviour of each alone, and every property of these modules is about one
alone.  They therefore choose one part in the initial state (`called`, `used`) and let the
others stand still: the sum of the state spaces instead of their product, with nothing
lost.  `ContractsSpec`, `ServicesSpec` and `SdkSpec` are what the runs check and the theorems of
section 6 are about. `MCContracts`, `MCServices` and `MCSdk` only give values to their
constants; `MCSdk` also adds `StrKey` and `JwtCircuit`, which compute what no proof is
about.  Where parts do share state the module itself composes them: pages with the route and the
ledger (`StreamCreate`, `PaymentLinks`, `MpcWallet`), handlers with the row, the escrow and the
ledger (`StreamEscrow`), the factory with the wallets it deploys, the adapter with two ledgers.

`ListFilter` is the loop that the contracts, the page of the MPC wallet and the storage client
filter their lists with: push what passes a check onto a new list.

Some definitions come in two forms, the second the code's, the first what a plausible slip
would make of it, such as `GivenUpFailed` before `GivenUp`.  The first forms are used by the
mutants only.

## 4. The runs

A run is one question, with its properties in its `.cfg`.  For each property of a passing
run, `mutants` names a plausible bug in a mapped definition with which TLC finds that
property violated: this is what says that the bounds let the interesting case happen.

| Run | What it shows |
|---|---|
| `stream_all` | Two requests of any route, overlapping, timed out, dropped or killed at any await.  A row closes once (`ClosedOnce`) and a cancelled one is frozen (`CancelledRowFrozen`); every payment is of something (`TypeOK`) and was vested when it was made (`PaymentsVested`); a hash in the row is that of a payment the ledger applied (`RecordedHashesApplied`); the books of the withdraw route never show more than was paid (`RecordedIsPaid`); a request that is not killed is answered (`EveryRequestAnswered`) |
| `contracts_all` | Six contracts, each called in every order.  A multi-custody wallet with repeated and inactive guardians and every threshold, set up once or twice: a transaction is carried out once, with enough approvals (`ThresholdMet`, `ExecutedOnce`), of different guardians, each given in time (`DistinctApprovers`, `ApprovalsInTime`).  The lists of the wallets follow what they store (`ListsMatchStorage`); the smart wallet implements `SessionAuthority`; the verifier accepts a proof once; the facilitator's statistics add up and the destination gets nine tenths, once; the registry implements a map of keys (`SigningKeys`) and names each key once; wallets stay as they were deployed, one address to a seed |
| `services_all` | The curves over the whole life of a stream (`NeverShrinks`, `CurvesFitDeposit`).  A stream with three requests, one at a time, with lost answers, dropped transactions and crashes: what is recorded stays within what has streamed (`RecordedWithinStreamed`).  The same with no fault: row, handlers and escrow implement `StreamLedger` (`PromiseKept`), the deposit covers every withdrawal, the books agree with the ledger and the shares are fair (`BooksAgree`).  Two pages creating streams (`RowsBacked`); two quest requests interleaved statement by statement, failing anywhere (`PointsEarned`); two payers and the creator of a link (`SettledOnce`); two wallets whose shares go to three accounts (`AnyTwoRecover`); three logins with rejections and logouts at every await (`SessionOfOneLogin`, `RegisteredWhole`) |
| `sdk_all` | Three connections whose popups are closed, time out or answer with errors, with sessions that are stored or are not (`TokenOfOwnNonce`, and `ConnectEnds`: a connection is settled, or waits for the storage); two payments while account and network change and answers are lost (`ReportedTruthfully`); three x402 calls for two resources that compete for a sequence number and are repeated early and late (`PaidAndPresented`: one payment, and one more at most for each early call); the salts over rotations, failures and restarts (`SaltIsOfIdentity`, and `KeysFollow`: again and again the accepted keys are the published ones); the hashes of every login as its programs compute them (`HashesAgree`); the circuits' arithmetic on chunks, and every short message and amount (`NumbersKept`); addresses, mistyped ones too, and the claims of tokens (`ReadAsWritten`) |
| `stream_overdraw`, `stream_stranded`, `custody_replay`, `contracts_predict`, `storage_init`, `shamir_combine`, `login_addresses`, `x402_threshold` | Disagreements, see section 5: TLC shows the property violated |

Most properties of `stream_all` hold whatever overlaps and fails.  `PromiseKept`,
`BooksAgree` and `RecordedWithinStreamed` do not: section 5 says which overlaps break them.
`Faults` and `Routes` of an instance are the assumptions under which they hold, and
`services_all` therefore checks them on instances of their own, `Serial` and `Reliable`.

### Bounds

* **Stream**: a total of 4 units over 2 steps of time, the curve `e |-> 2e`, a start at 1 and
  a clock to 3.  That is a stream before its start, at it, in the middle, at its end and
  past it, with one vesting step for a stale row to miss.  (`services_all` has a clock to 2: a
  stream that starts at 1 before its start, and one that starts at once up to its end.)  A request asks for everything (0)
  or for half (2): two halves, or everything twice, are what overdraws.  `Reserve`,
  `FundingExtra` and `Fee` are such that fees are paid from what the account was funded with
  and a transaction can fail for want of balance.  Two overlapping requests are enough for
  each pair of handlers to meet at any two awaits; three in a row are enough for
  withdraw, cancel and withdraw again.
* **Multi-custody**: two identities, a list in which one identity is inactive and repeated
  and one in which it stands twice; thresholds 1 to 3, one of which no list reaches; two
  nonces, so that a transaction id can come again after a second `initialize`; one step of
  time, before and after the deadline.
* **Contracts**: bounds and inputs are named in `MCContracts` and `Contracts_all.cfg`.  Two
  keys and two epochs that end inside the run; two proofs of one statement and one of two;
  amounts on both sides of a fee that rounds to zero, a fee changed between request and
  payment; two kids and a modulus that is refused; two seeds and a configuration that
  changes twice, by admins who hand their role over.  The registry's kids and oracles are
  symmetric.
* **Services**: bounds are named in `MCServices` and `Services_all.cfg`.  Totals that no
  duration divides and a clock past every end; two requests for one participant or for two,
  and an admissible code that is already taken; two payers who may each pay twice, before
  and after expiry; three logins; two pages and a balance for two streams at most; two
  wallets and three accounts, one of which may be used twice.  Requests of the quests and of the
  serial streams and accounts of the MPC wallet are symmetric: no definition tells them apart, and
  `services_all` checks no liveness.
* **SDK**: bounds are named in `MCSdk` and `Sdk_all.cfg`.  Three connections and a clock that
  runs out once, so that the timer of the first may fire during the second; two payments, a
  result asked for once before it is given up, two switches; a resource in the native asset and
  one in a token, each asked for at and above the threshold, a whole unit of five smallest ones,
  three calls, and time for one before and one after the first one's time-out; two key rotations
  and one restart; bytes of four values in words of three, so that a number has sign, carry and
  padding; subjects of one and of more field elements; keys and salts whose digits the prover
  reads as decimal ones, and such as it refuses; three chunks of three bits with every carry and
  borrow; tokens whose payload begins and ends at every place of a block, with a name that holds
  a key, a two-byte letter, or an escaped claim.

`MaxTime`, `MaxNonce`, `MaxInitialize`, `MaxLedger`, `MaxGrants`, `MaxRequests`,
`MaxUpdates`, `MaxCount`, `MaxPaid`, `MaxElapsed`, `MaxLogins`, `MaxSwitches`, `MaxCalls`,
`MaxRotations`, `MaxRestarts`, `MaxFields`, `MaxComputed`, `Tabs` and the number of `Streams`
bound counters of the model in the guards of the actions that raise them; none is a limit of
the code.
`CHECK_DEADLOCK FALSE` is given where the clock and the number of requests come to an end,
as a bounded run must.

### Fairness

`StreamEscrow!FairSpec` assumes that a request's handler goes on when it can and that the
network includes or refuses a transaction it was given, unless it drops it first.  The first is
the event loop of the function's runtime (a killed function is a fault that ends the request,
not a handler that waits), the second the ledger, which closes every few seconds.  Clients, the
clock and the faults are not fair: nobody is bound to call, and nothing bound to
fail.  `SessionStorage!Fairness` is that of a browser: requests of IndexedDB and WebCrypto are
answered, and a promise that is settled calls back.  `WalletAdapter!Fairness`: a fetch of the
adapter is answered or fails, time goes on and a timer fires; nothing makes the user finish in
the popup, and nothing the storage answer.  `ConnectEnds` rests on the timer, therefore, and it
is about a connection up to the point where its session is stored: with `persistSessions`, which
is the default (`wallet-adapter.ts:196`), `connect` awaits `storeSession` there, whose `init`
never settles (`storage_init` below), and the connection does not end.  Without it the
connection ends.  `SaltService!Fairness`: the task of the service runs on (weak fairness), and
no provider is out of reach for ever (strong fairness of fetching its keys: the fetch is enabled
and disabled as rounds begin and end).  All else is safety.

## 5. Where the code and its documents disagree

Those that a run shows are `findings` in `PROJECT.json`, with the line quoted.

* **Overlapping withdrawals pay more than has vested** (`stream_overdraw`).  The route checks
  the amount against a row it read before the payment, and adds to `withdrawn_amount` after
  it; WHITEPAPER.md:256 limits the recipient to what has vested.
* **A cancellation strands what had streamed** (`stream_stranded`).  The route refuses every
  withdrawal from a cancelled stream; the cancel route says the recipient can still make one.
* **A second `initialize` of a multi-custody wallet lets a transaction run again**
  (`custody_replay`).  It puts the nonce, which is there for replay protection, back to 0.
* **A wallet is not deployed where it was predicted** (`contracts_predict`).  Deployment and
  prediction use different salts.
* **The storage manager's `init` waits for itself** (`storage_init`), so no session is
  recovered and no call answered.
* **Two Shamir shares do not give the secret back** (`shamir_combine`).  The table loop
  doubles where it should multiply by a generator.
* **One account, two addresses** (`login_addresses`).  The SDK's client hashes an account's
  claims with Poseidon, its wallet adapter with Blake2b; README.md:75 says that the same Google
  account always produces the same address.
* **What is paid without asking may be above the threshold** (`x402_threshold`).  The client
  compares the number that is asked for with the threshold, which is in smallest units
  (`sdk/src/x402/index.ts:48`), and pays the same number as whole XLM (`:298`); `:33` says
  "Auto-pay if amount below threshold".  For a token the number is the same in both places.

Met while modelling, and visible in the modules, without a run of their own:

* The refund of a cancellation is the total minus what has streamed, streamed but not withdrawn
  stays for the recipient (`demo/src/app/api/streams/[id]/cancel/route.ts:85-92`); the route's
  header (`:8`) and the comment on `cancelAndRefund` (`demo/src/lib/streamEscrow.ts:211`) both
  say "total - already withdrawn".  `StreamLedger` promises what the code does.
* The page of a stream deposits first and posts the stream afterwards
  (`demo/src/app/streams/page.tsx:184`).  When the post fails nothing repeats it, and the next
  try makes another id: a deposit that no row knows of.  No document says otherwise.
* After a lost answer an application that follows "Transaction failed. Please try again."
  (`sdk/src/types.ts:292`) at once may pay a second time for an x402 resource: the first
  payment may still be applied.  `PaidAndPresented` counts such calls.
* DELETE of a stream cancels it without a refund, and two overlapping cancellations may both
  refund (`demo/src/app/api/streams/[id]/cancel/route.ts:90,99`).
* The exponential curve is the slow one, `p*p` (`streamingPayments.ts:162`), which is never
  ahead of the straight line; WHITEPAPER.md:252 gives it as `1 - e^(-k p)` and says that it
  "front-loads the payment".  No property here says which of the two is meant.
* The multi-custody timelock never starts: `extract_amount` answers `None`
  (`contracts/zk-multi-custody/src/lib.rs:503`).
* A login proof can be used for any number of sessions of the smart wallet
  (`contracts/smart-wallet/src/lib.rs:162`), where WHITEPAPER.md:282 has it used once.
* The verifier derives the nullifier from points of the proof
  (`contracts/zk-verifier/src/lib.rs:357`), so two proofs of one statement are both accepted:
  `AcceptedOnce` is about proofs, not about statements.
* `create_request` of the facilitator asks for no authorisation
  (`contracts/x402-facilitator/src/lib.rs:195`).
* A revoked key's kid stays in `active_kids` (`contracts/jwk-registry/src/lib.rs:336`), and
  the reverse lookup by issuer is overwritten by the provider set up last (`:194`); the
  issuer's hash depends on no more than its length (`:476`).
* The factory answers the wallet of the seed's first issuer to a second one
  (`contracts/gateway-factory/src/lib.rs:184`).
* POST of a payment link answers "Payment verified successfully" without looking at the
  ledger (`demo/src/app/api/pay/[id]/route.ts:71,108`): `SettledOnce` is about links that the
  page settles.
* `storage.ts:4-5` names a fallback to localStorage; there is none.
* A logout during the first await of `login` does not stop it, and a login that fails after
  an earlier one leaves `isLoggedIn` true with a session that has no proof.
* The timer of a popup is never cleared (`sdk/src/core/wallet-adapter.ts:813`): it closes the
  popup of a later login.
* The wallet adapter asks the salt service at `/salt` (`sdk/src/core/wallet-adapter.ts:826`);
  the service answers at `/get-salt` only (`salt-service/src/main.rs:99`), which is where the
  client asks (`sdk/src/client.ts:244`).  `SaltService` is about what is answered there, and
  `WalletAdapter` about a fetch that may be answered or fail.

Login values (`LoginHashes`; `HashesAgree` claims no agreement for the pairs that follow):

* The prover's issuer hash and modulus hash are not the circuit's, and its modulus is a row
  of zeros so far, where `prover/src/witness.rs:8` says "Matches Circom circuit
  implementation".  The circuit's `HashBytesToField` hashes elements padded with zeros.
* A modulus is hashed in three ways: as a chain by the circuits' library, by one
  `Poseidon(17)` in the main circuit, as a tree by SDK and registry, whose comment says that
  it matches the circuit.
* `Split256To128` of the circuits takes the high half from the first 16 bytes, as the SDK does,
  but reads the bytes inside each half in the opposite order (`BytesToField` has the least
  significant byte first).  The main circuit does not use it.
* The SDK sends the halves of a key as hexadecimal digits without a prefix
  (`sdk/src/keys/index.ts:79`) and the salt in base 64 (`sdk/src/client.ts:315`); the prover's
  `string_to_field` (`prover/src/witness.rs:300-320`) takes decimal digits, or hexadecimal ones
  after `0x`.  A key or salt with any other character ends the request with an error, and one
  without is read as another number than the SDK's: the prover's key hash and address seed
  meet nobody's.  The model has both outcomes, and `HashesAgree` only says that the prover
  gives no two of those it can read the same hash.  (A salt that happens to begin with `0x` is
  left out.)  The randomness, in base 64 as well, the prover puts into no hash of a request:
  its `compute_nonce` is for tests, and `LoginHashes` gives it none.
* The demo derives further values of its own (`generateWalletFromSub`, `useZkWallet`,
  `/api/zk/prove`), with the salt taken from the token when no service answers.

Soroban values (`SdkXdr`):

* The reader takes signed numbers for unsigned ones: `i64` and `i128` are read with `readUint64`
  (`sdk/src/core/soroban-client.ts:615-629`), so a negative number comes back as a large one.
  `Meaning` says what is read.

Circuits (read with `CircuitArithmetic` and `JwtCircuit`):

* `zklogin.circom` declares components inside of loops, uses signals that `HashBytesToField`
  does not declare, and equates the hash of the nonce's text with the nonce itself; its length
  of the hashed text assumes signatures of 86 characters.  `rsa_verifier.circom` divides in
  the field and defines `BigMult`, `BigMod` and `BigModMult` again, and `BigMod` copies its
  input.
* In a token's payload an absent key is read from the beginning, an audience that is a list is
  read with what follows, a number is taken to have ten digits, and what exceeds a third of
  the token's longest form is lost.  `VerifyNonce` compares nothing, and `VerifyIssuer`
  hashes an issuer by another rule than the rest.

MPC wallet (read with `MpcWallet`):

* `/api/mpc/sign` joins shares with `secrets.js` that `/api/mpc/create` made with
  `shamir-simple`; `MPCWallet.create`, `deleteWallet` and `signOutProvider` are called by
  nothing.
* `verifyRecovery` counts an account that is used twice as two.
* After a failed creation the page asks for three providers that it already has, until it is
  loaded again; it stores `data.total`, which the route calls `totalShares`.

Hook of the demo's wallet (`useZkWallet`, no module): it keeps the wallet of the last account
when the session changes; a late answer sets balances or the proof of a network that is no
longer chosen; and its own logout leaves the session of next-auth as it is.

Waitlist: the positions told to two people who sign up at once may coincide, and differ from
the position told when one of them asks again.

## 6. What is proved

Proofs are checked by TLAPS for every value of the constants that satisfies the modules'
assumptions, so for any number of requests, guardians, payments or logins and any bound.  Every
safety property of the passing runs is a theorem, but for `ReadAsWritten`.

### Streams

`StreamEscrow_proofs`, under the assumptions of `StreamEscrow` about its constants (the curve
maps `0..Duration` monotonically into `0..Total`; amounts and fees are naturals):

* `TypeCorrect`: `TypeOK`, by one step per action.  It is more than typing: balance, shares
  and recorded amounts are naturals, so none is ever overdrawn below zero, and no handler comes
  to the escrow with nothing to pay (`PaysSomething`).
* `ClosedOnceHolds`, `CancelledRowFrozenHolds`: the action properties, from `TypeOK`: the
  three statements that write a row each carry a condition on the status of the row that
  is there, not on the copy the handler holds.
* `PaymentsVestedHolds`, `RecordedHashesAppliedHolds`, by the inductive invariant
  `PaymentInv`.  Neither property is inductive: a payment is vested because its amount was,
  when the handler computed it from a copy of the row.  `PaymentInv` therefore follows a
  request: the row is there, and its start fixed, from the moment a handler has read it
  (`RowRead`); what a withdrawal is about to pay, and what it has submitted, has vested
  (`Vested`); and a handler submits once, and holds a hash of its own only after the
  ledger applied that transaction in the handler's direction (`Submitted`).
  `StreamedMonotone` carries `Vested` over the clock.
* `RecordedIsPaidHolds`, whatever overlaps and fails.  The property bounds what the row says
  by what the ledger paid, and is kept because of what is paid and not yet recorded, by any
  number of handlers at once: `RecordInv` says that the row's withdrawals and the sum of the
  amounts outstanding (`Outstanding`, over the requests `ToRecord`) are at most what the
  recipient received, as long as no client has reported a payment itself.
* `SerialBooksHold`: `RecordedWithinStreamed` when `"overlap"` is not among the faults,
  whatever else is.  The property is about the row, and is kept because of what the one
  handler under way is about to add to it: `SerialInv` says that at most one is, that its
  copy still shows the row's withdrawals, and that withdrawals and amount together have
  streamed.
* `BooksAgreeHolds`, `FairSharesHold`, `PromiseKeptHolds`: without faults (`FaultFree`: none
  of the faults, the routes that read, withdraw and cancel, finitely many requests, a
  deposit that leaves the reserve and a fee for each of them) the books agree, no withdrawal
  fails for want of money, the shares are fair, and `StreamLedger` is implemented: initial
  states are initial states of the promise and every step is one of it or a stutter.  The
  invariant is `ReliableInv`.  `Place` says for each await what the handler that stands
  there holds; `Books`, that row and ledger differ by the one payment that is being
  recorded; `Money`, that the escrow has paid what the two parties received and one fee for
  each payment.  The last counts the requests that were paid, which is why the promise
  needs the deposit to cover a fee for each.

### Contracts

* `MultiCustody_proofs`: `DistinctApproversHolds` and `ApprovalsInTimeHolds`, by `ApprovalInv`,
  the two together with the form of what is stored (`Stored`): neither is inductive alone.
  An approval has spent its nullifier, and a spent nullifier turns the next approval of the
  same identity away.  Nullifiers survive a second `initialize`, and this is why the two hold
  however often the wallet is set up, while the next two do not.
  `ThresholdMetHolds` and `ExecutedOnceHolds`, for a wallet set up once, by `CustodyInv` in
  addition: no transaction id comes again (`IdsGiven`), approvals are of guardians of the list
  and there are enough of them when the status says so (`Backed`).  From the number of
  approvals `ApproversCounted` concludes the number of different guardians.
* `Contracts_proofs`, under `ContractsAssumption`, proves each of the other contracts and then
  the composition.  A contract's share of a step of `ContractsSpec` is a step of that contract
  or a stutter (`CustodyPart` to `FactoryPart`), which gives the properties of section 4 for
  the specification that the run checks: `ContractsTypeCorrect`, `CustodyHolds`,
  `ListsMatchStorageHolds`, `AcceptedOnceHolds`, `DestinationGetsNineTenthsHolds`,
  `WalletsAsRecordedHolds`, `ImplementsAuthorityHolds` and `ImplementsKeysHolds`.
  * The smart wallet refines `SessionAuthority` with `Until`, the last ledger each key may act
    in, computed from the sessions.  `SessionsStored` says what is stored, that the list names
    the active sessions each once, and that nothing is before there is an identity to grant it
    under, so that `initialize` is a stutter of the promise.
  * `Accounted`: what was accepted has spent its nullifier, which stays spent over a rotation of
    the keys.
  * `Ledgered`: each paid request has brought its destination what remains of it after the fee
    of that moment (at least nine tenths, `FeeIsATenth`), an unpaid one nothing, and the
    statistics are the sums over the paid ones; a payment changes sum and set by one request
    (`SumAdd` of `CollectionLemmas`).
  * `Published`: the registry's list is of the registered providers, an issuer's entry names one
    that has the issuer, and kids and stored keys name each other, each kid once.  The registry
    refines `SigningKeys` with `KeyOf`, the active keys as they are stored; that the entry point
    which filters the list of kids answers the same is `FilteredElements`.
  * `Deployments`: a seed's record, its address and the wallet stored there belong together, and
    nobody was told another address; `initialize` by a stranger finds a wallet that is set up.

### Services

`Services_proofs`, under `ServicesAssumption`: `ServicesTypeCorrect`, `NeverShrinksHolds`,
`CurvesFitDepositHolds`, `PointsEarnedHolds`, `LoginsHold`, `SettledOnceHolds`,
`RowsBackedHolds`, `AnyTwoRecoverHolds`, `RecordedWithinStreamedHolds`, `BooksAgreeHolds`,
`PromiseKeptHolds`, all of `ServicesSpec`, by `OnePartSteps` from what is proved of each part:

* **Curves** (`CurveHolds`).  The curves are fractions, so the proof is arithmetic of
  products: `ProgressGrows` and `StreamedGrows` that no curve ever falls, `CliffDelays` that a
  cliff only takes away.  `Rounding` bounds the sum of any number
  of rounded payments to half a stroop above what has streamed: a payment is rounded from what
  is still due, so an error made once is taken off the next time.
* **Quests** (`QuestsHold`), by `Booked`.  Rows and requests are typed and codes unique
  (`Enrolled`); what a completion read some statements ago is not above what row and tasks are
  worth now, since referrals only grow (`Earning`); and the owner of a code has been counted for
  every row that names it and every request that has counted already and has yet to insert
  (`Covering`), so that a crash between the two statements leaves the count too high and never
  too low.
* **Payment links** (`LinksHold`), by `Told`: a page that tells of a payment has made it, and a
  link that is paid names a payment that was made.
* **Creation of streams** (`CreationHolds`), by `CreateInv`: an attempt is paid in full or not
  at all, and its handler runs, and writes, only when it is; and `Afforded` for what the
  pages know and what the account holds.
* **MPC wallet** (`MpcHolds`), by `Backed`: a share lies in the account it is for, and a request
  that has come to a share has stored all those before it.  Two accounts in which shares of the
  wallet were found give two different shares, because the route refuses a provider that comes
  twice.
* **Streams one at a time, and without faults**: `SerialProofs` and `ReliableProofs` are
  instances of `StreamEscrow_proofs`, and `ServicesAssumption` gives their assumptions, among
  them what `FaultFree` needs.
* **Login**: `LoginSession_proofs` has `SessionOfOneLoginHolds`, `RegisteredWholeHolds` and
  `LoginTypeCorrect`, under `LoginAssumption`, by `LoginInv`.  The argument is that the flag
  lets one login wait at a time (`Alone`); that the session is that login's, or none, from its
  second await on (`SessionOfTheLogin`), with the parts stored so far; and that the
  registration on its way is that session (`OnItsWay`).  Without the flag the first theorem
  fails, which is the mutant of `SessionOfOneLogin`.

### SDK

`Sdk_proofs`, of `SdkSpec` and under the assumptions of its parts.  The specification states
fairness; these theorems use its initial states and steps only.

* **Connection**: `TokenOfOwnNonceHolds` by `AdapterInv`.  The code
  compares no nonce.  That the token is for the session's key follows from three things
  together: the promise that is handed out lets one login wait (`Alone`), only that login
  listens and the window shows its page or is closed (`OwnPopup`), so the token it takes is its
  own (`OwnToken`).  `AdapterTypeCorrect` needs `InTime` besides: a promise that is handed out
  is that of a login which waits (`Awaited`), and the timers end within a bound although one may
  be started by a login that began just before the clock's bound (`Early`, `Late`).
* **Transactions** (`ReportedTruthfullyHolds`), by `PaymentsInv`: a payment is on its way to the
  ledger of the client that submitted it and to no other, and is reported as failed only when it
  was never accepted there or that ledger has it as failed.  `Asking` bounds how often its
  result is asked for.
* **x402 client** (`PaidAndPresentedHolds`), by `ClientInv`.  For each call it relates the place
  it has reached to what was sent for its resource (`Call`), and counts what was sent
  (`SentFor`): no more for a resource than there were early calls, and one more.  A call that
  is made late begins with nothing sent that could still be included, since the time bound of
  the one before is over (`SentInTime`), so what it sends is the one more (`NoMoreSent`).
  Nothing is assumed of when the application calls.  That no token's payment is above
  the threshold is part of what is sent; for the native asset it is not true (section 5).
* **Salts** (`SaltIsOfIdentityHolds`), by `Derived`: what is answered and what is cached is
  derived from the keys of the environment, which every restart reads again.  Its hypothesis is
  that the service's master key is configured: without one the service makes up a key at
  every start, and warns that it does (`salt-service/src/main.rs`).
* **Login hashes** (`HashesAgreeHolds`), by `HashInv`: what has been computed was computed of an
  account, a key or a modulus, by one of the programs.  Agreement is an equation for each pair
  of programs.  That two logins have different hashes is injectivity, shown from the inside out:
  a number determines its digits, a block its bytes (`PiecesSame`, `ElementsSame`: with the
  length known or no zero bytes at the end), a sponge what it absorbed (`SpongeSame`), chunks
  their modulus (`ModulusChunksSame`), a tree its leaves (`TreeIs`, `TreeSame`).  The two ways
  to cut a key agree because its halves have one length (`HalvesInMiddle`).  With the prover
  there is no agreement to show, only that it tells apart what it can read (`ProverReadsHex`,
  `ProverReadsBase64`: digits of one length, all of them decimal).
* **Numbers** (`NumbersKeptHolds`).  By `ArithInv`, the circuits' templates: comparison, sum,
  difference and product of chunks are those of the numbers, with carries and borrows
  (`ComparesRight`, `AddRight`, `SubRight`, `MultRight`, `CarryRight`; `ProductBelow`: the last
  carry is none), and bytes become chunks and field elements of the same number (`CutRight`,
  `JoinRight`, `ToFieldRight`), whether or not a byte straddles two chunks.  By `XdrInv`,
  messages: the buffer is the fields laid one behind the other (`Laid`), and what is read at a
  field's place is that field, modulo its width for numbers of 64 and 128 bits (`Meaning`), and
  the reader then stands at the next (`FieldReadBack`), for messages of any length; and an
  amount comes back from its text (`AmountBack`).
* `SdkTypeCorrect`: the state of all parts stays in its domain, with what `TypeOK` of each says
  about it (an ended payment has an outcome, a promise that is handed out is awaited).

The facts about values are in `SdkValues_proofs`, the specification's theorems in `Sdk_proofs`.
What they assume of the constants is what the code's own values satisfy: operands have the
number of chunks the templates are made for, a number of bytes fits its chunks, a word has room
for the tags of the Soroban values, and what is written as a word, or is the length of data,
fits one.  What the templates do with chunks that do not fit, or the writer with a number that
does not, is not claimed.

### Lemmas about data

`CollectionLemmas` has what several proofs need of collections.  `NatInduct` and `SubsetInduct`
are induction over the naturals and over the subsets of a finite set, stated with a set in the
place of a predicate; with them `SumIsIter` and what follows it show how a sum over a set
(`SumFunctionOnSet`, a fold that takes elements in an order `CHOOSE` fixes) changes with one
element, and `FilteredElements` and `FilteredPair` what the loop of `ListFilter` leaves of a
list.

The second half is about `Numerals`.  None of the provers knows of powers, or what a recursive
function computes, so both start from `RecursionExists`: a function that is defined from its
value one below exists, and satisfies its definition.  On it rest `PowerPlus` and `PowerTimes`;
that digits make their number and are the only ones that do (`DigitsNumber`, `DigitsUnique`,
`SameDigits`, `SameText`); that digits may be taken in groups (`Grouped`, `SpreadNumber`,
`GatherNumber`), compared from the top (`LessMeans`), carried (`Carried`), added and multiplied
out (`SumOfValues`, `ProductOfValues`).

`PROJECT.json` names the run's property a theorem states.

### Only model-checked

* Liveness (`EveryRequestAnswered`, `SessionsRecovered`, `ConnectEnds`, `KeysFollow`): it rests on
  fairness and on `ENABLED`, which TLAPS does not reason about.
* `ReadAsWritten` and the finding about Shamir's shares.  `StrKey` and `ShamirSimple` take
  exclusive-ors of numbers, and that a checksum finds a mistyped character is a fact about
  polynomials over two elements; the provers know neither.  What `JwtCircuit` reads of a token
  are folds over its text, where a claim's place depends on all that precedes it.  TLC computes
  these for every input of the bounds.
* The findings of section 5, which are counterexamples.

## 7. What is not modelled

* **Wallet adapter**: `init`, `importSession` and the session monitor.  All three wait for the
  storage's `init`, which never answers (section 5), and nothing behind it is ever executed.
* **Redirect login (`completeLogin`) and signing of the SDK's client**: the session's key is
  taken to be the signer of its account wherever a transaction is signed.
* **Main circuit, RSA, SHA-256 and the proof itself**: the parts of `zklogin.circom` do not fit
  each other yet (section 5), and arithmetic of 2048 bits over a field of 254 is out of TLC's
  reach.  The contracts take the verification relation as a constant.
* **MPC signing**: it cannot succeed for a wallet that the create route made (section 5).
* **Waitlist**: one INSERT per request, whose UNIQUE column decides every race.
* **Multi-custody API of the demo**: demonstration answers; the contract is modelled.
* **X-Ray helpers, eligibility and proof routes**: each request is on its own and keeps
  nothing; what they verify is the form of a proof.
* **`useZkWallet`**: what would make it correct, that key, balances and network belong
  together, does not hold, and the cases are named in section 5.
* **Admin, authentication and database helpers, interface, scripts**: single statements and
  presentation.

The interface is most of the repository's lines: pages, dialogues and documentation written
as components keep no state but what a form shows, and models of them would say
nothing.  The map therefore covers a small share of all lines, and most of those that
carry the program's own logic.

Left out inside modelled parts: storage rent and time to live of contract entries,
logging, validation of addresses and of JSON, expiry and audience of tokens in the salt
service, the layout of whole transactions, and the history and statistics routes that only
read.

## 8. Plan

Done: all parts of section 1 but those of section 7, the runs of section 4, the proofs of
section 6, the last of them those of the hashes, the circuits' arithmetic and XDR.

Left, in this order:

1. What `SessionAuthority` and `SigningKeys` promise, as theorems about them: that nothing is in
   force that was not granted.  The refinements of section 6 carry it over to the code.
2. Which assumption a finding of section 5 breaks, as a theorem: a wallet's configuration that
   does not change between prediction and deployment, one initialization only, and so on.
3. The wallet adapter's session monitor, when the storage's `init` settles; the main circuit,
   when its templates fit each other.
