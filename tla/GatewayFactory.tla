---------------------------- MODULE GatewayFactory ----------------------------
(***************************************************************************)
(* contracts/gateway-factory: deploys one smart wallet for each address    *)
(* seed and initializes it, as seen together with the wallets, whose       *)
(* initialize anyone may call as well.  A call is atomic and one that      *)
(* fails leaves no trace.  Hashes are injective, so the salt a contract is *)
(* deployed with is the tuple that was hashed for it, and names its        *)
(* address.                                                                *)
(***************************************************************************)
EXTENDS Naturals, FiniteSets

CONSTANTS
    Seeds,      \* address seeds
    Issuers,    \* issuer hashes
    Services,   \* pairs of ZK verifier and JWK registry
    Wasms,      \* WASM hashes of the wallet
    Admins,     \* who may come to administer the factory
    MaxUpdates, \* bound on the changes of the configuration
    None        \* an entry that is not in storage

Salts == {<<"sha256", s>> : s \in Seeds} \cup {<<"Poseidon", i, s>> : i \in Issuers, s \in Seeds}

Configs == [address_seed : Seeds, iss_hash : Issuers, services : Services]
Records == [wallet_address : Salts, iss_hash : Issuers, services : Services, wasm : Wasms]

FactoryAssumption ==
    /\ MaxUpdates \in Nat
    /\ None \notin Services \cup Seeds \cup Configs \cup Records
    /\ None \notin [wasm : Wasms, config : Configs]

VARIABLES
    admin,          \* Config: admin, whom the changes of the configuration ask
    services, wasm, \* Config: verifier and registry, WASM hash; None before initialize
    wallet_count,   \* Config: wallet_count
    updates,        \* how often the configuration was changed
    records,        \* DataKey::Wallet(seed), None for a seed without wallet
    seedOf,         \* DataKey::WalletByAddress(address)
    wallets,        \* the wallet contract at an address: its code and its configuration
    answers         \* what deploy_wallet has returned to whom

config == <<admin, services, wasm, updates>>
registry == <<wallet_count, records, seedOf>>
vars == <<config, registry, wallets, answers>>

-----------------------------------------------------------------------------
\* The salt of deploy_wallet, and that of predict_address.
DeploySalt(seed) == <<"sha256", seed>>
PredictSalt(issuer, seed) == <<"Poseidon", issuer, seed>>

Config(seed, issuer, s) == [address_seed |-> seed, iss_hash |-> issuer, services |-> s]

Init ==
    /\ admin = None /\ services = None /\ wasm = None /\ wallet_count = 0 /\ updates = 0
    /\ records = [s \in Seeds |-> None]
    /\ seedOf = [a \in Salts |-> None]
    /\ wallets = [a \in Salts |-> None]
    /\ answers = {}

\* initialize, which may be called once.
Initialize(by, s, w) ==
    /\ services = None
    /\ admin' = by /\ services' = s /\ wasm' = w /\ wallet_count' = 0
    /\ UNCHANGED <<updates, records, seedOf, wallets, answers>>

\* deploy_wallet gives a seed that has a wallet that wallet's address, for
\* whatever issuer it is asked.
AnswerPredicted(seed, issuer) == PredictSalt(issuer, seed)
Answer(seed, issuer) == records[seed].wallet_address

ExistingWallet(seed, issuer) ==
    /\ records[seed] # None
    /\ answers' = answers \cup {<<seed, issuer, Answer(seed, issuer)>>}
    /\ UNCHANGED <<config, registry, wallets>>

\* What deploy_wallet leaves at the new address: the wallet's own initialize is
\* called in the same transaction.  (The first form forgets the call.)
DeployedBare(seed, issuer) == [wasm |-> wasm, config |-> None]
Deployed(seed, issuer) == [wasm |-> wasm, config |-> Config(seed, issuer, services)]

\* deploy_wallet of a seed without wallet.
DeployWallet(seed, issuer) ==
    LET address == DeploySalt(seed)
    IN  /\ services # None
        /\ records[seed] = None /\ wallets[address] = None
        /\ wallets' = [wallets EXCEPT ![address] = Deployed(seed, issuer)]
        /\ records' = [records EXCEPT ![seed] =
             [wallet_address |-> address, iss_hash |-> issuer, services |-> services,
              wasm |-> wasm]]
        /\ seedOf' = [seedOf EXCEPT ![address] = seed]
        /\ wallet_count' = wallet_count + 1
        /\ answers' = answers \cup {<<seed, issuer, address>>}
        /\ UNCHANGED config

\* update_wallet_wasm.
UpdateWasm(by, w) ==
    /\ updates < MaxUpdates /\ services # None /\ by = admin
    /\ wasm' = w
    /\ updates' = updates + 1
    /\ UNCHANGED <<admin, services, registry, wallets, answers>>

\* update_zk_verifier and update_jwk_registry.
UpdateServices(by, s) ==
    /\ updates < MaxUpdates /\ services # None /\ by = admin
    /\ services' = s
    /\ updates' = updates + 1
    /\ UNCHANGED <<admin, wasm, registry, wallets, answers>>

TransferAdmin(by, new_admin) ==
    /\ services # None /\ by = admin
    /\ admin' = new_admin
    /\ UNCHANGED <<services, wasm, updates, registry, wallets, answers>>

\* The wallet's own initialize, which asks for nobody's authorization and fails
\* once it has succeeded.
Accepted(old, new) == IF old = None THEN new ELSE old

WalletInitialize(a, new) ==
    /\ wallets[a] # None
    /\ wallets' = [wallets EXCEPT ![a].config = Accepted(@, new)]
    /\ UNCHANGED <<config, registry, answers>>

Next ==
    \/ \E by \in Admins :
         \/ \E s \in Services : UpdateServices(by, s) \/ \E w \in Wasms : Initialize(by, s, w)
         \/ \E w \in Wasms : UpdateWasm(by, w)
         \/ \E new_admin \in Admins : TransferAdmin(by, new_admin)
    \/ \E seed \in Seeds, issuer \in Issuers :
         \/ ExistingWallet(seed, issuer)
         \/ DeployWallet(seed, issuer)
         \/ \E a \in Salts, s \in Services : WalletInitialize(a, Config(seed, issuer, s))

Spec == Init /\ [][Next]_vars

-----------------------------------------------------------------------------
(* Properties.                                                             *)

Recorded == {s \in Seeds : records[s] # None}

\* The two lookups are each other's inverse and the counter counts them.
TypeOK ==
    /\ services \in Services \cup {None} /\ wasm \in Wasms \cup {None}
    /\ admin \in Admins \cup {None}
    /\ updates \in 0..MaxUpdates
    /\ wallet_count = Cardinality(Recorded)
    /\ \A s \in Recorded : seedOf[records[s].wallet_address] = s
    /\ \A a \in Salts : seedOf[a] # None => records[seedOf[a]].wallet_address = a
    /\ \A a \in Salts : wallets[a] # None <=> seedOf[a] # None
    /\ answers \subseteq Seeds \X Issuers \X Salts

\* A wallet keeps the identity, the services and the code it was deployed with,
\* although the factory's configuration changes and anyone may call the wallet's
\* initialize.  (The record holds the services and the code for comparison.)
WalletsAsRecorded ==
    \A s \in Recorded :
      LET r == records[s]
          w == wallets[r.wallet_address]
      IN  w.wasm = r.wasm /\ w.config = Config(s, r.iss_hash, r.services)

\* A seed has one address: whoever asks is told the same.
OneAddressPerSeed ==
    \A x, y \in answers : x[1] = y[1] => x[3] = y[3]

-----------------------------------------------------------------------------
\* predict_address: "This allows the frontend to show the user their wallet
\* address before they complete the OAuth flow".
DeployedWherePredicted ==
    \A s \in Recorded : records[s].wallet_address = PredictSalt(records[s].iss_hash, s)
=============================================================================
