------------------------------ MODULE Contracts ------------------------------
(***************************************************************************)
(* Six contracts of one deployment, on one ledger.  Their storage is       *)
(* apart, and none calls another but the factory the wallets it deploys,   *)
(* which GatewayFactory models together; so what a contract does depends   *)
(* on nothing but the calls of it, and the behaviours in which one         *)
(* contract is called show all there is to see of it.  The definitions of  *)
(* the multi-custody wallet are in scope under their own names, the        *)
(* others' behind those of their instances.                                *)
(***************************************************************************)
EXTENDS MultiCustody, Integers

CONSTANTS
    MaxLedger,  \* bound on the ledger sequence
    WalletKeys, Identities, WalletProofs, Epochs, MaxOperations, MaxGrants,
    Proofs, Statements, Epoch, Vks, ZeroPoint, WellFormed, PairingHolds,
    Accounts, Assets, Amounts, Validity, Fees, Funds, MaxRequests, MaxFeeUpdates,
    MaxSeconds,
    Providers, Issuers, Oracles, Kids, Moduli, ChunkCount,
    Seeds, IssuerHashes, Services, Wasms, Admins, MaxFactoryUpdates

VARIABLES
    called,  \* the contract that is called
    ledger,
    identity, walletNonce, sessions, active_sessions, granted,
    vk, usedNullifiers, accepted,
    clock, admin, fee_bps, fee_recipient, total_payments, total_volume, requests,
    proofs, balance, updates, received,
    registryInitialized, providers, keyList, issuerMap, jwks,
    factoryAdmin, services, wasm, wallet_count, factoryUpdates, records, seedOf, wallets,
    answers

Wallet == INSTANCE SmartWallet WITH
    Keys <- WalletKeys, Proofs <- WalletProofs, MaxNonce <- MaxOperations,
    nonce <- walletNonce

Verifier == INSTANCE ZkVerifier WITH nullifiers <- usedNullifiers

Facilitator == INSTANCE X402Facilitator WITH
    MaxUpdates <- MaxFeeUpdates, MaxTime <- MaxSeconds, now <- clock

Registry == INSTANCE JwkRegistry WITH initialized <- registryInitialized, list <- keyList

Factory == INSTANCE GatewayFactory WITH
    Issuers <- IssuerHashes, MaxUpdates <- MaxFactoryUpdates,
    admin <- factoryAdmin, updates <- factoryUpdates

ASSUME ContractsAssumption ==
    /\ Wallet!WalletAssumption
    /\ Verifier!VerifierAssumption
    /\ Facilitator!FacilitatorAssumption
    /\ Registry!RegistryAssumption
    /\ Factory!FactoryAssumption

-----------------------------------------------------------------------------
walletVars == <<identity, walletNonce, sessions, active_sessions, granted>>
verifierVars == <<vk, usedNullifiers, accepted>>
facilitatorVars == <<clock, admin, fee_bps, fee_recipient, total_payments, total_volume,
                     requests, proofs, balance, updates, received>>
registryVars == <<registryInitialized, providers, keyList, issuerMap, jwks>>
factoryVars == <<factoryAdmin, services, wasm, wallet_count, factoryUpdates, records,
                 seedOf, wallets, answers>>

ContractsInit ==
    /\ called \in {"custody", "wallet", "verifier", "facilitator", "registry", "factory"}
    /\ Init /\ Wallet!Init /\ Verifier!Init /\ Facilitator!Init /\ Registry!Init
    /\ Factory!Init

ContractsNext ==
    /\ UNCHANGED called
    /\ \/ /\ called = "custody" /\ Next
          /\ UNCHANGED <<ledger, walletVars, verifierVars, facilitatorVars, registryVars,
                         factoryVars>>
       \/ /\ called = "wallet" /\ Wallet!Next
          /\ UNCHANGED <<vars, verifierVars, facilitatorVars, registryVars, factoryVars>>
       \/ /\ called = "verifier" /\ Verifier!Next
          /\ UNCHANGED <<vars, walletVars, facilitatorVars, registryVars, factoryVars>>
       \/ /\ called = "facilitator" /\ Facilitator!Next
          /\ UNCHANGED <<vars, ledger, walletVars, verifierVars, registryVars, factoryVars>>
       \/ /\ called = "registry" /\ Registry!Next
          /\ UNCHANGED <<vars, ledger, walletVars, verifierVars, facilitatorVars,
                         factoryVars>>
       \/ /\ called = "factory" /\ Factory!Next
          /\ UNCHANGED <<vars, ledger, walletVars, verifierVars, facilitatorVars,
                         registryVars>>

ContractsSpec ==
    /\ ContractsInit
    /\ [][ContractsNext]_<<called, vars, ledger, walletVars, verifierVars, facilitatorVars,
                          registryVars, factoryVars>>

-----------------------------------------------------------------------------
\* The properties are those of the contracts' own modules, which say what they are
\* about.  Every contract's state stays in its domain.
ContractsTypeOK ==
    /\ TypeOK /\ Wallet!TypeOK /\ Verifier!TypeOK /\ Facilitator!TypeOK
    /\ Registry!TypeOK /\ Factory!TypeOK

\* SmartWallet: get_active_sessions names exactly the sessions not revoked; JwkRegistry:
\* get_provider_jwks names every key in force, once.
ListsMatchStorage == Wallet!ListMatchesSessions /\ Registry!JwksNamedOnce

\* SmartWallet: who acts holds an unexpired grant.
ImplementsAuthority == Wallet!ImplementsAuthority

\* ZkVerifier: a proof is accepted at most once.
AcceptedOnce == Verifier!AcceptedOnce

\* X402Facilitator: the destination has nine tenths of a paid request, once, and the
\* statistics count it once.
DestinationGetsNineTenths ==
    Facilitator!DestinationGetsNineTenths /\ Facilitator!StatisticsMatchRequests

\* JwkRegistry: its list and its map are one map of keys, and a call changes one of them.
ImplementsKeys == Registry!ImplementsKeys

\* GatewayFactory: a seed has one wallet, which keeps what it was deployed with.
WalletsAsRecorded == Factory!WalletsAsRecorded /\ Factory!OneAddressPerSeed

\* GatewayFactory: a wallet is deployed where predict_address said.
DeployedWherePredicted == Factory!DeployedWherePredicted
=============================================================================
