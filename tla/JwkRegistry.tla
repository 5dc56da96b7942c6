----------------------------- MODULE JwkRegistry -----------------------------
(***************************************************************************)
(* contracts/jwk-registry: the OAuth providers, the signing keys that each *)
(* provider's oracle publishes, and the lookups the rest of the system     *)
(* makes.  A call is atomic and one that fails leaves no trace.            *)
(***************************************************************************)
EXTENDS Naturals, Sequences, FiniteSets, SequencesExt, ListFilter

CONSTANTS
    Providers,   \* provider names
    Issuers,     \* issuer URLs
    Oracles,     \* addresses that may sign
    Kids,        \* key ids
    Moduli,      \* RSA moduli
    ChunkCount,  \* the chunks a modulus is given in
    None         \* an entry that is not in storage

RSA_MODULUS_CHUNKS == 17

RegistryAssumption ==
    /\ ChunkCount \in [Moduli -> Nat]
    /\ None \notin Moduli \cup Issuers \cup Providers

VARIABLES
    initialized, \* DataKey::Initialized, with an admin
    providers,   \* DataKey::Provider: what is stored of each registered name
    list,        \* DataKey::ProviderList
    issuerMap,   \* DataKey::IssuerMapping, None for an issuer without entry
    jwks         \* DataKey::JWK: what is stored of each pair of name and kid

vars == <<initialized, providers, list, issuerMap, jwks>>

-----------------------------------------------------------------------------
Init ==
    /\ initialized = FALSE
    /\ providers = [p \in {} |-> None]
    /\ list = <<>>
    /\ issuerMap = [i \in Issuers |-> None]
    /\ jwks = [pk \in {} |-> None]

Initialize ==
    /\ ~initialized
    /\ initialized' = TRUE
    /\ list' = <<>>
    /\ UNCHANGED <<providers, issuerMap, jwks>>

\* register_provider.  An issuer that another provider has is mapped anew.
RegisterProvider(p, issuer, oracle) ==
    /\ initialized
    /\ p \notin DOMAIN providers
    /\ providers' = [q \in DOMAIN providers \cup {p} |->
         IF q # p THEN providers[q]
         ELSE [issuer |-> issuer, active_kids |-> <<>>, oracle |-> oracle]]
    /\ issuerMap' = [issuerMap EXCEPT ![issuer] = p]
    /\ list' = Append(list, p)
    /\ UNCHANGED <<initialized, jwks>>

\* register_jwk, also of a kid that was registered or revoked before.
WithKidAppended(kids, k) == Append(kids, k)
WithKid(kids, k) == IF k \in ToSet(kids) THEN kids ELSE Append(kids, k)

WholeModulus(m) == ChunkCount[m] = RSA_MODULUS_CHUNKS

RegisterJwk(by, p, k, m) ==
    /\ p \in DOMAIN providers /\ providers[p].oracle = by
    /\ WholeModulus(m)
    /\ jwks' = [pk \in DOMAIN jwks \cup {<<p, k>>} |->
         IF pk # <<p, k>> THEN jwks[pk]
         ELSE [modulus |-> m, active |-> TRUE]]
    /\ providers' = [providers EXCEPT ![p].active_kids = WithKid(@, k)]
    /\ UNCHANGED <<initialized, list, issuerMap>>

\* revoke_jwk.  The kid stays in active_kids.
RevokeJwk(by, p, k) ==
    /\ p \in DOMAIN providers /\ providers[p].oracle = by
    /\ <<p, k>> \in DOMAIN jwks
    /\ jwks' = [jwks EXCEPT ![<<p, k>>].active = FALSE]
    /\ UNCHANGED <<initialized, providers, list, issuerMap>>

\* (The first form builds the provider anew.)
WithOracleNew(provider, oracle) == [provider EXCEPT !.oracle = oracle, !.active_kids = <<>>]
WithOracle(provider, oracle) == [provider EXCEPT !.oracle = oracle]

UpdateProviderOracle(p, oracle) ==
    /\ initialized
    /\ p \in DOMAIN providers
    /\ providers' = [providers EXCEPT ![p] = WithOracle(@, oracle)]
    /\ UNCHANGED <<initialized, list, issuerMap, jwks>>

Next ==
    \/ Initialize
    \/ \E p \in Providers, oracle \in Oracles :
         \/ \E issuer \in Issuers : RegisterProvider(p, issuer, oracle)
         \/ UpdateProviderOracle(p, oracle)
         \/ \E k \in Kids : RevokeJwk(oracle, p, k)
         \/ \E k \in Kids, m \in Moduli : RegisterJwk(oracle, p, k, m)

Spec == Init /\ [][Next]_vars

-----------------------------------------------------------------------------
(* Lookups.                                                                *)

\* get_provider_jwks: the active keys among active_kids.
ActiveKids(p) == {k \in Kids : <<p, k>> \in DOMAIN jwks /\ jwks[<<p, k>>].active}
ActiveOf(p, kids) == Filtered(kids, ActiveKids(p))
GetProviderJwks(p) == ActiveOf(p, providers[p].active_kids)

-----------------------------------------------------------------------------
(* Properties.                                                             *)

\* A stored key has a full modulus and a registered provider that lists its kid,
\* and the reverse lookup of an issuer names a provider that has it.
TypeOK ==
    /\ \A i \in Issuers :
         issuerMap[i] # None =>
           issuerMap[i] \in DOMAIN providers /\ providers[issuerMap[i]].issuer = i
    /\ DOMAIN providers \subseteq Providers /\ DOMAIN providers = ToSet(list)
    /\ \A p \in DOMAIN providers :
         /\ providers[p].issuer \in Issuers /\ providers[p].oracle \in Oracles
         /\ ToSet(providers[p].active_kids) = {k \in Kids : <<p, k>> \in DOMAIN jwks}
    /\ \A pk \in DOMAIN jwks :
         /\ pk[1] \in DOMAIN providers
         /\ jwks[pk] \in [modulus : Moduli, active : BOOLEAN]
         /\ ChunkCount[jwks[pk].modulus] = RSA_MODULUS_CHUNKS

\* get_provider_jwks names each key in force once, although a revoked kid stays
\* in the list and may be registered again.
JwksNamedOnce ==
    \A p \in DOMAIN providers :
      /\ IsInjective(GetProviderJwks(p))
      /\ ToSet(GetProviderJwks(p)) = ActiveKids(p)

\* What get_provider_jwks and get_jwk together return, a list and a map that are
\* written apart, is a map of keys: no call changes more than one key of one provider,
\* whatever was registered, revoked and configured before.  (Who may make the change
\* is not part of the promise.)
InForce ==
    [pk \in Providers \X Kids |->
       IF pk[1] \in DOMAIN providers /\ pk[2] \in ToSet(GetProviderJwks(pk[1]))
       THEN jwks[pk].modulus ELSE None]

Keys == INSTANCE SigningKeys WITH inForce <- InForce

ImplementsKeys == Keys!Spec
=============================================================================
