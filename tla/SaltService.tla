---------------------------- MODULE SaltService ----------------------------
(***************************************************************************)
(* The salt of a user: the Rust service (src/salt-service), which knows    *)
(* the keys of two OAuth providers and follows their rotation in a         *)
(* background task, and the demo's route with the same purpose             *)
(* (src/demo/src/app/api/zk/salt/route.ts), which caches what it derives.  *)
(* Either may be restarted at any time and begins with nothing but its     *)
(* environment.  The providers are external.                               *)
(***************************************************************************)
EXTENDS Integers

CONSTANTS
    Subjects,       \* subjects of tokens
    Kids,           \* names of the providers' keys
    SALT_MASTER_KEY,        \* the service's key, None when it is not configured
    SALT_DERIVATION_SECRET, \* the demo's
    MaxRotations,   \* bound on the changes of a provider's keys
    MaxRestarts,    \* bound on the starts
    None

Issuers == {"google", "apple"}

SaltAssumption == MaxRotations \in Nat /\ MaxRestarts \in Nat

VARIABLES
    published,   \* the keys that each provider publishes
    rotations,
    jwks,        \* google_jwks and apple_jwks, None until they are loaded
    refreshing,  \* what the refresh task does: "google", "apple" or "sleep"
    master_key,  \* of the running service
    starts,      \* how often it, or the demo, was started
    saltCache,   \* the demo's map
    answered     \* the salts that were answered: by which service, to whom

service == <<jwks, refreshing, master_key>>
vars == <<published, rotations, service, starts, saltCache, answered>>

Identities == Issuers \X Subjects

\* Without a configured key each start makes one from the clock.  (The first form
\* does so always.)
load_master_keyRandom(start) == <<"random", start>>
load_master_key(start) ==
    IF SALT_MASTER_KEY # None THEN SALT_MASTER_KEY ELSE <<"random", start>>

Init ==
    /\ published \in [Issuers -> {{k} : k \in Kids}]
    /\ rotations = 0
    /\ jwks = [i \in Issuers |-> None]
    /\ refreshing = "google"
    /\ master_key = load_master_key(0)
    /\ starts = 0
    /\ saltCache = [key \in {} |-> None]
    /\ answered = {}

-----------------------------------------------------------------------------
\* HKDF and HMAC have no collisions: a salt is what it is derived from.
derive_salt(key, who) == <<key, who>>

\* What a provider publishes changes: a key comes or goes.
Rotate(i, k) ==
    /\ rotations < MaxRotations
    /\ rotations' = rotations + 1
    /\ published' = [published EXCEPT ![i] = IF k \in @ THEN @ \ {k} ELSE @ \cup {k}]
    /\ UNCHANGED <<service, starts, saltCache, answered>>

\* The set that is fetched takes the place of the one that was known.  (The first
\* form adds to it.)
LoadedMerged(i) == (IF jwks[i] = None THEN {} ELSE jwks[i]) \cup published[i]
Loaded(i) == published[i]

\* Google's keys are fetched and stored, then Apple's.
refresh_jwks(i) ==
    /\ refreshing = i
    /\ jwks' = [jwks EXCEPT ![i] = Loaded(i)]
    /\ refreshing' = IF i = "google" THEN "apple" ELSE "sleep"
    /\ UNCHANGED <<published, rotations, master_key, starts, saltCache, answered>>

\* A provider that does not answer ends the round: Apple is not asked when Google
\* fails.
RefreshFails ==
    /\ refreshing # "sleep"
    /\ refreshing' = "sleep"
    /\ UNCHANGED <<published, rotations, jwks, master_key, starts, saltCache, answered>>

\* An hour later.
WakeUp ==
    /\ refreshing = "sleep"
    /\ refreshing' = "google"
    /\ UNCHANGED <<published, rotations, jwks, master_key, starts, saltCache, answered>>

\* get_salt: the issuer's keys must be loaded and hold the token's.  Its expiry is not
\* among what is told apart here, and its signature is not verified.
get_salt(i, sub, kid) ==
    /\ jwks[i] # None
    /\ kid \in jwks[i]
    /\ answered' = answered \cup
         {[by |-> "service", who |-> <<i, sub>>, salt |-> derive_salt(master_key, <<i, sub>>)]}
    /\ UNCHANGED <<published, rotations, service, starts, saltCache>>

\* The key of the demo's cache.  (The first form leaves the issuer out.)
cacheKeyOfSubject(i, sub) == sub
cacheKey(i, sub) == <<i, sub>>

\* POST /api/zk/salt, which wants a secret and no more than a token that parses.
POST(i, sub) ==
    LET key == cacheKey(i, sub)
        salt == IF key \in DOMAIN saltCache THEN saltCache[key]
                ELSE derive_salt(SALT_DERIVATION_SECRET, <<i, sub>>)
    IN  /\ SALT_DERIVATION_SECRET # None
        /\ saltCache' = [k \in DOMAIN saltCache \cup {key} |->
                           IF k = key THEN salt ELSE saltCache[k]]
        /\ answered' = answered \cup {[by |-> "demo", who |-> <<i, sub>>, salt |-> salt]}
        /\ UNCHANGED <<published, rotations, service, starts>>

RestartService ==
    /\ starts < MaxRestarts
    /\ starts' = starts + 1
    /\ jwks' = [i \in Issuers |-> None]
    /\ refreshing' = "google"
    /\ master_key' = load_master_key(starts + 1)
    /\ UNCHANGED <<published, rotations, saltCache, answered>>

\* An instance of the demo ends and another one answers.
RestartDemo ==
    /\ starts < MaxRestarts
    /\ starts' = starts + 1
    /\ saltCache' = [key \in {} |-> None]
    /\ UNCHANGED <<published, rotations, service, answered>>

Next ==
    \/ \E i \in Issuers, k \in Kids : Rotate(i, k)
    \/ \E i \in Issuers : refresh_jwks(i)
    \/ RefreshFails \/ WakeUp
    \/ \E i \in Issuers, sub \in Subjects, kid \in Kids : get_salt(i, sub, kid)
    \/ \E i \in Issuers, sub \in Subjects : POST(i, sub)
    \/ RestartService \/ RestartDemo

\* The task runs on, and no provider is out of reach for ever.
Fairness ==
    /\ WF_vars(WakeUp)
    /\ WF_vars(RefreshFails \/ \E i \in Issuers : refresh_jwks(i))
    /\ \A i \in Issuers : SF_vars(refresh_jwks(i))

Spec == Init /\ [][Next]_vars /\ Fairness

-----------------------------------------------------------------------------
(* Properties.                                                             *)

TypeOK ==
    /\ published \in [Issuers -> SUBSET Kids]
    /\ \A i \in Issuers : jwks[i] = None \/ jwks[i] \subseteq Kids
    /\ refreshing \in {"google", "apple", "sleep"}
    /\ DOMAIN saltCache \subseteq Identities

\* "Same Google account always produces the same Stellar address": with the keys
\* configured, a service answers one salt to one identity, and no other identity the
\* same, through every restart, rotation and cached answer.
SaltIsOfIdentity ==
    \A a, b \in answered :
      a.by = b.by => (a.salt = b.salt <=> a.who = b.who)

\* However often the service is restarted, refreshes fail and keys are rotated between
\* the two fetches of a round, the keys that are accepted come to be those that the
\* providers publish: a new key is accepted, and one that was withdrawn is not.
KeysFollow == []<>(jwks = published)
=============================================================================
