--------------------------- MODULE SessionStorage ---------------------------
(***************************************************************************)
(* The start of the SDK's StorageManager (src/sdk/src/core/storage.ts).    *)
(*                                                                         *)
(* Every call of it first awaits init(), which runs once: it opens the     *)
(* database, gets the key, fills the cache through getAllSessions and      *)
(* listens to the other tabs.  What is awaited is a promise; a caller goes *)
(* on when the promise is settled.                                         *)
(***************************************************************************)
EXTENDS Integers

CONSTANTS
    Calls,     \* calls of the application: getSession, storeSession, ...
    Sessions,  \* the sessions that the database may hold from an earlier visit
    None

VARIABLES
    stored,       \* what the database holds
    cache,        \* the manager's cache
    initPromise,  \* None, or "pending", "fulfilled" or "rejected"
    at,           \* what _init is at
    call          \* what each call is at

vars == <<stored, cache, initPromise, at, call>>

Init ==
    /\ stored \in SUBSET Sessions
    /\ cache = {}
    /\ initPromise = None
    /\ at = "idle"
    /\ call = [c \in Calls |-> "unborn"]

\* await this.init(): the first call starts _init, and every one waits for it.
init ==
    IF initPromise = None
    THEN /\ initPromise' = "pending"
         /\ at' = "openDatabase"
    ELSE UNCHANGED <<initPromise, at>>

Begin(c) ==
    /\ call[c] = "unborn"
    /\ init
    /\ call' = [call EXCEPT ![c] = "waiting"]
    /\ UNCHANGED <<stored, cache>>

OpenDatabase ==
    /\ at = "openDatabase"
    /\ at' = "getOrCreateEncryptionKey"
    /\ UNCHANGED <<stored, cache, initPromise, call>>

\* IndexedDB is not there, or fails, or the key cannot be derived: _init throws.
Throw ==
    /\ at \in {"openDatabase", "getOrCreateEncryptionKey"}
    /\ at' = "ended"
    /\ initPromise' = "rejected"
    /\ UNCHANGED <<stored, cache, call>>

\* The key is derived, and loadCache calls getAllSessions, which awaits init().
GetOrCreateEncryptionKey ==
    /\ at = "getOrCreateEncryptionKey"
    /\ at' = "loadCache"
    /\ UNCHANGED <<stored, cache, initPromise, call>>

\* getAllSessions goes on when the promise that it awaits is fulfilled, and what it
\* reads fills the cache.  Then _init is over, and its promise fulfilled.
LoadCache ==
    /\ at = "loadCache"
    /\ initPromise = "fulfilled"
    /\ cache' = stored
    /\ at' = "ended"
    /\ UNCHANGED <<stored, initPromise, call>>

\* A call goes on, to its answer or its error, when init's promise is settled.
Answer(c) ==
    /\ call[c] = "waiting"
    /\ initPromise \in {"fulfilled", "rejected"}
    /\ call' = [call EXCEPT ![c] = "settled"]
    /\ UNCHANGED <<stored, cache, initPromise, at>>

Next ==
    \/ OpenDatabase \/ GetOrCreateEncryptionKey \/ Throw \/ LoadCache
    \/ \E c \in Calls : Begin(c) \/ Answer(c)

\* The browser answers every request in the end, and the event loop runs every
\* callback that is ready.
Fairness ==
    /\ WF_vars(OpenDatabase \/ GetOrCreateEncryptionKey \/ Throw)
    /\ WF_vars(LoadCache)
    /\ \A c \in Calls : WF_vars(Answer(c))

Spec == Init /\ [][Next]_vars /\ Fairness

-----------------------------------------------------------------------------
\* "Automatic session recovery" (storage.ts:10): once the database is open and the
\* key is there, the sessions of the earlier visit come into the cache, for the
\* calls to answer from.  In the code they never do: init awaits loadCache, which
\* awaits init.
SessionsRecovered == at = "loadCache" ~> cache = stored

=============================================================================
