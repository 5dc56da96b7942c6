------------------------------ MODULE MpcWallet ------------------------------
(***************************************************************************)
(* The two-of-three wallet of the demo: the page on which a user signs in  *)
(* to three accounts (src/demo/src/app/mpc-wallet/page.tsx), the route     *)
(* that splits a new key and stores a share in each of them (api/mpc/      *)
(* create), and the search for the shares (lib/mpc/wallet.ts, storage.ts). *)
(*                                                                         *)
(* A share is stored encrypted with a key that is derived from the subject *)
(* it is for: it is the package of that subject.  That two different       *)
(* shares give the key back is ShamirSimple's matter.                      *)
(***************************************************************************)
EXTENDS Integers, Sequences, ListFilter

CONSTANTS
    Accounts,  \* the user's accounts with Google and GitHub, named by their subjects
    Wallets,   \* the key pairs that may be made
    None

\* The packages, each of a wallet, the number of its share and whom it is for; and the
\* requests of the create route: whose accounts, which share is next, and the answer.
Packages == [wallet : Wallets, index : 1..3, sub : Accounts]
Creations == [providers : [1..3 -> Accounts], next : 1..4,
              status : {"storing", "success", "error"}]

MpcAssumption == None \notin Creations

VARIABLES
    step, providers,  \* the page, and the accounts that the user has signed in to
    awaited, saved,   \* the creation the page waits for; the wallet in localStorage
    creation,         \* the request of the create route for each key pair, or none
    stored            \* the packages that each account holds

vars == <<step, providers, awaited, saved, creation, stored>>
pageVars == <<step, providers, awaited, saved>>

Init ==
    /\ step = "intro" /\ providers = <<>> /\ awaited = None /\ saved = None
    /\ creation = [w \in Wallets |-> None]
    /\ stored = [a \in Accounts |-> {}]

-----------------------------------------------------------------------------
(* The page.                                                               *)

Begin ==
    /\ step = "intro"
    /\ step' = "provider1"
    /\ UNCHANGED <<providers, awaited, saved, creation, stored>>

Steps == [provider1 |-> "provider2", provider2 |-> "provider3"]

\* The list with one more account; of a list that is too long nothing but that matters.
Added(a) == IF Len(providers) < 3 THEN Append(providers, a) ELSE providers

\* Signed in to an account.  The third sign-in begins the creation with all the accounts
\* that were ever collected: any number but three is refused and leads to the beginning.
authenticateProvider(a) ==
    /\ step \in {"provider1", "provider2", "provider3"}
    /\ providers' = Added(a)
    /\ IF step # "provider3"
       THEN step' = Steps[step] /\ UNCHANGED <<awaited, creation>>
       ELSE IF Len(providers) # 2
       THEN step' = "provider1" /\ UNCHANGED <<awaited, creation>>
       ELSE /\ \E w \in Wallets : creation[w] = None
            /\ step' = "creating"
            /\ awaited' = CHOOSE w \in Wallets : creation[w] = None
            /\ creation' = [creation EXCEPT ![awaited'] =
                              [providers |-> Added(a), next |-> 1, status |-> "storing"]]
    /\ UNCHANGED <<saved, stored>>

\* The page is loaded anew; what it has asked for goes on.
Reload ==
    /\ step # "intro"
    /\ step' = "intro" /\ providers' = <<>> /\ awaited' = None
    /\ UNCHANGED <<saved, creation, stored>>

\* The answer arrives, or is lost.
Answered(lost) ==
    /\ step = "creating"
    /\ creation[awaited].status # "storing"
    /\ IF creation[awaited].status = "success" /\ ~lost
       THEN step' = "done" /\ saved' = awaited
       ELSE step' = "provider1" /\ UNCHANGED saved
    /\ awaited' = None
    /\ UNCHANGED <<providers, creation, stored>>

-----------------------------------------------------------------------------
(* The create route, one share after the other.                            *)

Kept(w) ==
    LET i == creation[w].next
        a == creation[w].providers[i]
    IN  [stored EXCEPT ![a] = stored[a] \cup {[wallet |-> w, index |-> i, sub |-> a]}]

GoOn(w) ==
    creation' = [creation EXCEPT
        ![w].next = creation[w].next + 1,
        ![w].status = IF creation[w].next = 3 THEN "success" ELSE "storing"]

\* An upload that fails ends the request, and what has been stored stays.  (The first
\* form goes on without the share.)
UploadFailsUnnoticed(w) == GoOn(w)
UploadFails(w) == creation' = [creation EXCEPT ![w].status = "error"]

\* A share is stored in its account, or is not, or it is and the answer is lost.
Store(w) ==
    /\ creation[w] # None
    /\ creation[w].status = "storing"
    /\ \/ stored' = Kept(w) /\ GoOn(w)
       \/ stored' = Kept(w) /\ creation' = [creation EXCEPT ![w].status = "error"]
       \/ UNCHANGED stored /\ UploadFails(w)
    /\ UNCHANGED pageVars

-----------------------------------------------------------------------------
(* Finding the shares again.                                               *)

\* The packages of a wallet in an account, of which the search answers the first.  (The
\* first form takes those of any wallet.)
FoundOfAny(a, w) == stored[a]
Found(a, w) == {p \in stored[a] : p.wallet = w}

\* At most one share from every account that is listed.
listShares(accounts, w) == Filtered(accounts, {a \in Accounts : Found(a, w) # {}})

verifyRecovery(accounts, w) == Len(listShares(accounts, w)) >= 2

Next ==
    \/ Begin \/ Reload
    \/ \E a \in Accounts : authenticateProvider(a)
    \/ \E lost \in BOOLEAN : Answered(lost)
    \/ \E w \in Wallets : Store(w)

Spec == Init /\ [][Next]_vars

-----------------------------------------------------------------------------
(* Properties.                                                             *)

TypeOK ==
    /\ step \in {"intro", "provider1", "provider2", "provider3", "creating", "done"}
    /\ providers \in UNION {[1..n -> Accounts] : n \in 0..3}
    /\ awaited \in Wallets \cup {None} /\ saved \in Wallets \cup {None}
    /\ creation \in [Wallets -> Creations \cup {None}]
    /\ stored \in [Accounts -> SUBSET Packages]

\* A search of two accounts finds two different shares, each in the account that can
\* decrypt it, whichever packages it comes upon first.
GiveKeyBack(a, b, w) ==
    /\ Found(a, w) # {} /\ Found(b, w) # {}
    /\ \A p \in Found(a, w), q \in Found(b, w) : p.index # q.index /\ p.sub = a /\ q.sub = b

\* Whatever uploads failed for this wallet or for others before, a wallet that the
\* browser has saved can be had back from any two different accounts it was made with
\* (create/route.ts stores the shares one after the other and takes none back); and where
\* verifyRecovery says of two different accounts that they recover a wallet, they do.
AnyTwoRecover ==
    /\ saved # None =>
         LET made == creation[saved].providers
         IN  \A i, j \in 1..3 : made[i] # made[j] => GiveKeyBack(made[i], made[j], saved)
    /\ \A w \in Wallets, a, b \in Accounts :
         a # b /\ verifyRecovery(<<a, b>>, w) => GiveKeyBack(a, b, w)
=============================================================================
