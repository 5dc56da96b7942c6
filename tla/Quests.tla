------------------------------- MODULE Quests -------------------------------
(***************************************************************************)
(* The referral quests of the demo (src/demo/src/app/api/quests/route.ts). *)
(*                                                                         *)
(* Requests run side by side.  A request is a sequence of SQL statements,  *)
(* each atomic, with no transaction around them; another request may run   *)
(* between any two, and a request may end at any of them with an error.    *)
(***************************************************************************)
EXTENDS Integers, FiniteSets, Functions

CONSTANTS
    Requests,  \* requests that may run at once
    Emails,    \* participants' addresses
    Codes,     \* referral codes
    Points,    \* the points of each task, a function of the tasks (TASKS)
    Retries,   \* how often a code is tried (5 in the code)
    MaxCount,  \* bound on the referrals counted for one participant
    None       \* no code

PointsPerReferral == 5

QuestsAssumption ==
    /\ DOMAIN Points # {} /\ \A t \in DOMAIN Points : Points[t] \in Nat
    /\ Retries \in Nat /\ MaxCount \in Nat
    /\ None \notin Codes

VARIABLES
    participants,  \* the rows of quest_participants, by email
    request        \* what each request is about to do, and what it has read

vars == <<participants, request>>

Idle == [at |-> "idle"]
At(r, step) == request[r].at = step

\* The rows with a referral code: one at most, the column is UNIQUE.
With(code) == {e \in DOMAIN participants : participants[e].referral_code = code}

Goto(r, step) == request' = [request EXCEPT ![r].at = step]
End(r) == request' = [request EXCEPT ![r] = Idle]

Init ==
    /\ participants = [e \in {} |-> {}]
    /\ request = [r \in Requests |-> Idle]

-----------------------------------------------------------------------------
(* POST.                                                                   *)

\* An address already there is answered with its code, and nothing changes.
SelectExisting(r) ==
    /\ At(r, "idle")
    /\ \E email \in Emails \ DOMAIN participants, code \in Codes,
          referredBy \in Codes \cup {None} :
         request' = [request EXCEPT ![r] =
             [at |-> "code", email |-> email, code |-> code, tries |-> 0,
              referredBy |-> referredBy]]
    /\ UNCHANGED participants

\* The code that the last try generates is not looked up.
SelectCode(r) ==
    /\ At(r, "code")
    /\ IF With(request[r].code) = {} \/ request[r].tries = Retries
       THEN Goto(r, IF request[r].referredBy = None THEN "insert" ELSE "referrer")
       ELSE \E code \in Codes :
              request' = [request EXCEPT ![r].code = code, ![r].tries = @ + 1]
    /\ UNCHANGED participants

\* (The first form takes the code on trust.)
SelectReferrerUnchecked(r) ==
    /\ At(r, "referrer")
    /\ Goto(r, "count")
    /\ UNCHANGED participants
SelectReferrer(r) ==
    /\ At(r, "referrer")
    /\ IF With(request[r].referredBy) \ {request[r].email} # {}
       THEN Goto(r, "count")
       ELSE request' = [request EXCEPT ![r].referredBy = None, ![r].at = "insert"]
    /\ UNCHANGED participants

\* UPDATE ... SET referral_count = referral_count + 1, total_points = ...
CountReferral(r) ==
    /\ At(r, "count")
    /\ \A e \in With(request[r].referredBy) : participants[e].referral_count < MaxCount
    /\ participants' = [e \in DOMAIN participants |->
           IF e \in With(request[r].referredBy)
           THEN [participants[e] EXCEPT !.referral_count = @ + 1,
                                        !.total_points = @ + PointsPerReferral]
           ELSE participants[e]]
    /\ Goto(r, "insert")

\* Both the address and the code are UNIQUE: a request that finds one of them
\* taken ends with an error.
Insert(r) ==
    /\ At(r, "insert")
    /\ participants' =
         IF request[r].email \in DOMAIN participants \/ With(request[r].code) # {}
         THEN participants
         ELSE [e \in DOMAIN participants \cup {request[r].email} |->
                 IF e \in DOMAIN participants THEN participants[e]
                 ELSE [referral_code |-> request[r].code,
                       referred_by |-> request[r].referredBy, referral_count |-> 0,
                       completed_tasks |-> {}, total_points |-> 0]]
    /\ End(r)

-----------------------------------------------------------------------------
(* PATCH.                                                                  *)

\* A completed or unknown task is answered at once.
SelectUser(r) ==
    /\ At(r, "idle")
    /\ \E email \in DOMAIN participants :
       \E task \in DOMAIN Points \ participants[email].completed_tasks :
         request' = [request EXCEPT ![r] =
             [at |-> "complete", email |-> email, task |-> task,
              completed_tasks |-> participants[email].completed_tasks,
              total_points |-> participants[email].total_points]]
    /\ UNCHANGED participants

\* Both columns are written whole, from what SelectUser read.  (The first form has
\* the database add the points.)
CompleteTaskAdding(r) ==
    /\ At(r, "complete")
    /\ participants' = [participants EXCEPT ![request[r].email].completed_tasks =
                                              request[r].completed_tasks \cup {request[r].task},
                                            ![request[r].email].total_points =
                                              @ + Points[request[r].task]]
    /\ End(r)
CompleteTask(r) ==
    /\ At(r, "complete")
    /\ participants' = [participants EXCEPT ![request[r].email].completed_tasks =
                                              request[r].completed_tasks \cup {request[r].task},
                                            ![request[r].email].total_points =
                                              request[r].total_points + Points[request[r].task]]
    /\ End(r)

\* The database does not answer, or the function is stopped.
Fail(r) ==
    /\ ~At(r, "idle")
    /\ End(r)
    /\ UNCHANGED participants

Next ==
    \E r \in Requests :
        \/ SelectExisting(r) \/ SelectCode(r) \/ SelectReferrer(r) \/ CountReferral(r)
        \/ Insert(r) \/ SelectUser(r) \/ CompleteTask(r) \/ Fail(r)

Spec == Init /\ [][Next]_vars

-----------------------------------------------------------------------------
(* Properties.                                                             *)

Rows == [referral_code : Codes, referred_by : Codes \cup {None}, referral_count : Nat,
         completed_tasks : SUBSET DOMAIN Points, total_points : Nat]

\* Rows of known participants, each with an address and a code of its own.
TypeOK ==
    /\ DOMAIN participants \subseteq Emails
    /\ \A e \in DOMAIN participants : participants[e] \in Rows
    /\ \A c \in Codes : Cardinality(With(c)) <= 1

\* What a participant has earned.
Earned(row) ==
    PointsPerReferral * row.referral_count
        + SumFunctionOnSet(Points, row.completed_tasks)

\* The overwriting of a row by requests that have read it earlier loses points but
\* never makes any: nobody has more points than the tasks and the referrals that
\* the row itself records are worth.
NeverOverpaid ==
    \A e \in DOMAIN participants : participants[e].total_points <= Earned(participants[e])

\* A referral is counted before the row that names it is inserted, and the referrer
\* is there by then: every row referred by a code is in that code's count, whatever
\* fails in between.
ReferralsCovered ==
    \A e \in DOMAIN participants :
        LET code == participants[e].referral_code
        IN  Cardinality({f \in DOMAIN participants : participants[f].referred_by = code})
              <= participants[e].referral_count

=============================================================================
