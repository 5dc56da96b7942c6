----------------------------- MODULE MCServices -----------------------------
(***************************************************************************)
(* The parts of Services with small sets of requests, amounts and times.   *)
(***************************************************************************)
EXTENDS Services, TLC

\* Requests of the quests, requests of a stream and accounts of a wallet may be exchanged:
\* the exchanges that move each of them make a group with few members, all of which TLC
\* tries.
Exchanges(S) == {f \in Permutations(S) : \A x \in S : f[x] # x}
Symmetry ==
    Exchanges(QuestRequests) \cup Exchanges(StreamRequests) \cup Exchanges(OAuthAccounts)

MCPoints == [t \in {"follow_twitter", "retweet_launch"} |->
               IF t = "follow_twitter" THEN 5 ELSE 10]

\* Double of what time has passed, so that the end comes after two ticks.
MCCurve == [t \in 0..2 |-> 2 * t]
=============================================================================
