----------------------------- MODULE SigningKeys -----------------------------
(***************************************************************************)
(* What the registry promises about the signing keys of OAuth providers:   *)
(* it is a map of keys.  A provider's key is in force from when it is      *)
(* published until it is revoked, publishing it again puts the new modulus *)
(* in its place, and no other key changes.  Who publishes is left open.    *)
(***************************************************************************)
CONSTANTS Providers, Kids, Moduli, None

VARIABLES
    inForce \* the modulus of each key id of each provider, None if it has none

Init == inForce = [pk \in Providers \X Kids |-> None]

Publish(p, k, m) == inForce' = [inForce EXCEPT ![<<p, k>>] = m]

Revoke(p, k) == inForce' = [inForce EXCEPT ![<<p, k>>] = None]

Next == \E p \in Providers, k \in Kids : Revoke(p, k) \/ \E m \in Moduli : Publish(p, k, m)

Spec == Init /\ [][Next]_inForce
=============================================================================
