-------------------------- MODULE SessionAuthority --------------------------
(***************************************************************************)
(* What a zkLogin wallet promises about its sessions: an ephemeral key     *)
(* acts for the wallet from the moment it is granted to the last ledger it *)
(* was granted for, unless it is revoked, and only a key that may act can  *)
(* revoke one.                                                             *)
(***************************************************************************)
EXTENDS Naturals

CONSTANTS Keys, Epochs, None

VARIABLES
    ledger,    \* the present ledger
    until,     \* the last ledger a key may act in, None if it may not
    operations \* how many operations the wallet has carried out

vars == <<ledger, until, operations>>

MayAct(k) == until[k] # None /\ ledger <= until[k]

Init ==
    /\ ledger \in Nat
    /\ until = [k \in Keys |-> None]
    /\ operations = 0

NextLedger == ledger' = ledger + 1 /\ UNCHANGED <<until, operations>>

Grant(k, e) ==
    /\ e > ledger
    /\ until' = [until EXCEPT ![k] = e]
    /\ UNCHANGED <<ledger, operations>>

Revoke(by, k) ==
    /\ MayAct(by) /\ until[k] # None
    /\ until' = [until EXCEPT ![k] = None]
    /\ UNCHANGED <<ledger, operations>>

Operate(by) ==
    /\ MayAct(by)
    /\ operations' = operations + 1
    /\ UNCHANGED <<ledger, until>>

Next ==
    \/ NextLedger
    \/ \E k \in Keys : (\E e \in Epochs : Grant(k, e)) \/ Operate(k)
    \/ \E by, k \in Keys : Revoke(by, k)

Spec == Init /\ [][Next]_vars
=============================================================================
