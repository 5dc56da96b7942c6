----------------------------- MODULE MCContracts -----------------------------
(***************************************************************************)
(* Six contracts with small sets of keys, proofs, amounts and names.       *)
(***************************************************************************)
EXTENDS Contracts, MCMultiCustody, TLC

CONSTANTS p1, p2, p3, p4, s1, s2, vk1, vk2, m1, m2, short

\* Two usable keys and one with too few input commitments.  A prover asked twice
\* for the same statement gives two proofs of it, which verify under one key or
\* under both; a third proof verifies for two statements, and a fourth has a point
\* at zero.
MCEpoch == [s \in {s1, s2} |-> IF s = s1 THEN 1 ELSE 2]
MCPairingHolds ==
    {<<vk1, p1, s1>>, <<vk1, p2, s1>>, <<vk2, p2, s1>>, <<vk2, p3, s1>>,
     <<vk2, p3, s2>>, <<vk1, p3, s2>>, <<vk1, p4, s2>>}
    \cup {<<short, p, s2>> : p \in {p1, p2, p3, p4}}

\* A modulus in too few chunks, and negative amounts.
MCChunkCount == [m \in {m1, m2, short} |-> IF m = short THEN 16 ELSE 17]
MCAmounts == {-1, 9, 111}

\* Nothing but their being different tells the registry's kids or its oracles apart.
Symmetry == Permutations(Kids) \cup Permutations(Oracles)
=============================================================================
