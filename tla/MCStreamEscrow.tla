--------------------------- MODULE MCStreamEscrow ---------------------------
EXTENDS StreamEscrow, TLC
CONSTANTS r1, r2, r3
MCCurve == [e \in 0..2 |-> 2 * e]
MCSymmetry == Permutations(Requests)
=============================================================================
