---------------------------- MODULE ShamirSimple ----------------------------
(***************************************************************************)
(* The secret sharing of the MPC routes (demo/src/lib/mpc/shamir-simple.ts)*)
(* on one byte: a key is split in three shares, and two of them are to     *)
(* give it back.  The arithmetic of GF(256) goes through a table of the    *)
(* powers of two and one of their logarithms, built when the module loads. *)
(*                                                                         *)
(* A table entry that was never written reads as undefined, which spreads  *)
(* through the arithmetic until an exclusive or takes it for zero.         *)
(***************************************************************************)
EXTENDS Integers, FiniteSets, Bitwise

CONSTANTS
    Secrets,       \* bytes of a key
    Coefficients,  \* bytes that the random generator may give
    Undefined

VARIABLES
    x, EXP, LOG,          \* the tables, and the power to enter next
    secret, coefficient,  \* what was split, and with which polynomial
    combined              \* what two shares gave

vars == <<x, EXP, LOG, secret, coefficient, combined>>

Indices == 1..3
Entries == 255

Init ==
    /\ x = 1 /\ EXP = [i \in {} |-> 0] /\ LOG = [b \in {} |-> 0]
    /\ secret = Undefined /\ coefficient = Undefined /\ combined = Undefined

\* One turn of the loop.  The shift is not cut off at a byte; sixteen bits of it
\* are enough to tell which powers are bytes.
initGF256 ==
    LET i == Cardinality(DOMAIN EXP)
    IN  /\ i < Entries
        /\ EXP' = [j \in 0..i |-> IF j = i THEN x ELSE EXP[j]]
        /\ LOG' = [b \in DOMAIN LOG \cup {x} |-> IF b = x THEN i ELSE LOG[b]]
        /\ x' = (((2 * x) % 65536) ^^ (IF (x \div 128) % 2 = 1 THEN 27 ELSE 0))
        /\ UNCHANGED <<secret, coefficient, combined>>

-----------------------------------------------------------------------------
Log(b) == IF b \in DOMAIN LOG THEN LOG[b] ELSE Undefined

\* The entry that a sum of logarithms selects; none is at undefined.
Power(la, lb, sign) ==
    IF Undefined \in {la, lb} THEN Undefined ELSE EXP[(la + sign * lb + Entries) % Entries]

gfMult(a, b) == IF 0 \in {a, b} THEN 0 ELSE Power(Log(a), Log(b), 1)
gfDiv(a, b) == IF a = 0 THEN 0 ELSE Power(Log(a), Log(b), -1)

\* a ^ b, where b may be undefined.
ExclusiveOr(a, b) == IF b = Undefined THEN a ELSE a ^^ b

\* A share: the polynomial at its index.
Share(i) == ExclusiveOr(secret, gfMult(coefficient, i))

\* What share i adds to the secret, with share j as the other one.
Term(i, j) == gfMult(Share(i), gfDiv(gfMult(1, j), gfMult(1, j ^^ i)))

shamirSplit ==
    /\ DOMAIN EXP = 0..Entries - 1 /\ secret = Undefined
    /\ secret' \in Secrets /\ coefficient' \in Coefficients
    /\ UNCHANGED <<x, EXP, LOG, combined>>

shamirCombine ==
    /\ secret # Undefined
    /\ \E i, j \in Indices :
         /\ i # j
         /\ combined' = ExclusiveOr(ExclusiveOr(0, Term(i, j)), Term(j, i))
    /\ UNCHANGED <<x, EXP, LOG, secret, coefficient>>

Next == initGF256 \/ shamirSplit \/ shamirCombine

Spec == Init /\ [][Next]_vars

-----------------------------------------------------------------------------
\* "Reconstruct secret from shares using Lagrange interpolation" (shamir-simple.ts:93):
\* any two shares of a byte give the byte back.  In the code the table has no
\* logarithm of 3, which is the difference of the first two indices, and these two
\* shares give zero.
Reconstructed == combined # Undefined => combined = secret

=============================================================================
