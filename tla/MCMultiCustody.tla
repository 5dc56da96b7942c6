--------------------------- MODULE MCMultiCustody ---------------------------
EXTENDS MultiCustody
CONSTANTS a, b, small, empty
Active(x) == [commitment |-> x, active |-> TRUE]
Inactive(x) == [commitment |-> x, active |-> FALSE]
\* A list with an identity that is there twice, once inactive, and one with an
\* identity that holds two places, so that a threshold of three cannot be met.
MCGuardianLists ==
    {<<Inactive(a), Active(a), Active(b)>>,
     <<Active(b), Active(a), Active(b)>>}
=============================================================================
