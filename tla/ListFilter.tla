----------------------------- MODULE ListFilter -----------------------------
(***************************************************************************)
(* The loop with which the contracts and the storage client filter a list: *)
(* a new list, onto which each element is pushed that passes a check.      *)
(***************************************************************************)
EXTENDS Naturals, Sequences

\* The elements of a list that are in a set, in the order of the list.
Filtered(list, wanted) ==
    LET kept[n \in 0..Len(list)] ==
          IF n = 0 THEN <<>>
          ELSE IF list[n] \in wanted THEN Append(kept[n - 1], list[n])
          ELSE kept[n - 1]
    IN  kept[Len(list)]
=============================================================================
