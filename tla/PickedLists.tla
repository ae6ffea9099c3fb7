------------------------------ MODULE PickedLists ------------------------------
(***************************************************************************)
(* Lists cut down to some of their places, as the pages' filters do.  The  *)
(* places are a set, and the definition a function, so that what a filter  *)
(* leaves can be reasoned about.                                           *)
(***************************************************************************)
EXTENDS Naturals, Sequences

\* The entries of a list at the places in P, in the order of the list.
Picked(list, P) ==
  LET upTo[i \in 0..Len(list)] ==
        IF i = 0 THEN <<>>
        ELSE IF i \in P THEN Append(upTo[i - 1], list[i]) ELSE upTo[i - 1]
  IN  upTo[Len(list)]

\* The list without an entry, wherever it stands.
Without(list, x) == Picked(list, {i \in DOMAIN list : list[i] # x})
=============================================================================
