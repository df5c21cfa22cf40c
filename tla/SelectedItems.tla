--------------------------- MODULE SelectedItems ---------------------------
(***************************************************************************)
(* SelectSeq with the test given as a set.  SelectSeq takes an operator,   *)
(* which the provers cannot reason about, and is the same otherwise.       *)
(***************************************************************************)
EXTENDS Naturals, Sequences

\* The items of s which are in P, in their order.
Selected(s, P) ==
  LET upTo[i \in 0..Len(s)] ==
        IF i = 0 THEN <<>>
        ELSE IF s[i] \in P THEN Append(upTo[i - 1], s[i])
        ELSE upTo[i - 1]
  IN  upTo[Len(s)]
=============================================================================
