---------------------------- MODULE Subsequences ----------------------------
(***************************************************************************)
(* The elements of a sequence that are in a set, in their order.           *)
(* SelectSeq takes its test as an operator, about which the provers know   *)
(* nothing.                                                                *)
(***************************************************************************)
EXTENDS Integers, Sequences

Kept(seq, S) ==
    LET kept[n \in 0..Len(seq)] ==
          IF n = 0 THEN <<>>
          ELSE IF seq[n] \in S THEN Append(kept[n - 1], seq[n]) ELSE kept[n - 1]
    IN kept[Len(seq)]
=============================================================================
