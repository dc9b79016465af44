----------------------------- MODULE Filtering -----------------------------
(***************************************************************************)
(* Array.filter, as this code uses it: the elements that are in a set, in  *)
(* their order.  (A function on the positions, of which, unlike SelectSeq, *)
(* the provers know the definition.)                                       *)
(***************************************************************************)
EXTENDS Integers, Sequences

Those(seq, set) ==
    LET upTo[i \in 0 .. Len(seq)] ==
            IF i = 0 THEN <<>>
            ELSE IF seq[i] \in set THEN Append(upTo[i - 1], seq[i]) ELSE upTo[i - 1]
    IN  upTo[Len(seq)]

=============================================================================
