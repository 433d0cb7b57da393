----------------------------- MODULE Selection ------------------------------
(* A comprehension over a list: the elements that are in a set, in order.   *)
EXTENDS Integers, SequencesExt

Select(s, S) ==
    FoldLeft(LAMBDA kept, x : IF x \in S THEN Append(kept, x) ELSE kept, <<>>, s)
=============================================================================
