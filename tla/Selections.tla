----------------------------- MODULE Selections -----------------------------
(* What is left of a sequence when some of its elements are dropped.         *)
EXTENDS Naturals, Sequences

\* The elements of s at the places in K, in their order.
Those(s, K) ==
    LET upto[k \in 0 .. Len(s)] ==
            IF k = 0 THEN <<>>
            ELSE IF k \in K THEN Append(upto[k - 1], s[k]) ELSE upto[k - 1]
    IN  upto[Len(s)]
=============================================================================
