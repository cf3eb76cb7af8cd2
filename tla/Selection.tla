------------------------------- MODULE Selection -------------------------------
(***************************************************************************)
(* What a comprehension with an if keeps of a list, as a recursive         *)
(* function, which can be reasoned about.                                  *)
(***************************************************************************)
EXTENDS Naturals, Sequences

\* The members of s at the positions P, in their order.
At(s, P) ==
    LET at[n \in 0 .. Len(s)] ==
            IF n = 0 THEN <<>>
            ELSE IF n \in P THEN Append(at[n - 1], s[n]) ELSE at[n - 1]
    IN  at[Len(s)]

\* The members of s that are in X, in their order.
Among(s, X) == At(s, {i \in DOMAIN s : s[i] \in X})
=============================================================================
