------------------------------ MODULE Selection ------------------------------
(***************************************************************************)
(* What a query or a loop selects of a list, in the order of the list.     *)
(***************************************************************************)
EXTENDS Naturals, Sequences

\* The elements of seq at the places in I.
Kept(seq, I) ==
  LET kept[n \in 0 .. Len(seq)] ==
        IF n = 0 THEN <<>>
        ELSE IF n \in I THEN Append(kept[n - 1], seq[n]) ELSE kept[n - 1]
  IN  kept[Len(seq)]

=============================================================================
