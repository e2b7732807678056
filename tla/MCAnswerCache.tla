---------------------------- MODULE MCAnswerCache ----------------------------
(* Two companies; the second question reads like the first one, and one of  *)
(* the answers names the first company.                                     *)
EXTENDS AnswerCache

CONSTANTS acme, other, q1, q2, yes, praise, w1, w2, r1, e1

MCRatio == [p \in Questions |-> [q \in Questions |-> IF p = q THEN 100 ELSE 90]]
MCNamedIn == [x \in Questions \cup Answers |-> IF x = praise THEN acme ELSE Anyone]

AttemptsAreAlike == Permutations(Attempts)

=============================================================================
