------------------------------ MODULE MCDigest ------------------------------
(* A company has posted one role twice, and the only subscriber wants it:    *)
(* found together, the longer posting stands for both; apart, each is mailed. *)
EXTENDS Digest

CONSTANTS e1, a, b, x, software, p1, p2

MCCompanyOf == [j \in {a, b} |-> x]
MCRole == [j \in {a, b} |-> x]
MCDetailOf == [j \in {a, b} |-> IF j = a THEN 1 ELSE 2]
MCKindOf == [j \in {a, b} |-> software]

=============================================================================
