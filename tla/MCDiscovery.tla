----------------------------- MODULE MCDiscovery -----------------------------
(* A family that crawls one source of three postings, of which it asks for  *)
(* two pages, beside one that crawls a source the user's domains leave out  *)
(* and another of one posting, which the first source has too.  Two of the  *)
(* postings have the same company and title.                                *)
EXTENDS Discovery

CONSTANTS paged, listed, a, b, c, p1, p2, p3, tech, health, t1, t2

MCSourcesOf == [f \in {paged, listed} |-> IF f = paged THEN <<a>> ELSE <<b, c>>]
MCMayUse == [f \in {paged, listed} |->
  IF f = paged THEN {Taleo, ICIMS, LinkedIn} ELSE {Greenhouse}]
MCHome == [s \in {a, b, c} |-> IF s = a THEN {p1, p2, p3} ELSE {p3}]
MCIndustry == [s \in {a, b, c} |-> IF s = b THEN health ELSE IF s = c THEN tech ELSE Untagged]
MCTitleOf == [p \in {p1, p2, p3} |-> IF p = p2 THEN t2 ELSE t1]

=============================================================================
