------------------------- MODULE MCSharedConnection --------------------------
(* Two loops on the supervisor's connection and a request on its own. *)
EXTENDS SharedConnection

CONSTANTS gate, tailor, api, shared, own

TwoLoopsAndARequest ==
  [k \in {gate, tailor, api} |-> IF k = api THEN own ELSE shared]

=============================================================================
