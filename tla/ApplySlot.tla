------------------------------ MODULE ApplySlot ------------------------------
(***************************************************************************)
(* What the autonomous apply workers promise for a review run, whatever    *)
(* rows, tokens, leases and sweeps they use: at most one of them works on  *)
(* it at a time, a successful application is the last, and there are at    *)
(* most MaxRetries failed ones unless an operator wipes the slate.         *)
(***************************************************************************)
EXTENDS Naturals

CONSTANTS Reviews, MaxRetries

VARIABLES
  state,      \* of each review run: "free", "held" by a worker, or "done"
  failures    \* failed attempts that count against the retry limit

slotVars == <<state, failures>>

Init ==
  /\ state = [v \in Reviews |-> "free"]
  /\ failures = [v \in Reviews |-> 0]

Take(v) ==
  /\ state[v] = "free"
  /\ failures[v] < MaxRetries
  /\ state' = [state EXCEPT ![v] = "held"]
  /\ UNCHANGED failures

Finish(v) ==
  /\ state[v] = "held"
  /\ state' = [state EXCEPT ![v] = "done"]
  /\ UNCHANGED failures

\* One worker's failure, or a sweep that ends several attempts at once.
Fail(S) ==
  /\ \A v \in S : state[v] = "held"
  /\ state' = [v \in Reviews |-> IF v \in S THEN "free" ELSE state[v]]
  /\ failures' = [v \in Reviews |-> IF v \in S THEN failures[v] + 1 ELSE failures[v]]

\* The operator asks for the failed attempts of a job to be forgotten.
Forget(S) ==
  /\ failures' = [v \in Reviews |-> IF v \in S THEN 0 ELSE failures[v]]
  /\ UNCHANGED state

Next ==
  \/ \E v \in Reviews : Take(v) \/ Finish(v)
  \/ \E S \in SUBSET Reviews : Fail(S) \/ Forget(S)

Spec == Init /\ [][Next]_slotVars

=============================================================================
