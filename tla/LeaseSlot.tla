------------------------------ MODULE LeaseSlot ------------------------------
(***************************************************************************)
(* Leased mutual exclusion: a resource has at most one holder, is taken    *)
(* only when free, and a ticket that has lost the resource, or never got   *)
(* it, does not get it again.                                              *)
(***************************************************************************)
EXTENDS Naturals

CONSTANTS Resources, Tickets, None

VARIABLES
  holder,     \* of each resource: the ticket that holds it, or None
  spent       \* tickets that can no longer hold anything

leaseVars == <<holder, spent>>

Init ==
  /\ holder = [x \in Resources |-> None]
  /\ spent = {}

Take(x, t) ==
  /\ holder[x] = None
  /\ t \notin spent
  /\ \A y \in Resources : holder[y] # t
  /\ holder' = [holder EXCEPT ![x] = t]
  /\ UNCHANGED spent

\* The holders of some resources finish, are evicted, or run out of time.
Lose(S) ==
  /\ \A x \in S : holder[x] # None
  /\ holder' = [x \in Resources |-> IF x \in S THEN None ELSE holder[x]]
  /\ spent' = spent \cup {holder[x] : x \in S}

\* A ticket is issued that is never valid.
Void(t) ==
  /\ \A x \in Resources : holder[x] # t
  /\ spent' = spent \cup {t}
  /\ UNCHANGED holder

Next ==
  \/ \E x \in Resources, t \in Tickets : Take(x, t)
  \/ \E S \in SUBSET Resources : Lose(S)
  \/ \E t \in Tickets : Void(t)

Spec == Init /\ [][Next]_leaseVars

=============================================================================
