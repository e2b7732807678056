-------------------------- MODULE ApiProcess_proofs ---------------------------
(***************************************************************************)
(* Proofs about the API process: about Supervisor, for every number of     *)
(* requests, mode changes and crashes, and about SharedConnection, for     *)
(* every number of coroutines and connections and every way they are       *)
(* shared.  The two share no variable, so this module extends both.        *)
(***************************************************************************)
EXTENDS Supervisor, SharedConnection, TLAPS

-----------------------------------------------------------------------------
(***************************************************************************)
(* The supervisor.  A loop that has been cancelled and has not ended is    *)
(* known to somebody: the watcher awaits it, or stop has gathered it.  So  *)
(* the watcher spawns no second loop of a stage, and stop returns to a     *)
(* quiet process.                                                          *)
(***************************************************************************)

-----------------------------------------------------------------------------
(* A step of a reconciliation. *)

LEMMA LeastOf ==
  ASSUME NEW S, S \subseteq 1 .. 3, S # {}
  PROVE  \E i \in S : \A k \in S : i <= k
<1>1. \A x \in S : x = 1 \/ x = 2 \/ x = 3
  OBVIOUS
<1>2. CASE 1 \in S
  BY <1>1, <1>2
<1>3. CASE 1 \notin S /\ 2 \in S
  BY <1>1, <1>3
<1>4. CASE 1 \notin S /\ 2 \notin S
  <2>1. \A x \in S : x = 3
    BY <1>1, <1>4
  <2>2. PICK x \in S : TRUE
    OBVIOUS
  <2>3. QED
    BY <2>1, <2>2
<1>5. QED
  BY <1>2, <1>3, <1>4

LEMMA StageType == \A i \in 1 .. 3 : Stage[i] \in Stages
BY DEF Stage, Stages

\* What Reconcile does, without its LET: it ends, or it awaits one stage.
LEMMA ReconcileKinds ==
  ASSUME TypeOK, NEW seen \in SUBSET Stages, NEW from \in 1 .. 4, Reconcile(seen, from)
  PROVE  \E added \in SUBSET (Stages \ tasks) :
           \/ /\ live' = Spawned(added)
              /\ tasks' = tasks \cup added \cup {"mode_watcher"}
              /\ watcher' = Waiting \/ watcher' = [Off EXCEPT !.pc = "resting"]
              /\ lifespan' = IF lifespan = "starting" THEN "serving" ELSE lifespan
           \/ \E i \in 1 .. 3 :
                /\ live' = [Spawned(added) EXCEPT ![Stage[i]] =
                              IF @ = "none" THEN "none" ELSE "ending"]
                /\ tasks' = (tasks \cup added) \ {Stage[i]}
                /\ watcher' = [pc |-> "awaiting", at |-> i, seen |-> seen]
                /\ lifespan' = lifespan
<1> DEFINE surplus == {i \in from .. 3 : Stage[i] \in tasks \ seen}
           stop == IF surplus = {} THEN 4
                   ELSE CHOOSE i \in surplus : \A k \in surplus : i <= k
           added == {Stage[i] : i \in from .. (stop - 1)} \cap (seen \ tasks)
<1>1. added \in SUBSET (Stages \ tasks)
  OBVIOUS
<1>2. CASE stop = 4
  <2>1. /\ live' = Spawned(added)
        /\ tasks' = tasks \cup added \cup {"mode_watcher"}
        /\ watcher' = IF lifespan = "starting" THEN Waiting
                      ELSE [Off EXCEPT !.pc = "resting"]
        /\ lifespan' = IF lifespan = "starting" THEN "serving" ELSE lifespan
    BY <1>2 DEF Reconcile
  <2>2. QED
    BY <1>1, <2>1
<1>3. CASE stop # 4
  <2>1. surplus # {}
    BY <1>3
  <2>2. surplus \subseteq 1 .. 3
    OBVIOUS
  <2>3. stop \in 1 .. 3
    <3> HIDE DEF surplus
    <3>1. stop \in surplus
      BY <2>1, <2>2, LeastOf
    <3>2. QED
      BY <2>2, <3>1
  <2>4. /\ live' = [Spawned(added) EXCEPT ![Stage[stop]] =
                      IF @ = "none" THEN "none" ELSE "ending"]
        /\ tasks' = (tasks \cup added) \ {Stage[stop]}
        /\ watcher' = [pc |-> "awaiting", at |-> stop, seen |-> seen]
        /\ lifespan' = lifespan
    BY <1>3 DEF Reconcile
  <2> HIDE DEF added, stop
  <2>5. QED
    BY <1>1, <2>3, <2>4
<1>4. QED
  BY <1>2, <1>3

-----------------------------------------------------------------------------
(* The invariant. *)

\* The stage whose cancelled loop the watcher waits for.
Awaited == IF watcher.pc = "awaiting" THEN {Stage[watcher.at]} ELSE {}

WatcherHasStage == watcher.pc \in {"reading", "awaiting"} => watcher.at \in 1 .. 3

Quiet == watcher.pc = "off" /\ \A l \in Loops : live[l] = "none"

\* While the process serves, every loop is registered or awaited, and the ones
\* that end are awaited.
LoopsAreKnown ==
  lifespan \in {"starting", "serving"} =>
    \A l \in Loops :
      /\ live[l] # "none" => l \in tasks \cup Awaited
      /\ live[l] = "ending" => l \in Awaited
      /\ l \in Awaited => live[l] \in {"ending", "none"}

\* When it stops, every loop is cancelled, and gathered or awaited.
LoopsAreGathered ==
  lifespan = "draining" =>
    \A l \in Loops : live[l] # "none" => live[l] = "ending" /\ l \in gathered \cup Awaited

IInv ==
  /\ TypeOK
  /\ WatcherHasStage
  /\ lifespan \in {"down", "closed"} => Quiet
  /\ LoopsAreKnown
  /\ LoopsAreGathered

-----------------------------------------------------------------------------
(* Type correctness. *)

LEMMA WatcherType ==
  /\ Off \in Watcher /\ Off.pc = "off" /\ Off.at = 1
  /\ Waiting \in Watcher /\ Waiting.pc = "waiting"
  /\ Reading \in Watcher /\ Reading.pc = "reading" /\ Reading.at = 1
BY DEF Off, Waiting, Reading, Watcher

LEMMA SpawnedType ==
  ASSUME TypeOK, NEW S
  PROVE  /\ Spawned(S) \in [Loops -> {"none", "running", "backoff", "ending"}]
         /\ Cancelled(S) \in [Loops -> {"none", "running", "backoff", "ending"}]
BY DEF TypeOK, Spawned, Cancelled

LEMMA ReconcileType ==
  ASSUME TypeOK, NEW seen \in SUBSET Stages, NEW from \in 1 .. 4, Reconcile(seen, from)
  PROVE  /\ live' \in [Loops -> {"none", "running", "backoff", "ending"}]
         /\ tasks' \subseteq Loops \cup {"mode_watcher"}
         /\ watcher' \in Watcher
         /\ lifespan' \in {"down", "starting", "serving", "draining", "closed"}
         /\ WatcherHasStage'
<1>1. PICK added \in SUBSET (Stages \ tasks) :
        \/ /\ live' = Spawned(added)
           /\ tasks' = tasks \cup added \cup {"mode_watcher"}
           /\ watcher' = Waiting \/ watcher' = [Off EXCEPT !.pc = "resting"]
           /\ lifespan' = IF lifespan = "starting" THEN "serving" ELSE lifespan
        \/ \E i \in 1 .. 3 :
             /\ live' = [Spawned(added) EXCEPT ![Stage[i]] =
                           IF @ = "none" THEN "none" ELSE "ending"]
             /\ tasks' = (tasks \cup added) \ {Stage[i]}
             /\ watcher' = [pc |-> "awaiting", at |-> i, seen |-> seen]
             /\ lifespan' = lifespan
  BY ReconcileKinds
<1>2. live' \in [Loops -> {"none", "running", "backoff", "ending"}]
  BY <1>1, SpawnedType
<1>3. tasks' \subseteq Loops \cup {"mode_watcher"}
  BY <1>1 DEF TypeOK, Loops
<1>4. watcher' \in Watcher /\ WatcherHasStage'
  BY <1>1 DEF Watcher, Waiting, Off, WatcherHasStage
<1>5. lifespan' \in {"down", "starting", "serving", "draining", "closed"}
  BY <1>1 DEF TypeOK
<1>6. QED
  BY <1>2, <1>3, <1>4, <1>5

LEMMA RequestType ==
  ASSUME TypeOK, NEW q \in Requests, NEW on \in BOOLEAN
  PROVE  /\ [request EXCEPT ![q] = Idle] \in [Requests -> Request]
         /\ [request EXCEPT ![q] = [pc |-> "writing", on |-> on, next |-> 1]]
              \in [Requests -> Request]
         /\ request[q].next < 3 => [request EXCEPT ![q].next = @ + 1] \in [Requests -> Request]
         /\ [request EXCEPT ![q].pc = "notifying"] \in [Requests -> Request]
<1>1. request[q] \in Request
  BY DEF TypeOK
<1>2. Idle \in Request /\ [pc |-> "writing", on |-> on, next |-> 1] \in Request
  BY DEF Idle, Request
<1>3. [request[q] EXCEPT !.pc = "notifying"] \in Request
  BY <1>1 DEF Request
<1>4. request[q].next < 3 => [request[q] EXCEPT !.next = @ + 1] \in Request
  BY <1>1 DEF Request
<1>5. QED
  BY <1>2, <1>3, <1>4 DEF TypeOK

LEMMA SeenType ==
  ASSUME TypeOK, WatcherHasStage
  PROVE  /\ watcher.seen \in SUBSET Stages
         /\ watcher.pc = "reading" =>
              watcher.seen \cup {Stage[watcher.at]} \in SUBSET Stages
BY StageType DEF TypeOK, Watcher, WatcherHasStage

LEMMA ReadModeType ==
  ASSUME TypeOK, WatcherHasStage, ReadMode
  PROVE  TypeOK' /\ WatcherHasStage'
<1> DEFINE seen == IF Stage[watcher.at] \in active
                   THEN watcher.seen \cup {Stage[watcher.at]} ELSE watcher.seen
<1>1. seen \in SUBSET Stages /\ watcher.at \in 1 .. 3
  BY SeenType DEF ReadMode, WatcherHasStage
<1>2. CASE watcher.at < 3
  <2>1. [watcher EXCEPT !.at = @ + 1, !.seen = seen] \in Watcher
    <3>1. watcher \in Watcher /\ watcher.at + 1 \in 1 .. 4
      BY <1>1, <1>2 DEF TypeOK
    <3> HIDE DEF seen
    <3>2. QED
      BY <1>1, <3>1 DEF Watcher
  <2>2. watcher' = [watcher EXCEPT !.at = @ + 1, !.seen = seen]
        /\ UNCHANGED <<tasks, live, lifespan>>
    BY <1>2 DEF ReadMode
  <2>3. watcher'.at \in 1 .. 3
    BY <1>1, <1>2, <2>2 DEF TypeOK, Watcher
  <2> HIDE DEF seen
  <2>4. QED
    BY <2>1, <2>2, <2>3 DEF ReadMode, TypeOK, WatcherHasStage
<1>3. CASE ~(watcher.at < 3)
  <2>1. Reconcile(seen, 1)
    BY <1>3 DEF ReadMode
  <2> HIDE DEF seen
  <2>2. QED
    BY <1>1, <2>1, ReconcileType DEF ReadMode, TypeOK
<1>4. QED
  BY <1>2, <1>3

LEMMA StepTypeOK ==
  ASSUME TypeOK, WatcherHasStage, [Next]_vars
  PROVE  TypeOK' /\ WatcherHasStage'
<1> USE ConstantsAssumption
<1>1. CASE Start
  <2>1. live' \in [Loops -> {"none", "running", "backoff", "ending"}]
    BY <1>1, SpawnedType DEF Start
  <2>2. tasks' \subseteq Loops
    BY <1>1 DEF Start, Loops
  <2>3. QED
    BY <1>1, <2>1, <2>2, WatcherType, Reading.at \in 1 .. 3 DEF Start, TypeOK, WatcherHasStage
<1>2. CASE Wake
  BY <1>2, WatcherType, Reading.at \in 1 .. 3 DEF Wake, TypeOK, WatcherHasStage
<1>3. CASE ReadMode
  BY <1>3, ReadModeType
<1>4. CASE AwaitOver
  <2>1. watcher.at + 1 \in 1 .. 4 /\ watcher.seen \in SUBSET Stages
    BY <1>4, SeenType DEF AwaitOver, WatcherHasStage
  <2>2. Reconcile(watcher.seen, watcher.at + 1)
    BY <1>4 DEF AwaitOver
  <2>3. QED
    BY <1>4, <2>1, <2>2, ReconcileType DEF AwaitOver, TypeOK
<1>5. CASE PauseEnds
  BY <1>5, WatcherType DEF PauseEnds, TypeOK, WatcherHasStage
<1>6. CASE ReadFails
  <2> DEFINE paused == [Off EXCEPT !.pc = "backoff"]
  <2>1. paused \in Watcher /\ paused.pc = "backoff"
    BY DEF Off, Watcher
  <2>2. watcher' \in {Off, paused}
    BY <1>6 DEF ReadFails
  <2>3. watcher' \in Watcher /\ WatcherHasStage'
    <3> HIDE DEF paused
    <3>1. QED
      BY <2>1, <2>2, WatcherType DEF WatcherHasStage
  <2>4. crashes' \in 0 .. MaxCrashes
    BY <1>6 DEF ReadFails, TypeOK
  <2>5. QED
    BY <1>6, <2>3, <2>4 DEF ReadFails, TypeOK
<1>7. CASE PatchAutomation
  BY <1>7 DEF PatchAutomation, TypeOK, Stages, WatcherHasStage
<1>8. CASE Stop
  BY <1>8, SpawnedType, WatcherType DEF Stop, TypeOK, WatcherHasStage
<1>9. CASE Drained
  BY <1>9 DEF Drained, TypeOK, WatcherHasStage
<1>10. ASSUME NEW l \in Loops, LoopCrashes(l) \/ LoopRestarts(l) \/ LoopEnds(l)
       PROVE  TypeOK' /\ WatcherHasStage'
  BY <1>10 DEF LoopCrashes, LoopRestarts, LoopEnds, TypeOK, WatcherHasStage
<1>11. ASSUME NEW q \in Requests, NEW on \in BOOLEAN, BeginToggle(q, on)
       PROVE  TypeOK' /\ WatcherHasStage'
  <2>1. request' \in [Requests -> Request]
    BY <1>11, RequestType DEF BeginToggle
  <2>2. flips' \in 0 .. MaxFlips
    BY <1>11 DEF BeginToggle, TypeOK
  <2>3. QED
    BY <1>11, <2>1, <2>2 DEF BeginToggle, TypeOK, WatcherHasStage
<1>12. ASSUME NEW q \in Requests, SetAutomationMode(q)
       PROVE  TypeOK' /\ WatcherHasStage'
  <2>1. request' \in [Requests -> Request]
    BY <1>12, RequestType DEF SetAutomationMode
  <2>2. request[q].next \in 1 .. 3
    BY DEF TypeOK, Request
  <2>3. active' \subseteq Stages
    BY <1>12, <2>2, StageType DEF SetAutomationMode, TypeOK
  <2>4. QED
    BY <1>12, <2>1, <2>3 DEF SetAutomationMode, TypeOK, WatcherHasStage
<1>13. ASSUME NEW q \in Requests, NotifyModeChanged(q)
       PROVE  TypeOK' /\ WatcherHasStage'
  BY <1>13, RequestType DEF NotifyModeChanged, TypeOK, WatcherHasStage
<1>14. CASE UNCHANGED vars
  BY <1>14 DEF vars, TypeOK, WatcherHasStage
<1>15. QED
  BY <1>1, <1>2, <1>3, <1>4, <1>5, <1>6, <1>7, <1>8, <1>9, <1>10, <1>11, <1>12,
     <1>13, <1>14 DEF Next, WatcherStep

-----------------------------------------------------------------------------
(* Where the loops are. *)

\* A step that changes neither the loops nor where the process is, and leaves
\* the watcher where it does not wait for a loop, if it did not before.
LEMMA LoopsUntouched ==
  ASSUME IInv, UNCHANGED <<live, tasks, lifespan, gathered>>,
         watcher' = watcher
           \/ ( /\ watcher.pc \notin {"awaiting", "off"}
                /\ watcher'.pc # "awaiting" )
  PROVE  /\ lifespan' \in {"down", "closed"} => Quiet'
         /\ LoopsAreKnown'
         /\ LoopsAreGathered'
BY DEF IInv, Quiet, LoopsAreKnown, LoopsAreGathered, Awaited

\* A reconciliation keeps track of every loop, provided none was ending.
LEMMA ReconcileKnows ==
  ASSUME IInv, NEW seen \in SUBSET Stages, NEW from \in 1 .. 4, Reconcile(seen, from),
         \A l \in Awaited : live[l] = "none", watcher.pc # "off", gathered' = gathered
  PROVE  /\ lifespan' \in {"down", "closed"} => Quiet'
         /\ LoopsAreKnown'
         /\ LoopsAreGathered'
         /\ \A l \in Loops : live[l] = "ending" => live'[l] \in {"ending", "none"}
<1>1. PICK added \in SUBSET (Stages \ tasks) :
        \/ /\ live' = Spawned(added)
           /\ tasks' = tasks \cup added \cup {"mode_watcher"}
           /\ watcher' = Waiting \/ watcher' = [Off EXCEPT !.pc = "resting"]
           /\ lifespan' = IF lifespan = "starting" THEN "serving" ELSE lifespan
        \/ \E i \in 1 .. 3 :
             /\ live' = [Spawned(added) EXCEPT ![Stage[i]] =
                           IF @ = "none" THEN "none" ELSE "ending"]
             /\ tasks' = (tasks \cup added) \ {Stage[i]}
             /\ watcher' = [pc |-> "awaiting", at |-> i, seen |-> seen]
             /\ lifespan' = lifespan
  BY ReconcileKinds DEF IInv
<1>2. lifespan \in {"starting", "serving", "draining"}
  BY DEF IInv, Quiet, TypeOK
<1>3. \A l \in Loops : Spawned(added)[l] =
        IF l \in added /\ ~Stopped THEN "running" ELSE live[l]
  BY DEF Spawned
<1>4. \A l \in Loops : lifespan # "draining" =>
        live[l] # "ending" /\ (live[l] # "none" => l \in tasks)
  BY <1>2 DEF IInv, LoopsAreKnown
<1>5. Stopped <=> lifespan = "draining"
  BY <1>2 DEF Stopped
<1>6. CASE /\ live' = Spawned(added)
           /\ tasks' = tasks \cup added \cup {"mode_watcher"}
           /\ watcher' = Waiting \/ watcher' = [Off EXCEPT !.pc = "resting"]
           /\ lifespan' = IF lifespan = "starting" THEN "serving" ELSE lifespan
  <2>1. Awaited' = {}
    BY <1>6 DEF Awaited, Waiting, Off
  <2>2. LoopsAreKnown'
    BY <1>2, <1>3, <1>4, <1>5, <1>6, <2>1 DEF LoopsAreKnown
  <2>3. LoopsAreGathered'
    BY <1>2, <1>3, <1>5, <1>6, <2>1 DEF IInv, LoopsAreGathered
  <2>4. QED
    BY <1>2, <1>3, <1>4, <1>5, <1>6, <2>2, <2>3
<1>7. ASSUME NEW i \in 1 .. 3,
             live' = [Spawned(added) EXCEPT ![Stage[i]] =
                        IF @ = "none" THEN "none" ELSE "ending"],
             tasks' = (tasks \cup added) \ {Stage[i]},
             watcher' = [pc |-> "awaiting", at |-> i, seen |-> seen],
             lifespan' = lifespan
      PROVE  /\ lifespan' \in {"down", "closed"} => Quiet'
             /\ LoopsAreKnown'
             /\ LoopsAreGathered'
             /\ \A l \in Loops : live[l] = "ending" => live'[l] \in {"ending", "none"}
  <2>1. Awaited' = {Stage[i]}
    BY <1>7 DEF Awaited
  <2>2. \A l \in Loops : live'[l] =
          IF l = Stage[i] THEN IF Spawned(added)[l] = "none" THEN "none" ELSE "ending"
          ELSE Spawned(added)[l]
    BY <1>7, SpawnedType DEF IInv
  <2>3. LoopsAreKnown'
    BY <1>2, <1>3, <1>4, <1>5, <1>7, <2>1, <2>2 DEF LoopsAreKnown
  <2>4. LoopsAreGathered'
    BY <1>2, <1>3, <1>5, <1>7, <2>1, <2>2 DEF IInv, LoopsAreGathered
  <2>5. QED
    BY <1>2, <1>3, <1>4, <1>5, <1>7, <2>2, <2>3, <2>4
<1>8. QED
  BY <1>1, <1>6, <1>7

LEMMA StepKnows ==
  ASSUME IInv, [Next]_vars
  PROVE  /\ lifespan' \in {"down", "closed"} => Quiet'
         /\ LoopsAreKnown'
         /\ LoopsAreGathered'
         /\ \A l \in Loops : live[l] = "ending" => live'[l] \in {"ending", "none"}
<1> DEFINE Goal == /\ lifespan' \in {"down", "closed"} => Quiet'
                   /\ LoopsAreKnown'
                   /\ LoopsAreGathered'
                   /\ \A l \in Loops : live[l] = "ending" => live'[l] \in {"ending", "none"}
<1>1. CASE Start
  <2>1. \A l \in Loops : live[l] = "none"
    BY <1>1 DEF Start, IInv, Quiet
  <2>2. \A l \in Loops : live'[l] = IF l = "discovery" THEN "running" ELSE "none"
    BY <1>1, <2>1 DEF Start, Spawned, Stopped
  <2>3. lifespan' = "starting" /\ tasks' = {"discovery"} /\ Awaited' = {}
    BY <1>1 DEF Start, Awaited, Reading, Off
  <2>4. QED
    BY <2>1, <2>2, <2>3 DEF LoopsAreKnown, LoopsAreGathered
<1>2. CASE Wake \/ PauseEnds
  <2>1. UNCHANGED <<live, tasks, lifespan, gathered>>
    BY <1>2 DEF Wake, PauseEnds
  <2>2. watcher.pc \notin {"awaiting", "off"} /\ watcher'.pc # "awaiting"
    BY <1>2 DEF Wake, PauseEnds, Reading, Waiting, Off
  <2>3. QED
    BY <2>1, <2>2, LoopsUntouched
<1>3. CASE ReadMode
  <2> DEFINE seen == IF Stage[watcher.at] \in active
                     THEN watcher.seen \cup {Stage[watcher.at]} ELSE watcher.seen
  <2>1. seen \in SUBSET Stages /\ watcher.pc = "reading"
    BY <1>3, SeenType DEF ReadMode, IInv
  <2>2. CASE watcher.at < 3
    <3>1. UNCHANGED <<live, tasks, lifespan, gathered>>
      BY <1>3, <2>2 DEF ReadMode
    <3>2. watcher' = [watcher EXCEPT !.at = @ + 1, !.seen = seen]
      BY <1>3, <2>2 DEF ReadMode
    <3>3. watcher'.pc = "reading"
      BY <2>1, <3>2 DEF IInv, TypeOK, Watcher
    <3>4. QED
      BY <2>1, <3>1, <3>3, LoopsUntouched
  <2>3. CASE ~(watcher.at < 3)
    <3>1. Reconcile(seen, 1) /\ gathered' = gathered
      BY <1>3, <2>3 DEF ReadMode
    <3>2. Awaited = {}
      BY <2>1 DEF Awaited
    <3> HIDE DEF seen
    <3>3. QED
      BY <2>1, <3>1, <3>2, ReconcileKnows
  <2>4. QED
    BY <2>2, <2>3
<1>4. CASE AwaitOver
  <2>1. watcher.at + 1 \in 1 .. 4 /\ watcher.seen \in SUBSET Stages
    BY <1>4, SeenType DEF AwaitOver, WatcherHasStage, IInv
  <2>2. Reconcile(watcher.seen, watcher.at + 1) /\ gathered' = gathered
    BY <1>4 DEF AwaitOver
  <2>3. watcher.pc = "awaiting" /\ \A l \in Awaited : live[l] = "none"
    BY <1>4 DEF AwaitOver, Awaited
  <2>4. QED
    BY <2>1, <2>2, <2>3, ReconcileKnows
<1>5. CASE ReadFails
  <2>1. CASE lifespan = "starting"
    <3>1. lifespan' = "down" /\ Quiet'
      BY <1>5, <2>1 DEF ReadFails, Quiet, Off
    <3>2. QED
      BY <3>1 DEF LoopsAreKnown, LoopsAreGathered, Quiet
  <2>2. CASE lifespan # "starting"
    <3>1. UNCHANGED <<live, tasks, lifespan, gathered>>
      BY <1>5, <2>2 DEF ReadFails
    <3>2. watcher.pc = "reading" /\ watcher'.pc # "awaiting"
      BY <1>5, <2>2 DEF ReadFails, Off
    <3>3. QED
      BY <3>1, <3>2, LoopsUntouched
  <2>3. QED
    BY <2>1, <2>2
<1>6. CASE PatchAutomation
  BY <1>6, LoopsUntouched DEF PatchAutomation
<1>7. CASE Stop
  <2>1. \A l \in Loops : live'[l] =
          IF l \in tasks /\ live[l] # "none" THEN "ending" ELSE live[l]
    BY <1>7 DEF Stop, Cancelled
  <2>2. lifespan = "serving" /\ lifespan' = "draining" /\ gathered' = tasks
    BY <1>7 DEF Stop
  <2>3. Awaited' = Awaited
    BY <1>7 DEF Stop, Awaited, Off
  <2>4. LoopsAreGathered'
    BY <2>1, <2>2, <2>3 DEF IInv, LoopsAreKnown, LoopsAreGathered
  <2>5. QED
    BY <2>1, <2>2, <2>4 DEF LoopsAreKnown
<1>8. CASE Drained
  <2>1. watcher.pc = "off" /\ watcher' = watcher /\ live' = live /\ lifespan' = "closed"
    BY <1>8 DEF Drained
  <2>2. \A l \in Loops : live[l] = "none"
    <3>1. Awaited = {}
      BY <2>1 DEF Awaited
    <3>2. "mode_watcher" \notin Loops
      BY DEF Loops, Stages
    <3>3. QED
      BY <1>8, <3>1, <3>2 DEF Drained, IInv, LoopsAreGathered
  <2>3. QED
    BY <2>1, <2>2 DEF Quiet, LoopsAreKnown, LoopsAreGathered
<1>9. ASSUME NEW m \in Loops, LoopCrashes(m) \/ LoopRestarts(m) \/ LoopEnds(m)
      PROVE  Goal
  <2>1. /\ UNCHANGED <<tasks, lifespan, gathered, watcher>>
        /\ live[m] # "none"
        /\ live[m] = "ending" => live'[m] = "none"
        /\ live'[m] # "ending"
        /\ \A l \in Loops \ {m} : live'[l] = live[l]
    BY <1>9 DEF LoopCrashes, LoopRestarts, LoopEnds, IInv, TypeOK
  <2>2. Awaited' = Awaited
    BY <2>1 DEF Awaited
  <2>3. lifespan' \in {"down", "closed"} => Quiet'
    BY <2>1 DEF IInv, Quiet
  <2>4. LoopsAreKnown'
    BY <2>1, <2>2 DEF IInv, LoopsAreKnown
  <2>5. LoopsAreGathered'
    BY <2>1, <2>2 DEF IInv, LoopsAreGathered
  <2>6. QED
    BY <2>1, <2>3, <2>4, <2>5
<1>10. ASSUME NEW q \in Requests,
              (\E on \in BOOLEAN : BeginToggle(q, on)) \/ SetAutomationMode(q)
                \/ NotifyModeChanged(q)
       PROVE  Goal
  <2>1. UNCHANGED <<live, tasks, lifespan, gathered, watcher>>
    BY <1>10 DEF BeginToggle, SetAutomationMode, NotifyModeChanged
  <2>2. QED
    BY <2>1, LoopsUntouched
<1>11. CASE UNCHANGED vars
  BY <1>11, LoopsUntouched DEF vars
<1>12. QED
  BY <1>1, <1>2, <1>3, <1>4, <1>5, <1>6, <1>7, <1>8, <1>9, <1>10, <1>11
     DEF Next, WatcherStep

LEMMA InitIInv == Init => IInv
<1> SUFFICES ASSUME Init
             PROVE  IInv
  OBVIOUS
<1>1. Idle \in Request
  BY DEF Idle, Request
<1>2. TypeOK
  <2>1. flips \in 0 .. MaxFlips /\ crashes \in 0 .. MaxCrashes
    BY ConstantsAssumption DEF Init
  <2>2. active \subseteq Stages
    BY DEF Init
  <2>3. QED
    BY <1>1, <2>1, <2>2, WatcherType DEF Init, TypeOK
<1>3. QED
  BY <1>2, WatcherType
     DEF Init, IInv, WatcherHasStage, Quiet, LoopsAreKnown, LoopsAreGathered

LEMMA StepIInv == IInv /\ [Next]_vars => IInv'
BY StepTypeOK, StepKnows DEF IInv

\* The inductive invariant: every loop that is alive is registered, awaited or
\* gathered, and one that ends is awaited or gathered.
THEOREM Invariance == Spec => []IInv
BY InitIInv, StepIInv, PTL DEF Spec

\* Every variable keeps its type, for any number of requests, mode changes and
\* crashes.
THEOREM TypeCorrect == Spec => []TypeOK
<1>1. IInv => TypeOK
  BY DEF IInv
<1>2. QED
  BY <1>1, Invariance, PTL

\* The shared connection is closed when no loop and no watcher can use it,
\* even when stop caught the watcher inside _cancel_task.
THEOREM CloseIsLast == Spec => []LoopsEndBeforeClose
<1>1. IInv => LoopsEndBeforeClose
  BY DEF IInv, Quiet, LoopsEndBeforeClose
<1>2. QED
  BY <1>1, Invariance, PTL

\* A stage never has two loops, however its mode flips and its loop crashes
\* while the cancelled one cleans up.
THEOREM OneLoopPerStage == Spec => NoTwinLoop
<1>1. IInv /\ [Next]_vars =>
        [\A l \in Loops : live[l] = "ending" => live'[l] \in {"ending", "none"}]_vars
  BY StepKnows
<1>2. QED
  BY <1>1, Invariance, PTL DEF Spec, NoTwinLoop

-----------------------------------------------------------------------------
(***************************************************************************)
(* The connections.  Until another coroutine ends the transaction an       *)
(* operation has written in, that transaction holds what the operation has *)
(* executed, and the disk nothing of it, whatever else happens on the      *)
(* connection.                                                             *)
(***************************************************************************)

-----------------------------------------------------------------------------
(* Type correctness. *)

LEMMA WritesType ==
  ASSUME NEW k \in Coroutines, NEW what \in Kinds
  PROVE  /\ Last(what) \in {1, 2}
         /\ <<k, Last(what)>> \in Coroutines \X {1, 2}
         /\ Writes(k, what) = IF what = "block" THEN {<<k, 1>>, <<k, 2>>}
                              ELSE {<<k, 1>>}
<1>1. Last(what) = IF what = "block" THEN 2 ELSE 1
  BY DEF Last
<1>2. 1 .. 2 = {1, 2} /\ 1 .. 1 = {1}
  OBVIOUS
<1>3. QED
  BY <1>1, <1>2 DEF Writes

LEMMA StepConnTypeOK == ConnTypeOK /\ [ConnNext]_connVars => ConnTypeOK'
<1> USE ConnConstants
<1> SUFFICES ASSUME ConnTypeOK, [ConnNext]_connVars
             PROVE  ConnTypeOK'
  OBVIOUS
<1>1. ASSUME NEW k \in Coroutines, Call(k)
      PROVE  ConnTypeOK'
  BY <1>1 DEF Call, Goto, ConnTypeOK
<1>2. ASSUME NEW k \in Coroutines, Begin(k) \/ ExecuteFirst(k) \/ ExecuteRefused(k)
      PROVE  ConnTypeOK'
  BY <1>2 DEF Begin, ExecuteFirst, ExecuteRefused, WriteBy, Goto, ConnTypeOK
<1>3. ASSUME NEW k \in Coroutines,
             BeginRefused(k) \/ FindNothing(k) \/ Busy(k) \/ Cancel(k) \/ Respawn(k)
      PROVE  ConnTypeOK'
  BY <1>3 DEF BeginRefused, FindNothing, Busy, Cancel, Respawn, Goto, ConnTypeOK
<1>4. ASSUME NEW k \in Coroutines, Execute(k)
      PROVE  ConnTypeOK'
  <2>1. kind[k] \in Kinds
    BY DEF ConnTypeOK
  <2>2. <<k, Last(kind[k])>> \in Coroutines \X {1, 2}
    BY <2>1, WritesType
  <2>3. QED
    BY <1>4, <2>2 DEF Execute, WriteBy, Goto, ConnTypeOK
<1>5. ASSUME NEW k \in Coroutines, EndTransaction(k)
      PROVE  /\ open' \subseteq Conns
             /\ pending' \in [Conns -> SUBSET (Coroutines \X {1, 2})]
             /\ writer' \in Conns \cup {Nobody}
             /\ crossed' \subseteq Coroutines
  <2>1. ConnOf[k] \in Conns /\ pending[ConnOf[k]] \subseteq Coroutines \X {1, 2}
    BY DEF ConnTypeOK
  <2>2. {w[1] : w \in pending[ConnOf[k]]} \subseteq Coroutines
    BY <2>1
  <2>3. QED
    BY <1>5, <2>1, <2>2 DEF EndTransaction, ConnTypeOK
<1>6. ASSUME NEW k \in Coroutines, Commit(k)
      PROVE  ConnTypeOK'
  BY <1>5, <1>6 DEF Commit, Goto, ConnTypeOK
<1>7. ASSUME NEW k \in Coroutines, Rollback(k)
      PROVE  ConnTypeOK'
  BY <1>5, <1>7 DEF Rollback, Goto, ConnTypeOK
<1>8. ASSUME NEW k \in Coroutines, Return(k)
      PROVE  ConnTypeOK'
  BY <1>5, <1>8 DEF Return, Goto, ConnTypeOK
<1>9. CASE UNCHANGED connVars
  BY <1>9 DEF connVars, ConnTypeOK
<1>10. QED
  BY <1>1, <1>2, <1>3, <1>4, <1>6, <1>7, <1>8, <1>9 DEF ConnNext, Step

\* Every variable keeps its type, for any coroutines and connections.
THEOREM ConnTypeCorrect == ConnSpec => []ConnTypeOK
<1>1. ConnInit => ConnTypeOK
  BY ConnConstants DEF ConnInit, ConnTypeOK, Kinds
<1>2. QED
  BY <1>1, StepConnTypeOK, PTL DEF ConnSpec

-----------------------------------------------------------------------------
(* The invariant. *)

\* What the open transaction, and the disk, hold of a coroutine's operation.
Own(k) == {w \in pending[ConnOf[k]] : w[1] = k}
Stored(k) == {w \in disk : w[1] = k}

\* Where an operation is says what of it is in the transaction and on disk.
Progress(k) ==
  /\ pc[k] \in {"called", "begun"} => Own(k) = {}
  /\ pc[k] \in {"begun", "half"} => kind[k] = "block"
  /\ pc[k] = "half" => Own(k) = {<<k, 1>>}
  /\ pc[k] = "written" => Own(k) = Writes(k, kind[k])
  /\ pc[k] = "told" => Committed(k)
  /\ pc[k] \notin {"idle", "told", "gone"} => Stored(k) = {}
  /\ Stored(k) # {} => Committed(k)

ConnIInv == ConnTypeOK /\ \A k \in Coroutines \ crossed : Progress(k)

\* Progress is about what a coroutine has done and where it is.
LEMMA SameProgress ==
  ASSUME NEW k, Progress(k), pc'[k] = pc[k], kind'[k] = kind[k],
         Own(k)' = Own(k), Stored(k)' = Stored(k)
  PROVE  Progress(k)'
<1>1. Committed(k) <=> Writes(k, kind[k]) \ Stored(k) = {}
  BY DEF Committed, Stored, Writes
<1>2. Committed(k)' <=> Writes(k, kind[k]) \ Stored(k) = {}
  BY DEF Committed, Stored, Writes
<1>3. QED
  BY <1>1, <1>2 DEF Progress, Writes

\* Whoever ends a transaction with writes of another crosses it.
LEMMA Uncrossed ==
  ASSUME ConnTypeOK, NEW j \in Coroutines, NEW k \in Coroutines \ {j},
         EndTransaction(j), k \notin crossed'
  PROVE  /\ k \notin crossed
         /\ \A w \in pending[ConnOf[j]] : w[1] # k
         /\ Own(k)' = Own(k)
<1> USE ConnConstants
<1>1. k \notin crossed /\ \A w \in pending[ConnOf[j]] : w[1] # k
  BY DEF EndTransaction
<1>2. pending' = [pending EXCEPT ![ConnOf[j]] = {}] /\ ConnOf[j] \in Conns /\ ConnOf[k] \in Conns
      /\ pending \in [Conns -> SUBSET (Coroutines \X {1, 2})]
  BY DEF EndTransaction, ConnTypeOK
<1>3. Own(k)' = Own(k)
  <2>1. CASE ConnOf[k] = ConnOf[j]
    BY <1>1, <1>2, <2>1 DEF Own
  <2>2. CASE ConnOf[k] # ConnOf[j]
    BY <1>2, <2>2 DEF Own
  <2>3. QED
    BY <2>1, <2>2
<1>4. QED
  BY <1>1, <1>3

\* A step of another coroutine leaves one it does not cross as it was.
LEMMA OthersStep ==
  ASSUME ConnIInv, NEW j \in Coroutines, NEW k \in Coroutines \ {j}, k \notin crossed',
         Call(j) \/ Step(j) \/ Cancel(j) \/ Respawn(j)
  PROVE  Progress(k)'
<1> USE ConnConstants
<1>0. ConnTypeOK /\ ConnOf[j] \in Conns /\ ConnOf[k] \in Conns
      /\ pending \in [Conns -> SUBSET (Coroutines \X {1, 2})]
  BY DEF ConnIInv, ConnTypeOK
<1>1. pc'[k] = pc[k] /\ kind'[k] = kind[k]
  BY <1>0 DEF ConnTypeOK, Call, Step, Cancel, Respawn, Begin, BeginRefused, FindNothing,
              ExecuteFirst, Execute, ExecuteRefused, Busy, Commit, Rollback, Return, Goto
<1>2. ASSUME NEW done, WriteBy(ConnOf[j], done), \A w \in done : w[1] = j
      PROVE  Own(k)' = Own(k)
  <2>1. pending' = [pending EXCEPT ![ConnOf[j]] = @ \cup done]
    BY <1>2 DEF WriteBy
  <2>2. CASE ConnOf[k] = ConnOf[j]
    BY <1>0, <1>2, <2>1, <2>2 DEF Own
  <2>3. CASE ConnOf[k] # ConnOf[j]
    BY <1>0, <2>1, <2>3 DEF Own
  <2>4. QED
    BY <2>2, <2>3
<1>3. CASE Call(j)
  <2>1. k \notin crossed
    BY <1>3 DEF Call
  <2>2. Stored(k)' = Stored(k)
    BY <1>3 DEF Call, Stored
  <2>3. Own(k)' = Own(k)
    <3>1. pending' = [pending EXCEPT ![ConnOf[j]] = {w \in @ : w[1] # j}]
      BY <1>3 DEF Call
    <3>2. CASE ConnOf[k] = ConnOf[j]
      BY <1>0, <3>1, <3>2 DEF Own
    <3>3. CASE ConnOf[k] # ConnOf[j]
      BY <1>0, <3>1, <3>3 DEF Own
    <3>4. QED
      BY <3>2, <3>3
  <2>4. QED
    BY <1>1, <2>1, <2>2, <2>3, SameProgress DEF ConnIInv
<1>4. CASE UNCHANGED <<disk, crossed>> /\ Own(k)' = Own(k)
  <2>1. Stored(k)' = Stored(k) /\ k \notin crossed
    BY <1>4 DEF Stored
  <2>2. QED
    BY <1>1, <1>4, <2>1, SameProgress DEF ConnIInv
<1>5. CASE Begin(j) \/ ExecuteRefused(j)
  BY <1>2, <1>4, <1>5 DEF Begin, ExecuteRefused
<1>6. CASE ExecuteFirst(j) \/ Execute(j)
  BY <1>2, <1>4, <1>6 DEF ExecuteFirst, Execute
<1>7. CASE BeginRefused(j) \/ FindNothing(j) \/ Busy(j) \/ Cancel(j) \/ Respawn(j)
  BY <1>4, <1>7 DEF BeginRefused, FindNothing, Busy, Cancel, Respawn, Own
<1>8. CASE Commit(j)
  <2>1. EndTransaction(j) /\ disk' = disk \cup pending[ConnOf[j]]
    BY <1>8 DEF Commit
  <2>2. k \notin crossed /\ Own(k)' = Own(k) /\ \A w \in pending[ConnOf[j]] : w[1] # k
    BY <1>0, <2>1, Uncrossed
  <2>3. Stored(k)' = Stored(k)
    BY <2>1, <2>2 DEF Stored
  <2>4. QED
    BY <1>1, <2>2, <2>3, SameProgress DEF ConnIInv
<1>9. CASE EndTransaction(j) /\ UNCHANGED disk
  <2>1. k \notin crossed /\ Own(k)' = Own(k)
    BY <1>0, <1>9, Uncrossed
  <2>2. Stored(k)' = Stored(k)
    BY <1>9 DEF Stored
  <2>3. QED
    BY <1>1, <2>1, <2>2, SameProgress DEF ConnIInv
<1>10. CASE Rollback(j)
  BY <1>9, <1>10 DEF Rollback
<1>11. CASE Return(j)
  BY <1>4, <1>9, <1>11 DEF Return, Own
<1>12. QED
  BY <1>3, <1>5, <1>6, <1>7, <1>8, <1>10, <1>11 DEF Step

\* Its own steps.
LEMMA OwnStep ==
  ASSUME ConnIInv, NEW k \in Coroutines, k \notin crossed',
         Call(k) \/ Step(k) \/ Cancel(k) \/ Respawn(k)
  PROVE  Progress(k)'
<1> USE ConnConstants
<1> DEFINE c == ConnOf[k]
<1>0. /\ c \in Conns /\ ConnTypeOK /\ kind[k] \in Kinds
      /\ pc \in [Coroutines -> {"idle", "called", "begun", "half", "written",
                                "raising", "told", "failed", "gone"}]
      /\ kind \in [Coroutines -> Kinds]
      /\ pending \in [Conns -> SUBSET (Coroutines \X {1, 2})]
  BY DEF ConnIInv, ConnTypeOK
<1>1. CASE Call(k)
  <2>1. pc'[k] = "called"
    BY <1>0, <1>1 DEF Call, Goto
  <2>2. Own(k)' = {}
    BY <1>0, <1>1 DEF Call, Own
  <2>3. Stored(k)' = {}
    BY <1>1 DEF Call, Stored
  <2>4. QED
    BY <2>1, <2>2, <2>3 DEF Progress
<1>2. k \in crossed => Call(k)
  BY DEF Step, Cancel, Respawn, Begin, BeginRefused, FindNothing, ExecuteFirst, Execute,
         ExecuteRefused, Busy, Commit, Rollback, Return, EndTransaction
<1> SUFFICES ASSUME ~Call(k) PROVE Progress(k)'
  BY <1>1
<1>3. Progress(k)
  BY <1>2 DEF ConnIInv
<1>4. ASSUME UNCHANGED kind
      PROVE  Writes(k, kind[k])' = Writes(k, kind[k])
  BY <1>4 DEF Writes
<1>5. ASSUME UNCHANGED disk, UNCHANGED kind
      PROVE  Stored(k)' = Stored(k) /\ (Committed(k)' <=> Committed(k))
  BY <1>5 DEF Stored, Committed, Writes
<1>6. CASE Begin(k)
  <2>1. pc'[k] = "begun" /\ pc[k] = "called" /\ kind[k] = "block" /\ UNCHANGED <<kind, disk>>
    BY <1>0, <1>6 DEF Begin, Goto
  <2>2. Own(k)' = Own(k)
    BY <1>0, <1>6 DEF Begin, WriteBy, Own
  <2>3. QED
    BY <1>3, <1>5, <2>1, <2>2 DEF Progress
<1>7. CASE BeginRefused(k) \/ FindNothing(k) \/ Busy(k) \/ ExecuteRefused(k)
  <2>1. pc'[k] \in {"raising", "failed"} /\ pc[k] \in {"called", "begun", "half"}
        /\ UNCHANGED <<kind, disk>>
    BY <1>0, <1>7 DEF BeginRefused, FindNothing, Busy, ExecuteRefused, Goto
  <2>2. QED
    BY <1>3, <1>5, <2>1 DEF Progress
<1>8. CASE ExecuteFirst(k)
  <2>1. pc'[k] = "half" /\ pc[k] = "begun" /\ UNCHANGED <<kind, disk>>
        /\ pending' = [pending EXCEPT ![c] = @ \cup {<<k, 1>>}]
    BY <1>0, <1>8 DEF ExecuteFirst, WriteBy, Goto
  <2>2. Own(k)' = Own(k) \cup {<<k, 1>>}
    BY <1>0, <2>1 DEF Own
  <2>3. QED
    BY <1>3, <1>5, <2>1, <2>2 DEF Progress
<1>9. CASE Execute(k)
  <2>1. pc'[k] = "written" /\ UNCHANGED <<kind, disk>>
        /\ pending' = [pending EXCEPT ![c] = @ \cup {<<k, Last(kind[k])>>}]
        /\ (pc[k] = "half" \/ (pc[k] = "called" /\ kind[k] # "block"))
    BY <1>0, <1>9 DEF Execute, WriteBy, Goto
  <2>2. Own(k)' = Own(k) \cup {<<k, Last(kind[k])>>}
    BY <1>0, <2>1 DEF Own
  <2>3. Own(k)' = Writes(k, kind[k])
    <3>1. CASE pc[k] = "half"
      BY <1>0, <1>3, <2>2, <3>1, WritesType DEF Progress, Last
    <3>2. CASE pc[k] = "called" /\ kind[k] # "block"
      BY <1>0, <1>3, <2>2, <3>2, WritesType DEF Progress, Last
    <3>3. QED
      BY <2>1, <3>1, <3>2
  <2>4. QED
    BY <1>3, <1>4, <1>5, <2>1, <2>3 DEF Progress
<1>10. CASE Commit(k)
  <2>1. pc'[k] = "told" /\ pc[k] = "written" /\ UNCHANGED kind
        /\ disk' = disk \cup pending[c]
    BY <1>0, <1>10 DEF Commit, Goto
  <2>2. Writes(k, kind[k]) \subseteq disk'
    BY <1>3, <2>1 DEF Progress, Own
  <2>3. Committed(k)'
    BY <1>4, <2>1, <2>2 DEF Committed
  <2>4. QED
    BY <2>1, <2>3 DEF Progress
<1>11. CASE Rollback(k)
  <2>1. pc'[k] = "failed" /\ pc[k] = "raising" /\ UNCHANGED <<kind, disk>>
    BY <1>0, <1>11 DEF Rollback, Goto
  <2>2. QED
    BY <1>3, <1>5, <2>1 DEF Progress
<1>12. CASE Return(k) \/ Cancel(k) \/ Respawn(k)
  <2>1. pc'[k] \in {"idle", "gone"} /\ UNCHANGED <<kind, disk>>
    BY <1>0, <1>12 DEF Return, Cancel, Respawn, Goto
  <2>2. QED
    BY <1>3, <1>5, <2>1 DEF Progress
<1>13. QED
  BY <1>6, <1>7, <1>8, <1>9, <1>10, <1>11, <1>12 DEF Step

\* The inductive invariant: what an operation nobody crosses has executed is
\* in the open transaction, and on disk only when it is done.
THEOREM ConnInvariance == ConnSpec => []ConnIInv
<1>1. ConnInit => ConnIInv
  <2> SUFFICES ASSUME ConnInit PROVE ConnIInv
    OBVIOUS
  <2>1. ConnTypeOK
    BY ConnConstants DEF ConnInit, ConnTypeOK, Kinds
  <2>2. ASSUME NEW k \in Coroutines
        PROVE  Progress(k)
    BY <2>2 DEF ConnInit, Progress, Stored
  <2>3. QED
    BY <2>1, <2>2 DEF ConnIInv
<1>2. ConnIInv /\ [ConnNext]_connVars => ConnIInv'
  <2> SUFFICES ASSUME ConnIInv, [ConnNext]_connVars
               PROVE  ConnIInv'
    OBVIOUS
  <2>1. ConnTypeOK'
    BY StepConnTypeOK DEF ConnIInv
  <2>2. ASSUME NEW k \in Coroutines, k \notin crossed'
        PROVE  Progress(k)'
    <3>1. CASE UNCHANGED connVars
      <4>1. k \notin crossed /\ pc'[k] = pc[k] /\ kind'[k] = kind[k]
            /\ Own(k)' = Own(k) /\ Stored(k)' = Stored(k)
        BY <2>2, <3>1 DEF connVars, Own, Stored
      <4>2. QED
        BY <2>2, <4>1, SameProgress DEF ConnIInv
    <3>2. CASE ConnNext
      BY <2>2, <3>2, OwnStep, OthersStep DEF ConnNext
    <3>3. QED
      BY <3>1, <3>2
  <2>3. QED
    BY <2>1, <2>2 DEF ConnIInv
<1>3. QED
  BY <1>1, <1>2, PTL DEF ConnSpec

\* An operation into whose transaction no other coroutine's commit or rollback
\* has fallen is on disk when it is reported done, leaves nothing there when it
\* is not, and is never half there, however many coroutines share connections.
THEOREM UncrossedAtomicity == ConnSpec => []UncrossedWritesAreAtomic
<1>1. ConnIInv => UncrossedWritesAreAtomic
  BY DEF ConnIInv, Progress, Stored, UncrossedWritesAreAtomic
<1>2. QED
  BY <1>1, ConnInvariance, PTL

\* Nobody crosses the writes of a connection that only one coroutine uses.
THEOREM PrivateIsUncrossed == ConnSpec => [](Private \cap crossed = {})
<1> USE ConnConstants
<1> DEFINE Local == /\ \A c \in Conns : \A w \in pending[c] : ConnOf[w[1]] = c
                    /\ Private \cap crossed = {}
<1>1. ConnInit => Local
  BY DEF ConnInit
<1>2. ConnTypeOK /\ Local /\ [ConnNext]_connVars => Local'
  <2> SUFFICES ASSUME ConnTypeOK, Local, [ConnNext]_connVars
               PROVE  Local'
    OBVIOUS
  <2>0. Private' = Private
    BY DEF Private, Sharers
  <2>1. ASSUME NEW k \in Coroutines, NEW done, WriteBy(ConnOf[k], done),
               \A w \in done : w[1] = k, UNCHANGED crossed
        PROVE  Local'
    BY <2>0, <2>1 DEF WriteBy, ConnTypeOK
  <2>2. ASSUME NEW k \in Coroutines, EndTransaction(k)
        PROVE  Local'
    <3>1. \A w \in pending[ConnOf[k]] : w[1] \in Coroutines /\ ConnOf[w[1]] = ConnOf[k]
      BY DEF ConnTypeOK
    <3>2. \A j \in Private : ConnOf[k] = ConnOf[j] => j = k
      BY DEF Private, Sharers
    <3>3. Private \cap crossed' = {}
      BY <2>2, <3>1, <3>2 DEF EndTransaction
    <3>4. QED
      BY <2>0, <2>2, <3>3 DEF EndTransaction, ConnTypeOK
  <2>3. CASE UNCHANGED <<pending, crossed>>
    BY <2>0, <2>3
  <2>4. ASSUME NEW k \in Coroutines, Call(k)
        PROVE  Local'
    BY <2>0, <2>4 DEF Call, ConnTypeOK
  <2>5. ASSUME NEW k \in Coroutines, Begin(k) \/ ExecuteRefused(k)
        PROVE  Local'
    BY <2>1, <2>5 DEF Begin, ExecuteRefused
  <2>6. ASSUME NEW k \in Coroutines, ExecuteFirst(k) \/ Execute(k)
        PROVE  Local'
    BY <2>1, <2>6 DEF ExecuteFirst, Execute
  <2>7. ASSUME NEW k \in Coroutines, Commit(k) \/ Rollback(k) \/ Return(k)
        PROVE  Local'
    BY <2>2, <2>3, <2>7 DEF Commit, Rollback, Return
  <2>8. ASSUME NEW k \in Coroutines,
               BeginRefused(k) \/ FindNothing(k) \/ Busy(k) \/ Cancel(k) \/ Respawn(k)
        PROVE  Local'
    BY <2>3, <2>8 DEF BeginRefused, FindNothing, Busy, Cancel, Respawn
  <2>9. QED
    BY <2>3, <2>4, <2>5, <2>6, <2>7, <2>8 DEF ConnNext, Step, connVars
<1>3. Local => Private \cap crossed = {}
  OBVIOUS
<1> HIDE DEF Local
<1>4. QED
  BY <1>1, <1>2, <1>3, ConnTypeCorrect, PTL DEF ConnSpec

=============================================================================
