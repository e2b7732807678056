----------------------------- MODULE Supervisor ------------------------------
(***************************************************************************)
(* The loop supervisor of the API process: discovery always runs, the      *)
(* gate, tailor and apply loops run when their automation mode permits,    *)
(* and a watcher reconciles them with the modes when it is notified or its *)
(* timer fires.                                                            *)
(*                                                                         *)
(* Everything runs in one event loop, so an action is the code between two *)
(* awaits.  The loops themselves catch what a cycle raises and never       *)
(* return; a crash is an exception that escapes one.                       *)
(***************************************************************************)
EXTENDS Naturals, FiniteSets

CONSTANTS
  Requests,    \* requests that flip the autonomous toggle
  MaxFlips,    \* bound on writes of the modes
  MaxCrashes   \* bound on crashes of loops and failed reads of the modes

ASSUME ConstantsAssumption == MaxFlips \in Nat /\ MaxCrashes \in Nat

\* The order of gated_factories, AUTOMATION_STAGE_KEYS and of the toggle.
Stage == [i \in 1 .. 3 |-> IF i = 1 THEN "gate" ELSE IF i = 2 THEN "tailor" ELSE "apply"]
Stages == {"gate", "tailor", "apply"}
Loops == Stages \cup {"discovery"}

VARIABLES
  active,     \* stages whose stored mode is autonomous or both
  request,    \* toggle requests in progress
  event,      \* _mode_changed is set
  tasks,      \* the keys of _tasks
  live,       \* what the task of each loop does
  watcher,    \* where the watcher is, and the modes it has read
  lifespan,   \* where the process is between startup and shutdown
  gathered,   \* the tasks that stop waits for
  deaf,       \* history: a mode changed unannounced, or a read failed
  swallowed,  \* history: stop cancelled the watcher inside _cancel_task
  flips, crashes

vars == <<active, request, event, tasks, live, watcher, lifespan, gathered,
          deaf, swallowed, flips, crashes>>

Request == [pc : {"idle", "writing", "notifying"}, on : BOOLEAN, next : 1 .. 3]
Idle == [pc |-> "idle", on |-> FALSE, next |-> 1]

Watcher == [pc : {"off", "waiting", "reading", "awaiting", "resting", "backoff"},
            at : 1 .. 4,             \* the stage it reads or reconciles next
            seen : SUBSET Stages]    \* stages it read as active
Off == [pc |-> "off", at |-> 1, seen |-> {}]
Waiting == [Off EXCEPT !.pc = "waiting"]
Reading == [Off EXCEPT !.pc = "reading"]

TypeOK ==
  /\ active \subseteq Stages
  /\ request \in [Requests -> Request]
  /\ event \in BOOLEAN
  /\ tasks \subseteq Loops \cup {"mode_watcher"}
  /\ live \in [Loops -> {"none", "running", "backoff", "ending"}]
  /\ watcher \in Watcher
  /\ lifespan \in {"down", "starting", "serving", "draining", "closed"}
  /\ gathered \subseteq Loops \cup {"mode_watcher"}
  /\ deaf \in BOOLEAN
  /\ swallowed \in BOOLEAN
  /\ flips \in 0 .. MaxFlips
  /\ crashes \in 0 .. MaxCrashes

\* Before the process starts; the stored modes are what they were.
Init ==
  /\ active \in {{}, Stages}
  /\ request = [q \in Requests |-> Idle]
  /\ event = FALSE
  /\ tasks = {}
  /\ live = [l \in Loops |-> "none"]
  /\ watcher = Off
  /\ lifespan = "down"
  /\ gathered = {}
  /\ deaf = FALSE
  /\ swallowed = FALSE
  /\ flips = 0
  /\ crashes = 0

Stopped == lifespan \in {"draining", "closed"}

-----------------------------------------------------------------------------
(* Tasks. *)

\* _spawn: the task of a stopped supervisor ends before its first cycle.
Spawned(S) == [l \in Loops |-> IF l \in S /\ ~Stopped THEN "running" ELSE live[l]]

\* task.cancel(): the loop ends when it has cleaned up.
Cancelled(S) ==
  [l \in Loops |-> IF l \in S /\ live[l] # "none" THEN "ending" ELSE live[l]]

LoopCrashes(l) ==
  /\ crashes < MaxCrashes
  /\ live[l] = "running"
  /\ live' = [live EXCEPT ![l] = "backoff"]
  /\ crashes' = crashes + 1
  /\ UNCHANGED <<active, request, event, tasks, watcher, lifespan, gathered,
                 deaf, swallowed, flips>>

LoopRestarts(l) ==
  /\ live[l] = "backoff"
  /\ live' = [live EXCEPT ![l] = "running"]
  /\ UNCHANGED <<active, request, event, tasks, watcher, lifespan, gathered,
                 deaf, swallowed, flips, crashes>>

LoopEnds(l) ==
  /\ live[l] = "ending"
  /\ live' = [live EXCEPT ![l] = "none"]
  /\ UNCHANGED <<active, request, event, tasks, watcher, lifespan, gathered,
                 deaf, swallowed, flips, crashes>>

-----------------------------------------------------------------------------
(* The watcher. *)

\* start: discovery is spawned, then the first reconciliation reads the modes.
Start ==
  /\ lifespan = "down"
  /\ lifespan' = "starting"
  /\ tasks' = {"discovery"}
  /\ live' = Spawned({"discovery"})
  /\ watcher' = Reading
  /\ deaf' = FALSE
  /\ UNCHANGED <<active, request, event, gathered, swallowed, flips, crashes>>

\* The event is set, and cleared before anything is read, or the timer fires.
Wake ==
  /\ watcher.pc = "waiting"
  /\ watcher' = Reading
  /\ event' = FALSE
  /\ deaf' = FALSE
  /\ UNCHANGED <<active, request, tasks, live, lifespan, gathered,
                 swallowed, flips, crashes>>

\* The next step of a reconciliation that has read the modes: the loops up to
\* the first that must be cancelled are started, that one is cancelled and
\* awaited; if none is left the watcher rests, or start spawns it.
Reconcile(seen, from) ==
  LET surplus == {i \in from .. 3 : Stage[i] \in tasks \ seen}
      stop == IF surplus = {} THEN 4 ELSE CHOOSE i \in surplus : \A k \in surplus : i <= k
      added == {Stage[i] : i \in from .. (stop - 1)} \cap (seen \ tasks)
      done == stop = 4
      first == lifespan = "starting"
  IN /\ live' = IF done THEN Spawned(added)
                ELSE [Spawned(added) EXCEPT ![Stage[stop]] =
                        IF @ = "none" THEN "none" ELSE "ending"]
     /\ tasks' = IF done THEN tasks \cup added \cup {"mode_watcher"}
                 ELSE (tasks \cup added) \ {Stage[stop]}
     /\ watcher' = IF ~done THEN [pc |-> "awaiting", at |-> stop, seen |-> seen]
                   ELSE IF first THEN Waiting
                   ELSE [Off EXCEPT !.pc = "resting"]
     /\ lifespan' = IF first /\ done THEN "serving" ELSE lifespan

\* _read_stage_modes: one query for each stage, then on to the first step.
ReadMode ==
  LET seen == IF Stage[watcher.at] \in active
              THEN watcher.seen \cup {Stage[watcher.at]} ELSE watcher.seen
  IN /\ watcher.pc = "reading"
     /\ IF watcher.at < 3
        THEN /\ watcher' = [watcher EXCEPT !.at = @ + 1, !.seen = seen]
             /\ UNCHANGED <<tasks, live, lifespan>>
        ELSE Reconcile(seen, 1)
     /\ UNCHANGED <<active, request, event, gathered, deaf, swallowed, flips, crashes>>

\* Mutant of AwaitOver: the cancelled loop is not awaited.
AwaitNothing ==
  /\ watcher.pc = "awaiting"
  /\ Reconcile(watcher.seen, watcher.at + 1)
  /\ UNCHANGED <<active, request, event, gathered, deaf, swallowed, flips, crashes>>

\* The end of _cancel_task: however the loop ended.
AwaitOver ==
  /\ watcher.pc = "awaiting"
  /\ live[Stage[watcher.at]] = "none"
  /\ Reconcile(watcher.seen, watcher.at + 1)
  /\ UNCHANGED <<active, request, event, gathered, deaf, swallowed, flips, crashes>>

\* A failed read restarts the watcher, with what it was notified of forgotten;
\* during start it ends the process.
ReadFails ==
  /\ crashes < MaxCrashes
  /\ watcher.pc = "reading"
  /\ crashes' = crashes + 1
  /\ IF lifespan = "starting"
     THEN /\ lifespan' = "down"
          /\ tasks' = {}
          /\ live' = [l \in Loops |-> "none"]
          /\ watcher' = Off
          /\ UNCHANGED deaf
     ELSE /\ watcher' = [Off EXCEPT !.pc = "backoff"]
          /\ deaf' = TRUE
          /\ UNCHANGED <<lifespan, tasks, live>>
  /\ UNCHANGED <<active, request, event, gathered, swallowed, flips>>

\* Mutant of PauseEnds: a watcher that crashed is not started again.
PauseEndsUnlessCrashed ==
  /\ watcher.pc = "resting"
  /\ watcher' = Waiting
  /\ UNCHANGED <<active, request, event, tasks, live, lifespan, gathered, deaf,
                 swallowed, flips, crashes>>

\* The pause after a reconciliation or a crash; a stopped one is not restarted.
PauseEnds ==
  /\ watcher.pc \in {"resting", "backoff"}
  /\ watcher' = IF watcher.pc = "backoff" /\ Stopped THEN Off ELSE Waiting
  /\ UNCHANGED <<active, request, event, tasks, live, lifespan, gathered, deaf,
                 swallowed, flips, crashes>>

-----------------------------------------------------------------------------
(* The API. *)

\* POST /api/settings/autonomous-mode: three commits, then the notification.
BeginToggle(q, on) ==
  /\ lifespan = "serving"
  /\ flips < MaxFlips
  /\ request[q].pc = "idle"
  /\ request' = [request EXCEPT ![q] = [pc |-> "writing", on |-> on, next |-> 1]]
  /\ flips' = flips + 1
  /\ UNCHANGED <<active, event, tasks, live, watcher, lifespan, gathered, deaf,
                 swallowed, crashes>>

SetAutomationMode(q) ==
  LET s == Stage[request[q].next]
  IN /\ request[q].pc = "writing"
     /\ active' = IF request[q].on THEN active \cup {s} ELSE active \ {s}
     /\ request' = IF request[q].next < 3
                   THEN [request EXCEPT ![q].next = @ + 1]
                   ELSE [request EXCEPT ![q].pc = "notifying"]
     /\ UNCHANGED <<event, tasks, live, watcher, lifespan, gathered, deaf,
                    swallowed, flips, crashes>>

NotifyModeChanged(q) ==
  /\ request[q].pc = "notifying"
  /\ request' = [request EXCEPT ![q] = Idle]
  /\ event' = TRUE
  /\ UNCHANGED <<active, tasks, live, watcher, lifespan, gathered, deaf,
                 swallowed, flips, crashes>>

\* PATCH /api/system-settings/automation: the tailor mode, unannounced.
PatchAutomation ==
  /\ lifespan = "serving"
  /\ flips < MaxFlips
  /\ \E on \in BOOLEAN :
       active' = IF on THEN active \cup {"tailor"} ELSE active \ {"tailor"}
  /\ deaf' = TRUE
  /\ flips' = flips + 1
  /\ UNCHANGED <<request, event, tasks, live, watcher, lifespan, gathered,
                 swallowed, crashes>>

-----------------------------------------------------------------------------
(* Shutdown. *)

\* Mutant of Stop: the watcher is not cancelled.
StopLoopsOnly ==
  /\ lifespan = "serving"
  /\ \A q \in Requests : request[q].pc = "idle"
  /\ lifespan' = "draining"
  /\ gathered' = tasks
  /\ live' = Cancelled(tasks)
  /\ swallowed' = (watcher.pc = "awaiting")
  /\ UNCHANGED <<active, request, event, tasks, watcher, deaf, flips, crashes>>

\* The lifespan hook calls stop when no request is left: every registered task
\* is cancelled.  A watcher inside _cancel_task passes the cancellation on to
\* the loop it awaits, swallows its own, and goes on.
Stop ==
  /\ lifespan = "serving"
  /\ \A q \in Requests : request[q].pc = "idle"
  /\ lifespan' = "draining"
  /\ gathered' = tasks
  /\ live' = Cancelled(tasks)
  /\ watcher' = IF watcher.pc = "awaiting" THEN watcher ELSE Off
  /\ swallowed' = (watcher.pc = "awaiting")
  /\ UNCHANGED <<active, request, event, tasks, deaf, flips, crashes>>

\* Mutant of Drained: the watcher is not waited for.
DrainedButWatcher ==
  /\ lifespan = "draining"
  /\ \A l \in gathered \ {"mode_watcher"} : live[l] = "none"
  /\ lifespan' = "closed"
  /\ tasks' = {}
  /\ UNCHANGED <<active, request, event, live, watcher, gathered, deaf,
                 swallowed, flips, crashes>>

\* gather returns; the tasks are forgotten and the connection is closed.
Drained ==
  /\ lifespan = "draining"
  /\ \A l \in gathered \ {"mode_watcher"} : live[l] = "none"
  /\ watcher.pc = "off"
  /\ lifespan' = "closed"
  /\ tasks' = {}
  /\ UNCHANGED <<active, request, event, live, watcher, gathered, deaf,
                 swallowed, flips, crashes>>

-----------------------------------------------------------------------------

WatcherStep == Wake \/ ReadMode \/ AwaitOver \/ PauseEnds

Next ==
  \/ Start \/ WatcherStep \/ ReadFails \/ PatchAutomation \/ Stop \/ Drained
  \/ \E l \in Loops : LoopCrashes(l) \/ LoopRestarts(l) \/ LoopEnds(l)
  \/ \E q \in Requests :
       \/ \E on \in BOOLEAN : BeginToggle(q, on)
       \/ SetAutomationMode(q)
       \/ NotifyModeChanged(q)

Spec == Init /\ [][Next]_vars

\* The event loop runs every coroutine whose await is over: reads and writes
\* return, timers fire, a cancelled loop cleans up, a request is served.
FairSpec ==
  /\ Spec
  /\ WF_vars(Start) /\ WF_vars(WatcherStep) /\ WF_vars(Drained)
  /\ \A l \in Loops : WF_vars(LoopRestarts(l)) /\ WF_vars(LoopEnds(l))
  /\ \A q \in Requests : WF_vars(SetAutomationMode(q) \/ NotifyModeChanged(q))

-----------------------------------------------------------------------------
(* Properties. *)

\* A stage never has two loops: the next one starts when the cancelled one has
\* ended, however long its cleanup takes.
NoTwinLoop ==
  [][\A l \in Loops : live[l] = "ending" => live'[l] \in {"ending", "none"}]_vars

\* The shared connection is closed when no loop and no watcher can use it.
LoopsEndBeforeClose ==
  lifespan = "closed" => watcher.pc = "off" /\ \A l \in Loops : live[l] = "none"

\* A stage whose mode permits it is running, and one whose mode does not is
\* not, sooner or later: notified or not, and whatever crashes.
LoopsFollowModes ==
  \A s \in Stages :
    /\ (lifespan = "serving" /\ s \in active) ~>
         (live[s] = "running" \/ s \notin active \/ lifespan # "serving")
    /\ (lifespan = "serving" /\ s \notin active) ~>
         (live[s] = "none" \/ s \in active \/ lifespan # "serving")

\* Shutdown ends, unless it caught the watcher while it awaited a loop.
ShutdownEnds == (lifespan = "draining" /\ ~swallowed) ~> lifespan = "closed"

=============================================================================
