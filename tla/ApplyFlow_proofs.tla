--------------------------- MODULE ApplyFlow_proofs ---------------------------
(***************************************************************************)
(* Proofs about ApplyFlow, for every number of jobs, workers and fields    *)
(* and every bound.                                                        *)
(*                                                                         *)
(* Three facts carry the properties: what was doubtful once is still       *)
(* deferred or weak when the gate looks; an attempt that was not led       *)
(* astray has the tool on its own tab; and the ledger of a job balances:   *)
(* what the employer has, what a human may still send and what the open    *)
(* run may still send are one, and one more for each application that was  *)
(* asked for again or that no record tells of.                             *)
(***************************************************************************)
EXTENDS ApplyFlow, TLAPS

-----------------------------------------------------------------------------
(* The invariant. *)

\* An attempt has a job, and what was left to the human once is still recorded.
AttemptIsSound(a) ==
  /\ a.pc # "idle" => a.job \in Jobs
  /\ a.doubts \subseteq a.deferred \cup a.weak
  /\ a.outcome # "none" <=> a.pc = "recording"
  /\ a.sent # "nothing" => a.pc \in {"reading", "recording"}
  /\ a.pc = "recording" => (a.outcome = "SUBMITTED" <=> a.sent = "seen")
  /\ a.finisher = "COMPLETE" => a.pc = "deciding"

\* While its agent is at work, the tool is on the worker's tab.
OnOwnTab(w, a, tab) ==
  a.pc \in {"starting", "finishing"} /\ ~a.astray => tab = w

\* What the agent said of the form is true of the worker's tab.
SaidIsTrue(a, filledIn) ==
  ~a.astray =>
    /\ a.pc = "deciding" /\ a.finisher = "COMPLETE" /\ a.filled =>
         Fields \subseteq filledIn \cup a.deferred
    /\ a.pc = "submitting" => Fields \subseteq filledIn

\* A claim is that of a running run, and its worker is at work on the job.
ClaimsRun ==
  \A j \in Jobs : owner[j] # NoOne =>
    /\ run[j] = "running"
    /\ att[owner[j]].job = j /\ att[owner[j]].pc # "idle"

\* The run may still send an application or make a handoff.
IsOpen(j) ==
  \/ run[j] = "ready"
  \/ run[j] = "running" /\ ~(owner[j] # NoOne /\ SawIt(att[owner[j]]))

Opens(j) == IF IsOpen(j) THEN 1 ELSE 0

Balanced(j) == received[j] + handoffs[j] + Opens(j) <= 1 + again[j] + unnoticed[j]

Attempts ==
  \A w \in Workers : /\ AttemptIsSound(att[w])
                     /\ OnOwnTab(w, att[w], active)
                     /\ SaidIsTrue(att[w], form[w])

Ledger == \A j \in Jobs : Balanced(j)

IInv == TypeOK /\ Attempts /\ ClaimsRun /\ Ledger

-----------------------------------------------------------------------------
(* Constants and records. *)

LEMMA RestType == Rest \in Attempt /\ AttemptIsSound(Rest)
BY ConstantsAssumption DEF Rest, Attempt, AttemptIsSound, Failures

LEMMA TabTypes ==
  /\ Elsewhere \notin Tabs /\ NoOne \notin Workers
  /\ \A w \in Workers : w \in Tabs /\ w \notin Jobs
  /\ \A j \in Jobs : j \in Tabs
BY ConstantsAssumption DEF Tabs

LEMMA CounterTypes == 0 \in Nat /\ 0 \in 0 .. RequestLimit
BY ConstantsAssumption

LEMMA InitIInv == Init => IInv
<1> SUFFICES ASSUME Init
             PROVE  IInv
  OBVIOUS
<1>1. TypeOK
  BY RestType, ConstantsAssumption DEF Init, TypeOK
<1>2. Attempts
  BY RestType DEF Init, Attempts, OnOwnTab, SaidIsTrue, Rest
<1>3. Ledger
  <2> SUFFICES ASSUME NEW j \in Jobs
               PROVE  Balanced(j)
    BY DEF Ledger
  <2>1. received[j] = 0 /\ handoffs[j] = 0 /\ again[j] = 0 /\ unnoticed[j] = 0
    BY DEF Init
  <2>2. QED
    BY <2>1 DEF Balanced, Opens
<1>4. ClaimsRun
  BY DEF Init, ClaimsRun
<1>5. QED
  BY <1>1, <1>2, <1>3, <1>4 DEF IInv

LEMMA LedgerTypes ==
  ASSUME TypeOK, NEW j \in Jobs
  PROVE  /\ received[j] \in Nat /\ handoffs[j] \in Nat
         /\ again[j] \in Nat /\ unnoticed[j] \in Nat
         /\ Opens(j) \in {0, 1}
BY DEF TypeOK, Opens

\* The ledger of a job balances when only its run may have closed.
LEMMA BalanceKept ==
  ASSUME IInv, NEW j \in Jobs,
         received'[j] = received[j], handoffs'[j] = handoffs[j],
         again'[j] = again[j], unnoticed'[j] = unnoticed[j],
         run'[j] = run[j], owner'[j] = owner[j],
         owner[j] # NoOne => (SawIt(att[owner[j]]) => SawIt(att'[owner[j]]))
  PROVE  Balanced(j)'
<1>1. Balanced(j)
  BY DEF IInv, Ledger
<1>2. IsOpen(j)' => IsOpen(j)
  BY DEF IsOpen
<1>3. Opens(j)' <= Opens(j) /\ Opens(j)' \in {0, 1}
  BY <1>2 DEF Opens
<1>4. QED
  BY <1>1, <1>3, LedgerTypes DEF Balanced, IInv

-----------------------------------------------------------------------------
(* A worker's own moves. *)

\* The attempt of w becomes a, and forms are at most filled in further for the
\* others; nothing else changes.
LEMMA OwnMove ==
  ASSUME IInv, NEW w \in Workers, NEW a \in Attempt,
         att' = [att EXCEPT ![w] = a],
         form' \in [Tabs -> SUBSET Fields],
         \A v \in Workers \ {w} : form[v] \subseteq form'[v],
         UNCHANGED <<records, outside, active, left, faults>>,
         AttemptIsSound(a), att[w].pc # "idle", a.pc # "idle", a.job = att[w].job,
         OnOwnTab(w, a, active), SaidIsTrue(a, form'[w]),
         SawIt(att[w]) => SawIt(a)
  PROVE  IInv'
<1>1. \A v \in Workers : att'[v] = IF v = w THEN a ELSE att[v]
  BY DEF IInv, TypeOK
<1>2. TypeOK'
  BY DEF IInv, TypeOK, records, outside
<1>3. Attempts'
  <2> SUFFICES ASSUME NEW v \in Workers
               PROVE  AttemptIsSound(att'[v]) /\ OnOwnTab(v, att'[v], active')
                      /\ SaidIsTrue(att'[v], form'[v])
    BY DEF Attempts
  <2>1. CASE v = w
    BY <1>1, <2>1
  <2>2. CASE v # w
    <3>1. att'[v] = att[v] /\ active' = active /\ form[v] \subseteq form'[v]
      BY <1>1, <2>2
    <3>2. AttemptIsSound(att[v]) /\ OnOwnTab(v, att[v], active) /\ SaidIsTrue(att[v], form[v])
      BY DEF IInv, Attempts
    <3>3. SaidIsTrue(att[v], form'[v])
      BY <3>1, <3>2 DEF SaidIsTrue
    <3>4. QED
      BY <3>1, <3>2, <3>3
  <2>3. QED
    BY <2>1, <2>2
<1>4. ClaimsRun'
  BY <1>1 DEF IInv, TypeOK, ClaimsRun, records
<1>5. Ledger'
  <2> SUFFICES ASSUME NEW j \in Jobs
               PROVE  Balanced(j)'
    BY DEF Ledger
  <2>1. owner[j] # NoOne => owner[j] \in Workers
    BY DEF IInv, TypeOK
  <2>2. owner[j] # NoOne => (SawIt(att[owner[j]]) => SawIt(att'[owner[j]]))
    BY <1>1, <2>1
  <2>3. QED
    BY <2>2, BalanceKept DEF records, outside
<1>6. QED
  BY <1>2, <1>3, <1>4, <1>5 DEF IInv

LEMMA BecomesMove ==
  ASSUME IInv, NEW w \in Workers, NEW a \in Attempt, Becomes(w, a),
         AttemptIsSound(a), att[w].pc # "idle", a.pc # "idle", a.job = att[w].job,
         OnOwnTab(w, a, active), SaidIsTrue(a, form[w]),
         SawIt(att[w]) => SawIt(a)
  PROVE  IInv'
<1>1. form' = form /\ form \in [Tabs -> SUBSET Fields] /\ att' = [att EXCEPT ![w] = a]
      /\ UNCHANGED <<records, outside, active, left, faults>>
  BY DEF Becomes, IInv, TypeOK
<1>2. QED
  BY <1>1, OwnMove

\* The steps up to the finisher that concern the worker alone.
LEMMA PrepareStep ==
  ASSUME IInv, NEW w \in Workers, Prepare(w) \/ LoadFails(w) \/ Preflight(w)
  PROVE  IInv'
<1> DEFINE b == att[w]
<1>0. b \in Attempt /\ AttemptIsSound(b) /\ OnOwnTab(w, b, active) /\ SaidIsTrue(b, form[w])
      /\ w \in Tabs /\ form \in [Tabs -> SUBSET Fields]
  BY TabTypes DEF IInv, TypeOK, Attempts
<1>1. CASE OpenForm(w)
  <2> DEFINE a == [b EXCEPT !.pc = "prefilling"]
  <2>1. a \in Attempt /\ AttemptIsSound(a) /\ a.job = b.job /\ b.pc # "idle"
        /\ ~SawIt(b) /\ a.pc = "prefilling"
    BY <1>0, <1>1 DEF OpenForm, Attempt, AttemptIsSound, SawIt
  <2>2. att' = [att EXCEPT ![w] = a] /\ form' \in [Tabs -> SUBSET Fields]
        /\ \A v \in Workers \ {w} : form[v] \subseteq form'[v]
    BY <1>0, <1>1, TabTypes DEF OpenForm, IInv, TypeOK
  <2>3. OnOwnTab(w, a, active) /\ SaidIsTrue(a, form'[w])
    BY <2>1 DEF OnOwnTab, SaidIsTrue
  <2> HIDE DEF a
  <2>4. QED
    BY <1>1, <2>1, <2>2, <2>3, OwnMove DEF OpenForm
<1>2. CASE NavigationFails(w)
  <2> DEFINE a == [b EXCEPT !.pc = "recording", !.outcome = "FAILED_NAVIGATION"]
  <2>1. a \in Attempt /\ AttemptIsSound(a) /\ a.job = b.job /\ b.pc # "idle"
        /\ ~SawIt(b) /\ a.pc = "recording"
    BY <1>0, <1>2 DEF NavigationFails, Attempt, AttemptIsSound, SawIt, Failures
  <2>2. OnOwnTab(w, a, active) /\ SaidIsTrue(a, form[w]) /\ Becomes(w, a)
    BY <1>2, <2>1 DEF OnOwnTab, SaidIsTrue, NavigationFails
  <2> HIDE DEF a
  <2>3. QED
    BY <2>1, <2>2, BecomesMove
<1>3. CASE Prefill(w)
  <2>1. PICK next \in {"connecting", "deciding"} : att' = [att EXCEPT ![w].pc = next]
    BY <1>3 DEF Prefill
  <2> DEFINE a == [b EXCEPT !.pc = next]
  <2>2. a \in Attempt /\ AttemptIsSound(a) /\ a.job = b.job /\ b.pc # "idle"
        /\ ~SawIt(b) /\ a.pc \in {"connecting", "deciding"} /\ a.finisher # "COMPLETE"
    BY <1>0, <1>3 DEF Prefill, Attempt, AttemptIsSound, SawIt
  <2> PICK some \in SUBSET Fields : form' = [form EXCEPT ![w] = some]
    BY <1>3 DEF Prefill
  <2>3. att' = [att EXCEPT ![w] = a] /\ form' \in [Tabs -> SUBSET Fields]
        /\ \A v \in Workers \ {w} : form[v] \subseteq form'[v]
    BY <1>0, <2>1, TabTypes DEF IInv, TypeOK
  <2>4. OnOwnTab(w, a, active) /\ SaidIsTrue(a, form'[w])
    BY <2>2 DEF OnOwnTab, SaidIsTrue
  <2> HIDE DEF a
  <2>5. QED
    BY <1>3, <2>2, <2>3, <2>4, OwnMove DEF Prefill
<1>4. CASE FlowFails(w)
  <2> DEFINE a == [Rest EXCEPT !.job = b.job, !.pc = "recording",
                               !.outcome = "FAILED_OTHER"]
  <2>1. a \in Attempt /\ AttemptIsSound(a) /\ a.job = b.job /\ b.pc # "idle"
        /\ ~SawIt(b) /\ a.pc = "recording"
    BY <1>0, <1>4, RestType DEF FlowFails, Rest, Attempt, AttemptIsSound, SawIt, Failures
  <2>2. OnOwnTab(w, a, active) /\ SaidIsTrue(a, form[w]) /\ Becomes(w, a)
    BY <1>4, <2>1 DEF OnOwnTab, SaidIsTrue, FlowFails
  <2> HIDE DEF a
  <2>3. QED
    BY <2>1, <2>2, BecomesMove
<1>5. CASE LoadFails(w)
  <2> DEFINE a == [b EXCEPT !.pc = "deciding"]
  <2>1. a \in Attempt /\ AttemptIsSound(a) /\ a.job = b.job /\ b.pc # "idle"
        /\ ~SawIt(b) /\ a.pc = "deciding" /\ a.finisher # "COMPLETE"
    BY <1>0, <1>5 DEF LoadFails, Attempt, AttemptIsSound, SawIt
  <2>2. OnOwnTab(w, a, active) /\ SaidIsTrue(a, form[w]) /\ Becomes(w, a)
    BY <1>5, <2>1 DEF OnOwnTab, SaidIsTrue, LoadFails
  <2> HIDE DEF a
  <2>3. QED
    BY <2>1, <2>2, BecomesMove
<1>6. ASSUME Preflight(w), Becomes(w, [b EXCEPT !.pc = "finishing"])
      PROVE  IInv'
  <2> DEFINE a == [b EXCEPT !.pc = "finishing"]
  <2>1. a \in Attempt /\ AttemptIsSound(a) /\ a.job = b.job /\ b.pc = "starting"
        /\ ~SawIt(b) /\ a.pc = "finishing" /\ a.astray = b.astray
    BY <1>0, <1>6 DEF Preflight, Attempt, AttemptIsSound, SawIt
  <2>2. OnOwnTab(w, a, active) /\ SaidIsTrue(a, form[w]) /\ Becomes(w, a)
    BY <1>0, <1>6, <2>1 DEF OnOwnTab, SaidIsTrue
  <2> HIDE DEF a
  <2>3. QED
    BY <2>1, <2>2, BecomesMove
<1>7. ASSUME Preflight(w),
             Becomes(w, [b EXCEPT !.pc = "deciding", !.turns = 0, !.pass = 0,
                                  !.finisher = "RUNTIME_ERROR"])
      PROVE  IInv'
  <2> DEFINE a == [b EXCEPT !.pc = "deciding", !.turns = 0, !.pass = 0,
                            !.finisher = "RUNTIME_ERROR"]
  <2>1. a \in Attempt /\ AttemptIsSound(a) /\ a.job = b.job /\ b.pc = "starting"
        /\ ~SawIt(b) /\ a.pc = "deciding" /\ a.finisher # "COMPLETE"
    BY <1>0, <1>7, CounterTypes DEF Preflight, Attempt, AttemptIsSound, SawIt
  <2>2. OnOwnTab(w, a, active) /\ SaidIsTrue(a, form[w]) /\ Becomes(w, a)
    BY <1>7, <2>1 DEF OnOwnTab, SaidIsTrue
  <2> HIDE DEF a
  <2>3. QED
    BY <2>1, <2>2, BecomesMove
<1>8. QED
  BY <1>1, <1>2, <1>3, <1>4, <1>5, <1>6, <1>7 DEF Prepare, Preflight

-----------------------------------------------------------------------------
(* The finisher's turns. *)

\* A turn may fill in a field on the tab the tool is on.
LEMMA TurnMove ==
  ASSUME IInv, NEW w \in Workers, NEW a \in Attempt, Turn(w, a),
         AttemptIsSound(a), a.pc = "finishing", a.job = att[w].job,
         a.astray = att[w].astray, a.turns = att[w].turns,
         \/ form' = form
         \/ \E f \in Fields : /\ active \in Tabs
                               /\ form' = [form EXCEPT ![active] = @ \cup {f}]
  PROVE  IInv'
<1> DEFINE c == [a EXCEPT !.turns = @ + 1]
<1>0. att[w] \in Attempt /\ OnOwnTab(w, att[w], active) /\ form \in [Tabs -> SUBSET Fields]
  BY DEF IInv, TypeOK, Attempts
<1>1. att[w].pc = "finishing" /\ att' = [att EXCEPT ![w] = c]
      /\ UNCHANGED <<records, outside, active, left, faults>>
  BY DEF Turn
<1>2. a.turns + 1 \in 0 .. RequestLimit
  <2>1. a.turns \in 0 .. RequestLimit /\ a.turns < RequestLimit
    BY DEF Attempt, Turn
  <2>2. QED
    BY <2>1, ConstantsAssumption
<1>3. c \in Attempt /\ AttemptIsSound(c) /\ c.job = att[w].job /\ c.pc = "finishing"
      /\ c.astray = att[w].astray
  BY <1>2 DEF Attempt, AttemptIsSound
<1>4. OnOwnTab(w, c, active) /\ SaidIsTrue(c, form'[w]) /\ ~SawIt(att[w])
  BY <1>0, <1>1, <1>3 DEF OnOwnTab, SaidIsTrue, SawIt
<1>5. form' \in [Tabs -> SUBSET Fields]
      /\ \A v \in Workers \ {w} : form[v] \subseteq form'[v]
  BY <1>0, TabTypes
<1> HIDE DEF c
<1>6. QED
  BY <1>1, <1>3, <1>4, <1>5, OwnMove

LEMMA FinishStep ==
  ASSUME IInv, NEW w \in Workers, Finish(w)
  PROVE  IInv'
<1> DEFINE b == att[w]
<1>0. b \in Attempt /\ AttemptIsSound(b) /\ OnOwnTab(w, b, active) /\ SaidIsTrue(b, form[w])
  BY DEF IInv, TypeOK, Attempts
<1>1. ASSUME NEW f \in Fields, FillField(w, f) \/ DraftField(w, f) \/ Defer(w, f)
      PROVE  IInv'
  <2> DEFINE drafted == [b EXCEPT !.weak = @ \cup {f}, !.doubts = @ \cup {f}]
             deferred == [b EXCEPT !.deferred = @ \cup {f}, !.doubts = @ \cup {f}]
  <2>1. b.pc = "finishing"
    BY <1>1 DEF FillField, DraftField, Defer, Turn
  <2>2. CASE FillField(w, f)
    BY <1>0, <2>1, <2>2, TurnMove DEF FillField
  <2>3. CASE DraftField(w, f)
    <3>1. drafted \in Attempt /\ AttemptIsSound(drafted) /\ drafted.pc = "finishing"
          /\ drafted.job = b.job /\ drafted.astray = b.astray /\ drafted.turns = b.turns
      BY <1>0, <2>1 DEF Attempt, AttemptIsSound
    <3>2. Turn(w, drafted) /\ active \in Tabs
          /\ form' = [form EXCEPT ![active] = @ \cup {f}]
      BY <2>3 DEF DraftField
    <3> HIDE DEF drafted
    <3>3. QED
      BY <3>1, <3>2, TurnMove
  <2>4. CASE Defer(w, f)
    <3>1. deferred \in Attempt /\ AttemptIsSound(deferred) /\ deferred.pc = "finishing"
          /\ deferred.job = b.job /\ deferred.astray = b.astray /\ deferred.turns = b.turns
      BY <1>0, <2>1 DEF Attempt, AttemptIsSound
    <3>2. Turn(w, deferred) /\ form' = form
      BY <2>4 DEF Defer
    <3> HIDE DEF deferred
    <3>3. QED
      BY <3>1, <3>2, TurnMove
  <2>5. QED
    BY <1>1, <2>2, <2>3, <2>4
<1>2. CASE OtherTurn(w)
  <2>1. b.pc = "finishing" /\ Turn(w, b) /\ form' = form
    BY <1>2 DEF OtherTurn, Turn
  <2>2. QED
    BY <1>0, <2>1, TurnMove
<1>3. CASE CompleteApply(w)
  <2> DEFINE filled == active \in Tabs /\ Fields \subseteq form[active] \cup b.deferred
             a == [b EXCEPT !.pc = "deciding", !.turns = 0, !.pass = 0,
                            !.finisher = "COMPLETE", !.filled = filled]
  <2>1. b.pc = "finishing" /\ Becomes(w, a)
    BY <1>3 DEF CompleteApply
  <2>2. a.filled = filled /\ a.pc = "deciding" /\ a.job = b.job
        /\ a.astray = b.astray /\ a.deferred = b.deferred
    BY <1>0 DEF Attempt
  <2>3. a \in Attempt /\ AttemptIsSound(a) /\ ~SawIt(b)
    <3>1. filled \in BOOLEAN
      OBVIOUS
    <3> HIDE DEF filled
    <3>2. QED
      BY <1>0, <2>1, <3>1, CounterTypes DEF Attempt, AttemptIsSound, SawIt
  <2>4. OnOwnTab(w, a, active) /\ SaidIsTrue(a, form[w])
    <3>1. ~a.astray => active = w
      BY <1>0, <2>1, <2>2 DEF OnOwnTab
    <3>2. a.filled => Fields \subseteq form[active] \cup a.deferred
      BY <2>2
    <3> HIDE DEF a
    <3>3. QED
      BY <2>2, <3>1, <3>2 DEF OnOwnTab, SaidIsTrue
  <2> HIDE DEF a
  <2>5. QED
    BY <2>1, <2>2, <2>3, <2>4, BecomesMove
<1>4. ASSUME NEW how \in {"AGENT_GAVE_UP", "USAGE_LIMIT_HIT", "RUNTIME_ERROR"},
             b.pc = "finishing",
             Becomes(w, [b EXCEPT !.pc = "deciding", !.turns = 0, !.pass = 0,
                                  !.finisher = how])
      PROVE  IInv'
  <2> DEFINE a == [b EXCEPT !.pc = "deciding", !.turns = 0, !.pass = 0, !.finisher = how]
  <2>1. a \in Attempt /\ AttemptIsSound(a) /\ a.job = b.job /\ ~SawIt(b)
        /\ a.pc = "deciding" /\ a.finisher # "COMPLETE"
    BY <1>0, <1>4, CounterTypes DEF Attempt, AttemptIsSound, SawIt
  <2>2. OnOwnTab(w, a, active) /\ SaidIsTrue(a, form[w]) /\ Becomes(w, a)
    BY <1>4, <2>1 DEF OnOwnTab, SaidIsTrue
  <2> HIDE DEF a
  <2>3. QED
    BY <1>4, <2>1, <2>2, BecomesMove
<1>5. CASE GiveUp(w) \/ UsageLimit(w) \/ FinisherFails(w)
  BY <1>4, <1>5 DEF GiveUp, UsageLimit, FinisherFails
<1>6. CASE RateLimited(w)
  <2> DEFINE a == NextPass(b)
  <2>1. a \in Attempt /\ AttemptIsSound(a) /\ a.job = b.job /\ b.pc = "finishing"
        /\ ~SawIt(b) /\ a.pc = "finishing" /\ a.astray = b.astray
    <3>1. b.pass + 1 \in Nat /\ b.pc = "finishing"
      BY <1>0, <1>6 DEF RateLimited, Attempt
    <3>2. QED
      BY <1>0, <3>1, CounterTypes DEF NextPass, Attempt, AttemptIsSound, SawIt
  <2>2. OnOwnTab(w, a, active) /\ SaidIsTrue(a, form[w]) /\ Becomes(w, a)
    BY <1>0, <1>6, <2>1 DEF OnOwnTab, SaidIsTrue, RateLimited
  <2> HIDE DEF a
  <2>3. QED
    BY <2>1, <2>2, BecomesMove
<1>7. CASE Preflight(w)
  BY <1>7, PrepareStep
<1>8. QED
  BY <1>1, <1>2, <1>3, <1>5, <1>6, <1>7 DEF Finish

-----------------------------------------------------------------------------
(* Attaching the tool. *)

\* Whoever had the tool is astray from now on.
LEMMA AttachMove ==
  ASSUME IInv, NEW w \in Workers, NEW t \in Tabs \cup {Elsewhere}, NEW b \in BOOLEAN,
         att[w].pc = "connecting", b \/ t = w,
         active' = t,
         att' = [v \in Workers |->
           IF v = w THEN [att[w] EXCEPT !.pc = "starting", !.astray = b]
           ELSE [att[v] EXCEPT !.astray = @ \/ (att[v].pc \in {"starting", "finishing"})]],
         form' \in [Tabs -> SUBSET Fields], \A v \in Workers : form'[v] = form[v],
         left' \subseteq Jobs,
         UNCHANGED <<records, outside, faults>>
  PROVE  IInv'
<1> DEFINE own == [att[w] EXCEPT !.pc = "starting", !.astray = b]
           other(v) == [att[v] EXCEPT !.astray = @ \/ (att[v].pc \in {"starting", "finishing"})]
<1>0. ASSUME NEW v \in Workers
      PROVE  /\ att[v] \in Attempt /\ AttemptIsSound(att[v])
             /\ OnOwnTab(v, att[v], active) /\ SaidIsTrue(att[v], form[v])
  BY DEF IInv, TypeOK, Attempts
<1>1. /\ own \in Attempt /\ own.pc = "starting" /\ own.job = att[w].job
      /\ own.astray = b /\ AttemptIsSound(own) /\ ~SawIt(att[w])
  <2>1. att[w] \in Attempt /\ AttemptIsSound(att[w])
    BY <1>0
  <2>2. own \in Attempt
    BY <2>1 DEF Attempt
  <2>3. /\ own.pc = "starting" /\ own.job = att[w].job /\ own.astray = b
        /\ own.outcome = att[w].outcome /\ own.sent = att[w].sent
        /\ own.finisher = att[w].finisher /\ own.deferred = att[w].deferred
        /\ own.weak = att[w].weak /\ own.doubts = att[w].doubts
    BY <2>1 DEF Attempt
  <2> HIDE DEF own
  <2>4. AttemptIsSound(own) /\ ~SawIt(att[w])
    BY <2>1, <2>3 DEF AttemptIsSound, SawIt
  <2>5. QED
    BY <2>2, <2>3, <2>4
<1>2. ASSUME NEW v \in Workers
      PROVE  /\ other(v) \in Attempt /\ other(v).pc = att[v].pc
             /\ other(v).job = att[v].job /\ AttemptIsSound(other(v))
             /\ att[v].astray => other(v).astray
             /\ att[v].pc \in {"starting", "finishing"} => other(v).astray
             /\ SawIt(att[v]) => SawIt(other(v))
             /\ SaidIsTrue(other(v), form[v])
  <2>1. att[v] \in Attempt /\ AttemptIsSound(att[v]) /\ SaidIsTrue(att[v], form[v])
    BY <1>0
  <2>2. PICK c \in BOOLEAN : /\ c = (att[v].astray \/ (att[v].pc \in {"starting", "finishing"}))
                             /\ other(v) = [att[v] EXCEPT !.astray = c]
    BY <2>1 DEF Attempt
  <2>3. /\ other(v) \in Attempt /\ other(v).astray = c
        /\ other(v).pc = att[v].pc /\ other(v).job = att[v].job
        /\ other(v).outcome = att[v].outcome /\ other(v).sent = att[v].sent
        /\ other(v).finisher = att[v].finisher /\ other(v).filled = att[v].filled
        /\ other(v).deferred = att[v].deferred /\ other(v).weak = att[v].weak
        /\ other(v).doubts = att[v].doubts
    BY <2>1, <2>2 DEF Attempt
  <2> HIDE DEF other
  <2>4. AttemptIsSound(other(v)) /\ (SawIt(att[v]) => SawIt(other(v)))
    BY <2>1, <2>3 DEF AttemptIsSound, SawIt
  <2>5. SaidIsTrue(other(v), form[v])
    BY <2>1, <2>2, <2>3 DEF SaidIsTrue
  <2>6. QED
    BY <2>2, <2>3, <2>4, <2>5
<1>3. \A v \in Workers : att'[v] = IF v = w THEN own ELSE other(v)
  OBVIOUS
<1>4. att' \in [Workers -> Attempt]
  BY <1>1, <1>2
<1> HIDE DEF own, other
<1>5. TypeOK'
  BY <1>4 DEF IInv, TypeOK, records, outside
<1>6. Attempts'
  <2> SUFFICES ASSUME NEW v \in Workers
               PROVE  AttemptIsSound(att'[v]) /\ OnOwnTab(v, att'[v], active')
                      /\ SaidIsTrue(att'[v], form'[v])
    BY DEF Attempts
  <2>1. CASE v = w
    BY <1>1, <1>3, <2>1 DEF OnOwnTab, SaidIsTrue
  <2>2. CASE v # w
    <3>1. att'[v] = other(v) /\ form'[v] = form[v]
      BY <1>3, <2>2
    <3>2. OnOwnTab(v, other(v), active')
      BY <1>2 DEF OnOwnTab
    <3>3. QED
      BY <1>2, <3>1, <3>2
  <2>3. QED
    BY <2>1, <2>2
<1>7. ASSUME NEW v \in Workers
      PROVE  /\ att'[v].job = att[v].job
             /\ att[v].pc # "idle" => att'[v].pc # "idle"
             /\ SawIt(att[v]) => SawIt(att'[v])
  BY <1>1, <1>2, <1>3
<1>8. ClaimsRun'
  BY <1>7 DEF IInv, TypeOK, ClaimsRun, records
<1>9. Ledger'
  <2> SUFFICES ASSUME NEW j \in Jobs
               PROVE  Balanced(j)'
    BY DEF Ledger
  <2>1. owner[j] # NoOne => owner[j] \in Workers
    BY DEF IInv, TypeOK
  <2>2. owner[j] # NoOne => (SawIt(att[owner[j]]) => SawIt(att'[owner[j]]))
    BY <1>7, <2>1
  <2>3. QED
    BY <2>2, BalanceKept DEF records, outside
<1>10. QED
  BY <1>5, <1>6, <1>8, <1>9 DEF IInv

LEMMA ConnectStep ==
  ASSUME IInv, NEW w \in Workers, Connect(w)
  PROVE  IInv'
<1>0. att[w] \in Attempt /\ form \in [Tabs -> SUBSET Fields]
      /\ left \subseteq Jobs /\ active \in Tabs \cup {Elsewhere}
  BY DEF IInv, TypeOK
<1>1. CASE Switch(w)
  <2>1. PICK b \in BOOLEAN : b = att[w].astray
    BY <1>0 DEF Attempt
  <2>2. [att[w] EXCEPT !.pc = "starting"] = [att[w] EXCEPT !.pc = "starting", !.astray = b]
    BY <1>0, <2>1 DEF Attempt
  <2>3. att' = [v \in Workers |->
          IF v = w THEN [att[w] EXCEPT !.pc = "starting", !.astray = b]
          ELSE [att[v] EXCEPT !.astray = @ \/ (att[v].pc \in {"starting", "finishing"})]]
    BY <1>1, <2>2 DEF Switch
  <2>4. w \in Tabs \cup {Elsewhere} /\ active' = w /\ att[w].pc = "connecting"
        /\ UNCHANGED <<records, outside, form, left, faults>>
    BY <1>1, TabTypes DEF Switch, SwitchTo
  <2>5. QED
    BY <1>0, <2>3, <2>4, AttachMove
<1>2. ASSUME NEW t \in Tabs \cup {Elsewhere}, Attach(w, t), att[w].pc = "connecting",
             form' \in [Tabs -> SUBSET Fields], \A v \in Workers : form'[v] = form[v],
             left' \subseteq Jobs,
             UNCHANGED <<records, outside, faults>>
      PROVE  IInv'
  <2>1. PICK b \in BOOLEAN : b = (t # w)
    OBVIOUS
  <2>2. active' = t
        /\ att' = [v \in Workers |->
             IF v = w THEN [att[w] EXCEPT !.pc = "starting", !.astray = b]
             ELSE [att[v] EXCEPT !.astray = @ \/ (att[v].pc \in {"starting", "finishing"})]]
    BY <1>2, <2>1 DEF Attach
  <2>3. QED
    BY <1>2, <2>1, <2>2, AttachMove
<1>3. CASE SwitchToOther(w)
  <2> DEFINE j == att[w].job
  <2>1. j \in Jobs /\ att[w].pc = "connecting"
    BY <1>3 DEF SwitchToOther, IInv, Attempts, AttemptIsSound
  <2>2. PICK some \in SUBSET form[w] :
          form' = [form EXCEPT ![j] = IF j \in left THEN @ ELSE some]
    BY <1>3 DEF SwitchToOther
  <2>3. some \subseteq Fields /\ j \in Tabs
    BY <1>0, <2>1, TabTypes
  <2>4. form' \in [Tabs -> SUBSET Fields] /\ \A v \in Workers : form'[v] = form[v]
    BY <1>0, <2>1, <2>2, <2>3, TabTypes
  <2>5. Attach(w, j) /\ left' \subseteq Jobs
        /\ UNCHANGED <<records, outside, faults>>
    BY <1>0, <1>3, <2>1 DEF SwitchToOther
  <2> HIDE DEF j
  <2>6. QED
    BY <1>2, <2>1, <2>3, <2>4, <2>5
<1>4. CASE SessionFails(w)
  <2>1. PICK t \in {active, Elsewhere} : Attach(w, t)
    BY <1>4 DEF SessionFails
  <2>2. QED
    BY <1>0, <1>2, <1>4, <2>1 DEF SessionFails
<1>5. CASE LoadFails(w)
  BY <1>5, PrepareStep
<1>6. QED
  BY <1>1, <1>3, <1>4, <1>5 DEF Connect

-----------------------------------------------------------------------------
(* Gate, click and outcome. *)

LEMMA DecideStep ==
  ASSUME IInv, NEW w \in Workers,
         Decide(w) \/ GateIsClosed(w) \/ ClickRefused(w) \/ Classify(w)
  PROVE  IInv'
<1> DEFINE b == att[w]
           submitting == [Decided(w) EXCEPT !.pc = "submitting"]
           review == [Decided(w) EXCEPT !.pc = "recording", !.outcome = "NEEDS_REVIEW"]
<1>0. b \in Attempt /\ AttemptIsSound(b) /\ OnOwnTab(w, b, active) /\ SaidIsTrue(b, form[w])
  BY DEF IInv, TypeOK, Attempts
<1>1. ASSUME b.pc = "deciding", Becomes(w, review)
      PROVE  IInv'
  <2>1. review \in Attempt /\ AttemptIsSound(review) /\ review.job = b.job /\ ~SawIt(b)
        /\ review.pc = "recording"
    <3>1. Decided(w) \in Attempt
      BY <1>0, RestType DEF Decided, Attempt
    <3>2. review \in Attempt
      BY <3>1 DEF Attempt
    <3>3. /\ review.pc = "recording" /\ review.job = b.job /\ review.outcome = "NEEDS_REVIEW"
          /\ review.sent = "nothing" /\ review.finisher = "SKIPPED"
          /\ review.deferred = {} /\ review.weak = {} /\ review.doubts = {}
      BY DEF Decided, Rest
    <3> HIDE DEF review
    <3>4. b.job \in Jobs /\ ~SawIt(b)
      BY <1>0, <1>1 DEF AttemptIsSound, SawIt
    <3>5. QED
      BY <3>2, <3>3, <3>4 DEF AttemptIsSound
  <2>2. OnOwnTab(w, review, active) /\ SaidIsTrue(review, form[w])
    BY <2>1 DEF OnOwnTab, SaidIsTrue
  <2> HIDE DEF review
  <2>3. QED
    BY <1>1, <2>1, <2>2, BecomesMove
<1>2. ASSUME b.pc = "deciding", EvaluateSubmitGate(b), Becomes(w, submitting)
      PROVE  IInv'
  <2>1. submitting \in Attempt /\ AttemptIsSound(submitting) /\ submitting.job = b.job
        /\ ~SawIt(b) /\ submitting.pc = "submitting" /\ submitting.astray = b.astray
    BY <1>0, <1>2, RestType DEF Decided, Rest, Attempt, AttemptIsSound, SawIt, Failures
  <2>2. ~b.astray => Fields \subseteq form[w]
    BY <1>0, <1>2 DEF EvaluateSubmitGate, SaidIsTrue
  <2>3. OnOwnTab(w, submitting, active) /\ SaidIsTrue(submitting, form[w])
    BY <2>1, <2>2 DEF OnOwnTab, SaidIsTrue
  <2> HIDE DEF submitting
  <2>4. QED
    BY <1>2, <2>1, <2>3, BecomesMove
<1>3. ASSUME NEW how \in {"alert", "nothing"}, b.pc = "submitting",
             Becomes(w, [b EXCEPT !.pc = "reading", !.sent = how])
      PROVE  IInv'
  <2> DEFINE a == [b EXCEPT !.pc = "reading", !.sent = how]
  <2>1. a \in Attempt /\ AttemptIsSound(a) /\ a.job = b.job /\ ~SawIt(b) /\ a.pc = "reading"
    BY <1>0, <1>3 DEF Attempt, AttemptIsSound, SawIt
  <2>2. OnOwnTab(w, a, active) /\ SaidIsTrue(a, form[w]) /\ Becomes(w, a)
    BY <1>3, <2>1 DEF OnOwnTab, SaidIsTrue
  <2> HIDE DEF a
  <2>3. QED
    BY <1>3, <2>1, <2>2, BecomesMove
<1>4. ASSUME NEW o \in {"SUBMITTED", "NEEDS_REVIEW", "FAILED_OTHER"},
             b.pc = "reading", b.sent = "seen" <=> o = "SUBMITTED",
             Becomes(w, [b EXCEPT !.pc = "recording", !.outcome = o])
      PROVE  IInv'
  <2> DEFINE a == [b EXCEPT !.pc = "recording", !.outcome = o]
  <2>1. a \in Attempt /\ AttemptIsSound(a) /\ a.job = b.job /\ a.pc = "recording"
        /\ (SawIt(b) => SawIt(a))
    BY <1>0, <1>4 DEF Attempt, AttemptIsSound, SawIt, Failures
  <2>2. OnOwnTab(w, a, active) /\ SaidIsTrue(a, form[w]) /\ Becomes(w, a)
    BY <1>4, <2>1 DEF OnOwnTab, SaidIsTrue
  <2> HIDE DEF a
  <2>3. QED
    BY <1>4, <2>1, <2>2, BecomesMove
<1>5. CASE Decide(w)
  BY <1>1, <1>2, <1>5 DEF Decide
<1>6. CASE GateIsClosed(w)
  BY <1>1, <1>6 DEF GateIsClosed
<1>7. CASE ClickRefused(w)
  BY <1>3, <1>7 DEF ClickRefused
<1>8. CASE Classify(w)
  <2>1. PICK o \in {"SUBMITTED", "NEEDS_REVIEW", "FAILED_OTHER"} :
          /\ o = (CASE b.sent = "seen" -> "SUBMITTED"
                    [] b.sent = "alert" -> "NEEDS_REVIEW"
                    [] OTHER -> "FAILED_OTHER")
          /\ b.sent = "seen" <=> o = "SUBMITTED"
    OBVIOUS
  <2>2. Becomes(w, [b EXCEPT !.pc = "recording", !.outcome = o]) /\ b.pc = "reading"
    BY <1>8, <2>1 DEF Classify
  <2>3. QED
    BY <1>4, <2>1, <2>2
<1>9. QED
  BY <1>5, <1>6, <1>7, <1>8

\* The click sends nothing, or one application that a record will tell of or
\* that is counted as unnoticed.
LEMMA ClickMove ==
  ASSUME IInv, NEW w \in Workers, NEW a \in Attempt, NEW i \in Jobs,
         att' = [att EXCEPT ![w] = a], i = att[w].job,
         UNCHANGED <<records, again, form, active, left, faults>>,
         AttemptIsSound(a), a.pc \in {"reading", "recording"}, a.job = i,
         ~SawIt(att[w]),
         \/ UNCHANGED <<received, unnoticed>>
         \/ /\ received' = [received EXCEPT ![i] = @ + 1]
            /\ unnoticed' = [unnoticed EXCEPT ![i] = @ + 1]
         \/ /\ received' = [received EXCEPT ![i] = @ + 1]
            /\ UNCHANGED unnoticed
            /\ SawIt(a) /\ owner[i] = w
  PROVE  IInv'
<1>1. att' \in [Workers -> Attempt] /\ \A v \in Workers : att'[v] = IF v = w THEN a ELSE att[v]
  BY DEF IInv, TypeOK
<1>2. received \in [Jobs -> Nat] /\ unnoticed \in [Jobs -> Nat]
  BY DEF IInv, TypeOK
<1>3. received' \in [Jobs -> Nat] /\ unnoticed' \in [Jobs -> Nat]
  BY <1>2
<1>4. TypeOK'
  BY <1>1, <1>3 DEF IInv, TypeOK, records
<1>5. Attempts'
  <2> SUFFICES ASSUME NEW v \in Workers
               PROVE  AttemptIsSound(att'[v]) /\ OnOwnTab(v, att'[v], active')
                      /\ SaidIsTrue(att'[v], form'[v])
    BY DEF Attempts
  <2>1. CASE v = w
    BY <1>1, <2>1 DEF OnOwnTab, SaidIsTrue
  <2>2. CASE v # w
    BY <1>1, <2>2 DEF IInv, Attempts
  <2>3. QED
    BY <2>1, <2>2
<1>6. ClaimsRun'
  BY <1>1 DEF IInv, TypeOK, ClaimsRun, records
<1>7. Ledger'
  <2> SUFFICES ASSUME NEW j \in Jobs
               PROVE  Balanced(j)'
    BY DEF Ledger
  <2>1. owner[j] # NoOne => owner[j] \in Workers
    BY DEF IInv, TypeOK
  <2>2. owner[j] # NoOne => (SawIt(att[owner[j]]) => SawIt(att'[owner[j]]))
    BY <1>1, <2>1
  <2>3. IsOpen(j)' => IsOpen(j)
    BY <2>2 DEF IsOpen, records
  <2>4. Balanced(j) /\ Opens(j)' <= Opens(j) /\ Opens(j) \in {0, 1} /\ Opens(j)' \in {0, 1}
    BY <2>3 DEF IInv, Ledger, Opens
  <2>5. received[j] \in Nat /\ handoffs[j] \in Nat /\ again[j] \in Nat /\ unnoticed[j] \in Nat
    BY LedgerTypes DEF IInv
  <2>6. handoffs' = handoffs /\ again' = again
    BY DEF records
  <2>7. CASE \/ received'[j] = received[j] /\ unnoticed'[j] = unnoticed[j]
             \/ received'[j] = received[j] + 1 /\ unnoticed'[j] = unnoticed[j] + 1
    BY <2>4, <2>5, <2>6, <2>7 DEF Balanced
  <2>8. CASE /\ received'[j] = received[j] + 1 /\ unnoticed'[j] = unnoticed[j]
             /\ SawIt(a) /\ owner[j] = w
    <3>1. run[j] = "running" /\ owner[j] # NoOne
      BY <2>8, TabTypes DEF IInv, ClaimsRun
    <3>2. IsOpen(j) /\ ~IsOpen(j)'
      BY <1>1, <2>8, <3>1 DEF IsOpen, records
    <3>3. Opens(j) = 1 /\ Opens(j)' = 0
      BY <3>2 DEF Opens
    <3>4. QED
      BY <2>4, <2>5, <2>6, <2>8, <3>3 DEF Balanced
  <2>9. QED
    BY <1>2, <2>7, <2>8
<1>8. QED
  BY <1>4, <1>5, <1>6, <1>7 DEF IInv

LEMMA ClickStep ==
  ASSUME IInv, NEW w \in Workers, ClickAccepted(w) \/ ClickFails(w)
  PROVE  IInv'
<1> DEFINE i == att[w].job
<1>0. att[w] \in Attempt /\ AttemptIsSound(att[w]) /\ att[w].pc = "submitting"
  BY DEF IInv, TypeOK, Attempts, ClickAccepted, ClickFails
<1>1. i \in Jobs /\ ~SawIt(att[w])
  BY <1>0 DEF AttemptIsSound, SawIt
<1>2. CASE ClickAccepted(w)
  <2>1. PICK how \in {"seen", "late", "alert"} :
          /\ att' = [att EXCEPT ![w].pc = "reading", ![w].sent = how]
          /\ Send(w, how = "seen" /\ owner[i] = w)
    BY <1>2 DEF ClickAccepted
  <2> DEFINE a == [att[w] EXCEPT !.pc = "reading", !.sent = how]
  <2>2. a \in Attempt /\ AttemptIsSound(a) /\ a.job = i /\ a.pc = "reading" /\ a.sent = how
    BY <1>0 DEF Attempt, AttemptIsSound
  <2>3. att' = [att EXCEPT ![w] = a]
    BY <2>1 DEF IInv, TypeOK
  <2> HIDE DEF a
  <2>4. /\ received' = [received EXCEPT ![i] = @ + 1]
        /\ \/ unnoticed' = [unnoticed EXCEPT ![i] = @ + 1]
           \/ UNCHANGED unnoticed /\ SawIt(a) /\ owner[i] = w
    BY <2>1, <2>2 DEF Send, SawIt
  <2>5. UNCHANGED <<records, again, form, active, left, faults>>
    BY <1>2 DEF ClickAccepted
  <2> HIDE DEF i
  <2>6. QED
    BY <1>1, <2>2, <2>3, <2>4, <2>5, ClickMove DEF i
<1>3. CASE ClickFails(w)
  <2> DEFINE a == [att[w] EXCEPT !.pc = "recording", !.outcome = "FAILED_OTHER"]
  <2>1. /\ a \in Attempt /\ AttemptIsSound(a) /\ a.job = i /\ a.pc = "recording"
    BY <1>0 DEF Attempt, AttemptIsSound, Failures
  <2>2. att' = [att EXCEPT ![w] = a]
    BY <1>3 DEF ClickFails, IInv, TypeOK
  <2> HIDE DEF a
  <2>3. \/ UNCHANGED <<received, unnoticed>>
        \/ /\ received' = [received EXCEPT ![i] = @ + 1]
           /\ unnoticed' = [unnoticed EXCEPT ![i] = @ + 1]
    BY <1>3 DEF ClickFails, Send
  <2>4. UNCHANGED <<records, again, form, active, left, faults>>
    BY <1>3 DEF ClickFails
  <2> HIDE DEF i
  <2>5. QED
    BY <1>1, <2>1, <2>2, <2>3, <2>4, ClickMove DEF i
<1>4. QED
  BY <1>2, <1>3

-----------------------------------------------------------------------------
(* The end of an attempt. *)

\* Its tab is closed or left behind; nobody else was on it.
LEMMA RestMove ==
  ASSUME IInv, NEW w \in Workers, att' = [att EXCEPT ![w] = Rest],
         \A v \in Workers \ {w} : form'[v] = form[v],
         active' = active \/ active = w
  PROVE  /\ att' \in [Workers -> Attempt]
         /\ \A v \in Workers : att'[v] = IF v = w THEN Rest ELSE att[v]
         /\ Attempts'
<1>1. \A v \in Workers : att'[v] = IF v = w THEN Rest ELSE att[v]
  BY DEF IInv, TypeOK
<1>2. att' \in [Workers -> Attempt]
  BY RestType DEF IInv, TypeOK
<1>3. Attempts'
  <2> SUFFICES ASSUME NEW v \in Workers
               PROVE  AttemptIsSound(att'[v]) /\ OnOwnTab(v, att'[v], active')
                      /\ SaidIsTrue(att'[v], form'[v])
    BY DEF Attempts
  <2>1. CASE v = w
    <3>1. att'[v] = Rest /\ Rest.pc = "idle"
      BY <1>1, <2>1 DEF Rest
    <3>2. QED
      BY <3>1, RestType DEF OnOwnTab, SaidIsTrue
  <2>2. CASE v # w
    <3>1. AttemptIsSound(att[v]) /\ OnOwnTab(v, att[v], active) /\ SaidIsTrue(att[v], form[v])
      BY DEF IInv, Attempts
    <3>2. att'[v] = att[v] /\ form'[v] = form[v]
      BY <1>1, <2>2
    <3>3. OnOwnTab(v, att[v], active')
      BY <2>2, <3>1 DEF OnOwnTab
    <3>4. QED
      BY <3>1, <3>2, <3>3
  <2>3. QED
    BY <2>1, <2>2
<1>4. QED
  BY <1>1, <1>2, <1>3

LEMMA FailedRunType ==
  ASSUME NEW j \in Jobs
  PROVE  FailedRun(j) \in {"ready", "FAILED"}
BY DEF FailedRun

\* A worker that rests takes no claim with it but that of its own job.
LEMMA OthersOwn ==
  ASSUME IInv, NEW w \in Workers, NEW j \in Jobs,
         owner[j] # w \/ att[w].pc = "idle" \/ att[w].job # j,
         \A v \in Workers \ {w} : att'[v] = att[v]
  PROVE  owner[j] # NoOne => owner[j] # w /\ att'[owner[j]] = att[owner[j]]
BY DEF IInv, TypeOK, ClaimsRun

LEMMA RecordStep ==
  ASSUME IInv, NEW w \in Workers, Record(w)
  PROVE  IInv'
<1> DEFINE a == att[w]
           i == a.job
           owned == owner[i] = w
           after == IF a.outcome \in Failures THEN FailedRun(i) ELSE "SUCCESS"
<1>0. a \in Attempt /\ AttemptIsSound(a) /\ i \in Jobs /\ a.pc = "recording"
      /\ w \in Tabs /\ w # NoOne
  BY TabTypes DEF IInv, TypeOK, Attempts, AttemptIsSound, Record
<1>1. /\ att' = [att EXCEPT ![w] = Rest]
      /\ form' = [form EXCEPT ![w] = {}]
      /\ active' = IF active = w THEN Elsewhere ELSE active
      /\ UNCHANGED <<left, received, unnoticed, again, faults>>
  BY DEF Record, outside
<1>2. /\ owned => owner' = [owner EXCEPT ![i] = NoOne]
      /\ owned => run' = [run EXCEPT ![i] = after]
      /\ owned /\ a.outcome \in Failures => failures' = [failures EXCEPT ![i] = @ + 1]
      /\ ~(owned /\ a.outcome \in Failures) => failures' = failures
      /\ succeeded' = succeeded \/ succeeded' = succeeded \cup {i}
      /\ owned /\ a.outcome = "NEEDS_REVIEW" => handoffs' = [handoffs EXCEPT ![i] = @ + 1]
      /\ ~(owned /\ a.outcome = "NEEDS_REVIEW") => handoffs' = handoffs
      /\ ~owned => UNCHANGED <<owner, run>>
  BY DEF Record, NeedsHandoff
<1>3. form' \in [Tabs -> SUBSET Fields] /\ active' \in Tabs \cup {Elsewhere}
      /\ \A v \in Workers \ {w} : form'[v] = form[v]
  BY <1>0, <1>1, TabTypes DEF IInv, TypeOK
<1>4. /\ att' \in [Workers -> Attempt]
      /\ \A v \in Workers : att'[v] = IF v = w THEN Rest ELSE att[v]
      /\ Attempts'
  BY <1>1, <1>3, RestMove
<1>5. /\ a.outcome \in Failures \cup {"SUBMITTED", "NEEDS_REVIEW"}
      /\ after \in {"ready"} \cup Settled
      /\ a.outcome \notin Failures => after = "SUCCESS"
      /\ SawIt(a) <=> a.outcome = "SUBMITTED"
  <2>1. a.outcome \in Failures \cup {"SUBMITTED", "NEEDS_REVIEW"}
    BY <1>0 DEF Attempt, AttemptIsSound
  <2>2. SawIt(a) <=> a.outcome = "SUBMITTED"
    BY <1>0 DEF SawIt, AttemptIsSound
  <2>3. QED
    BY <1>0, <2>1, <2>2, FailedRunType DEF Settled
<1> HIDE DEF after
<1>6. owned => run[i] = "running" /\ owner[i] # NoOne
  BY <1>0 DEF IInv, ClaimsRun
<1>7. ASSUME NEW j \in Jobs, j # i \/ ~owned
      PROVE  owner[j] # NoOne => owner[j] # w /\ att'[owner[j]] = att[owner[j]]
  BY <1>4, <1>7, OthersOwn
<1> HIDE DEF a, i
<1>8. /\ owner' \in [Jobs -> Workers \cup {NoOne}]
      /\ run' \in [Jobs -> {"ready", "running"} \cup Settled]
      /\ failures' \in [Jobs -> Nat]
      /\ succeeded' \subseteq Jobs
      /\ handoffs' \in [Jobs -> Nat]
  <2>1. /\ owner \in [Jobs -> Workers \cup {NoOne}]
        /\ run \in [Jobs -> {"ready", "running"} \cup Settled]
        /\ failures \in [Jobs -> Nat] /\ handoffs \in [Jobs -> Nat]
        /\ succeeded \subseteq Jobs
    BY DEF IInv, TypeOK
  <2>2. QED
    BY <1>0, <1>2, <1>5, <2>1
<1>9. TypeOK'
  BY <1>1, <1>3, <1>4, <1>8 DEF IInv, TypeOK
<1>10. ASSUME NEW j \in Jobs, j # i \/ ~owned
       PROVE  /\ run'[j] = run[j] /\ owner'[j] = owner[j] /\ handoffs'[j] = handoffs[j]
  BY <1>2, <1>10 DEF IInv, TypeOK
<1>11. owned => owner'[i] = NoOne /\ run'[i] = after
  BY <1>0, <1>2 DEF IInv, TypeOK
<1>12. ClaimsRun'
  <2> SUFFICES ASSUME NEW j \in Jobs, owner'[j] # NoOne
               PROVE  run'[j] = "running" /\ att'[owner'[j]].job = j
                      /\ att'[owner'[j]].pc # "idle"
    BY DEF ClaimsRun
  <2>1. j # i \/ ~owned
    BY <1>11
  <2>2. QED
    BY <1>7, <1>10, <2>1 DEF IInv, ClaimsRun
<1>13. Ledger'
  <2> SUFFICES ASSUME NEW j \in Jobs
               PROVE  Balanced(j)'
    BY DEF Ledger
  <2>1. CASE j # i \/ ~owned
    BY <1>1, <1>7, <1>10, <2>1, BalanceKept
  <2>2. CASE j = i /\ owned
    <3>1. Balanced(j)
      BY DEF IInv, Ledger
    <3>2. received[j] \in Nat /\ handoffs[j] \in Nat /\ again[j] \in Nat /\ unnoticed[j] \in Nat
      BY LedgerTypes DEF IInv
    <3>3. ~SawIt(a) => Opens(j) = 1
      BY <1>6, <2>2 DEF Opens, IsOpen, a
    <3>4. Opens(j) \in {0, 1} /\ Opens(j)' \in {0, 1}
      BY DEF Opens
    <3>5. a.outcome \notin Failures => Opens(j)' = 0
      BY <1>5, <1>11, <2>2 DEF Opens, IsOpen
    <3>6. CASE a.outcome = "NEEDS_REVIEW"
      <4>1. handoffs'[j] = handoffs[j] + 1
        BY <1>2, <2>2, <3>6 DEF IInv, TypeOK
      <4>2. Opens(j) = 1 /\ Opens(j)' = 0
        BY <1>5, <3>3, <3>5, <3>6 DEF Failures
      <4>3. QED
        BY <1>1, <3>1, <3>2, <4>1, <4>2 DEF Balanced
    <3>7. CASE a.outcome # "NEEDS_REVIEW"
      <4>1. handoffs'[j] = handoffs[j]
        BY <1>2, <3>7
      <4>2. Opens(j)' <= Opens(j)
        BY <1>5, <3>3, <3>4, <3>5, <3>7 DEF Failures
      <4>3. QED
        BY <1>1, <3>1, <3>2, <3>4, <4>1, <4>2 DEF Balanced
    <3>8. QED
      BY <3>6, <3>7
  <2>3. QED
    BY <2>1, <2>2
<1>14. QED
  BY <1>4, <1>9, <1>12, <1>13 DEF IInv

-----------------------------------------------------------------------------
(* Claims, sweeps and the human. *)

\* The claim of a run is taken away, and the run is swept or goes on.
LEMMA LoseSightMove ==
  ASSUME IInv, NEW i \in Jobs, LoseSight(i), owner'[i] = NoOne,
         received'[i] = received[i], handoffs'[i] = handoffs[i], again'[i] = again[i],
         run[i] = "running"
  PROVE  Balanced(i)' /\ unnoticed' \in [Jobs -> Nat]
         /\ \A j \in Jobs \ {i} : unnoticed'[j] = unnoticed[j]
<1>0. unnoticed \in [Jobs -> Nat]
  BY DEF IInv, TypeOK
<1>1. Balanced(i) /\ Opens(i) \in {0, 1} /\ Opens(i)' \in {0, 1}
  BY DEF IInv, Ledger, Opens
<1>2. received[i] \in Nat /\ handoffs[i] \in Nat /\ again[i] \in Nat /\ unnoticed[i] \in Nat
  BY LedgerTypes DEF IInv
<1>3. CASE owner[i] # NoOne /\ SawIt(att[owner[i]])
  <2>1. unnoticed' = [unnoticed EXCEPT ![i] = @ + 1]
    BY <1>3 DEF LoseSight
  <2>2. /\ unnoticed' \in [Jobs -> Nat] /\ unnoticed'[i] = unnoticed[i] + 1
        /\ \A j \in Jobs \ {i} : unnoticed'[j] = unnoticed[j]
    BY <1>0, <2>1
  <2>3. Opens(i) = 0
    BY <1>3 DEF Opens, IsOpen
  <2>4. QED
    BY <1>1, <1>2, <2>2, <2>3 DEF Balanced
<1>4. CASE ~(owner[i] # NoOne /\ SawIt(att[owner[i]]))
  <2>1. unnoticed' = unnoticed
    BY <1>4 DEF LoseSight
  <2>2. Opens(i) = 1
    BY <1>4 DEF Opens, IsOpen
  <2>3. Balanced(i)'
    BY <1>1, <1>2, <2>1, <2>2 DEF Balanced
  <2>4. QED
    BY <1>0, <2>1, <2>3
<1>5. QED
  BY <1>3, <1>4

\* What is put on the job's tab is no other worker's.
LEMMA CrashStep ==
  ASSUME IInv, NEW w \in Workers, Crash(w)
  PROVE  IInv'
<1> DEFINE i == att[w].job
<1>0. /\ att[w] \in Attempt /\ AttemptIsSound(att[w])
      /\ i \in Jobs /\ att[w].pc # "idle"
      /\ i \in Tabs /\ w \in Tabs /\ i \notin Workers /\ w # NoOne
  BY TabTypes DEF IInv, TypeOK, Attempts, AttemptIsSound, Crash
<1>1. /\ att' = [att EXCEPT ![w] = Rest]
      /\ owner[i] = w => owner' = [owner EXCEPT ![i] = NoOne] /\ LoseSight(i)
      /\ owner[i] # w => UNCHANGED <<owner, unnoticed>>
      /\ UNCHANGED <<run, failures, succeeded, handoffs, received, again>>
  BY DEF Crash
<1>2. \/ UNCHANGED <<form, active, left>>
      \/ /\ form' = [form EXCEPT ![i] = form[w], ![w] = {}]
         /\ active' = IF active = w THEN i ELSE active
         /\ left' = left \cup {i}
  BY DEF Crash
<1>3. /\ form' \in [Tabs -> SUBSET Fields] /\ active' \in Tabs \cup {Elsewhere}
      /\ left' \subseteq Jobs
      /\ \A v \in Workers \ {w} : form'[v] = form[v]
      /\ active' = active \/ active = w
  <2>1. form \in [Tabs -> SUBSET Fields] /\ active \in Tabs \cup {Elsewhere}
        /\ left \subseteq Jobs
    BY DEF IInv, TypeOK
  <2>2. \A v \in Workers : v \in Tabs /\ v # i
    BY <1>0, TabTypes
  <2> HIDE DEF i
  <2>3. QED
    BY <1>0, <1>2, <2>1, <2>2
<1>4. /\ att' \in [Workers -> Attempt]
      /\ \A v \in Workers : att'[v] = IF v = w THEN Rest ELSE att[v]
      /\ Attempts'
  BY <1>1, <1>3, RestMove
<1>5. ASSUME NEW j \in Jobs, j # i \/ owner[i] # w
      PROVE  owner[j] # NoOne => owner[j] # w /\ att'[owner[j]] = att[owner[j]]
  BY <1>4, <1>5, OthersOwn
<1> HIDE DEF i
<1>6. /\ owner \in [Jobs -> Workers \cup {NoOne}] /\ unnoticed \in [Jobs -> Nat]
  BY DEF IInv, TypeOK
<1>7. ASSUME NEW k \in Jobs, k = i, owner[i] = w
      PROVE  /\ owner'[k] = NoOne /\ Balanced(k)' /\ unnoticed' \in [Jobs -> Nat]
             /\ \A j \in Jobs \ {k} : unnoticed'[j] = unnoticed[j] /\ owner'[j] = owner[j]
  <2>1. run[k] = "running"
    BY <1>0, <1>7 DEF IInv, ClaimsRun
  <2>2. owner' = [owner EXCEPT ![k] = NoOne] /\ LoseSight(k)
    BY <1>1, <1>7
  <2>3. owner'[k] = NoOne /\ \A j \in Jobs \ {k} : owner'[j] = owner[j]
    BY <1>6, <2>2
  <2>4. received'[k] = received[k] /\ handoffs'[k] = handoffs[k] /\ again'[k] = again[k]
    BY <1>1
  <2>5. QED
    BY <2>1, <2>2, <2>3, <2>4, LoseSightMove
<1>8. owner' \in [Jobs -> Workers \cup {NoOne}] /\ unnoticed' \in [Jobs -> Nat]
  BY <1>0, <1>1, <1>6, <1>7
<1>9. faults' \in 0 .. MaxFaults
  BY ConstantsAssumption DEF Crash, Fault, IInv, TypeOK
<1>10. TypeOK'
  BY <1>1, <1>3, <1>4, <1>8, <1>9 DEF IInv, TypeOK
<1>11. ASSUME NEW j \in Jobs, j # i \/ owner[i] # w
       PROVE  owner'[j] = owner[j] /\ unnoticed'[j] = unnoticed[j]
  BY <1>0, <1>1, <1>7, <1>11
<1>12. ClaimsRun'
  <2> SUFFICES ASSUME NEW j \in Jobs, owner'[j] # NoOne
               PROVE  run'[j] = "running" /\ att'[owner'[j]].job = j
                      /\ att'[owner'[j]].pc # "idle"
    BY DEF ClaimsRun
  <2>1. j # i \/ owner[i] # w
    BY <1>7
  <2>2. QED
    BY <1>1, <1>5, <1>11, <2>1 DEF IInv, ClaimsRun
<1>13. Ledger'
  <2> SUFFICES ASSUME NEW j \in Jobs
               PROVE  Balanced(j)'
    BY DEF Ledger
  <2>1. CASE j # i \/ owner[i] # w
    BY <1>1, <1>5, <1>11, <2>1, BalanceKept
  <2>2. CASE j = i /\ owner[i] = w
    BY <1>7, <2>2
  <2>3. QED
    BY <2>1, <2>2
<1>14. QED
  BY <1>4, <1>10, <1>12, <1>13 DEF IInv

\* A run is started that was ready, or that the user asks for once more.
LEMMA ClaimStep ==
  ASSUME IInv, NEW w \in Workers, NEW i \in Jobs, Claim(w, i) \/ Enqueue(w, i)
  PROVE  IInv'
<1> DEFINE a == [Rest EXCEPT !.pc = "opening", !.job = i]
<1>1. /\ att[w].pc = "idle"
      /\ run' = [run EXCEPT ![i] = "running"]
      /\ owner' = [owner EXCEPT ![i] = w]
      /\ att' = [att EXCEPT ![w] = a]
      /\ UNCHANGED <<failures, succeeded, handoffs, form, active, left, received, unnoticed>>
  BY DEF Claim, Enqueue, StartRun
<1>2. a \in Attempt /\ AttemptIsSound(a) /\ a.pc = "opening" /\ a.job = i
  BY RestType DEF Rest, Attempt, AttemptIsSound
<1> HIDE DEF a
<1>3. \A v \in Workers : att'[v] = IF v = w THEN a ELSE att[v]
  BY <1>1 DEF IInv, TypeOK
<1>4. again \in [Jobs -> Nat] /\ faults \in 0 .. MaxFaults
  BY DEF IInv, TypeOK
<1>5. again' = again \/ again' = [again EXCEPT ![i] = @ + 1]
  BY DEF Claim, Enqueue
<1>6. faults' \in 0 .. MaxFaults
  BY <1>4, ConstantsAssumption DEF Claim, Enqueue, Fault
<1>7. again' \in [Jobs -> Nat] /\ \A j \in Jobs \ {i} : again'[j] = again[j]
  BY <1>4, <1>5
<1>8. TypeOK'
  BY <1>1, <1>2, <1>6, <1>7 DEF IInv, TypeOK
<1>9. Attempts'
  <2> SUFFICES ASSUME NEW v \in Workers
               PROVE  AttemptIsSound(att'[v]) /\ OnOwnTab(v, att'[v], active')
                      /\ SaidIsTrue(att'[v], form'[v])
    BY DEF Attempts
  <2>1. CASE v = w
    BY <1>2, <1>3, <2>1 DEF OnOwnTab, SaidIsTrue
  <2>2. CASE v # w
    BY <1>1, <1>3, <2>2 DEF IInv, Attempts
  <2>3. QED
    BY <2>1, <2>2
<1>10. /\ run'[i] = "running" /\ owner'[i] = w
       /\ \A j \in Jobs \ {i} : run'[j] = run[j] /\ owner'[j] = owner[j]
  BY <1>1 DEF IInv, TypeOK
<1>11. ASSUME NEW j \in Jobs
       PROVE  owner[j] # NoOne => owner[j] # w /\ att'[owner[j]] = att[owner[j]]
  BY <1>1, <1>3, OthersOwn
<1>12. ClaimsRun'
  <2> SUFFICES ASSUME NEW j \in Jobs, owner'[j] # NoOne
               PROVE  run'[j] = "running" /\ att'[owner'[j]].job = j
                      /\ att'[owner'[j]].pc # "idle"
    BY DEF ClaimsRun
  <2>1. CASE j = i
    BY <1>2, <1>3, <1>10, <2>1
  <2>2. CASE j # i
    BY <1>10, <1>11, <2>2 DEF IInv, ClaimsRun
  <2>3. QED
    BY <2>1, <2>2
<1>13. Balanced(i)'
  <2>1. Balanced(i) /\ Opens(i) \in {0, 1} /\ Opens(i)' \in {0, 1}
    BY DEF IInv, Ledger, Opens
  <2>2. received[i] \in Nat /\ handoffs[i] \in Nat /\ again[i] \in Nat /\ unnoticed[i] \in Nat
    BY LedgerTypes DEF IInv
  <2>3. CASE Claim(w, i)
    <3>1. Opens(i) = 1 /\ again' = again
      BY <2>3 DEF Claim, Opens, IsOpen
    <3>2. QED
      BY <1>1, <2>1, <2>2, <3>1 DEF Balanced
  <2>4. CASE Enqueue(w, i)
    <3>1. Opens(i) = 0
      BY <2>4 DEF Enqueue, Settled, Opens, IsOpen
    <3>2. CASE IsKnown(i)
      <4>1. again' = [again EXCEPT ![i] = @ + 1]
        BY <2>4, <3>2 DEF Enqueue
      <4>2. again'[i] = again[i] + 1
        BY <1>4, <4>1
      <4>3. QED
        BY <1>1, <2>1, <2>2, <3>1, <4>2 DEF Balanced
    <3>3. CASE ~IsKnown(i)
      <4>1. again' = again
        BY <2>4, <3>3 DEF Enqueue
      <4>2. received[i] <= unnoticed[i] /\ handoffs[i] = 0
        BY <2>2, <3>3 DEF IsKnown
      <4>3. QED
        BY <1>1, <2>1, <2>2, <4>1, <4>2 DEF Balanced
    <3>4. QED
      BY <3>2, <3>3
  <2>5. QED
    BY <2>3, <2>4
<1>14. Ledger'
  <2> SUFFICES ASSUME NEW j \in Jobs, j # i
               PROVE  Balanced(j)'
    BY <1>13 DEF Ledger
  <2>1. QED
    BY <1>1, <1>7, <1>10, <1>11, BalanceKept
<1>15. QED
  BY <1>8, <1>9, <1>12, <1>14 DEF IInv

LEMMA SweepStep ==
  ASSUME IInv, NEW i \in Jobs, Sweep(i)
  PROVE  IInv'
<1>0. /\ run \in [Jobs -> {"ready", "running"} \cup Settled]
      /\ owner \in [Jobs -> Workers \cup {NoOne}]
      /\ failures \in [Jobs -> Nat]
      /\ faults \in 0 .. MaxFaults
  BY DEF IInv, TypeOK
<1>1. /\ run[i] = "running" /\ LoseSight(i)
      /\ run' = [run EXCEPT ![i] = FailedRun(i)]
      /\ failures' = [failures EXCEPT ![i] = @ + 1]
      /\ owner' = [owner EXCEPT ![i] = NoOne]
      /\ UNCHANGED <<succeeded, handoffs, att, form, active, left, received, again>>
  BY DEF Sweep
<1>2. /\ owner' \in [Jobs -> Workers \cup {NoOne}] /\ owner'[i] = NoOne
      /\ \A j \in Jobs \ {i} : owner'[j] = owner[j] /\ run'[j] = run[j]
  BY <1>0, <1>1
<1>3. Balanced(i)' /\ unnoticed' \in [Jobs -> Nat]
      /\ \A j \in Jobs \ {i} : unnoticed'[j] = unnoticed[j]
  BY <1>1, <1>2, LoseSightMove
<1>4. faults' \in 0 .. MaxFaults
  BY <1>0, ConstantsAssumption DEF Sweep, Fault
<1>5. run' \in [Jobs -> {"ready", "running"} \cup Settled] /\ failures' \in [Jobs -> Nat]
  BY <1>0, <1>1, FailedRunType DEF Settled
<1>6. TypeOK'
  BY <1>1, <1>2, <1>3, <1>4, <1>5 DEF IInv, TypeOK
<1>7. Attempts'
  BY <1>1 DEF IInv, Attempts
<1>8. ClaimsRun'
  BY <1>1, <1>2 DEF IInv, ClaimsRun
<1>9. Ledger'
  <2> SUFFICES ASSUME NEW j \in Jobs, j # i
               PROVE  Balanced(j)'
    BY <1>3 DEF Ledger
  <2>1. QED
    BY <1>1, <1>2, <1>3, BalanceKept
<1>10. QED
  BY <1>6, <1>7, <1>8, <1>9 DEF IInv

\* What the human may send is on the ledger already.
LEMMA HumanStep ==
  ASSUME IInv, NEW i \in Jobs, HumanDecides(i)
  PROVE  IInv'
<1>0. received \in [Jobs -> Nat] /\ handoffs \in [Jobs -> Nat]
  BY DEF IInv, TypeOK
<1>1. /\ handoffs[i] > 0 /\ handoffs' = [handoffs EXCEPT ![i] = @ - 1]
      /\ received' = [received EXCEPT ![i] = @ + 1] \/ received' = received
      /\ UNCHANGED <<run, owner, failures, succeeded, att, form, active, left,
                     unnoticed, again, faults>>
  BY DEF HumanDecides
<1>2. handoffs[i] - 1 \in Nat /\ received[i] + 1 \in Nat
  BY <1>0, <1>1
<1>3. /\ handoffs' \in [Jobs -> Nat] /\ received' \in [Jobs -> Nat]
      /\ handoffs'[i] = handoffs[i] - 1 /\ received'[i] \in {received[i], received[i] + 1}
      /\ \A j \in Jobs \ {i} : handoffs'[j] = handoffs[j] /\ received'[j] = received[j]
  BY <1>0, <1>1, <1>2
<1>4. TypeOK'
  BY <1>1, <1>3 DEF IInv, TypeOK
<1>5. Attempts' /\ ClaimsRun'
  BY <1>1 DEF IInv, Attempts, ClaimsRun
<1>6. Ledger'
  <2> SUFFICES ASSUME NEW j \in Jobs
               PROVE  Balanced(j)'
    BY DEF Ledger
  <2>1. CASE j = i
    <3>1. Balanced(i) /\ Opens(i) \in {0, 1} /\ Opens(i)' = Opens(i)
      BY <1>1 DEF IInv, Ledger, Opens, IsOpen
    <3>2. received[i] \in Nat /\ handoffs[i] \in Nat /\ again[i] \in Nat /\ unnoticed[i] \in Nat
      BY LedgerTypes DEF IInv
    <3>3. QED
      BY <1>1, <1>3, <2>1, <3>1, <3>2 DEF Balanced
  <2>2. CASE j # i
    BY <1>1, <1>3, <2>2, BalanceKept
  <2>3. QED
    BY <2>1, <2>2
<1>7. QED
  BY <1>4, <1>5, <1>6 DEF IInv

-----------------------------------------------------------------------------
(* The theorems. *)

LEMMA SubmitStep ==
  ASSUME IInv, NEW w \in Workers, Submit(w)
  PROVE  IInv'
BY DecideStep, ClickStep, RecordStep DEF Submit

LEMMA StutterStep ==
  ASSUME IInv, UNCHANGED vars
  PROVE  IInv'
<1>1. TypeOK' /\ Attempts' /\ ClaimsRun'
  BY DEF vars, IInv, TypeOK, Attempts, ClaimsRun
<1>2. Ledger'
  BY DEF vars, IInv, Ledger, Balanced, Opens, IsOpen
<1>3. QED
  BY <1>1, <1>2 DEF IInv

LEMMA NextStep == IInv /\ [Next]_vars => IInv'
<1> SUFFICES ASSUME IInv, [Next]_vars
             PROVE  IInv'
  OBVIOUS
<1>1. ASSUME NEW w \in Workers, Work(w)
      PROVE  IInv'
  BY <1>1, PrepareStep, ConnectStep, FinishStep, SubmitStep DEF Work
<1>2. ASSUME NEW w \in Workers, Crash(w)
      PROVE  IInv'
  BY <1>2, CrashStep
<1>3. ASSUME NEW w \in Workers, NEW j \in Jobs, Claim(w, j) \/ Enqueue(w, j)
      PROVE  IInv'
  BY <1>3, ClaimStep
<1>4. ASSUME NEW j \in Jobs, Sweep(j)
      PROVE  IInv'
  BY <1>4, SweepStep
<1>5. ASSUME NEW j \in Jobs, HumanDecides(j)
      PROVE  IInv'
  BY <1>5, HumanStep
<1>6. CASE UNCHANGED vars
  BY <1>6, StutterStep
<1>7. QED
  BY <1>1, <1>2, <1>3, <1>4, <1>5, <1>6 DEF Next

\* What the workers, the tool and the employer know of each other (browser.py,
\* finisher_integration.py, workers/apply.py) holds in every reachable state.
THEOREM Invariance == Spec => []IInv
<1>1. Init => IInv
  BY InitIInv
<1>2. IInv /\ [Next]_vars => IInv'
  BY NextStep
<1>3. QED
  BY <1>1, <1>2, PTL DEF Spec

\* Every variable keeps its type: an attempt is in one of its steps and keeps
\* to the request limit, and no handoff is resolved that is not there.
THEOREM TypeCorrect == Spec => []TypeOK
<1>1. IInv => TypeOK
  BY DEF IInv
<1>2. QED
  BY <1>1, Invariance, PTL

\* A form the worker submits is complete, unless the agent was led to a tab
\* that is not the worker's: what complete_apply saw is what is clicked.
THEOREM CompleteForm == Spec => []SubmittedFormIsComplete
<1>1. IInv => SubmittedFormIsComplete
  BY DEF IInv, Attempts, SaidIsTrue, SubmittedFormIsComplete
<1>2. QED
  BY <1>1, Invariance, PTL

\* An employer gets one application of a job, one more for each run the user
\* asked for again, and one more for each the records do not tell of, whatever
\* retries, sweeps, crashes and handoffs there were (workers/apply.py,
\* apply_runs.py, human_review.py).
THEOREM ApplicationsAreExplained == Spec => []EveryApplicationIsExplained
<1>1. IInv => EveryApplicationIsExplained
  <2> SUFFICES ASSUME IInv, NEW j \in Jobs
               PROVE  received[j] <= 1 + again[j] + unnoticed[j]
    BY DEF EveryApplicationIsExplained
  <2>1. QED
    BY LedgerTypes DEF IInv, Ledger, Balanced
<1>2. QED
  BY <1>1, Invariance, PTL

\* A worker that does not pass the gate does not get to submitting.
LEMMA OnlyTheGate ==
  ASSUME IInv, NEW v \in Workers, NEW w \in Workers,
         Work(v) \/ Crash(v) \/ \E j \in Jobs : Claim(v, j) \/ Enqueue(v, j),
         att[w].pc # "submitting", att'[w].pc = "submitting"
  PROVE  v = w /\ Decide(w)
<1>0. att \in [Workers -> Attempt]
  BY DEF IInv, TypeOK
<1>1. ASSUME NEW a, a.pc # "submitting", att' = [att EXCEPT ![v] = a]
      PROVE  FALSE
  BY <1>0, <1>1
<1>2. ASSUME NEW a \in Attempt, att' = [att EXCEPT ![v] = a], a.pc = "submitting"
      PROVE  v = w
  BY <1>0, <1>2
<1>3. CASE Prepare(v)
  <2>1. CASE OpenForm(v) \/ Prefill(v)
    BY <1>0, <2>1 DEF OpenForm, Prefill, Attempt
  <2>2. CASE NavigationFails(v)
    <3> DEFINE a == [att[v] EXCEPT !.pc = "recording", !.outcome = "FAILED_NAVIGATION"]
    <3>1. a.pc = "recording" /\ att' = [att EXCEPT ![v] = a]
      BY <1>0, <2>2 DEF NavigationFails, Becomes, Attempt
    <3> HIDE DEF a
    <3>2. QED
      BY <1>1, <3>1
  <2>3. CASE FlowFails(v)
    <3> DEFINE a == [Rest EXCEPT !.job = att[v].job, !.pc = "recording",
                                 !.outcome = "FAILED_OTHER"]
    <3>1. a.pc = "recording" /\ att' = [att EXCEPT ![v] = a]
      BY <1>0, <2>3 DEF FlowFails, Becomes, Rest
    <3> HIDE DEF a
    <3>2. QED
      BY <1>1, <3>1
  <2>4. QED
    BY <1>3, <2>1, <2>2, <2>3 DEF Prepare
<1>4. CASE Connect(v)
  <2>1. CASE LoadFails(v)
    <3> DEFINE a == [att[v] EXCEPT !.pc = "deciding"]
    <3>1. a.pc = "deciding" /\ att' = [att EXCEPT ![v] = a]
      BY <1>0, <2>1 DEF LoadFails, Becomes, Attempt
    <3> HIDE DEF a
    <3>2. QED
      BY <1>1, <3>1
  <2>2. CASE Switch(v)
    <3>1. att'[w].pc \in {"starting", att[w].pc}
      BY <1>0, <2>2 DEF Switch, Attempt
    <3>2. QED
      BY <3>1
  <2>3. ASSUME NEW t, Attach(v, t)
        PROVE  FALSE
    <3>1. att'[w].pc \in {"starting", att[w].pc}
      <4>1. v # w => att'[w] = [att[w] EXCEPT !.astray = @ \/ (att[w].pc \in {"starting", "finishing"})]
        BY <2>3 DEF Attach
      <4>2. v = w => att'[w] = [att[w] EXCEPT !.pc = "starting", !.astray = (t # w)]
        BY <2>3 DEF Attach
      <4>3. \A b : [att[w] EXCEPT !.astray = b].pc = att[w].pc
        BY <1>0 DEF Attempt
      <4>4. \A b : [att[w] EXCEPT !.pc = "starting", !.astray = b].pc = "starting"
        BY <1>0 DEF Attempt
      <4>5. QED
        BY <4>1, <4>2, <4>3, <4>4
    <3>2. QED
      BY <3>1
  <2>4. QED
    BY <1>4, <2>1, <2>2, <2>3 DEF Connect, SwitchToOther, SessionFails
<1>5. CASE Finish(v)
  <2>1. ASSUME NEW a \in Attempt, Turn(v, a), a.pc = "finishing"
        PROVE  FALSE
    <3> DEFINE c == [a EXCEPT !.turns = @ + 1]
    <3>1. c.pc = "finishing" /\ att' = [att EXCEPT ![v] = c]
      BY <2>1 DEF Turn, Attempt
    <3> HIDE DEF c
    <3>2. QED
      BY <1>1, <3>1
  <2>2. ASSUME NEW f \in Fields, FillField(v, f) \/ DraftField(v, f) \/ Defer(v, f)
        PROVE  FALSE
    <3> DEFINE drafted == [att[v] EXCEPT !.weak = @ \cup {f}, !.doubts = @ \cup {f}]
               deferred == [att[v] EXCEPT !.deferred = @ \cup {f}, !.doubts = @ \cup {f}]
    <3>1. att[v].pc = "finishing"
      BY <2>2 DEF FillField, DraftField, Defer, Turn
    <3>2. /\ drafted \in Attempt /\ deferred \in Attempt
          /\ drafted.pc = "finishing" /\ deferred.pc = "finishing"
      <4>1. att[v] \in Attempt
        BY <1>0
      <4>2. drafted \in Attempt /\ drafted.pc = "finishing"
        BY <3>1, <4>1 DEF Attempt
      <4>3. deferred \in Attempt /\ deferred.pc = "finishing"
        BY <3>1, <4>1 DEF Attempt
      <4>4. QED
        BY <4>2, <4>3
    <3>3. Turn(v, att[v]) \/ Turn(v, drafted) \/ Turn(v, deferred)
      BY <2>2 DEF FillField, DraftField, Defer
    <3> HIDE DEF drafted, deferred
    <3>4. QED
      BY <1>0, <2>1, <3>1, <3>2, <3>3
  <2>3. CASE OtherTurn(v)
    <3>1. Turn(v, att[v]) /\ att[v].pc = "finishing"
      BY <2>3 DEF OtherTurn, Turn
    <3>2. QED
      BY <1>0, <2>1, <3>1
  <2>4. CASE RateLimited(v)
    <3>1. NextPass(att[v]).pc = "finishing" /\ att' = [att EXCEPT ![v] = NextPass(att[v])]
      BY <1>0, <2>4 DEF RateLimited, Becomes, NextPass, Attempt
    <3>2. QED
      BY <1>1, <3>1
  <2>5. CASE Preflight(v) \/ GiveUp(v) \/ UsageLimit(v) \/ FinisherFails(v)
    <3>1. PICK a : a.pc \in {"finishing", "deciding"} /\ att' = [att EXCEPT ![v] = a]
      <4>1. \A f : [att[v] EXCEPT !.pc = "deciding", !.turns = 0, !.pass = 0,
                                 !.finisher = f].pc = "deciding"
        BY <1>0 DEF Attempt
      <4>2. [att[v] EXCEPT !.pc = "finishing"].pc = "finishing"
        BY <1>0 DEF Attempt
      <4>3. CASE Preflight(v)
        <5> DEFINE going == [att[v] EXCEPT !.pc = "finishing"]
                   failed == [att[v] EXCEPT !.pc = "deciding", !.turns = 0, !.pass = 0,
                                            !.finisher = "RUNTIME_ERROR"]
        <5>1. att' = [att EXCEPT ![v] = going] \/ att' = [att EXCEPT ![v] = failed]
          BY <4>3 DEF Preflight, Becomes
        <5>2. going.pc = "finishing" /\ failed.pc = "deciding"
          BY <4>1, <4>2
        <5> HIDE DEF going, failed
        <5>3. QED
          BY <5>1, <5>2
      <4>4. CASE GiveUp(v) \/ UsageLimit(v) \/ FinisherFails(v)
        <5> DEFINE over(f) == [att[v] EXCEPT !.pc = "deciding", !.turns = 0, !.pass = 0,
                                             !.finisher = f]
        <5>1. PICK f : att' = [att EXCEPT ![v] = over(f)]
          BY <4>4 DEF GiveUp, UsageLimit, FinisherFails, Becomes
        <5>2. over(f).pc = "deciding"
          BY <4>1
        <5> HIDE DEF over
        <5>3. QED
          BY <5>1, <5>2
      <4>5. QED
        BY <2>5, <4>3, <4>4
    <3>2. QED
      BY <1>1, <3>1
  <2>6. CASE CompleteApply(v)
    <3> DEFINE a == [att[v] EXCEPT !.pc = "deciding", !.turns = 0, !.pass = 0,
                                   !.finisher = "COMPLETE",
                      !.filled = active \in Tabs /\ Fields \subseteq form[active] \cup att[v].deferred]
    <3>1. a.pc = "deciding" /\ att' = [att EXCEPT ![v] = a]
      BY <1>0, <2>6 DEF CompleteApply, Becomes, Attempt
    <3> HIDE DEF a
    <3>2. QED
      BY <1>1, <3>1
  <2>7. QED
    BY <1>5, <2>2, <2>3, <2>4, <2>5, <2>6 DEF Finish
<1>6. CASE Submit(v)
  <2>1. CASE Decide(v)
    <3> DEFINE submitting == [Decided(v) EXCEPT !.pc = "submitting"]
               review == [Decided(v) EXCEPT !.pc = "recording", !.outcome = "NEEDS_REVIEW"]
    <3>1. Decided(v) \in Attempt
      BY <1>0, RestType DEF Decided, Attempt
    <3>2. /\ submitting \in Attempt /\ submitting.pc = "submitting"
          /\ review.pc = "recording"
      BY <3>1 DEF Attempt
    <3>3. att' = [att EXCEPT ![v] = submitting] \/ att' = [att EXCEPT ![v] = review]
      BY <2>1 DEF Decide, Becomes
    <3> HIDE DEF submitting, review
    <3>4. v = w
      BY <1>1, <1>2, <3>2, <3>3
    <3>5. QED
      BY <2>1, <3>4
  <2>2. CASE GateIsClosed(v) \/ ClickRefused(v) \/ Classify(v)
    <3>1. CASE GateIsClosed(v)
      <4> DEFINE a == [Decided(v) EXCEPT !.pc = "recording", !.outcome = "NEEDS_REVIEW"]
      <4>1. a.pc = "recording" /\ att' = [att EXCEPT ![v] = a]
        BY <3>1 DEF GateIsClosed, Becomes, Decided, Rest
      <4> HIDE DEF a
      <4>2. QED
        BY <1>1, <4>1
    <3>2. CASE ClickRefused(v)
      <4>1. PICK a : a.pc = "reading" /\ att' = [att EXCEPT ![v] = a]
        BY <1>0, <3>2 DEF ClickRefused, Becomes, Attempt
      <4>2. QED
        BY <1>1, <4>1
    <3>3. CASE Classify(v)
      <4>1. PICK o : att' = [att EXCEPT ![v] = [att[v] EXCEPT !.pc = "recording", !.outcome = o]]
        BY <3>3 DEF Classify, Becomes
      <4>2. att'[w].pc \in {"recording", att[w].pc}
        BY <1>0, <4>1 DEF Attempt
      <4>3. QED
        BY <4>2
    <3>4. QED
      BY <2>2, <3>1, <3>2, <3>3
  <2>3. CASE ClickAccepted(v) \/ ClickFails(v)
    <3>1. CASE ClickAccepted(v)
      <4>1. PICK how : att' = [att EXCEPT ![v].pc = "reading", ![v].sent = how]
        BY <3>1 DEF ClickAccepted
      <4>2. att'[w].pc \in {"reading", att[w].pc}
        BY <1>0, <4>1 DEF Attempt
      <4>3. QED
        BY <4>2
    <3>2. CASE ClickFails(v)
      <4>1. att'[w].pc \in {"recording", att[w].pc}
        BY <1>0, <3>2 DEF ClickFails, Attempt
      <4>2. QED
        BY <4>1
    <3>3. QED
      BY <2>3, <3>1, <3>2
  <2>4. CASE Record(v)
    BY <1>1, <2>4 DEF Record, Rest
  <2>5. QED
    BY <1>6, <2>1, <2>2, <2>3, <2>4 DEF Submit
<1>7. CASE Crash(v)
  BY <1>1, <1>7 DEF Crash, Rest
<1>8. ASSUME NEW j \in Jobs, Claim(v, j) \/ Enqueue(v, j)
      PROVE  FALSE
  BY <1>1, <1>8 DEF Claim, Enqueue, StartRun, Rest
<1>9. QED
  BY <1>3, <1>4, <1>5, <1>6, <1>7, <1>8 DEF Work

\* The gate opens only for a conversation that left nothing to the human.
LEMMA GateStep ==
  ASSUME IInv, [Next]_vars, NEW w \in Workers,
         att[w].pc # "submitting", att'[w].pc = "submitting"
  PROVE  att[w].doubts = {}
<1>0. att[w] \in Attempt /\ AttemptIsSound(att[w])
  BY DEF IInv, TypeOK, Attempts
<1>1. Decide(w)
  <2>1. ASSUME NEW j \in Jobs, Sweep(j) \/ HumanDecides(j)
        PROVE  FALSE
    BY <2>1 DEF Sweep, HumanDecides
  <2>2. CASE UNCHANGED vars
    BY <2>2 DEF vars
  <2>3. QED
    BY <2>1, <2>2, OnlyTheGate DEF Next
<1>2. CASE EvaluateSubmitGate(att[w])
  BY <1>0, <1>2 DEF EvaluateSubmitGate, AttemptIsSound
<1>3. CASE ~EvaluateSubmitGate(att[w])
  <2> DEFINE review == [Decided(w) EXCEPT !.pc = "recording", !.outcome = "NEEDS_REVIEW"]
  <2>1. att' = [att EXCEPT ![w] = review] /\ review.pc = "recording"
    BY <1>1, <1>3 DEF Decide, Becomes, Decided, Rest
  <2> HIDE DEF review
  <2>2. att'[w].pc = "recording"
    BY <2>1 DEF IInv, TypeOK
  <2>3. QED
    BY <2>2
<1>4. QED
  BY <1>2, <1>3

\* evaluate_submit_gate (submit_gate.py) lets the worker click submit only when
\* no pass of the conversation left a field to the human.
THEOREM VettedSubmits == Spec => SubmitsAreVetted
<1>1. IInv /\ [Next]_vars =>
        [\A w \in Workers :
           att[w].pc # "submitting" /\ att'[w].pc = "submitting" =>
             att[w].doubts = {}]_vars
  BY GateStep
<1>2. QED
  BY <1>1, Invariance, PTL DEF Spec, SubmitsAreVetted

=============================================================================
