--------------------------- MODULE ApplyRuns_proofs ---------------------------
(***************************************************************************)
(* Proofs about ApplyRuns, for every number of jobs, review runs, apply    *)
(* runs, workers and requests.                                             *)
(*                                                                         *)
(* Every step either inserts one PENDING row after a check (a claim by a   *)
(* loop, an enqueue by the dashboard) or moves existing rows along the     *)
(* graph of run states.  StepKinds states this once; the invariants follow *)
(* from it without looking at the actions again.                           *)
(*                                                                         *)
(* The last part maps the rows to ApplySlot, the slot per review run that  *)
(* they implement.  The invariant gives the one fact the mapping needs:    *)
(* the loops have one live or successful row per review run, so that a     *)
(* sweep ends at most one attempt of it.                                   *)
(***************************************************************************)
EXTENDS ApplyRuns, FiniteSetTheorems, TLAPS

-----------------------------------------------------------------------------
(* Type correctness. *)

LEMMA InsertTypeOK ==
  ASSUME TypeOK, NEW v \in ReviewIds, NEW who \in Loops \cup {User},
         InsertRun(v, who)
  PROVE  runs' \in [RunIds -> Run] /\ nextRun' \in 1 .. (MaxRuns + 1)
<1> USE ConstantsAssumption
<1>1. PendingRun(v, who) \in Run
  <2>1. v \in 0 .. MaxReviews
    BY DEF ReviewIds
  <2>2. NoRun \in Run
    BY DEF NoRun, Run
  <2>3. QED
    BY <2>1, <2>2 DEF PendingRun, Run
<1>2. nextRun \in Nat /\ nextRun <= MaxRuns /\ 1 <= nextRun
  BY DEF InsertRun, TypeOK
<1>3. runs' \in [RunIds -> Run]
  BY <1>1 DEF InsertRun, TypeOK
<1>4. nextRun' \in 1 .. (MaxRuns + 1)
  BY <1>2 DEF InsertRun
<1>5. QED
  BY <1>3, <1>4

\* What a row may become, whoever changes it.
LEMMA RunEdits ==
  ASSUME NEW run \in Run
  PROVE  /\ [run EXCEPT !.stale = TRUE] \in Run
         /\ [run EXCEPT !.waiting = FALSE] \in Run
         /\ [run EXCEPT !.deleted = TRUE] \in Run
BY DEF Run

LEMMA FinishedTypeOK ==
  ASSUME NEW run \in Run
  PROVE  /\ \A w \in BOOLEAN :
              [run EXCEPT !.status = "FAILED", !.token = FALSE, !.stale = FALSE,
                          !.waiting = w] \in Run
         /\ \A outcome \in {"NEEDS_REVIEW", "SUBMITTED"} :
              [run EXCEPT !.status = "SUCCESS", !.token = FALSE, !.stale = FALSE,
                          !.outcome = outcome] \in Run
BY DEF Run

LEMMA SweptTypeOK ==
  ASSUME NEW run \in Run
  PROVE  Swept(run) \in Run
BY DEF Swept, Run

LEMMA ErasedTypeOK ==
  ASSUME NEW run \in Run
  PROVE  Erased(run) \in Run
BY ConstantsAssumption DEF Erased, NoRun, Run

LEMMA InitTypeOK == Init => TypeOK
BY ConstantsAssumption
   DEF Init, TypeOK, NoReview, Review, NoRun, Run, HandoffStatus, TaskState,
       IdleRequest, Request

LEMMA StepTypeOK == TypeOK /\ [Next]_vars => TypeOK'
<1> USE ConstantsAssumption
<1> SUFFICES ASSUME TypeOK, [Next]_vars
             PROVE  TypeOK'
  OBVIOUS
<1>0. \A r \in RunIds : runs[r] \in Run
  BY DEF TypeOK
<1>1. ASSUME NEW j \in Jobs, NEW verdict \in Verdicts, PublishReview(j, verdict)
      PROVE  TypeOK'
  BY <1>1 DEF PublishReview, TypeOK, Review
<1>2. ASSUME NEW l \in Loops, ClaimNextApplyJob(l)
      PROVE  TypeOK'
  BY <1>2, InsertTypeOK DEF ClaimNextApplyJob, TypeOK, TaskState
<1>3. ASSUME NEW j \in Jobs, EnqueueApplyRunForJob(j)
      PROVE  TypeOK'
  BY <1>3, InsertTypeOK DEF EnqueueApplyRunForJob, TypeOK, TaskState
<1>4. ASSUME NEW j \in Jobs, EnqueueApplyRunWithBaseResume(j)
      PROVE  TypeOK'
  <2>1. runs' \in [RunIds -> Run] /\ nextRun' \in 1 .. (MaxRuns + 1)
    BY <1>4, InsertTypeOK DEF EnqueueApplyRunWithBaseResume
  <2>2. [job |-> j, verdict |-> "BASE"] \in Review
    BY DEF Review, ApplyVerdicts
  <2>3. reviews' \in [ReviewIds -> Review]
    BY <1>4, <2>2 DEF EnqueueApplyRunWithBaseResume, TypeOK
  <2>4. QED
    BY <1>4, <2>1, <2>3 DEF EnqueueApplyRunWithBaseResume, TypeOK, TaskState
<1>5. ASSUME NEW r \in RunIds, TaskStep(r)
      PROVE  TypeOK'
  <2>1. ASSUME NEW limit \in {0, MaxRetries}, CountFailures(r, limit)
        PROVE  TypeOK'
    BY <2>1 DEF CountFailures, TypeOK, TaskState
  <2>2. CASE RecordApplyFailure(r)
    <3> DEFINE retry == task[r] = "failRetry"
               failed == [runs[r] EXCEPT !.status = "FAILED", !.token = FALSE,
                                         !.stale = FALSE, !.waiting = retry]
    <3>0. \A w \in BOOLEAN :
             [runs[r] EXCEPT !.status = "FAILED", !.token = FALSE, !.stale = FALSE,
                             !.waiting = w] \in Run
      BY <1>0, FinishedTypeOK
    <3>1. failed \in Run
      BY <3>0
    <3>2. runs' = IF OwnsRun(r) THEN [runs EXCEPT ![r] = failed] ELSE runs
      BY <2>2 DEF RecordApplyFailure
    <3>3. runs' \in [RunIds -> Run]
      BY <3>1, <3>2 DEF TypeOK
    <3>4. QED
      BY <2>2, <3>3 DEF RecordApplyFailure, TypeOK, TaskState
  <2>3. ASSUME NEW outcome \in {"NEEDS_REVIEW", "SUBMITTED"},
               RecordApplySuccess(r, outcome)
        PROVE  TypeOK'
    <3> DEFINE done == [runs[r] EXCEPT !.status = "SUCCESS", !.token = FALSE,
                                       !.stale = FALSE, !.outcome = outcome]
    <3>1. done \in Run
      BY <1>0, FinishedTypeOK
    <3>2. runs' = [runs EXCEPT ![r] = done] \/ runs' = runs
      BY <2>3 DEF RecordApplySuccess
    <3>3. runs' \in [RunIds -> Run]
      BY <3>1, <3>2 DEF TypeOK
    <3>4. QED
      BY <2>3, <3>3 DEF RecordApplySuccess, TypeOK, TaskState
  <2>4. CASE RecordApplyHandoff(r)
    BY <2>4 DEF RecordApplyHandoff, TypeOK, TaskState, HandoffStatus
  <2>5. QED
    BY <1>5, <2>1, <2>2, <2>3, <2>4 DEF TaskStep
<1>6. ASSUME NEW r \in RunIds, AbandonTask(r) \/ ClockStep(r)
      PROVE  TypeOK'
  <2>1. [runs[r] EXCEPT !.stale = TRUE] \in Run
    BY <1>0, RunEdits
  <2>2. [runs[r] EXCEPT !.waiting = FALSE] \in Run
    BY <1>0, RunEdits
  <2>3. CASE AbandonTask(r)
    BY <2>3 DEF AbandonTask, TypeOK, TaskState
  <2>4. CASE ClockStep(r)
    <3>1. \/ runs' = [runs EXCEPT ![r] = [runs[r] EXCEPT !.stale = TRUE]]
          \/ runs' = [runs EXCEPT ![r] = [runs[r] EXCEPT !.waiting = FALSE]]
      BY <2>4 DEF ClockStep, LeaseExpires, RetryFallsDue
    <3>2. runs' \in [RunIds -> Run]
      BY <2>1, <2>2, <3>1 DEF TypeOK
    <3>3. QED
      BY <2>4, <3>2 DEF ClockStep, LeaseExpires, RetryFallsDue, TypeOK
  <2>5. QED
    BY <1>6, <2>3, <2>4
<1>7. ASSUME NEW l \in Sweepers, StartScript(l)
      PROVE  TypeOK'
  BY <1>7, SweptTypeOK DEF StartScript, TypeOK
<1>8. ASSUME NEW l \in Sweepers, StopScript(l)
      PROVE  TypeOK'
  BY <1>8 DEF StopScript, TypeOK, TaskState
<1>9. ASSUME NEW r \in RunIds, SoftDeleteApplyRun(r)
      PROVE  TypeOK'
  <2>1. [runs[r] EXCEPT !.deleted = TRUE] \in Run
    BY <1>0, RunEdits
  <2>2. QED
    BY <1>9, <2>1 DEF SoftDeleteApplyRun, TypeOK
<1>10. ASSUME NEW j \in Jobs, ResetApplyFailureState(j)
       PROVE  TypeOK'
  BY <1>10, ErasedTypeOK DEF ResetApplyFailureState, TypeOK
<1>11. ASSUME NEW h \in RunIds, NEW target \in {"APPROVED", "REJECTED"},
              ResolveHandoff(h, target)
       PROVE  TypeOK'
  BY <1>11 DEF ResolveHandoff, TransitionHandoffStatus, TypeOK, HandoffStatus
<1>12. ASSUME NEW q \in Requests, NEW h \in RunIds, RelaunchCheck(q, h)
       PROVE  TypeOK'
  BY <1>12 DEF RelaunchCheck, TypeOK, Request, RunIds
<1>13. ASSUME NEW q \in Requests, RelaunchEnqueue(q)
       PROVE  TypeOK'
  <2>1. runs' \in [RunIds -> Run] /\ nextRun' \in 1 .. (MaxRuns + 1)
    BY <1>13, InsertTypeOK DEF RelaunchEnqueue
  <2>2. nextRun \in 0 .. MaxRuns
    BY <1>13 DEF RelaunchEnqueue, InsertRun, TypeOK
  <2>3. request' \in [Requests -> Request]
    <3>0. request[q] \in Request
      BY DEF TypeOK
    <3>1. [request[q] EXCEPT !.pc = "enqueued", !.run = nextRun] \in Request
      BY <2>2, <3>0 DEF Request
    <3>2. request' = [request EXCEPT ![q] = [request[q] EXCEPT !.pc = "enqueued", !.run = nextRun]]
      BY <1>13 DEF RelaunchEnqueue
    <3>3. QED
      BY <3>1, <3>2 DEF TypeOK
  <2>4. QED
    BY <1>13, <2>1, <2>3 DEF RelaunchEnqueue, TypeOK
<1>14. ASSUME NEW q \in Requests, RelaunchResolve(q)
       PROVE  TypeOK'
  <2>0. task' \in [RunIds -> TaskState]
    BY <1>14 DEF RelaunchResolve, TypeOK, TaskState
  <2>1. request' \in [Requests -> Request]
    BY <1>14 DEF RelaunchResolve, TypeOK, IdleRequest, Request
  <2>2. handoffs' \in [RunIds -> HandoffStatus]
    BY <1>14 DEF RelaunchResolve, TransitionHandoffStatus, TypeOK, HandoffStatus
  <2>3. jobStatus' \in [Jobs -> {"QUALIFIED", "APPLIED", "REJECTED"}]
    BY <1>14 DEF RelaunchResolve, TransitionHandoffStatus, TypeOK
  <2>4. QED
    BY <1>14, <2>0, <2>1, <2>2, <2>3 DEF RelaunchResolve, TypeOK
<1>15. ASSUME NEW q \in Requests,
              RelaunchRefused(q) \/ RelaunchRaced(q) \/ RelaunchAbandoned(q)
       PROVE  TypeOK'
  BY <1>15 DEF RelaunchRefused, RelaunchRaced, RelaunchAbandoned, TypeOK,
               IdleRequest, Request
<1>16. CASE UNCHANGED vars
  BY <1>16 DEF vars, TypeOK
<1>17. QED
  BY <1>1, <1>2, <1>3, <1>4, <1>5, <1>6, <1>7, <1>8, <1>9, <1>10, <1>11,
     <1>12, <1>13, <1>14, <1>15, <1>16 DEF Next, UserStep

\* Every variable keeps its type in every step of the apply stage.
THEOREM TypeCorrect == Spec => []TypeOK
BY InitTypeOK, StepTypeOK, PTL DEF Spec

-----------------------------------------------------------------------------
(* The kinds of steps. *)

\* What a step may do to a row that it does not insert.
QuietChange(old, new) ==
  /\ new.review = old.review /\ new.by = old.by
  /\ new.status # old.status =>
       \/ old.status = "PENDING" /\ new.status \in {"SUCCESS", "FAILED"}
       \/ old.status = "FAILED" /\ new.status = "NONE"
  /\ new.status = "PENDING" =>
       new.token = old.token /\ (old.deleted => new.deleted)
  /\ old.status = "SUCCESS" => new.outcome = old.outcome

ReviewsGrow == \A v \in ReviewIds : ReviewExists(v) => reviews'[v] = reviews[v]

QuietStep ==
  /\ \A r \in RunIds : QuietChange(runs[r], runs'[r])
  /\ nextRun' = nextRun

LoopInserts ==
  \E l \in Loops, v \in ReviewIds : Eligible(v) /\ InsertRun(v, l)

UserInserts ==
  \E j \in Jobs, v \in ReviewIds :
    /\ ~InFlight(j)
    /\ reviews[v].job = j \/ ~ReviewExists(v)
    /\ reviews'[v].verdict # "NONE"
    /\ InsertRun(v, User)

\* A step that replaces one row quietly is quiet.
LEMMA OneRowQuiet ==
  ASSUME TypeOK, NEW s \in RunIds, NEW row,
         runs' = [runs EXCEPT ![s] = row], QuietChange(runs[s], row),
         nextRun' = nextRun
  PROVE  QuietStep
<1>1. ASSUME NEW r \in RunIds
      PROVE  QuietChange(runs[r], runs'[r])
  <2>1. CASE r = s
    BY <2>1 DEF TypeOK
  <2>2. CASE r # s
    BY <2>2 DEF TypeOK, QuietChange
  <2>3. QED
    BY <2>1, <2>2
<1>2. QED
  BY <1>1 DEF QuietStep

\* A step that leaves the rows alone is quiet.
LEMMA SameRowsQuiet ==
  ASSUME runs' = runs, nextRun' = nextRun
  PROVE  QuietStep
BY DEF QuietStep, QuietChange

\* A result of the dashboard's choice of a review run: its own, and published.
LEMMA LatestReviewInserts ==
  ASSUME NEW j \in Jobs, ~InFlight(j), reviews' = reviews,
         NEW v \in ReviewIds, LatestReview(v, j), InsertRun(v, User)
  PROVE  UserInserts
BY DEF UserInserts, LatestReview, ReviewExists

\* Every step of the stage inserts one checked row or is quiet, and no step
\* changes a published review run.
LEMMA StepKinds ==
  ASSUME TypeOK, [Next]_vars
  PROVE  (QuietStep \/ LoopInserts \/ UserInserts) /\ ReviewsGrow
<1> USE ConstantsAssumption
<1> DEFINE Goal == (QuietStep \/ LoopInserts \/ UserInserts) /\ ReviewsGrow
<1>0. \A r \in RunIds : runs[r] \in Run
  BY DEF TypeOK
<1>s. reviews' = reviews => ReviewsGrow
  BY DEF ReviewsGrow
<1>1. ASSUME NEW j \in Jobs, NEW verdict \in Verdicts, PublishReview(j, verdict)
      PROVE  Goal
  <2>1. QuietStep
    BY <1>1, SameRowsQuiet DEF PublishReview
  <2>2. ReviewsGrow
    BY <1>1 DEF PublishReview, ReviewsGrow, NextReview, TypeOK
  <2>3. QED
    BY <2>1, <2>2
<1>2. ASSUME NEW l \in Loops, ClaimNextApplyJob(l)
      PROVE  Goal
  BY <1>2, <1>s DEF ClaimNextApplyJob, NextCandidate, LoopInserts
<1>3. ASSUME NEW j \in Jobs, EnqueueApplyRunForJob(j)
      PROVE  Goal
  BY <1>3, <1>s, LatestReviewInserts DEF EnqueueApplyRunForJob
<1>4. ASSUME NEW j \in Jobs, EnqueueApplyRunWithBaseResume(j)
      PROVE  Goal
  <2>1. PICK v \in ReviewIds :
          /\ NextReview(v)
          /\ reviews' = [reviews EXCEPT ![v] = [job |-> j, verdict |-> "BASE"]]
          /\ InsertRun(v, User)
    BY <1>4 DEF EnqueueApplyRunWithBaseResume
  <2>2. reviews'[v].verdict = "BASE"
    BY <2>1 DEF TypeOK
  <2>3. UserInserts
    BY <1>4, <2>1, <2>2 DEF EnqueueApplyRunWithBaseResume, UserInserts, NextReview
  <2>4. ReviewsGrow
    BY <2>1 DEF ReviewsGrow, NextReview, TypeOK
  <2>5. QED
    BY <2>3, <2>4
<1>5. ASSUME NEW r \in RunIds, TaskStep(r)
      PROVE  Goal
  <2>1. ASSUME NEW limit \in {0, MaxRetries}, CountFailures(r, limit)
        PROVE  Goal
    BY <2>1, <1>s, SameRowsQuiet DEF CountFailures
  <2>2. CASE RecordApplyFailure(r)
    <3>1. CASE OwnsRun(r)
      <4> DEFINE row == [runs[r] EXCEPT !.status = "FAILED", !.token = FALSE,
                           !.stale = FALSE, !.waiting = (task[r] = "failRetry")]
      <4>1. runs' = [runs EXCEPT ![r] = row] /\ nextRun' = nextRun
        BY <2>2, <3>1 DEF RecordApplyFailure
      <4>2. \A w : QuietChange(runs[r],
               [runs[r] EXCEPT !.status = "FAILED", !.token = FALSE, !.stale = FALSE,
                               !.waiting = w])
        BY <1>0, <3>1 DEF OwnsRun, QuietChange, Run
      <4>3. QuietChange(runs[r], row)
        BY <4>2
      <4>4. QuietStep
        BY <4>1, <4>3, OneRowQuiet
      <4>5. QED
        BY <2>2, <4>4, <1>s DEF RecordApplyFailure
    <3>2. CASE ~OwnsRun(r)
      BY <2>2, <3>2, <1>s, SameRowsQuiet DEF RecordApplyFailure
    <3>3. QED
      BY <3>1, <3>2
  <2>3. ASSUME NEW outcome \in {"NEEDS_REVIEW", "SUBMITTED"},
               RecordApplySuccess(r, outcome)
        PROVE  Goal
    <3>1. CASE OwnsRun(r)
      <4> DEFINE row == [runs[r] EXCEPT !.status = "SUCCESS", !.token = FALSE,
                                        !.stale = FALSE, !.outcome = outcome]
      <4>1. runs' = [runs EXCEPT ![r] = row] /\ nextRun' = nextRun
        BY <2>3, <3>1 DEF RecordApplySuccess
      <4>2. QuietChange(runs[r], row)
        BY <1>0, <3>1 DEF OwnsRun, QuietChange, Run
      <4>3. QuietStep
        BY <4>1, <4>2, OneRowQuiet
      <4>4. QED
        BY <2>3, <4>3, <1>s DEF RecordApplySuccess
    <3>2. CASE ~OwnsRun(r)
      BY <2>3, <3>2, <1>s, SameRowsQuiet DEF RecordApplySuccess
    <3>3. QED
      BY <3>1, <3>2
  <2>4. CASE RecordApplyHandoff(r)
    BY <2>4, <1>s, SameRowsQuiet DEF RecordApplyHandoff
  <2>5. QED
    BY <1>5, <2>1, <2>2, <2>3, <2>4 DEF TaskStep
<1>6. ASSUME NEW r \in RunIds, AbandonTask(r) \/ ClockStep(r)
      PROVE  Goal
  <2>1. QuietChange(runs[r], [runs[r] EXCEPT !.stale = TRUE])
    BY <1>0 DEF QuietChange, Run
  <2>2. QuietChange(runs[r], [runs[r] EXCEPT !.waiting = FALSE])
    BY <1>0 DEF QuietChange, Run
  <2>3. QuietStep
    <3>1. CASE AbandonTask(r)
      BY <3>1, SameRowsQuiet DEF AbandonTask
    <3>2. CASE LeaseExpires(r)
      BY <3>2, <2>1, OneRowQuiet DEF LeaseExpires
    <3>3. CASE RetryFallsDue(r)
      BY <3>3, <2>2, OneRowQuiet DEF RetryFallsDue
    <3>4. QED
      BY <1>6, <3>1, <3>2, <3>3 DEF ClockStep
  <2>4. QED
    BY <1>6, <2>3, <1>s DEF AbandonTask, ClockStep, LeaseExpires, RetryFallsDue
<1>7. ASSUME NEW l \in Sweepers, StartScript(l)
      PROVE  Goal
  <2>1. \A r \in RunIds : QuietChange(runs[r], Swept(runs[r]))
    BY <1>0 DEF QuietChange, Swept, Run
  <2>2. QuietStep
    BY <1>7, <2>1 DEF StartScript, QuietStep
  <2>3. QED
    BY <1>7, <2>2, <1>s DEF StartScript
<1>8. ASSUME NEW l \in Sweepers, StopScript(l)
      PROVE  Goal
  BY <1>8, <1>s, SameRowsQuiet DEF StopScript
<1>9. ASSUME NEW r \in RunIds, SoftDeleteApplyRun(r)
      PROVE  Goal
  <2>1. QuietChange(runs[r], [runs[r] EXCEPT !.deleted = TRUE])
    BY <1>0 DEF QuietChange, Run
  <2>2. QuietStep
    BY <1>9, <2>1, OneRowQuiet DEF SoftDeleteApplyRun
  <2>3. QED
    BY <1>9, <2>2, <1>s DEF SoftDeleteApplyRun
<1>10. ASSUME NEW j \in Jobs, ResetApplyFailureState(j)
       PROVE  Goal
  <2>1. \A r \in RunIds : runs[r].status = "FAILED" =>
                            QuietChange(runs[r], Erased(runs[r]))
    BY <1>0 DEF QuietChange, Erased, NoRun, Run
  <2>2. \A r \in RunIds : QuietChange(runs[r], runs[r])
    BY DEF QuietChange
  <2>3. QuietStep
    BY <1>10, <2>1, <2>2 DEF ResetApplyFailureState, QuietStep
  <2>4. QED
    BY <1>10, <2>3, <1>s DEF ResetApplyFailureState
<1>11. ASSUME NEW h \in RunIds, NEW target \in {"APPROVED", "REJECTED"},
              ResolveHandoff(h, target)
       PROVE  Goal
  BY <1>11, <1>s, SameRowsQuiet DEF ResolveHandoff
<1>12. ASSUME NEW q \in Requests, RelaunchEnqueue(q)
       PROVE  Goal
  BY <1>12, <1>s, LatestReviewInserts DEF RelaunchEnqueue
<1>13. ASSUME NEW q \in Requests,
              \/ \E h \in RunIds : RelaunchCheck(q, h)
              \/ RelaunchRefused(q) \/ RelaunchResolve(q)
              \/ RelaunchRaced(q) \/ RelaunchAbandoned(q)
       PROVE  Goal
  BY <1>13, <1>s, SameRowsQuiet
     DEF RelaunchCheck, RelaunchRefused, RelaunchResolve, RelaunchRaced,
         RelaunchAbandoned
<1>14. CASE UNCHANGED vars
  BY <1>14, <1>s, SameRowsQuiet DEF vars
<1>15. QED
  BY <1>1, <1>2, <1>3, <1>4, <1>5, <1>6, <1>7, <1>8, <1>9, <1>10, <1>11,
     <1>12, <1>13, <1>14 DEF Next, UserStep

-----------------------------------------------------------------------------
(* What a step may do to coroutines, handoffs and requests. *)

\* Coroutines start for the row just inserted, or for the row of a request.
TasksStartProperly ==
  \A r \in RunIds : task[r] = "idle" /\ task'[r] # "idle" =>
    \/ r = nextRun /\ nextRun' = nextRun + 1
    \/ \E q \in Requests : r = request[q].run

\* A coroutine reaches the handoff by recording a NEEDS_REVIEW success.
HandoffsFollow ==
  \A r \in RunIds :
    /\ task'[r] = "handoff" =>
         \/ task[r] = "handoff"
         \/ runs'[r].status = "SUCCESS" /\ runs'[r].outcome = "NEEDS_REVIEW"
    /\ handoffs'[r] # "NONE" => handoffs[r] # "NONE" \/ task[r] = "handoff"
    /\ handoffs[r] \in {"APPROVED", "REJECTED"} => handoffs'[r] = handoffs[r]

RequestsFollow ==
  \A q \in Requests :
    \/ request'[q].run \in {0, request[q].run}
    \/ request'[q].run = nextRun /\ nextRun' = nextRun + 1

LEMMA SideKinds ==
  ASSUME TypeOK, [Next]_vars
  PROVE  TasksStartProperly /\ HandoffsFollow /\ RequestsFollow
<1> DEFINE Goal == TasksStartProperly /\ HandoffsFollow /\ RequestsFollow
<1>t. task' = task /\ handoffs' = handoffs => TasksStartProperly /\ HandoffsFollow
  BY DEF TasksStartProperly, HandoffsFollow
<1>q. request' = request => RequestsFollow
  BY DEF RequestsFollow
<1>h. handoffs' = handoffs /\ (\A r \in RunIds : task'[r] = "handoff" => task[r] = "handoff")
        => HandoffsFollow
  BY DEF HandoffsFollow
\* The steps that insert a row and start on it.
<1>i. ASSUME nextRun' = nextRun + 1, task' = [task EXCEPT ![nextRun] = "applying"],
             handoffs' = handoffs, request' = request
      PROVE  Goal
  <2>1. TasksStartProperly
    BY <1>i DEF TypeOK, TasksStartProperly
  <2>2. HandoffsFollow
    BY <1>i, <1>h DEF TypeOK
  <2>3. QED
    BY <1>i, <1>q, <2>1, <2>2
<1>1. ASSUME NEW j \in Jobs, NEW verdict \in Verdicts, PublishReview(j, verdict)
      PROVE  Goal
  BY <1>1, <1>t, <1>q DEF PublishReview
<1>2. ASSUME NEW l \in Loops, ClaimNextApplyJob(l)
      PROVE  Goal
  BY <1>2, <1>i DEF ClaimNextApplyJob, InsertRun
<1>3. ASSUME NEW j \in Jobs,
             EnqueueApplyRunForJob(j) \/ EnqueueApplyRunWithBaseResume(j)
      PROVE  Goal
  BY <1>3, <1>i DEF EnqueueApplyRunForJob, EnqueueApplyRunWithBaseResume, InsertRun
<1>4. ASSUME NEW r \in RunIds, TaskStep(r) \/ AbandonTask(r) \/ ClockStep(r)
      PROVE  Goal
  <2>q. RequestsFollow
    BY <1>4, <1>q
       DEF TaskStep, CountFailures, RecordApplyFailure, RecordApplySuccess,
           RecordApplyHandoff, AbandonTask, ClockStep, LeaseExpires, RetryFallsDue
  <2>1. TasksStartProperly
    BY <1>4
       DEF TaskStep, CountFailures, RecordApplyFailure, RecordApplySuccess,
           RecordApplyHandoff, AbandonTask, ClockStep, LeaseExpires, RetryFallsDue,
           TasksStartProperly, TypeOK
  <2>2. ASSUME NEW limit \in {0, MaxRetries}, CountFailures(r, limit)
        PROVE  HandoffsFollow
    BY <2>2, <1>h DEF CountFailures, TypeOK
  <2>3. ASSUME RecordApplyFailure(r) \/ AbandonTask(r) PROVE HandoffsFollow
    BY <2>3, <1>h DEF RecordApplyFailure, AbandonTask, TypeOK
  <2>4. ASSUME NEW outcome \in {"NEEDS_REVIEW", "SUBMITTED"},
               RecordApplySuccess(r, outcome)
        PROVE  HandoffsFollow
    <3>1. CASE OwnsRun(r) /\ outcome = "NEEDS_REVIEW"
      <4>1. runs' = [runs EXCEPT ![r] =
                       [runs[r] EXCEPT !.status = "SUCCESS", !.token = FALSE,
                                       !.stale = FALSE, !.outcome = outcome]]
        BY <2>4, <3>1 DEF RecordApplySuccess
      <4>2. runs[r] \in Run
        BY DEF TypeOK
      <4>3. runs'[r].status = "SUCCESS" /\ runs'[r].outcome = "NEEDS_REVIEW"
        BY <4>1, <4>2, <3>1 DEF TypeOK, Run
      <4>4. QED
        BY <2>4, <4>3 DEF RecordApplySuccess, HandoffsFollow, TypeOK
    <3>2. CASE ~(OwnsRun(r) /\ outcome = "NEEDS_REVIEW")
      BY <2>4, <3>2, <1>h DEF RecordApplySuccess, TypeOK
    <3>3. QED
      BY <3>1, <3>2
  <2>5. ASSUME RecordApplyHandoff(r) PROVE HandoffsFollow
    BY <2>5 DEF RecordApplyHandoff, HandoffsFollow, TypeOK
  <2>6. ASSUME ClockStep(r) PROVE HandoffsFollow
    BY <2>6, <1>t DEF ClockStep, LeaseExpires, RetryFallsDue
  <2>7. QED
    BY <1>4, <2>q, <2>1, <2>2, <2>3, <2>4, <2>5, <2>6 DEF TaskStep
<1>5. ASSUME NEW l \in Sweepers, StartScript(l)
      PROVE  Goal
  BY <1>5, <1>t, <1>q DEF StartScript
<1>6. ASSUME NEW l \in Sweepers, StopScript(l)
      PROVE  Goal
  <2>1. TasksStartProperly
    BY <1>6 DEF StopScript, TasksStartProperly
  <2>2. HandoffsFollow
    BY <1>6, <1>h DEF StopScript
  <2>3. QED
    BY <1>6, <1>q, <2>1, <2>2 DEF StopScript
<1>7. ASSUME NEW r \in RunIds, SoftDeleteApplyRun(r)
      PROVE  Goal
  BY <1>7, <1>t, <1>q DEF SoftDeleteApplyRun
<1>8. ASSUME NEW j \in Jobs, ResetApplyFailureState(j)
      PROVE  Goal
  BY <1>8, <1>t, <1>q DEF ResetApplyFailureState
<1>9. ASSUME NEW h \in RunIds, NEW target \in {"APPROVED", "REJECTED"},
             TransitionHandoffStatus(h, target),
             \A r \in RunIds : task'[r] = "handoff" => task[r] = "handoff"
      PROVE  HandoffsFollow
  BY <1>9 DEF TransitionHandoffStatus, HandoffsFollow, TypeOK
<1>10. ASSUME NEW h \in RunIds, NEW target \in {"APPROVED", "REJECTED"},
              ResolveHandoff(h, target)
       PROVE  Goal
  <2>1. TasksStartProperly
    BY <1>10 DEF ResolveHandoff, TasksStartProperly
  <2>2. HandoffsFollow
    BY <1>10, <1>9 DEF ResolveHandoff
  <2>3. QED
    BY <1>10, <1>q, <2>1, <2>2 DEF ResolveHandoff
<1>11. ASSUME NEW q \in Requests, RelaunchEnqueue(q)
       PROVE  Goal
  <2>1. nextRun' = nextRun + 1
    BY <1>11 DEF RelaunchEnqueue, InsertRun
  <2>2. request[q] \in Request
    BY DEF TypeOK
  <2>3. RequestsFollow
    BY <1>11, <2>1, <2>2 DEF RelaunchEnqueue, RequestsFollow, TypeOK, Request
  <2>4. QED
    BY <1>11, <1>t, <2>3 DEF RelaunchEnqueue
<1>12. ASSUME NEW q \in Requests, RelaunchResolve(q)
       PROVE  Goal
  <2>1. RequestsFollow
    BY <1>12 DEF RelaunchResolve, RequestsFollow, TypeOK, IdleRequest
  <2>2. TasksStartProperly
    BY <1>12 DEF RelaunchResolve, TasksStartProperly, TypeOK
  <2>3. HandoffsFollow
    BY <1>12 DEF RelaunchResolve, TransitionHandoffStatus, HandoffsFollow, TypeOK
  <2>4. QED
    BY <2>1, <2>2, <2>3
<1>13. ASSUME NEW q \in Requests,
              \/ \E h \in RunIds : RelaunchCheck(q, h)
              \/ RelaunchRefused(q) \/ RelaunchRaced(q) \/ RelaunchAbandoned(q)
       PROVE  Goal
  <2>1. RequestsFollow
    BY <1>13 DEF RelaunchCheck, RelaunchRefused, RelaunchRaced, RelaunchAbandoned,
                 RequestsFollow, TypeOK, IdleRequest
  <2>2. QED
    BY <1>13, <1>t, <2>1
       DEF RelaunchCheck, RelaunchRefused, RelaunchRaced, RelaunchAbandoned
<1>14. CASE UNCHANGED vars
  BY <1>14, <1>t, <1>q DEF vars
<1>15. QED
  BY <1>1, <1>2, <1>3, <1>4, <1>5, <1>6, <1>7, <1>8, <1>10, <1>11, <1>12,
     <1>13, <1>14 DEF Next, UserStep

-----------------------------------------------------------------------------
(* The strengthening: what the properties silently rely on. *)

\* Keys not yet given out are unused everywhere.
FreshRows ==
  /\ \A r \in RunIds : nextRun <= r =>
       runs[r].status = "NONE" /\ task[r] = "idle" /\ handoffs[r] = "NONE"
  /\ \A q \in Requests : request[q].run < nextRun

\* Every PENDING row carries a claim token: this is what keeps a claim away
\* from rows past their lease.
ClaimsHaveTokens ==
  \A r \in RunIds : runs[r].status = "PENDING" => runs[r].token

\* Rows are inserted for published review runs only.
RowsHaveReviews ==
  \A r \in RunIds : runs[r].status # "NONE" =>
    runs[r].review \in ReviewIds /\ ReviewExists(runs[r].review)

Safe == LoopAppliesOnce /\ OneClaimPerReview /\ HandoffFollowsSuccess

IInv == TypeOK /\ FreshRows /\ ClaimsHaveTokens /\ RowsHaveReviews /\ Safe

\* What an insertion does to the rows.
LEMMA InsertedRow ==
  ASSUME TypeOK, NEW v \in ReviewIds, NEW who \in Loops \cup {User},
         InsertRun(v, who)
  PROVE  /\ nextRun \in RunIds /\ nextRun' = nextRun + 1
         /\ runs'[nextRun].status = "PENDING"
         /\ runs'[nextRun].review = v
         /\ runs'[nextRun].by = who
         /\ runs'[nextRun].token
         /\ ~runs'[nextRun].deleted
         /\ \A r \in RunIds : r # nextRun => runs'[r] = runs[r]
<1>1. nextRun \in RunIds /\ nextRun' = nextRun + 1
  BY ConstantsAssumption DEF InsertRun, RunIds, TypeOK
<1>2. runs' = [runs EXCEPT ![nextRun] = PendingRun(v, who)]
  BY DEF InsertRun
<1>3. runs'[nextRun] = PendingRun(v, who)
  BY <1>1, <1>2 DEF TypeOK
<1>4. \A r \in RunIds : r # nextRun => runs'[r] = runs[r]
  BY <1>2 DEF TypeOK
<1>5. /\ PendingRun(v, who).status = "PENDING" /\ PendingRun(v, who).review = v
      /\ PendingRun(v, who).by = who /\ PendingRun(v, who).token
      /\ ~PendingRun(v, who).deleted
  BY DEF PendingRun, NoRun
<1>6. QED
  BY <1>1, <1>3, <1>4, <1>5

\* An insertion, by a loop or by the dashboard, of a row for review run v.
Inserts(v, who) ==
  /\ InsertRun(v, who)
  /\ \/ who \in Loops /\ Eligible(v)
     \/ /\ who = User
        /\ \E j \in Jobs : ~InFlight(j) /\ (reviews[v].job = j \/ ~ReviewExists(v))
        /\ reviews'[v].verdict # "NONE"

LEMMA StepIsQuietOrInserts ==
  ASSUME TypeOK, [Next]_vars
  PROVE  /\ \/ QuietStep
            \/ \E v \in ReviewIds, who \in Loops \cup {User} : Inserts(v, who)
         /\ ReviewsGrow
<1>1. CASE LoopInserts
  BY <1>1, StepKinds DEF LoopInserts, Inserts
<1>2. CASE UserInserts
  BY <1>2, StepKinds DEF UserInserts, Inserts
<1>3. QED
  BY <1>1, <1>2, StepKinds

LEMMA FreshStep ==
  ASSUME TypeOK, FreshRows, [Next]_vars
  PROVE  FreshRows'
<1> USE ConstantsAssumption
<1>0. nextRun \in Nat /\ 1 <= nextRun /\ \A r \in RunIds : r \in Nat
  BY DEF TypeOK, RunIds
<1>1. TasksStartProperly /\ HandoffsFollow /\ RequestsFollow
  BY SideKinds
<1>r. \A q \in Requests : request[q].run \in Nat
  BY DEF TypeOK, Request
<1>2. ASSUME nextRun' \in {nextRun, nextRun + 1},
             \A r \in RunIds : nextRun' <= r => runs'[r].status = "NONE"
      PROVE  FreshRows'
  <2>1. ASSUME NEW r \in RunIds, nextRun' <= r
        PROVE  task'[r] = "idle"
    BY <1>0, <1>1, <1>r, <1>2, <2>1 DEF FreshRows, TasksStartProperly
  <2>2. ASSUME NEW r \in RunIds, nextRun' <= r
        PROVE  handoffs'[r] = "NONE"
    BY <1>0, <1>1, <1>2, <2>2 DEF FreshRows, HandoffsFollow
  <2>3. ASSUME NEW q \in Requests
        PROVE  request'[q].run < nextRun'
    BY <1>0, <1>1, <1>r, <1>2, <2>3 DEF FreshRows, RequestsFollow
  <2>4. QED
    BY <1>2, <2>1, <2>2, <2>3 DEF FreshRows
<1>3. CASE QuietStep
  BY <1>2, <1>3 DEF QuietStep, QuietChange, FreshRows
<1>4. ASSUME NEW v \in ReviewIds, NEW who \in Loops \cup {User}, Inserts(v, who)
      PROVE  FreshRows'
  <2>1. /\ nextRun' = nextRun + 1
        /\ \A r \in RunIds : r # nextRun => runs'[r] = runs[r]
    BY <1>4, InsertedRow DEF Inserts
  <2>2. \A r \in RunIds : nextRun' <= r => runs'[r].status = "NONE"
    BY <1>0, <2>1 DEF FreshRows
  <2>3. QED
    BY <1>2, <2>1, <2>2
<1>5. QED
  BY <1>3, <1>4, StepIsQuietOrInserts

\* The rows keep their tokens and their review runs.
LEMMA RowsStep ==
  ASSUME TypeOK, FreshRows, ClaimsHaveTokens, RowsHaveReviews, [Next]_vars
  PROVE  ClaimsHaveTokens' /\ RowsHaveReviews'
<1>1. ReviewsGrow
  BY StepKinds
<1>2. CASE QuietStep
  <2>1. ASSUME NEW r \in RunIds, runs'[r].status = "PENDING"
        PROVE  runs'[r].token
    BY <1>2, <2>1 DEF QuietStep, QuietChange, ClaimsHaveTokens
  <2>2. ASSUME NEW r \in RunIds, runs'[r].status # "NONE"
        PROVE  runs'[r].review \in ReviewIds /\ reviews'[runs'[r].review].verdict # "NONE"
    <3>1. runs[r].status # "NONE" /\ runs'[r].review = runs[r].review
      BY <1>2, <2>2 DEF QuietStep, QuietChange
    <3>2. QED
      BY <1>1, <3>1 DEF RowsHaveReviews, ReviewsGrow, ReviewExists
  <2>3. QED
    BY <2>1, <2>2 DEF ClaimsHaveTokens, RowsHaveReviews, ReviewExists
<1>3. ASSUME NEW v \in ReviewIds, NEW who \in Loops \cup {User}, Inserts(v, who)
      PROVE  ClaimsHaveTokens' /\ RowsHaveReviews'
  <2>1. /\ runs'[nextRun].review = v /\ runs'[nextRun].token
        /\ \A r \in RunIds : r # nextRun => runs'[r] = runs[r]
    BY <1>3, InsertedRow DEF Inserts
  <2>2. reviews'[v].verdict # "NONE"
    BY <1>1, <1>3 DEF Inserts, Eligible, ApplyVerdicts, ReviewsGrow, ReviewExists
  <2>3. ASSUME NEW r \in RunIds, runs'[r].status = "PENDING"
        PROVE  runs'[r].token
    BY <2>1, <2>3 DEF ClaimsHaveTokens
  <2>4. ASSUME NEW r \in RunIds, runs'[r].status # "NONE"
        PROVE  runs'[r].review \in ReviewIds /\ reviews'[runs'[r].review].verdict # "NONE"
    <3>1. CASE r = nextRun
      BY <2>1, <2>2, <3>1
    <3>2. CASE r # nextRun
      BY <1>1, <2>1, <2>4, <3>2 DEF RowsHaveReviews, ReviewsGrow, ReviewExists
    <3>3. QED
      BY <3>1, <3>2
  <2>5. QED
    BY <2>3, <2>4 DEF ClaimsHaveTokens, RowsHaveReviews, ReviewExists
<1>4. QED
  BY <1>2, <1>3, StepIsQuietOrInserts

\* The loops never apply twice: a claim finds no live row of its review run,
\* because a PENDING row has a token, and no other step makes a row live.
LEMMA AppliesOnceStep ==
  ASSUME TypeOK, ClaimsHaveTokens, LoopAppliesOnce, [Next]_vars
  PROVE  LoopAppliesOnce'
<1> DEFINE Live(r) == runs[r].by \in Loops /\ runs[r].status \in {"PENDING", "SUCCESS"}
<1>1. CASE QuietStep
  <2>1. \A r \in RunIds : Live(r)' => Live(r) /\ runs'[r].review = runs[r].review
    BY <1>1 DEF QuietStep, QuietChange
  <2>2. QED
    BY <2>1 DEF LoopAppliesOnce
<1>2. ASSUME NEW v \in ReviewIds, NEW who \in Loops \cup {User}, Inserts(v, who)
      PROVE  LoopAppliesOnce'
  <2>1. /\ runs'[nextRun].by = who /\ runs'[nextRun].review = v
        /\ \A r \in RunIds : r # nextRun => runs'[r] = runs[r]
    BY <1>2, InsertedRow DEF Inserts
  <2>2. CASE who = User
    <3>1. runs'[nextRun].by \notin Loops
      BY <2>1, <2>2, ConstantsAssumption
    <3>2. QED
      BY <2>1, <3>1 DEF LoopAppliesOnce
  <2>3. CASE who \in Loops
    <3>1. Eligible(v)
      BY <1>2, <2>3, ConstantsAssumption DEF Inserts
    <3>2. ASSUME NEW r \in RunIds, runs[r].review = v
          PROVE  ~Live(r)
      BY <3>1, <3>2 DEF Eligible, RunsOf, ClaimsHaveTokens
    <3>3. \A r \in RunIds : r # nextRun /\ Live(r)' => runs'[r].review # v
      BY <2>1, <3>2
    <3>4. QED
      BY <2>1, <3>3 DEF LoopAppliesOnce
  <2>4. QED
    BY <2>2, <2>3
<1>3. QED
  BY <1>1, <1>2, StepIsQuietOrInserts

\* Loops look at the review run, the dashboard at the job: either way the
\* review run of a new row has no other visible claim.
LEMMA OneClaimStep ==
  ASSUME TypeOK, ClaimsHaveTokens, RowsHaveReviews, OneClaimPerReview, [Next]_vars
  PROVE  OneClaimPerReview'
<1> DEFINE Visible(r) == runs[r].status = "PENDING" /\ ~runs[r].deleted
<1>1. CASE QuietStep
  <2>0. \A r \in RunIds : runs[r] \in Run
    BY DEF TypeOK
  <2>1. \A r \in RunIds : Visible(r)' => Visible(r) /\ runs'[r].review = runs[r].review
    BY <1>1, <2>0 DEF QuietStep, QuietChange, Run
  <2>2. QED
    BY <2>1 DEF OneClaimPerReview
<1>2. ASSUME NEW v \in ReviewIds, NEW who \in Loops \cup {User}, Inserts(v, who)
      PROVE  OneClaimPerReview'
  <2>1. /\ runs'[nextRun].review = v
        /\ \A r \in RunIds : r # nextRun => runs'[r] = runs[r]
    BY <1>2, InsertedRow DEF Inserts
  <2>2. ASSUME NEW r \in RunIds, Visible(r), runs[r].review = v
        PROVE  FALSE
    <3>1. CASE Eligible(v)
      BY <2>2, <3>1 DEF Eligible, RunsOf, ClaimsHaveTokens
    <3>2. ASSUME NEW j \in Jobs, ~InFlight(j), reviews[v].job = j \/ ~ReviewExists(v)
          PROVE  FALSE
      <4>1. ReviewExists(v)
        BY <2>2 DEF RowsHaveReviews
      <4>2. RunIsFor(r, j)
        BY <2>2, <3>2, <4>1 DEF RunIsFor
      <4>3. QED
        BY <2>2, <3>2, <4>2 DEF InFlight
    <3>3. QED
      BY <1>2, <3>1, <3>2 DEF Inserts
  <2>3. QED
    BY <2>1, <2>2 DEF OneClaimPerReview
<1>3. QED
  BY <1>1, <1>2, StepIsQuietOrInserts

\* A handoff is backed by a success, which no step takes away.
LEMMA HandoffStep ==
  ASSUME TypeOK, FreshRows, HandoffFollowsSuccess, [Next]_vars
  PROVE  HandoffFollowsSuccess'
<1> DEFINE Backed(r) == runs[r].status = "SUCCESS" /\ runs[r].outcome = "NEEDS_REVIEW"
<1>1. ASSUME NEW r \in RunIds, Backed(r)
      PROVE  Backed(r)'
  <2>1. CASE QuietStep
    BY <1>1, <2>1 DEF QuietStep, QuietChange
  <2>2. ASSUME NEW v \in ReviewIds, NEW who \in Loops \cup {User}, Inserts(v, who)
        PROVE  Backed(r)'
    <3>1. r # nextRun => runs'[r] = runs[r]
      BY <2>2, InsertedRow DEF Inserts
    <3>2. nextRun \in RunIds => runs[nextRun].status = "NONE"
      BY DEF FreshRows, TypeOK
    <3>3. r # nextRun
      BY <1>1, <3>2
    <3>4. QED
      BY <1>1, <3>1, <3>3
  <2>3. QED
    BY <2>1, <2>2, StepIsQuietOrInserts
<1>2. HandoffsFollow
  BY SideKinds
<1>3. \A r \in RunIds : handoffs'[r] # "NONE" \/ task'[r] = "handoff" => Backed(r)'
  BY <1>1, <1>2 DEF HandoffsFollow, HandoffFollowsSuccess
<1>4. QED
  BY <1>3 DEF HandoffFollowsSuccess

-----------------------------------------------------------------------------
(* The theorems. *)

LEMMA InitInductive == Init => IInv
<1> SUFFICES ASSUME Init PROVE IInv
  OBVIOUS
<1> USE ConstantsAssumption
<1>1. TypeOK
  BY InitTypeOK
<1>2. \A r \in RunIds : runs[r].status = "NONE"
  BY DEF Init, NoRun
<1>3. FreshRows
  BY <1>2 DEF Init, FreshRows, IdleRequest
<1>4. ClaimsHaveTokens /\ RowsHaveReviews /\ LoopAppliesOnce /\ OneClaimPerReview
  BY <1>2 DEF ClaimsHaveTokens, RowsHaveReviews, LoopAppliesOnce, OneClaimPerReview
<1>5. HandoffFollowsSuccess
  BY DEF Init, HandoffFollowsSuccess
<1>6. QED
  BY <1>1, <1>3, <1>4, <1>5 DEF IInv, Safe

LEMMA StepInductive == IInv /\ [Next]_vars => IInv'
<1> SUFFICES ASSUME IInv, [Next]_vars PROVE IInv'
  OBVIOUS
<1>1. TypeOK'
  BY StepTypeOK DEF IInv
<1>2. FreshRows'
  BY FreshStep DEF IInv
<1>3. ClaimsHaveTokens' /\ RowsHaveReviews'
  BY RowsStep DEF IInv
<1>4. Safe'
  BY AppliesOnceStep, OneClaimStep, HandoffStep DEF IInv, Safe
<1>5. QED
  BY <1>1, <1>2, <1>3, <1>4 DEF IInv

\* The inductive invariant holds in every reachable state.
THEOREM Invariance == Spec => []IInv
BY InitInductive, StepInductive, PTL DEF Spec

\* However claims, leases, sweeps, deletions, resets and late coroutines
\* interleave, the loops have at most one live or successful run per review run.
THEOREM LoopsApplyOnce == Spec => []LoopAppliesOnce
<1>1. IInv => LoopAppliesOnce
  BY DEF IInv, Safe
<1>2. QED
  BY <1>1, Invariance, PTL

\* Loops and dashboard never both hold a visible claim on a review run.
THEOREM ClaimsExclude == Spec => []OneClaimPerReview
<1>1. IInv => OneClaimPerReview
  BY DEF IInv, Safe
<1>2. QED
  BY <1>1, Invariance, PTL

\* Every handoff belongs to a run that ended NEEDS_REVIEW, and still does.
THEOREM HandoffsAreBacked == Spec => []HandoffFollowsSuccess
<1>1. IInv => HandoffFollowsSuccess
  BY DEF IInv, Safe
<1>2. QED
  BY <1>1, Invariance, PTL

\* No sweep, late coroutine or insertion replaces a recorded result.
THEOREM ResultsAreFinal == Spec => RecordedResultIsFinal
<1> DEFINE Final ==
      \A r \in RunIds :
        /\ runs[r].status = "SUCCESS" =>
             runs'[r].status = "SUCCESS" /\ runs'[r].outcome = runs[r].outcome
        /\ runs[r].status = "FAILED" => runs'[r].status \in {"FAILED", "NONE"}
<1>1. ASSUME IInv, [Next]_vars
      PROVE  [Final]_vars
  <2>0. TypeOK /\ FreshRows
    BY <1>1 DEF IInv
  <2>1. CASE QuietStep
    BY <2>1 DEF QuietStep, QuietChange
  <2>2. ASSUME NEW v \in ReviewIds, NEW who \in Loops \cup {User}, Inserts(v, who)
        PROVE  Final
    <3>1. \A r \in RunIds : r # nextRun => runs'[r] = runs[r]
      BY <2>0, <2>2, InsertedRow DEF Inserts
    <3>2. nextRun \in RunIds => runs[nextRun].status = "NONE"
      BY <2>0 DEF FreshRows, TypeOK
    <3>3. QED
      BY <3>1, <3>2
  <2>3. QED
    BY <1>1, <2>0, <2>1, <2>2, StepIsQuietOrInserts
<1>2. QED
  BY <1>1, Invariance, PTL DEF Spec, RecordedResultIsFinal

\* A reviewer's decision is never changed.
THEOREM DecisionsAreFinal == Spec => DecisionIsFinal
<1>1. TypeOK /\ [Next]_vars =>
        [\A h \in RunIds : handoffs[h] \in {"APPROVED", "REJECTED"} =>
                             handoffs'[h] = handoffs[h]]_vars
  BY SideKinds DEF HandoffsFollow
<1>2. QED
  BY <1>1, TypeCorrect, PTL DEF Spec, DecisionIsFinal

-----------------------------------------------------------------------------
(* The refinement: ApplySlot's state, read off the rows. *)

IsOf(r, v) == runs[r].by \in Loops /\ runs[r].review = v
Won(v) == \E r \in RunIds : IsOf(r, v) /\ runs[r].status = "SUCCESS"
Live(v) == \E r \in RunIds : IsOf(r, v) /\ runs[r].status = "PENDING"
Lost(v) == {r \in RunIds : IsOf(r, v) /\ runs[r].status = "FAILED"}

StateOf(won, live) == IF won THEN "done" ELSE IF live THEN "held" ELSE "free"

LEMMA SlotIs ==
  /\ slotState = [v \in ReviewIds |-> StateOf(Won(v), Live(v))]
  /\ slotFailures = [v \in ReviewIds |-> Cardinality(Lost(v))]
<1>1. ASSUME NEW v \in ReviewIds
      PROVE  /\ Won(v) <=> \E r \in LoopRunsOf(v) : runs[r].status = "SUCCESS"
             /\ Live(v) <=> \E r \in LoopRunsOf(v) : runs[r].status = "PENDING"
             /\ Lost(v) = LoopRunsOf(v) \cap FailedRuns(v)
  BY DEF Won, Live, Lost, IsOf, LoopRunsOf, RunsOf, FailedRuns
<1>2. QED
  BY <1>1 DEF slotState, slotFailures, StateOf

LEMMA NextSlotIs ==
  /\ slotState' = [v \in ReviewIds |-> StateOf(Won(v)', Live(v)')]
  /\ slotFailures' = [v \in ReviewIds |-> Cardinality(Lost(v)')]
<1>1. ASSUME NEW v \in ReviewIds
      PROVE  /\ Won(v)' <=> (\E r \in LoopRunsOf(v) : runs[r].status = "SUCCESS")'
             /\ Live(v)' <=> (\E r \in LoopRunsOf(v) : runs[r].status = "PENDING")'
             /\ Lost(v)' = (LoopRunsOf(v) \cap FailedRuns(v))'
  BY DEF Won, Live, Lost, IsOf, LoopRunsOf, RunsOf, FailedRuns
<1>2. QED
  BY <1>1 DEF slotState, slotFailures, StateOf

LEMMA LostIsFinite ==
  ASSUME NEW v
  PROVE  IsFiniteSet(Lost(v)) /\ Cardinality(Lost(v)) \in Nat
<1>1. IsFiniteSet(RunIds)
  BY FS_Interval, ConstantsAssumption DEF RunIds
<1>2. IsFiniteSet(Lost(v))
  BY <1>1, FS_Subset DEF Lost
<1>3. QED
  BY <1>2, FS_CardinalityType

-----------------------------------------------------------------------------
(* What the steps that insert nothing do to the rows. *)

\* A failure, a sweep, or no result at all.
FailsRows ==
  /\ QuietStep
  /\ \A r \in RunIds : runs'[r].status # runs[r].status => runs'[r].status = "FAILED"

SucceedsRow ==
  /\ QuietStep
  /\ \E s \in RunIds : /\ runs[s].status = "PENDING" /\ runs'[s].status = "SUCCESS"
                       /\ \A r \in RunIds \ {s} : runs'[r] = runs[r]

ErasesRows ==
  /\ QuietStep
  /\ \E j \in Jobs : \A r \in RunIds :
       runs'[r].status = IF runs[r].status = "FAILED" /\ RunIsFor(r, j)
                         THEN "NONE" ELSE runs[r].status

LEMMA QuietKinds ==
  ASSUME TypeOK, [Next]_vars, QuietStep
  PROVE  FailsRows \/ SucceedsRow \/ ErasesRows
<1>0. nextRun' # nextRun + 1 /\ \A r \in RunIds : runs[r] \in Run
  BY DEF QuietStep, TypeOK
<1>1. ASSUME runs' = runs
      PROVE  FailsRows
  BY <1>1 DEF FailsRows
<1>2. ASSUME NEW s \in RunIds, NEW row, runs' = [runs EXCEPT ![s] = row],
             row.status \in {runs[s].status, "FAILED"}
      PROVE  FailsRows
  <2>1. \A r \in RunIds : runs'[r] = IF r = s THEN row ELSE runs[r]
    BY <1>2 DEF TypeOK
  <2>2. QED
    BY <1>2, <2>1 DEF FailsRows
<1>3. ASSUME NEW r \in RunIds, TaskStep(r) \/ AbandonTask(r) \/ ClockStep(r)
      PROVE  FailsRows \/ SucceedsRow
  <2>1. CASE RecordApplyFailure(r) /\ OwnsRun(r)
    <3> DEFINE row == [runs[r] EXCEPT !.status = "FAILED", !.token = FALSE,
                         !.stale = FALSE, !.waiting = (task[r] = "failRetry")]
    <3>1. runs' = [runs EXCEPT ![r] = row]
      BY <2>1 DEF RecordApplyFailure
    <3>2. row.status = "FAILED"
      BY <1>0 DEF Run
    <3> HIDE DEF row
    <3>3. QED
      BY <1>2, <3>1, <3>2
  <2>2. ASSUME NEW outcome, RecordApplySuccess(r, outcome), OwnsRun(r)
        PROVE  SucceedsRow
    <3> DEFINE row == [runs[r] EXCEPT !.status = "SUCCESS", !.token = FALSE,
                                      !.stale = FALSE, !.outcome = outcome]
    <3>1. runs' = [runs EXCEPT ![r] = row] /\ runs[r].status = "PENDING"
      BY <2>2 DEF RecordApplySuccess, OwnsRun
    <3>2. row.status = "SUCCESS"
      BY <1>0 DEF Run
    <3> HIDE DEF row
    <3>3. \A s \in RunIds : runs'[s] = IF s = r THEN row ELSE runs[s]
      BY <3>1 DEF TypeOK
    <3>4. QED
      BY <3>1, <3>2, <3>3 DEF SucceedsRow
  <2>3. CASE ClockStep(r)
    <3> DEFINE stale == [runs[r] EXCEPT !.stale = TRUE]
               due == [runs[r] EXCEPT !.waiting = FALSE]
    <3>1. runs' = [runs EXCEPT ![r] = stale] \/ runs' = [runs EXCEPT ![r] = due]
      BY <2>3 DEF ClockStep, LeaseExpires, RetryFallsDue
    <3>2. stale.status = runs[r].status /\ due.status = runs[r].status
      BY <1>0 DEF Run
    <3> HIDE DEF stale, due
    <3>3. QED
      BY <1>2, <3>1, <3>2
  <2>4. CASE RecordApplyFailure(r) /\ ~OwnsRun(r)
    BY <1>1, <2>4 DEF RecordApplyFailure
  <2>5. ASSUME NEW outcome, RecordApplySuccess(r, outcome), ~OwnsRun(r)
        PROVE  FailsRows
    BY <1>1, <2>5 DEF RecordApplySuccess
  <2>6. ASSUME \/ \E limit \in {0, MaxRetries} : CountFailures(r, limit)
               \/ RecordApplyHandoff(r) \/ AbandonTask(r)
        PROVE  FailsRows
    BY <1>1, <2>6 DEF CountFailures, RecordApplyHandoff, AbandonTask
  <2>7. QED
    BY <1>3, <2>1, <2>2, <2>3, <2>4, <2>5, <2>6 DEF TaskStep
<1>4. ASSUME NEW l \in Sweepers, StartScript(l)
      PROVE  FailsRows
  <2>1. \A r \in RunIds : runs'[r] = Swept(runs[r])
    BY <1>4 DEF StartScript
  <2>2. \A r \in RunIds : Swept(runs[r]).status \in {runs[r].status, "FAILED"}
    BY <1>0 DEF Swept, Run
  <2>3. QED
    BY <2>1, <2>2 DEF FailsRows
<1>5. ASSUME NEW j \in Jobs, ResetApplyFailureState(j)
      PROVE  ErasesRows
  <2>1. \A r \in RunIds :
          runs'[r] = IF runs[r].status = "FAILED" /\ RunIsFor(r, j)
                     THEN Erased(runs[r]) ELSE runs[r]
    BY <1>5 DEF ResetApplyFailureState
  <2>2. \A r \in RunIds : Erased(runs[r]).status = "NONE"
    BY DEF Erased, NoRun
  <2>3. QED
    BY <2>1, <2>2 DEF ErasesRows
<1>6. ASSUME NEW r \in RunIds, SoftDeleteApplyRun(r)
      PROVE  FailsRows
  <2> DEFINE row == [runs[r] EXCEPT !.deleted = TRUE]
  <2>1. runs' = [runs EXCEPT ![r] = row]
    BY <1>6 DEF SoftDeleteApplyRun
  <2>2. row.status = runs[r].status
    BY <1>0 DEF Run
  <2> HIDE DEF row
  <2>3. QED
    BY <1>2, <2>1, <2>2
<1>7. CASE UserStep
  <2>1. ASSUME NEW j \in Jobs,
               EnqueueApplyRunForJob(j) \/ EnqueueApplyRunWithBaseResume(j)
        PROVE  FALSE
    BY <1>0, <2>1 DEF EnqueueApplyRunForJob, EnqueueApplyRunWithBaseResume, InsertRun
  <2>2. ASSUME NEW q \in Requests, RelaunchEnqueue(q)
        PROVE  FALSE
    BY <1>0, <2>2 DEF RelaunchEnqueue, InsertRun
  <2>3. ASSUME NEW r \in RunIds, NEW target, ResolveHandoff(r, target)
        PROVE  runs' = runs
    BY <2>3 DEF ResolveHandoff
  <2>4. ASSUME NEW q \in Requests,
               \/ \E h \in RunIds : RelaunchCheck(q, h)
               \/ RelaunchRefused(q) \/ RelaunchResolve(q)
               \/ RelaunchRaced(q) \/ RelaunchAbandoned(q)
        PROVE  runs' = runs
    BY <2>4 DEF RelaunchCheck, RelaunchRefused, RelaunchResolve, RelaunchRaced,
                RelaunchAbandoned
  <2>5. QED
    BY <1>1, <1>5, <1>6, <1>7, <2>1, <2>2, <2>3, <2>4 DEF UserStep
<1>8. ASSUME NEW l \in Loops, ClaimNextApplyJob(l)
      PROVE  FALSE
  BY <1>0, <1>8 DEF ClaimNextApplyJob, InsertRun
<1>9. ASSUME NEW j \in Jobs, NEW verdict \in Verdicts, PublishReview(j, verdict)
      PROVE  runs' = runs
  BY <1>9 DEF PublishReview
<1>10. ASSUME NEW l \in Sweepers, StopScript(l)
       PROVE  runs' = runs
  BY <1>10 DEF StopScript
<1>11. QED
  BY <1>1, <1>3, <1>4, <1>5, <1>7, <1>8, <1>9, <1>10 DEF Next, vars

-----------------------------------------------------------------------------
(* Each kind of step maps to a step of the slot. *)

LEMMA InitRefines == Init => Slot!Init
<1> SUFFICES ASSUME Init PROVE Slot!Init
  OBVIOUS
<1>1. \A r \in RunIds : runs[r].status = "NONE"
  BY DEF Init, NoRun
<1>2. \A v \in ReviewIds : ~Won(v) /\ ~Live(v) /\ Lost(v) = {}
  BY <1>1 DEF Won, Live, Lost
<1>3. QED
  BY <1>2, SlotIs, FS_EmptySet DEF Slot!Init, StateOf

LEMMA TakeRefines ==
  ASSUME IInv, NEW v \in ReviewIds, NEW who \in Loops \cup {User}, Inserts(v, who)
  PROVE  Slot!Take(v) \/ UNCHANGED <<slotState, slotFailures>>
<1>0. TypeOK /\ FreshRows /\ ClaimsHaveTokens /\ nextRun \in Nat
  BY DEF IInv, TypeOK
<1>1. /\ nextRun \in RunIds
      /\ runs'[nextRun].status = "PENDING"
      /\ runs'[nextRun].review = v
      /\ runs'[nextRun].by = who
      /\ \A r \in RunIds : r # nextRun => runs'[r] = runs[r]
  BY <1>0, InsertedRow DEF Inserts
<1>2. runs[nextRun].status = "NONE"
  BY <1>0, <1>1 DEF FreshRows
<1>3. ASSUME NEW u \in ReviewIds
      PROVE  /\ Won(u)' <=> Won(u)
             /\ Lost(u)' = Lost(u)
             /\ Live(u)' <=> Live(u) \/ (u = v /\ who \in Loops)
  <2>1. Won(u)' <=> Won(u)
    BY <1>1, <1>2 DEF Won, IsOf
  <2>2. Lost(u)' = Lost(u)
    BY <1>1, <1>2 DEF Lost, IsOf
  <2>3. Live(u)' <=> Live(u) \/ (u = v /\ who \in Loops)
    BY <1>1, <1>2 DEF Live, IsOf
  <2>4. QED
    BY <2>1, <2>2, <2>3
<1>4. CASE who = User
  <2>1. \A u \in ReviewIds : StateOf(Won(u)', Live(u)') = StateOf(Won(u), Live(u))
    BY <1>3, <1>4, ConstantsAssumption DEF StateOf
  <2>2. QED
    BY <1>3, <2>1, SlotIs, NextSlotIs
<1>5. CASE who \in Loops
  <2>1. Eligible(v)
    BY <1>5, ConstantsAssumption DEF Inserts
  <2>2. ~Won(v) /\ ~Live(v)
    BY <1>0, <2>1 DEF Eligible, RunsOf, Won, Live, IsOf, ClaimsHaveTokens
  <2>3. Cardinality(Lost(v)) < MaxRetries
    <3>1. Lost(v) \subseteq FailedRuns(v) /\ FailedRuns(v) \subseteq RunIds
      BY DEF Lost, IsOf, FailedRuns, RunsOf
    <3>2. IsFiniteSet(FailedRuns(v)) /\ Cardinality(FailedRuns(v)) \in Nat
      <4>1. IsFiniteSet(RunIds)
        BY FS_Interval, ConstantsAssumption DEF RunIds
      <4>2. QED
        BY <3>1, <4>1, FS_Subset, FS_CardinalityType
    <3>3. Cardinality(Lost(v)) <= Cardinality(FailedRuns(v))
      BY <3>1, <3>2, FS_Subset
    <3>4. QED
      BY <2>1, <3>2, <3>3, LostIsFinite, ConstantsAssumption DEF Eligible
  <2>4. slotState[v] = "free" /\ slotFailures[v] < MaxRetries
    BY <2>2, <2>3, SlotIs DEF StateOf
  <2>5. slotState' = [slotState EXCEPT ![v] = "held"]
    <3>1. \A u \in ReviewIds : StateOf(Won(u)', Live(u)') =
                                 IF u = v THEN "held" ELSE StateOf(Won(u), Live(u))
      BY <1>3, <1>5, <2>2 DEF StateOf
    <3>2. QED
      BY <3>1, SlotIs, NextSlotIs
  <2>6. slotFailures' = slotFailures
    BY <1>3, SlotIs, NextSlotIs
  <2>7. QED
    BY <2>4, <2>5, <2>6 DEF Slot!Take
<1>6. QED
  BY <1>4, <1>5

LEMMA FinishRefines ==
  ASSUME IInv, SucceedsRow
  PROVE  (\E v \in ReviewIds : Slot!Finish(v)) \/ UNCHANGED <<slotState, slotFailures>>
<1>1. PICK s \in RunIds : /\ runs[s].status = "PENDING" /\ runs'[s].status = "SUCCESS"
                          /\ \A r \in RunIds \ {s} : runs'[r] = runs[r]
  BY DEF SucceedsRow
<1>2. runs'[s].review = runs[s].review /\ runs'[s].by = runs[s].by
  BY DEF SucceedsRow, QuietStep, QuietChange
<1>3. PICK v \in ReviewIds : v = runs[s].review
  BY <1>1 DEF IInv, RowsHaveReviews
<1>4. \A u \in ReviewIds : Lost(u)' = Lost(u)
  BY <1>1, <1>2 DEF Lost, IsOf
<1>5. ASSUME NEW u \in ReviewIds, u # v \/ runs[s].by \notin Loops
      PROVE  (Won(u)' <=> Won(u)) /\ (Live(u)' <=> Live(u))
  <2>1. Won(u)' <=> Won(u)
    BY <1>1, <1>2, <1>3, <1>5 DEF Won, IsOf
  <2>2. Live(u)' <=> Live(u)
    BY <1>1, <1>2, <1>3, <1>5 DEF Live, IsOf
  <2>3. QED
    BY <2>1, <2>2
<1>6. slotFailures' = slotFailures
  BY <1>4, SlotIs, NextSlotIs
<1>7. CASE runs[s].by \notin Loops
  <2>1. \A u \in ReviewIds : StateOf(Won(u)', Live(u)') = StateOf(Won(u), Live(u))
    BY <1>5, <1>7 DEF StateOf
  <2>2. QED
    BY <1>6, <2>1, SlotIs, NextSlotIs
<1>8. CASE runs[s].by \in Loops
  <2>1. Live(v) /\ ~Won(v)
    BY <1>1, <1>3, <1>8 DEF Live, Won, IsOf, IInv, Safe, LoopAppliesOnce
  <2>2. Won(v)'
    BY <1>1, <1>2, <1>3, <1>8 DEF Won, IsOf
  <2>3. slotState[v] = "held"
    BY <1>3, <2>1, SlotIs DEF StateOf
  <2>4. slotState' = [slotState EXCEPT ![v] = "done"]
    <3>1. \A u \in ReviewIds : StateOf(Won(u)', Live(u)') =
                                 IF u = v THEN "done" ELSE StateOf(Won(u), Live(u))
      BY <1>5, <2>2 DEF StateOf
    <3>2. QED
      BY <3>1, SlotIs, NextSlotIs
  <2>5. QED
    BY <1>3, <1>6, <2>3, <2>4 DEF Slot!Finish
<1>9. QED
  BY <1>7, <1>8

\* A sweep may end attempts of several review runs, but only one of each.
LEMMA FailRefines ==
  ASSUME IInv, FailsRows
  PROVE  \E S \in SUBSET ReviewIds : Slot!Fail(S)
<1> DEFINE Ends(r) == runs[r].status = "PENDING" /\ runs'[r].status = "FAILED"
           S == {v \in ReviewIds : \E r \in RunIds : IsOf(r, v) /\ Ends(r)}
<1>1. ASSUME NEW r \in RunIds
      PROVE  /\ runs'[r].review = runs[r].review /\ runs'[r].by = runs[r].by
             /\ runs'[r].status = runs[r].status \/ Ends(r)
  BY DEF FailsRows, QuietStep, QuietChange
<1>2. ASSUME NEW v \in ReviewIds, v \notin S
      PROVE  (Won(v)' <=> Won(v)) /\ (Live(v)' <=> Live(v)) /\ Lost(v)' = Lost(v)
  <2>1. ASSUME NEW r \in RunIds, IsOf(r, v) \/ IsOf(r, v)'
        PROVE  IsOf(r, v) /\ IsOf(r, v)' /\ runs'[r].status = runs[r].status
    BY <1>1, <1>2, <2>1 DEF IsOf
  <2>2. QED
    BY <2>1 DEF Won, Live, Lost
<1>3. ASSUME NEW v \in ReviewIds, v \in S
      PROVE  /\ Live(v) /\ ~Won(v) /\ ~Live(v)' /\ ~Won(v)'
             /\ Cardinality(Lost(v)') = Cardinality(Lost(v)) + 1
  <2>1. PICK r \in RunIds : IsOf(r, v) /\ Ends(r)
    BY <1>3
  <2>2. \A s \in RunIds \ {r} :
          IsOf(s, v) => runs[s].status \notin {"PENDING", "SUCCESS"}
    BY <2>1 DEF IsOf, IInv, Safe, LoopAppliesOnce
  <2>3. ASSUME NEW s \in RunIds \ {r}, IsOf(s, v) \/ IsOf(s, v)'
        PROVE  /\ IsOf(s, v) /\ IsOf(s, v)'
               /\ runs'[s].status = runs[s].status
               /\ runs[s].status \notin {"PENDING", "SUCCESS"}
    BY <1>1, <2>2, <2>3 DEF IsOf
  <2>4. IsOf(r, v)'
    BY <1>1, <2>1 DEF IsOf
  <2>5. Live(v) /\ ~Won(v) /\ ~Live(v)' /\ ~Won(v)'
    BY <2>1, <2>3, <2>4 DEF Live, Won
  <2>6. Lost(v)' = Lost(v) \cup {r} /\ r \notin Lost(v)
    BY <2>1, <2>3, <2>4 DEF Lost
  <2>7. QED
    BY <2>5, <2>6, LostIsFinite, FS_AddElement
<1> HIDE DEF S
<1>4. S \subseteq ReviewIds
  BY DEF S
<1>5. \A v \in S : slotState[v] = "held"
  BY <1>3, <1>4, SlotIs DEF StateOf
<1>6. slotState' = [v \in ReviewIds |-> IF v \in S THEN "free" ELSE slotState[v]]
  <2>1. \A v \in ReviewIds : StateOf(Won(v)', Live(v)') =
                               IF v \in S THEN "free" ELSE StateOf(Won(v), Live(v))
    BY <1>2, <1>3 DEF StateOf
  <2>2. QED
    BY <2>1, SlotIs, NextSlotIs
<1>7. slotFailures' = [v \in ReviewIds |-> IF v \in S THEN slotFailures[v] + 1
                                           ELSE slotFailures[v]]
  BY <1>2, <1>3, SlotIs, NextSlotIs
<1>8. QED
  BY <1>4, <1>5, <1>6, <1>7 DEF Slot!Fail

LEMMA ForgetRefines ==
  ASSUME IInv, ErasesRows
  PROVE  \E S \in SUBSET ReviewIds : Slot!Forget(S)
<1>1. PICK j \in Jobs : \A r \in RunIds :
        runs'[r].status = IF runs[r].status = "FAILED" /\ RunIsFor(r, j)
                          THEN "NONE" ELSE runs[r].status
  BY DEF ErasesRows
<1> DEFINE S == {v \in ReviewIds : reviews[v].job = j}
<1>2. ASSUME NEW v \in ReviewIds, NEW r \in RunIds
      PROVE  /\ IsOf(r, v)' <=> IsOf(r, v)
             /\ IsOf(r, v) => (RunIsFor(r, j) <=> v \in S)
  BY DEF IsOf, RunIsFor, ErasesRows, QuietStep, QuietChange
<1>3. ASSUME NEW v \in ReviewIds
      PROVE  /\ Won(v)' <=> Won(v)
             /\ Live(v)' <=> Live(v)
             /\ Lost(v)' = IF v \in S THEN {} ELSE Lost(v)
  <2>1. Won(v)' <=> Won(v)
    BY <1>1, <1>2 DEF Won
  <2>2. Live(v)' <=> Live(v)
    BY <1>1, <1>2 DEF Live
  <2>3. Lost(v)' = IF v \in S THEN {} ELSE Lost(v)
    BY <1>1, <1>2 DEF Lost
  <2>4. QED
    BY <2>1, <2>2, <2>3
<1>4. S \subseteq ReviewIds
  OBVIOUS
<1> HIDE DEF S
<1>5. slotState' = slotState
  <2>1. \A v \in ReviewIds : StateOf(Won(v)', Live(v)') = StateOf(Won(v), Live(v))
    BY <1>3 DEF StateOf
  <2>2. QED
    BY <2>1, SlotIs, NextSlotIs
<1>6. slotFailures' = [v \in ReviewIds |-> IF v \in S THEN 0 ELSE slotFailures[v]]
  BY <1>3, SlotIs, NextSlotIs, FS_EmptySet
<1>7. QED
  BY <1>4, <1>5, <1>6 DEF Slot!Forget

\* The loops of the apply stage, with their rows, tokens, leases and sweeps,
\* implement a slot per review run: taken by one worker at a time, never after
\* a success, and at most MaxRetries times between resets.
THEOREM Refinement == Spec => ImplementsSlot
<1>1. IInv /\ [Next]_vars => [Slot!Next]_Slot!slotVars
  <2> SUFFICES ASSUME IInv, [Next]_vars
               PROVE  Slot!Next \/ UNCHANGED <<slotState, slotFailures>>
    BY DEF Slot!slotVars
  <2>1. CASE QuietStep
    <3>1. TypeOK
      BY DEF IInv
    <3>2. FailsRows \/ SucceedsRow \/ ErasesRows
      BY <2>1, <3>1, QuietKinds
    <3>3. QED
      BY <3>2, FailRefines, FinishRefines, ForgetRefines DEF Slot!Next
  <2>2. ASSUME NEW v \in ReviewIds, NEW who \in Loops \cup {User}, Inserts(v, who)
        PROVE  Slot!Next \/ UNCHANGED <<slotState, slotFailures>>
    BY <2>2, TakeRefines DEF Slot!Next
  <2>3. QED
    BY <2>1, <2>2, StepIsQuietOrInserts DEF IInv
<1>2. QED
  BY <1>1, InitRefines, Invariance, PTL DEF Spec, ImplementsSlot, Slot!Spec

=============================================================================
