------------------------------ MODULE ApplyRuns ------------------------------
(***************************************************************************)
(* The apply stage: the tables apply_runs and apply_handoffs, the workers  *)
(* that claim a reviewed job and drive the browser for it, the user        *)
(* endpoints that enqueue, delete and relaunch runs, and the human review  *)
(* that resolves a handoff.                                                *)
(*                                                                         *)
(* Every database method of the code is one transaction, hence one action. *)
(* A coroutine is cut at its awaits on the database: task[r] says where    *)
(* the coroutine that processes run r is.  Time is not counted: a run      *)
(* older than the lease is "stale", a FAILED run is "waiting" until its    *)
(* retry time has passed.                                                  *)
(***************************************************************************)
EXTENDS Naturals, FiniteSets

CONSTANTS
  Jobs,         \* rows of job_postings (all past the gate)
  Loops,        \* autonomous workers: the supervisor's loop, apply scripts
  Sweepers,     \* the loops run by scripts/process_apply_jobs.py
  User,         \* stands for the detached tasks the API spawns
  Requests,     \* relaunch requests that can be in progress together
  NoJob,
  MaxReviews,   \* bound on rows of review_runs
  MaxRuns,      \* bound on rows of apply_runs
  MaxRetries,   \* DEFAULT_APPLY_MAX_RETRIES
  Verdicts,     \* verdicts the pipeline publishes here
  Crashes       \* may coroutines be cancelled or their process die?

ASSUME ConstantsAssumption ==
  /\ Sweepers \subseteq Loops
  /\ User \notin Loops
  /\ NoJob \notin Jobs
  /\ MaxReviews \in Nat
  /\ MaxRuns \in Nat
  /\ MaxRetries \in Nat \ {0}
  /\ Verdicts \subseteq {"PASS", "TAILORED", "BASE", "FAIL",
                         "NO_IMPROVEMENT", "PAGE_FIT_FAILED"}
  /\ Crashes \in BOOLEAN

ReviewIds == 1 .. MaxReviews
RunIds == 1 .. MaxRuns

\* The verdicts claim_next_apply_job accepts.
ApplyVerdicts == {"PASS", "TAILORED", "BASE"}

VARIABLES
  jobStatus,  \* job_postings.status
  reviews,    \* review_runs rows with status SUCCESS
  runs,       \* apply_runs rows
  nextRun,    \* the AUTOINCREMENT key of apply_runs
  handoffs,   \* apply_handoffs.handoff_status, keyed by apply_run_id
  task,       \* where the coroutine that owns a run is
  request,    \* relaunch requests in progress
  up          \* which apply scripts are running

vars == <<jobStatus, reviews, runs, nextRun, handoffs, task, request, up>>

(***************************************************************************)
(* Rows.  "by" is not a column: it records who inserted the row.           *)
(***************************************************************************)
Review == [job : Jobs \cup {NoJob},
           verdict : ApplyVerdicts \cup Verdicts \cup {"NONE"}]
NoReview == [job |-> NoJob, verdict |-> "NONE"]

Run == [status : {"NONE", "PENDING", "SUCCESS", "FAILED"},
        review : 0 .. MaxReviews,
        by : Loops \cup {User},
        token : BOOLEAN,                          \* claim_token IS NOT NULL
        outcome : {"none", "NEEDS_REVIEW", "SUBMITTED"},
        waiting : BOOLEAN,                        \* next_retry_at is in the future
        stale : BOOLEAN,                          \* started_at <= now - lease
        deleted : BOOLEAN]                        \* deleted_at IS NOT NULL

NoRun == [status |-> "NONE", review |-> 0, by |-> User, token |-> FALSE,
          outcome |-> "none", waiting |-> FALSE, stale |-> FALSE,
          deleted |-> FALSE]

HandoffStatus == {"NONE", "PENDING_REVIEW", "APPROVED", "REJECTED"}
TaskState == {"idle", "applying", "failRetry", "failFinal", "handoff"}
IdleRequest == [pc |-> "idle", handoff |-> 0, run |-> 0]
Request == [pc : {"idle", "checked", "enqueued"},
            handoff : 0 .. MaxRuns, run : 0 .. MaxRuns]

TypeOK ==
  /\ jobStatus \in [Jobs -> {"QUALIFIED", "APPLIED", "REJECTED"}]
  /\ reviews \in [ReviewIds -> Review]
  /\ runs \in [RunIds -> Run]
  /\ nextRun \in 1 .. (MaxRuns + 1)
  /\ handoffs \in [RunIds -> HandoffStatus]
  /\ task \in [RunIds -> TaskState]
  /\ request \in [Requests -> Request]
  /\ up \in [Sweepers -> BOOLEAN]

Init ==
  /\ jobStatus = [j \in Jobs |-> "QUALIFIED"]
  /\ reviews = [v \in ReviewIds |-> NoReview]
  /\ runs = [r \in RunIds |-> NoRun]
  /\ nextRun = 1
  /\ handoffs = [r \in RunIds |-> "NONE"]
  /\ task = [r \in RunIds |-> "idle"]
  /\ request = [q \in Requests |-> IdleRequest]
  /\ up = [l \in Sweepers |-> FALSE]

-----------------------------------------------------------------------------
(* Queries. *)

ReviewExists(v) == reviews[v].verdict # "NONE"
NextReview(v) == ~ReviewExists(v) /\ \A w \in ReviewIds : w < v => ReviewExists(w)

RunsOf(v) == {r \in RunIds : runs[r].status # "NONE" /\ runs[r].review = v}
FailedRuns(v) == {r \in RunsOf(v) : runs[r].status = "FAILED"}

\* apply_runs.job_hash is copied from the review run the row is inserted for.
RunIsFor(r, j) ==
  \E v \in ReviewIds : runs[r].review = v /\ reviews[v].job = j

\* Mutant of InFlight: a run past its lease no longer occupies the slot.
InFlightUnlessStale(j) ==
  \E r \in RunIds : /\ runs[r].status = "PENDING"
                    /\ ~runs[r].deleted /\ ~runs[r].stale
                    /\ RunIsFor(r, j)

\* A PENDING row that is not soft-deleted occupies the job's in-flight slot.
InFlight(j) ==
  \E r \in RunIds : /\ runs[r].status = "PENDING"
                    /\ ~runs[r].deleted
                    /\ RunIsFor(r, j)

\* Mutant of Eligible: a PENDING row past its lease may be claimed again.
EligibleWhenStale(v) ==
  /\ reviews[v].verdict \in ApplyVerdicts
  /\ \A r \in RunsOf(v) :
       /\ runs[r].status # "SUCCESS"
       /\ ~(runs[r].status = "PENDING" /\ ~runs[r].stale)
       /\ ~(runs[r].status = "FAILED" /\ runs[r].waiting)
  /\ Cardinality(FailedRuns(v)) < MaxRetries

\* Mutant of Eligible: one attempt too many.
EligibleOnceMore(v) ==
  /\ reviews[v].verdict \in ApplyVerdicts
  /\ \A r \in RunsOf(v) :
       /\ runs[r].status \notin {"SUCCESS", "PENDING"}
       /\ ~(runs[r].status = "FAILED" /\ runs[r].waiting)
  /\ Cardinality(FailedRuns(v)) <= MaxRetries

\* WHERE clause of claim_next_apply_job.  It ignores deleted_at.
Eligible(v) ==
  /\ reviews[v].verdict \in ApplyVerdicts
  /\ \A r \in RunsOf(v) :
       /\ runs[r].status # "SUCCESS"
       /\ ~(runs[r].status = "PENDING" /\ ~runs[r].stale)
       /\ ~(runs[r].status = "PENDING" /\ runs[r].token)
       /\ ~(runs[r].status = "FAILED" /\ runs[r].waiting)
  /\ Cardinality(FailedRuns(v)) < MaxRetries

\* ORDER BY completed_at, id LIMIT 1: the oldest eligible review run.
NextCandidate(v) == Eligible(v) /\ \A w \in ReviewIds : w < v => ~Eligible(w)

\* ORDER BY completed_at DESC, id DESC LIMIT 1, whatever the verdict.
LatestReview(v, j) ==
  /\ ReviewExists(v) /\ reviews[v].job = j
  /\ \A w \in ReviewIds : w > v => ~(ReviewExists(w) /\ reviews[w].job = j)

\* The row every insert of a run creates.
PendingRun(v, who) ==
  [NoRun EXCEPT !.status = "PENDING", !.review = v, !.by = who, !.token = TRUE]

InsertRun(v, who) ==
  /\ nextRun <= MaxRuns
  /\ runs' = [runs EXCEPT ![nextRun] = PendingRun(v, who)]
  /\ nextRun' = nextRun + 1

LoopIsIdle(l) ==
  \A r \in RunIds : runs[r].by = l => task[r] = "idle"
LoopIsUp(l) == l \in Sweepers => up[l]

-----------------------------------------------------------------------------
(* Insertion of work. *)

\* The tailor pipeline publishes a review run (environment of this module).
PublishReview(j, verdict) ==
  /\ \E v \in ReviewIds :
       /\ NextReview(v)
       /\ reviews' = [reviews EXCEPT ![v] = [job |-> j, verdict |-> verdict]]
  /\ UNCHANGED <<jobStatus, runs, nextRun, handoffs, task, request, up>>

\* An autonomous worker claims the oldest eligible review run and starts on it.
ClaimNextApplyJob(l) ==
  /\ LoopIsUp(l) /\ LoopIsIdle(l)
  /\ \E v \in ReviewIds : NextCandidate(v) /\ InsertRun(v, l)
  /\ task' = [task EXCEPT ![nextRun] = "applying"]
  /\ UNCHANGED <<jobStatus, reviews, handoffs, request, up>>

\* POST /jobs/{hash}/apply with the tailored resume; the handler spawns the task.
EnqueueApplyRunForJob(j) ==
  /\ ~InFlight(j)
  /\ \E v \in ReviewIds : LatestReview(v, j) /\ InsertRun(v, User)
  /\ task' = [task EXCEPT ![nextRun] = "applying"]
  /\ UNCHANGED <<jobStatus, reviews, handoffs, request, up>>

\* POST /jobs/{hash}/apply with the base resume: a BASE review run is made up
\* in the same transaction.
EnqueueApplyRunWithBaseResume(j) ==
  /\ ~InFlight(j)
  /\ \E v \in ReviewIds :
       /\ NextReview(v)
       /\ reviews' = [reviews EXCEPT ![v] = [job |-> j, verdict |-> "BASE"]]
       /\ InsertRun(v, User)
  /\ task' = [task EXCEPT ![nextRun] = "applying"]
  /\ UNCHANGED <<jobStatus, handoffs, request, up>>

-----------------------------------------------------------------------------
(* _process_apply_row: one coroutine per run, cut at its database awaits. *)

\* Mutant of OwnsRun: the UPDATEs test the token but not the status.
OwnsRunByToken(r) == runs[r].token

\* The UPDATEs are guarded by id, status = 'PENDING' and claim_token = ?.
\* Only the row's own coroutine knows its token.
OwnsRun(r) == runs[r].status = "PENDING" /\ runs[r].token

\* _handle_apply_failure first counts the FAILED rows of the review run.
\* limit is max_retries, or 0 when the resume or the job hash is unusable.
CountFailures(r, limit) ==
  /\ task[r] = "applying"
  /\ task' = [task EXCEPT ![r] =
                IF Cardinality(FailedRuns(runs[r].review)) + 1 < limit
                THEN "failRetry" ELSE "failFinal"]
  /\ UNCHANGED <<jobStatus, reviews, runs, nextRun, handoffs, request, up>>

\* record_apply_failure; a ClaimOwnershipError is logged and dropped.
RecordApplyFailure(r) ==
  /\ task[r] \in {"failRetry", "failFinal"}
  /\ runs' = IF OwnsRun(r)
             THEN [runs EXCEPT ![r] =
                     [@ EXCEPT !.status = "FAILED", !.token = FALSE,
                               !.stale = FALSE,
                               !.waiting = (task[r] = "failRetry")]]
             ELSE runs
  /\ task' = [task EXCEPT ![r] = "idle"]
  /\ UNCHANGED <<jobStatus, reviews, nextRun, handoffs, request, up>>

\* record_apply_success after the browser ended with an outcome.
RecordApplySuccess(r, outcome) ==
  /\ task[r] = "applying"
  /\ IF OwnsRun(r)
     THEN /\ runs' = [runs EXCEPT ![r] =
                        [@ EXCEPT !.status = "SUCCESS", !.token = FALSE,
                                  !.stale = FALSE, !.outcome = outcome]]
          /\ task' = [task EXCEPT ![r] = IF outcome = "NEEDS_REVIEW"
                                         THEN "handoff" ELSE "idle"]
     ELSE /\ runs' = runs
          /\ task' = [task EXCEPT ![r] = "idle"]
  /\ UNCHANGED <<jobStatus, reviews, nextRun, handoffs, request, up>>

\* record_apply_handoff, a second transaction; on conflict the status stays.
RecordApplyHandoff(r) ==
  /\ task[r] = "handoff"
  /\ handoffs' = [handoffs EXCEPT ![r] = IF @ = "NONE" THEN "PENDING_REVIEW" ELSE @]
  /\ task' = [task EXCEPT ![r] = "idle"]
  /\ UNCHANGED <<jobStatus, reviews, runs, nextRun, request, up>>

-----------------------------------------------------------------------------
(* Faults, leases and the sweep. *)

\* The coroutine of a run ends early: cancelled by a mode flip, killed with
\* its process, or thrown out by a database error.
AbandonTask(r) ==
  /\ Crashes
  /\ task[r] # "idle"
  /\ task' = [task EXCEPT ![r] = "idle"]
  /\ UNCHANGED <<jobStatus, reviews, runs, nextRun, handoffs, request, up>>

LeaseExpires(r) ==
  /\ runs[r].status = "PENDING" /\ ~runs[r].stale
  /\ runs' = [runs EXCEPT ![r].stale = TRUE]
  /\ UNCHANGED <<jobStatus, reviews, nextRun, handoffs, task, request, up>>

RetryFallsDue(r) ==
  /\ runs[r].waiting
  /\ runs' = [runs EXCEPT ![r].waiting = FALSE]
  /\ UNCHANGED <<jobStatus, reviews, nextRun, handoffs, task, request, up>>

\* Mutant of Swept: only rows without a claim token are recovered.
SweptUnlessClaimed(run) == IF run.status = "PENDING" /\ run.stale /\ ~run.token
                           THEN [run EXCEPT !.status = "FAILED", !.stale = FALSE]
                           ELSE run

\* mark_stale_apply_runs_failed; claim_token and next_retry_at stay as they are.
Swept(run) == IF run.status = "PENDING" /\ run.stale
              THEN [run EXCEPT !.status = "FAILED", !.stale = FALSE] ELSE run

\* scripts/process_apply_jobs.py starts: its only sweep.
StartScript(l) ==
  /\ ~up[l]
  /\ up' = [up EXCEPT ![l] = TRUE]
  /\ runs' = [r \in RunIds |-> Swept(runs[r])]
  /\ UNCHANGED <<jobStatus, reviews, nextRun, handoffs, task, request>>

\* The script returns (it runs one cycle unless told to loop), or dies and
\* takes its coroutine with it.
StopScript(l) ==
  /\ up[l]
  /\ Crashes \/ LoopIsIdle(l)
  /\ up' = [up EXCEPT ![l] = FALSE]
  /\ task' = [r \in RunIds |-> IF runs[r].by = l THEN "idle" ELSE task[r]]
  /\ UNCHANGED <<jobStatus, reviews, runs, nextRun, handoffs, request>>

-----------------------------------------------------------------------------
(* User endpoints on existing runs. *)

\* DELETE /apply-runs/{id}: whatever the status of the row.
SoftDeleteApplyRun(r) ==
  /\ runs[r].status # "NONE" /\ ~runs[r].deleted
  /\ runs' = [runs EXCEPT ![r].deleted = TRUE]
  /\ UNCHANGED <<jobStatus, reviews, nextRun, handoffs, task, request, up>>

\* The row is gone; a coroutine still running for it keeps its local values.
Erased(run) == [NoRun EXCEPT !.review = run.review, !.by = run.by]

\* Mutant of ResetApplyFailureState: every run of the job is deleted.
ResetAllRuns(j) ==
  /\ \E r \in RunIds : runs[r].status # "NONE" /\ RunIsFor(r, j)
  /\ runs' = [r \in RunIds |-> IF RunIsFor(r, j) THEN Erased(runs[r]) ELSE runs[r]]
  /\ UNCHANGED <<jobStatus, reviews, nextRun, handoffs, task, request, up>>

\* POST /failures/APPLY:{id}/retry deletes the job's FAILED rows.
ResetApplyFailureState(j) ==
  /\ \E r \in RunIds : runs[r].status # "NONE" /\ RunIsFor(r, j)
  /\ runs' = [r \in RunIds |->
                IF runs[r].status = "FAILED" /\ RunIsFor(r, j)
                THEN Erased(runs[r]) ELSE runs[r]]
  /\ UNCHANGED <<jobStatus, reviews, nextRun, handoffs, task, request, up>>

-----------------------------------------------------------------------------
(* Human review. *)

\* Mutant of TransitionHandoffStatus: the current status is not checked.
TransitionUnchecked(h, target) ==
  /\ handoffs[h] # "NONE"
  /\ handoffs' = [handoffs EXCEPT ![h] = target]
  /\ jobStatus' = [j \in Jobs |->
                     IF RunIsFor(h, j)
                     THEN IF target = "APPROVED" THEN "APPLIED" ELSE "REJECTED"
                     ELSE jobStatus[j]]

\* transition_handoff_status: both rows in one BEGIN IMMEDIATE transaction.
TransitionHandoffStatus(h, target) ==
  /\ handoffs[h] = "PENDING_REVIEW"
  /\ handoffs' = [handoffs EXCEPT ![h] = target]
  /\ jobStatus' = [j \in Jobs |->
                     IF RunIsFor(h, j)
                     THEN IF target = "APPROVED" THEN "APPLIED" ELSE "REJECTED"
                     ELSE jobStatus[j]]

\* POST /human-review/{id}/complete and .../dismiss.
ResolveHandoff(h, target) ==
  /\ TransitionHandoffStatus(h, target)
  /\ UNCHANGED <<reviews, runs, nextRun, task, request, up>>

\* POST .../relaunch-apply: the checks are made before, and outside of, the
\* two transactions that follow.
RelaunchCheck(q, h) ==
  /\ request[q].pc = "idle"
  /\ handoffs[h] = "PENDING_REVIEW"
  /\ runs[h].status # "NONE" /\ ~runs[h].deleted
  /\ request' = [request EXCEPT ![q] = [pc |-> "checked", handoff |-> h, run |-> 0]]
  /\ UNCHANGED <<jobStatus, reviews, runs, nextRun, handoffs, task, up>>

RelaunchEnqueue(q) ==
  /\ request[q].pc = "checked"
  /\ \E j \in Jobs :
       /\ RunIsFor(request[q].handoff, j)
       /\ ~InFlight(j)
       /\ \E v \in ReviewIds : LatestReview(v, j) /\ InsertRun(v, User)
  /\ request' = [request EXCEPT ![q].pc = "enqueued", ![q].run = nextRun]
  /\ UNCHANGED <<jobStatus, reviews, handoffs, task, up>>

\* ApplyRunInFlightError: 409.
RelaunchRefused(q) ==
  /\ request[q].pc = "checked"
  /\ \E j \in Jobs : RunIsFor(request[q].handoff, j) /\ InFlight(j)
  /\ request' = [request EXCEPT ![q] = IdleRequest]
  /\ UNCHANGED <<jobStatus, reviews, runs, nextRun, handoffs, task, up>>

\* The old handoff is approved and the new run's task is spawned.
RelaunchResolve(q) ==
  /\ request[q].pc = "enqueued"
  /\ TransitionHandoffStatus(request[q].handoff, "APPROVED")
  /\ task' = [task EXCEPT ![request[q].run] = "applying"]
  /\ request' = [request EXCEPT ![q] = IdleRequest]
  /\ UNCHANGED <<reviews, runs, nextRun, up>>

\* The handoff was resolved meanwhile: ValueError, and nothing is spawned.
RelaunchRaced(q) ==
  /\ request[q].pc = "enqueued"
  /\ handoffs[request[q].handoff] # "PENDING_REVIEW"
  /\ request' = [request EXCEPT ![q] = IdleRequest]
  /\ UNCHANGED <<jobStatus, reviews, runs, nextRun, handoffs, task, up>>

RelaunchAbandoned(q) ==
  /\ Crashes
  /\ request[q].pc # "idle"
  /\ request' = [request EXCEPT ![q] = IdleRequest]
  /\ UNCHANGED <<jobStatus, reviews, runs, nextRun, handoffs, task, up>>

-----------------------------------------------------------------------------
\* What a run's own coroutine does.
TaskStep(r) ==
  \/ \E limit \in {0, MaxRetries} : CountFailures(r, limit)
  \/ RecordApplyFailure(r)
  \/ \E outcome \in {"NEEDS_REVIEW", "SUBMITTED"} : RecordApplySuccess(r, outcome)
  \/ RecordApplyHandoff(r)

ClockStep(r) == LeaseExpires(r) \/ RetryFallsDue(r)

UserStep ==
  \/ \E j \in Jobs : \/ EnqueueApplyRunForJob(j)
                     \/ EnqueueApplyRunWithBaseResume(j)
                     \/ ResetApplyFailureState(j)
  \/ \E r \in RunIds : \/ SoftDeleteApplyRun(r)
                       \/ \E target \in {"APPROVED", "REJECTED"} :
                            ResolveHandoff(r, target)
  \/ \E q \in Requests : \/ \E h \in RunIds : RelaunchCheck(q, h)
                         \/ RelaunchEnqueue(q)
                         \/ RelaunchRefused(q)
                         \/ RelaunchResolve(q)
                         \/ RelaunchRaced(q)
                         \/ RelaunchAbandoned(q)

Next ==
  \/ \E j \in Jobs, verdict \in Verdicts : PublishReview(j, verdict)
  \/ \E l \in Loops : ClaimNextApplyJob(l)
  \/ \E r \in RunIds : TaskStep(r) \/ AbandonTask(r) \/ ClockStep(r)
  \/ \E l \in Sweepers : StartScript(l) \/ StopScript(l)
  \/ UserStep

Spec == Init /\ [][Next]_vars

(***************************************************************************)
(* Fairness.                                                               *)
(***************************************************************************)
\* Leases run out, and the script service is started again when it is down.
ServiceFairness ==
  /\ \A r \in RunIds : WF_vars(LeaseExpires(r))
  /\ \A l \in Sweepers : WF_vars(StartScript(l))

\* Nobody touches the dashboard: reviews are published, the loops do the rest.
UnattendedNext ==
  \/ \E j \in Jobs, verdict \in Verdicts : PublishReview(j, verdict)
  \/ \E l \in Loops : ClaimNextApplyJob(l)
  \/ \E r \in RunIds : TaskStep(r) \/ AbandonTask(r) \/ ClockStep(r)
  \/ \E l \in Sweepers : StartScript(l) \/ StopScript(l)

UnattendedSpec ==
  /\ Init /\ [][UnattendedNext]_vars
  /\ ServiceFairness
  /\ \A l \in Sweepers : WF_vars(StopScript(l)) /\ SF_vars(ClaimNextApplyJob(l))
  /\ \A r \in RunIds : WF_vars(TaskStep(r)) /\ WF_vars(RetryFallsDue(r))

-----------------------------------------------------------------------------
(***************************************************************************)
(* What the apply stage promises.                                          *)
(***************************************************************************)

LoopRunsOf(v) == {r \in RunsOf(v) : runs[r].by \in Loops}

\* However leases, sweeps, deletions and late coroutines interleave, the
\* autonomous workers together never have two runs of one review run that are
\* live or successful: the records show one application.  What a swept run's
\* coroutine still does to the form is in ApplyFlow.
LoopAppliesOnce ==
  \A r, s \in RunIds :
    /\ r # s
    /\ runs[r].by \in Loops /\ runs[s].by \in Loops
    /\ runs[r].status \in {"PENDING", "SUCCESS"}
    /\ runs[s].status \in {"PENDING", "SUCCESS"}
    => runs[r].review # runs[s].review

\* A loop and the dashboard never hold visible claims on one review run at the
\* same time, although each checks for the other's row in its own way.
OneClaimPerReview ==
  \A r, s \in RunIds :
    /\ r # s
    /\ runs[r].status = "PENDING" /\ ~runs[r].deleted
    /\ runs[s].status = "PENDING" /\ ~runs[s].deleted
    => runs[r].review # runs[s].review

\* A handoff is only ever shown for an application that ended NEEDS_REVIEW:
\* no sweep, late failure or reset takes the run from under its handoff.
HandoffFollowsSuccess ==
  \A r \in RunIds :
    handoffs[r] # "NONE" \/ task[r] = "handoff" =>
      runs[r].status = "SUCCESS" /\ runs[r].outcome = "NEEDS_REVIEW"

\* A result once recorded stays: a coroutine that outlives its lease cannot
\* overwrite the sweep's verdict, and only a reset removes a FAILED row.
RecordedResultIsFinal ==
  [][\A r \in RunIds :
       /\ runs[r].status = "SUCCESS" =>
            runs'[r].status = "SUCCESS" /\ runs'[r].outcome = runs[r].outcome
       /\ runs[r].status = "FAILED" => runs'[r].status \in {"FAILED", "NONE"}]_vars

\* A reviewer's decision is never changed, whichever of complete, dismiss and
\* relaunch race for the same handoff.
DecisionIsFinal ==
  [][\A h \in RunIds : handoffs[h] \in {"APPROVED", "REJECTED"} =>
                         handoffs'[h] = handoffs[h]]_vars

\* The stage implements a slot per review run with a bounded number of
\* attempts (module ApplySlot).
slotState ==
  [v \in ReviewIds |->
     IF \E r \in LoopRunsOf(v) : runs[r].status = "SUCCESS" THEN "done"
     ELSE IF \E r \in LoopRunsOf(v) : runs[r].status = "PENDING" THEN "held"
     ELSE "free"]
slotFailures ==
  [v \in ReviewIds |-> Cardinality(LoopRunsOf(v) \cap FailedRuns(v))]

Slot == INSTANCE ApplySlot WITH Reviews <- ReviewIds,
                                state <- slotState, failures <- slotFailures
ImplementsSlot == Slot!Spec

\* Unattended, an apply-eligible review run ends applied or out of retries,
\* through crashes, expired leases and backoff.
Settled(v) ==
  \/ \E r \in RunsOf(v) : runs[r].status = "SUCCESS"
  \/ Cardinality(FailedRuns(v)) >= MaxRetries
ReviewSettles ==
  \A v \in ReviewIds : (reviews[v].verdict \in ApplyVerdicts) ~> Settled(v)

=============================================================================
