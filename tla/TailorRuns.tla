----------------------------- MODULE TailorRuns ------------------------------
(***************************************************************************)
(* The tailor stage: the table tailor_runs, the worker that claims a       *)
(* qualified job each cycle, the tailor and review pipeline, and the user  *)
(* endpoints that start, delete, retry and reset runs.                     *)
(*                                                                         *)
(* One action per transaction.  task[r] says where the pipeline of run r   *)
(* is.  A run older than the lease is "stale".  The pipeline never sets    *)
(* next_retry_at, so a FAILED run is due again at once.                    *)
(***************************************************************************)
EXTENDS Naturals, FiniteSets

CONSTANTS
  MaxJobs,      \* number of job postings, numbered in the order fetched
  Loops,        \* tailor loops: the supervisor's, the script's
  User,         \* stands for the background tasks of the API
  Requests,     \* retry requests that can be in progress together
  MaxRuns,      \* bound on rows of tailor_runs
  MaxRetries,   \* DEFAULT_TAILOR_MAX_RETRIES
  Crashes       \* may coroutines be cancelled or their process die?

ASSUME ConstantsAssumption ==
  /\ MaxJobs \in Nat
  /\ User \notin Loops
  /\ MaxRuns \in Nat
  /\ MaxRetries \in Nat \ {0}
  /\ Crashes \in BOOLEAN

JobIds == 1 .. MaxJobs
RunIds == 1 .. MaxRuns

VARIABLES
  qualified,  \* jobs with status QUALIFIED
  runs,       \* tailor_runs rows
  nextRun,    \* the AUTOINCREMENT key of tailor_runs
  reviews,    \* runs for which the pipeline inserted a review run
  task,       \* where the pipeline of a run is
  cycle,      \* what each loop does next when it is idle
  request     \* retry requests in progress

vars == <<qualified, runs, nextRun, reviews, task, cycle, request>>

Run == [status : {"NONE", "PENDING", "RUNNING", "SUCCESS", "FAILED"},
        job : 0 .. MaxJobs,
        stale : BOOLEAN,              \* started_at <= now - lease
        deleted : BOOLEAN]            \* deleted_at IS NOT NULL

NoRun == [status |-> "NONE", job |-> 0, stale |-> FALSE, deleted |-> FALSE]

Task == [pc : {"idle", "starting", "working", "published"},
         by : Loops \cup {User}]
NoTask == [pc |-> "idle", by |-> User]
IdleRequest == [pc |-> "idle", run |-> 0, job |-> 0]
Request == [pc : {"idle", "checked", "deleted", "accepted", "refused"},
            run : 0 .. MaxRuns, job : 0 .. MaxJobs]

TypeOK ==
  /\ qualified \subseteq JobIds
  /\ runs \in [RunIds -> Run]
  /\ nextRun \in 1 .. (MaxRuns + 1)
  /\ reviews \subseteq RunIds
  /\ task \in [RunIds -> Task]
  /\ cycle \in [Loops -> {"sweep", "claim"}]
  /\ request \in [Requests -> Request]

Init ==
  /\ qualified = JobIds
  /\ runs = [r \in RunIds |-> NoRun]
  /\ nextRun = 1
  /\ reviews = {}
  /\ task = [r \in RunIds |-> NoTask]
  /\ cycle = [l \in Loops |-> "sweep"]
  /\ request = [q \in Requests |-> IdleRequest]

-----------------------------------------------------------------------------
(* Queries. *)

\* Mutant of Active: the UPDATEs do not test the status.
ActiveOrNot(run) == run.status # "NONE"

Active(run) == run.status \in {"PENDING", "RUNNING"}

VisibleRuns(j) == {r \in RunIds : runs[r].job = j /\ ~runs[r].deleted}
FailedRuns(j) == {r \in VisibleRuns(j) : runs[r].status = "FAILED"}

\* Mutant of Eligible: one attempt too few.
EligibleOnceLess(j) ==
  /\ j \in qualified
  /\ \A r \in VisibleRuns(j) : /\ runs[r].status # "SUCCESS"
                               /\ ~(Active(runs[r]) /\ ~runs[r].stale)
  /\ Cardinality(FailedRuns(j)) + 1 < MaxRetries

\* Mutant of Eligible: a RUNNING row does not hold the job.
EligibleUnlessPending(j) ==
  /\ j \in qualified
  /\ \A r \in VisibleRuns(j) : /\ runs[r].status # "SUCCESS"
                               /\ ~(runs[r].status = "PENDING" /\ ~runs[r].stale)
  /\ Cardinality(FailedRuns(j)) < MaxRetries

\* WHERE clause of claim_next_tailor_job.
Eligible(j) ==
  /\ j \in qualified
  /\ \A r \in VisibleRuns(j) : /\ runs[r].status # "SUCCESS"
                               /\ ~(Active(runs[r]) /\ ~runs[r].stale)
  /\ Cardinality(FailedRuns(j)) < MaxRetries

\* ORDER BY fetched_at, id LIMIT 1.
NextCandidate(j) == Eligible(j) /\ \A i \in JobIds : i < j => ~Eligible(i)

\* The test of insert_user_triggered_tailor_run.
SlotIsFree(j) ==
  \A r \in VisibleRuns(j) : runs[r].status \notin {"PENDING", "RUNNING", "SUCCESS"}

InsertRun(j, status) ==
  /\ nextRun <= MaxRuns
  /\ runs' = [runs EXCEPT ![nextRun] = [NoRun EXCEPT !.status = status, !.job = j]]
  /\ nextRun' = nextRun + 1

StartTask(who) == task' = [task EXCEPT ![nextRun] = [pc |-> "starting", by |-> who]]

\* A loop awaits the pipeline of the run it has claimed.
LoopIsIdle(l) == \A r \in RunIds : task[r].by # l

-----------------------------------------------------------------------------
(* The worker's cycle: sweep, then claim. *)

\* Mutant of Swept: RUNNING rows are left alone.
SweptIfPending(run) ==
  IF run.status = "PENDING" /\ run.stale
  THEN [run EXCEPT !.status = "FAILED", !.stale = FALSE] ELSE run

\* mark_stale_tailor_runs_failed, of deleted rows too.
Swept(run) == IF Active(run) /\ run.stale
              THEN [run EXCEPT !.status = "FAILED", !.stale = FALSE] ELSE run

SweepStaleRuns(l) ==
  /\ cycle[l] = "sweep" /\ LoopIsIdle(l)
  /\ runs' = [r \in RunIds |-> Swept(runs[r])]
  /\ cycle' = [cycle EXCEPT ![l] = "claim"]
  /\ UNCHANGED <<qualified, nextRun, reviews, task, request>>

ClaimNextTailorJob(l) ==
  /\ cycle[l] = "claim"
  /\ \E j \in JobIds : NextCandidate(j) /\ InsertRun(j, "PENDING")
  /\ StartTask(l)
  /\ cycle' = [cycle EXCEPT ![l] = "sweep"]
  /\ UNCHANGED <<qualified, reviews, request>>

\* The cycle ends without a claim: opt-in mode, budget spent, nothing to do,
\* an error, or the loop is cancelled.
SkipClaim(l) ==
  /\ cycle[l] = "claim"
  /\ cycle' = [cycle EXCEPT ![l] = "sweep"]
  /\ UNCHANGED <<qualified, runs, nextRun, reviews, task, request>>

-----------------------------------------------------------------------------
(* run_tailor_review_pipeline *)

MarkTailorRunning(r) ==
  /\ task[r].pc = "starting"
  /\ runs' = IF runs[r].status = "PENDING"
             THEN [runs EXCEPT ![r].status = "RUNNING"] ELSE runs
  /\ task' = [task EXCEPT ![r].pc = "working"]
  /\ UNCHANGED <<qualified, nextRun, reviews, cycle, request>>

\* The review run is inserted first, whatever has become of the tailor run.
InsertPipelineReviewRun(r) ==
  /\ task[r].pc = "working"
  /\ reviews' = reviews \cup {r}
  /\ task' = [task EXCEPT ![r].pc = "published"]
  /\ UNCHANGED <<qualified, runs, nextRun, cycle, request>>

\* Mutant of RecordTailorSuccess: the tailor run is completed first.
RecordSuccessFirst(r) ==
  /\ task[r].pc \in {"working", "published"}
  /\ runs' = IF Active(runs[r])
             THEN [runs EXCEPT ![r] = [@ EXCEPT !.status = "SUCCESS", !.stale = FALSE]]
             ELSE runs
  /\ task' = [task EXCEPT ![r] = IF @.pc = "published" THEN NoTask ELSE @]
  /\ UNCHANGED <<qualified, nextRun, reviews, cycle, request>>

\* UPDATE ... WHERE status IN ('PENDING', 'RUNNING'): no token, no error when
\* the row is gone or no longer active.
RecordTailorSuccess(r) ==
  /\ task[r].pc = "published"
  /\ runs' = IF Active(runs[r])
             THEN [runs EXCEPT ![r] = [@ EXCEPT !.status = "SUCCESS", !.stale = FALSE]]
             ELSE runs
  /\ task' = [task EXCEPT ![r] = NoTask]
  /\ UNCHANGED <<qualified, nextRun, reviews, cycle, request>>

\* From "starting" for a malformed hash, from "published" when the success
\* could not be written.
RecordTailorFailure(r) ==
  /\ task[r].pc # "idle"
  /\ runs' = IF Active(runs[r])
             THEN [runs EXCEPT ![r] = [@ EXCEPT !.status = "FAILED", !.stale = FALSE]]
             ELSE runs
  /\ task' = [task EXCEPT ![r] = NoTask]
  /\ UNCHANGED <<qualified, nextRun, reviews, cycle, request>>

AbandonTask(r) ==
  /\ Crashes
  /\ task[r].pc # "idle"
  /\ task' = [task EXCEPT ![r] = NoTask]
  /\ UNCHANGED <<qualified, runs, nextRun, reviews, cycle, request>>

LeaseExpires(r) ==
  /\ Active(runs[r]) /\ ~runs[r].stale
  /\ runs' = [runs EXCEPT ![r].stale = TRUE]
  /\ UNCHANGED <<qualified, nextRun, reviews, task, cycle, request>>

-----------------------------------------------------------------------------
(* User endpoints. *)

\* insert_user_triggered_tailor_run and the background task it is for.
StartUserRun(j) ==
  /\ SlotIsFree(j)
  /\ InsertRun(j, "PENDING")
  /\ StartTask(User)

\* POST /jobs/{hash}/tailor
EnqueueTailorRun(j) ==
  /\ StartUserRun(j)
  /\ UNCHANGED <<qualified, reviews, cycle, request>>

\* The base-resume apply makes up a finished tailor run and its review run,
\* without a look at the slot (apply stage, environment of this module).
InsertBaseRun(j) ==
  /\ InsertRun(j, "SUCCESS")
  /\ reviews' = reviews \cup {nextRun}
  /\ UNCHANGED <<qualified, task, cycle, request>>

\* DELETE /tailor-runs/{id}: whatever the status of the row.
SoftDeleteTailorRun(r) ==
  /\ runs[r].status # "NONE" /\ ~runs[r].deleted
  /\ runs' = [runs EXCEPT ![r].deleted = TRUE]
  /\ UNCHANGED <<qualified, nextRun, reviews, task, cycle, request>>

\* POST /failures/TAILOR:{id}/retry deletes the FAILED rows for good.
ResetTailorFailureState(j) ==
  /\ \E r \in RunIds : runs[r].job = j
  /\ runs' = [r \in RunIds |->
                IF runs[r].job = j /\ runs[r].status = "FAILED"
                THEN NoRun ELSE runs[r]]
  /\ UNCHANGED <<qualified, nextRun, reviews, task, cycle, request>>

Answer(q, pc) == request' = [request EXCEPT ![q].pc = pc]

\* POST /tailor-runs/{id}/retry, each request once: read, delete, then insert,
\* in transactions of their own.
RetryCheck(q, r) ==
  /\ request[q].pc = "idle"
  /\ runs[r].status # "NONE" /\ ~runs[r].deleted
  /\ request' = [request EXCEPT ![q] = [pc |-> "checked", run |-> r, job |-> runs[r].job]]
  /\ UNCHANGED <<qualified, runs, nextRun, reviews, task, cycle>>

RetryDelete(q) ==
  /\ request[q].pc = "checked"
  /\ runs' = IF runs[request[q].run].status = "NONE" THEN runs
             ELSE [runs EXCEPT ![request[q].run].deleted = TRUE]
  /\ Answer(q, "deleted")
  /\ UNCHANGED <<qualified, nextRun, reviews, task, cycle>>

RetryInsert(q) ==
  /\ request[q].pc = "deleted"
  /\ StartUserRun(request[q].job)
  /\ Answer(q, "accepted")
  /\ UNCHANGED <<qualified, reviews, cycle>>

\* In autonomous mode the new attempt is left to the worker.
RetryLeftToLoop(q) ==
  /\ request[q].pc = "deleted"
  /\ Answer(q, "accepted")
  /\ UNCHANGED <<qualified, runs, nextRun, reviews, task, cycle>>

\* 409 BUDGET_EXCEEDED, or RUN_ALREADY_EXISTS when the slot has been taken
\* since; the spent budget is not modelled, it may refuse any request.
RetryRefused(q) ==
  /\ request[q].pc = "deleted"
  /\ Answer(q, "refused")
  /\ UNCHANGED <<qualified, runs, nextRun, reviews, task, cycle>>

\* A human decision takes the job out of QUALIFIED (environment).
LeaveQualified(j) ==
  /\ j \in qualified
  /\ qualified' = qualified \ {j}
  /\ UNCHANGED <<runs, nextRun, reviews, task, cycle, request>>

-----------------------------------------------------------------------------
PipelineStep(r) ==
  \/ MarkTailorRunning(r)
  \/ InsertPipelineReviewRun(r)
  \/ RecordTailorSuccess(r)
  \/ RecordTailorFailure(r)

CycleStep(l) == SweepStaleRuns(l) \/ ClaimNextTailorJob(l)

UserStep ==
  \/ \E j \in JobIds : \/ EnqueueTailorRun(j) \/ InsertBaseRun(j)
                       \/ ResetTailorFailureState(j) \/ LeaveQualified(j)
  \/ \E r \in RunIds : SoftDeleteTailorRun(r)
  \/ \E q \in Requests : \/ \E r \in RunIds : RetryCheck(q, r)
                         \/ RetryDelete(q) \/ RetryInsert(q)
                         \/ RetryLeftToLoop(q) \/ RetryRefused(q)

Next ==
  \/ \E l \in Loops : CycleStep(l) \/ SkipClaim(l)
  \/ \E r \in RunIds : PipelineStep(r) \/ AbandonTask(r) \/ LeaseExpires(r)
  \/ UserStep

Spec == Init /\ [][Next]_vars

\* A loop goes on with its cycle, and leases run out.
FairSpec ==
  /\ Spec
  /\ \A l \in Loops : WF_vars(CycleStep(l)) /\ WF_vars(SkipClaim(l))
  /\ \A r \in RunIds : WF_vars(PipelineStep(r)) /\ WF_vars(LeaseExpires(r))

\* Nobody at the dashboard, autonomous mode, no budget limit: a loop skips its
\* claim only when there is nothing to claim.
UnattendedNext ==
  \/ \E l \in Loops : \/ CycleStep(l)
                      \/ (\A j \in JobIds : ~Eligible(j)) /\ SkipClaim(l)
  \/ \E r \in RunIds : PipelineStep(r) \/ AbandonTask(r) \/ LeaseExpires(r)

-----------------------------------------------------------------------------
(***************************************************************************)
(* What the tailor stage promises.                                         *)
(***************************************************************************)

\* A run whose claim still counts.
Fresh(r) == Active(runs[r]) /\ ~runs[r].deleted /\ ~runs[r].stale

\* Loops and dashboard together hold a leased slot per job: one fresh claim at
\* a time, taken only when there is none, and never regained (module LeaseSlot).
slotHolder ==
  [j \in JobIds |->
     IF \E r \in RunIds : runs[r].job = j /\ Fresh(r)
     THEN CHOOSE r \in RunIds : runs[r].job = j /\ Fresh(r) ELSE 0]
slotSpent == {r \in RunIds : r < nextRun /\ ~Fresh(r)}

Lease == INSTANCE LeaseSlot WITH Resources <- JobIds, Tickets <- RunIds, None <- 0,
                                 holder <- slotHolder, spent <- slotSpent
ImplementsLease == Lease!Spec

\* A tailor run counts as successful only once its review run is there for
\* the apply stage, in whichever transaction the pipeline is interrupted.
SuccessHasReview ==
  \A r \in RunIds : runs[r].status = "SUCCESS" => r \in reviews

\* Although no write checks a token, a pipeline that outlives its lease never
\* changes a result: not the sweep's FAILED, not a SUCCESS.
ResultIsFinal ==
  [][\A r \in RunIds :
       /\ runs[r].status = "SUCCESS" => runs'[r].status = "SUCCESS"
       /\ runs[r].status = "FAILED" => runs'[r].status \in {"FAILED", "NONE"}]_vars

\* Every active run is resolved: the loop sweeps in every cycle, whatever the
\* mode and whoever started the run.
RunResolves ==
  \A r \in RunIds : Active(runs[r]) ~> ~Active(runs[r])

\* Once nobody interferes any more, a qualified job ends tailored or out of
\* retries, or the ids of the model are spent.
JobSettles ==
  <>[][UnattendedNext]_vars =>
    \A j \in JobIds :
      <>[](\/ \E r \in VisibleRuns(j) : runs[r].status = "SUCCESS"
           \/ Cardinality(FailedRuns(j)) >= MaxRetries
           \/ j \notin qualified
           \/ nextRun > MaxRuns)

=============================================================================
