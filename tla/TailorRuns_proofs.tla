-------------------------- MODULE TailorRuns_proofs ---------------------------
(***************************************************************************)
(* Proofs about TailorRuns, for every number of jobs, runs, loops and      *)
(* retry requests, with or without crashes.                                *)
(*                                                                         *)
(* A step inserts one row, PENDING after a look at the job's other rows or *)
(* SUCCESS for a base resume, or moves rows in a way that makes no claim   *)
(* fresh again.  StepKinds states this once; one fresh claim per job and   *)
(* the refinement of LeaseSlot follow without the actions.                 *)
(***************************************************************************)
EXTENDS TailorRuns, TLAPS

-----------------------------------------------------------------------------
(* Type correctness. *)

LEMMA RowTypes ==
  ASSUME NEW run \in Run
  PROVE  /\ Swept(run) \in Run
         /\ [run EXCEPT !.stale = TRUE] \in Run
         /\ [run EXCEPT !.deleted = TRUE] \in Run
         /\ \A s \in {"RUNNING", "SUCCESS", "FAILED"} :
              /\ [run EXCEPT !.status = s] \in Run
              /\ [run EXCEPT !.status = s, !.stale = FALSE] \in Run
BY DEF Swept, Run

LEMMA JobIdsType == \A j \in JobIds : j \in 0 .. MaxJobs
BY ConstantsAssumption DEF JobIds

LEMMA NoRunType == NoRun \in Run
BY ConstantsAssumption DEF NoRun, Run

LEMMA InsertType ==
  ASSUME TypeOK, NEW j \in 0 .. MaxJobs, NEW status \in {"PENDING", "SUCCESS"},
         InsertRun(j, status)
  PROVE  /\ nextRun \in RunIds
         /\ [NoRun EXCEPT !.status = status, !.job = j] \in Run
         /\ runs' \in [RunIds -> Run]
         /\ nextRun' \in 1 .. (MaxRuns + 1)
<1> USE ConstantsAssumption
<1>1. [NoRun EXCEPT !.status = status, !.job = j] \in Run
  BY DEF NoRun, Run
<1>2. nextRun \in Nat /\ 1 <= nextRun /\ nextRun <= MaxRuns
  BY DEF TypeOK, InsertRun
<1>3. nextRun \in RunIds /\ nextRun' \in 1 .. (MaxRuns + 1)
  BY <1>2 DEF RunIds, InsertRun
<1>4. runs' \in [RunIds -> Run]
  BY <1>1 DEF TypeOK, InsertRun
<1>5. QED
  BY <1>1, <1>3, <1>4

LEMMA TaskType ==
  ASSUME TypeOK, NEW r \in RunIds
  PROVE  /\ [task EXCEPT ![r] = NoTask] \in [RunIds -> Task]
         /\ \A pc \in {"working", "published"} :
              [task EXCEPT ![r].pc = pc] \in [RunIds -> Task]
<1>1. task[r] \in Task /\ NoTask \in Task
  BY DEF TypeOK, NoTask, Task
<1>2. \A pc \in {"working", "published"} : [task[r] EXCEPT !.pc = pc] \in Task
  BY <1>1 DEF Task
<1>3. QED
  BY <1>1, <1>2 DEF TypeOK

LEMMA StartTaskType ==
  ASSUME TypeOK, NEW who \in Loops \cup {User}, StartTask(who)
  PROVE  task' \in [RunIds -> Task]
BY DEF TypeOK, StartTask, Task

LEMMA AnswerType ==
  ASSUME TypeOK, NEW q \in Requests, NEW pc \in {"deleted", "accepted", "refused"},
         Answer(q, pc)
  PROVE  request' \in [Requests -> Request]
<1>1. [request[q] EXCEPT !.pc = pc] \in Request
  BY DEF TypeOK, Request
<1>2. QED
  BY <1>1 DEF TypeOK, Answer

LEMMA StepTypeOK == TypeOK /\ [Next]_vars => TypeOK'
<1> USE ConstantsAssumption
<1> SUFFICES ASSUME TypeOK, [Next]_vars
             PROVE  TypeOK'
  OBVIOUS
<1>0. \A r \in RunIds : runs[r] \in Run
  BY DEF TypeOK
<1>1. ASSUME NEW l \in Loops, SweepStaleRuns(l) \/ ClaimNextTailorJob(l) \/ SkipClaim(l)
      PROVE  TypeOK'
  <2>1. CASE SweepStaleRuns(l)
    BY <1>0, <2>1, RowTypes DEF SweepStaleRuns, TypeOK
  <2>2. CASE ClaimNextTailorJob(l)
    <3>1. runs' \in [RunIds -> Run] /\ nextRun' \in 1 .. (MaxRuns + 1)
      <4>1. PICK j \in JobIds : InsertRun(j, "PENDING")
        BY <2>2 DEF ClaimNextTailorJob
      <4>2. QED
        BY <4>1, JobIdsType, InsertType
    <3>2. task' \in [RunIds -> Task]
      BY <2>2, StartTaskType DEF ClaimNextTailorJob
    <3>3. QED
      BY <2>2, <3>1, <3>2 DEF ClaimNextTailorJob, TypeOK
  <2>3. CASE SkipClaim(l)
    BY <2>3 DEF SkipClaim, TypeOK
  <2>4. QED
    BY <1>1, <2>1, <2>2, <2>3
<1>2. ASSUME NEW r \in RunIds, PipelineStep(r) \/ AbandonTask(r)
      PROVE  TypeOK'
  <2>1. task' \in [RunIds -> Task]
    BY <1>2, TaskType DEF PipelineStep, MarkTailorRunning, InsertPipelineReviewRun,
       RecordTailorSuccess, RecordTailorFailure, AbandonTask
  <2>2. runs' \in [RunIds -> Run]
    <3>1. \A s \in {"RUNNING", "SUCCESS", "FAILED"} :
            /\ [runs EXCEPT ![r].status = s] \in [RunIds -> Run]
            /\ [runs EXCEPT ![r] = [@ EXCEPT !.status = s, !.stale = FALSE]]
                 \in [RunIds -> Run]
      BY <1>0, RowTypes DEF TypeOK
    <3>2. QED
      BY <1>2, <3>1 DEF PipelineStep, MarkTailorRunning, InsertPipelineReviewRun,
         RecordTailorSuccess, RecordTailorFailure, AbandonTask, TypeOK
  <2>3. reviews' \subseteq RunIds /\ UNCHANGED <<qualified, nextRun, cycle, request>>
    BY <1>2 DEF PipelineStep, MarkTailorRunning, InsertPipelineReviewRun,
       RecordTailorSuccess, RecordTailorFailure, AbandonTask, TypeOK
  <2>4. QED
    BY <2>1, <2>2, <2>3 DEF TypeOK
<1>3. ASSUME NEW r \in RunIds, LeaseExpires(r) \/ SoftDeleteTailorRun(r)
      PROVE  TypeOK'
  <2>1. [runs[r] EXCEPT !.stale = TRUE] \in Run
        /\ [runs[r] EXCEPT !.deleted = TRUE] \in Run
    BY <1>0, RowTypes
  <2>2. runs' \in [RunIds -> Run]
    BY <1>3, <2>1 DEF LeaseExpires, SoftDeleteTailorRun, TypeOK
  <2>3. QED
    BY <1>3, <2>2 DEF LeaseExpires, SoftDeleteTailorRun, TypeOK
<1>4. ASSUME NEW j \in JobIds, EnqueueTailorRun(j) \/ InsertBaseRun(j)
      PROVE  TypeOK'
  <2>1. /\ runs' \in [RunIds -> Run]
        /\ nextRun' \in 1 .. (MaxRuns + 1)
        /\ nextRun \in RunIds
    <3>1. InsertRun(j, "PENDING") \/ InsertRun(j, "SUCCESS")
      BY <1>4 DEF EnqueueTailorRun, StartUserRun, InsertBaseRun
    <3>2. QED
      BY <3>1, JobIdsType, InsertType
  <2>2. CASE EnqueueTailorRun(j)
    BY <2>1, <2>2, StartTaskType DEF EnqueueTailorRun, StartUserRun, TypeOK
  <2>3. CASE InsertBaseRun(j)
    BY <2>1, <2>3 DEF InsertBaseRun, TypeOK
  <2>4. QED
    BY <1>4, <2>2, <2>3
<1>5. ASSUME NEW j \in JobIds, ResetTailorFailureState(j) \/ LeaveQualified(j)
      PROVE  TypeOK'
  BY <1>0, <1>5, NoRunType DEF ResetTailorFailureState, LeaveQualified, TypeOK
<1>6. ASSUME NEW q \in Requests, NEW r \in RunIds, RetryCheck(q, r)
      PROVE  TypeOK'
  <2>1. runs[r].job \in 0 .. MaxJobs /\ r \in 0 .. MaxRuns
    BY <1>0 DEF Run, RunIds
  <2>2. [pc |-> "checked", run |-> r, job |-> runs[r].job] \in Request
    BY <2>1 DEF Request
  <2>3. QED
    BY <1>6, <2>2 DEF RetryCheck, TypeOK
<1>7. ASSUME NEW q \in Requests, RetryDelete(q)
      PROVE  TypeOK'
  <2>1. request' \in [Requests -> Request]
    BY <1>7, AnswerType DEF RetryDelete
  <2>2. runs' \in [RunIds -> Run]
    BY <1>0, <1>7, RowTypes DEF RetryDelete, TypeOK
  <2>3. QED
    BY <1>7, <2>1, <2>2 DEF RetryDelete, TypeOK
<1>8. ASSUME NEW q \in Requests, RetryInsert(q)
      PROVE  TypeOK'
  <2>1. request' \in [Requests -> Request]
    BY <1>8, AnswerType DEF RetryInsert
  <2>2. request[q].job \in 0 .. MaxJobs
    BY DEF TypeOK, Request
  <2>3. runs' \in [RunIds -> Run] /\ nextRun' \in 1 .. (MaxRuns + 1)
    BY <1>8, <2>2, InsertType DEF RetryInsert, StartUserRun
  <2>4. task' \in [RunIds -> Task]
    BY <1>8, StartTaskType DEF RetryInsert, StartUserRun
  <2>5. QED
    BY <1>8, <2>1, <2>3, <2>4 DEF RetryInsert, TypeOK
<1>9. ASSUME NEW q \in Requests, RetryLeftToLoop(q) \/ RetryRefused(q)
      PROVE  TypeOK'
  <2>1. request' \in [Requests -> Request]
    BY <1>9, AnswerType DEF RetryLeftToLoop, RetryRefused
  <2>2. QED
    BY <1>9, <2>1 DEF RetryLeftToLoop, RetryRefused, TypeOK
<1>10. CASE UNCHANGED vars
  BY <1>10 DEF vars, TypeOK
<1>11. QED
  BY <1>1, <1>2, <1>3, <1>4, <1>5, <1>6, <1>7, <1>8, <1>9, <1>10
     DEF Next, CycleStep, UserStep

LEMMA InitTypeOK == Init => TypeOK
<1> USE ConstantsAssumption
<1>1. NoTask \in Task /\ IdleRequest \in Request
  BY DEF NoTask, Task, IdleRequest, Request
<1>2. QED
  BY <1>1, NoRunType DEF Init, TypeOK

\* Every variable keeps its type, for any number of jobs, runs, loops and
\* requests.
THEOREM TypeCorrect == Spec => []TypeOK
BY InitTypeOK, StepTypeOK, PTL DEF Spec

-----------------------------------------------------------------------------
(* The invariant. *)

\* Keys that have not been handed out are unused.
FreshRows == \A r \in RunIds : r >= nextRun => runs[r] = NoRun

RowsHaveJobs == \A r \in RunIds : runs[r].status # "NONE" => runs[r].job \in JobIds

RequestsHaveJobs ==
  \A q \in Requests : request[q].pc \in {"checked", "deleted"} => request[q].job \in JobIds

\* One claim per job counts, whoever holds it.
OneFreshRun ==
  \A r, s \in RunIds : Fresh(r) /\ Fresh(s) /\ runs[r].job = runs[s].job => r = s

PublishedHaveReviews == \A r \in RunIds : task[r].pc = "published" => r \in reviews

IInv ==
  /\ TypeOK
  /\ FreshRows
  /\ RowsHaveJobs
  /\ RequestsHaveJobs
  /\ OneFreshRun
  /\ PublishedHaveReviews
  /\ SuccessHasReview

\* A row that moves: unused keys stay unused, the job stays, results are final,
\* and a claim that no longer counts does not count again.
RowMoves(r) ==
  /\ runs[r].status = "NONE" => runs'[r] = runs[r]
  /\ runs'[r].status # "NONE" => runs'[r].job = runs[r].job
  /\ runs[r].status = "SUCCESS" => runs'[r].status = "SUCCESS"
  /\ runs[r].status = "FAILED" => runs'[r].status \in {"FAILED", "NONE"}
  /\ Fresh(r)' => Fresh(r)

RowsMove == nextRun' = nextRun /\ \A r \in RunIds : RowMoves(r)

\* A claim, taken when no other counts.
ClaimOf(j) ==
  /\ \A r \in RunIds : Fresh(r) => runs[r].job # j
  /\ InsertRun(j, "PENDING")

LEMMA SlotIsFreeForClaim ==
  ASSUME NEW j \in JobIds, SlotIsFree(j) \/ Eligible(j)
  PROVE  \A r \in RunIds : Fresh(r) => runs[r].job # j
BY DEF SlotIsFree, Eligible, VisibleRuns, Fresh, Active

LEMMA StepKinds ==
  ASSUME IInv, [Next]_vars
  PROVE  \/ \E j \in JobIds : ClaimOf(j)
         \/ \E j \in JobIds : InsertRun(j, "SUCCESS") /\ reviews' = reviews \cup {nextRun}
         \/ RowsMove
<1> USE DEF IInv
<1>0. \A r \in RunIds : runs[r] \in Run
  BY DEF TypeOK
<1>1. CASE UNCHANGED <<runs, nextRun>>
  BY <1>1 DEF RowsMove, RowMoves, Fresh
<1>2. ASSUME NEW r \in RunIds, nextRun' = nextRun, RowMoves(r),
             \A s \in RunIds \ {r} : runs'[s] = runs[s]
      PROVE  RowsMove
  BY <1>2 DEF RowsMove, RowMoves, Fresh
<1>3. ASSUME NEW l \in Loops, SweepStaleRuns(l)
      PROVE  RowsMove
  <2>1. \A r \in RunIds : runs'[r] = Swept(runs[r])
    BY <1>3 DEF SweepStaleRuns
  <2>2. \A r \in RunIds : RowMoves(r)
    BY <1>0, <2>1 DEF RowMoves, Fresh, Swept, Active, Run
  <2>3. QED
    BY <1>3, <2>2 DEF SweepStaleRuns, RowsMove
<1>4. ASSUME NEW l \in Loops, ClaimNextTailorJob(l)
      PROVE  \E j \in JobIds : ClaimOf(j)
  BY <1>4, SlotIsFreeForClaim DEF ClaimNextTailorJob, NextCandidate, ClaimOf
<1>5. ASSUME NEW r \in RunIds, PipelineStep(r), runs' # runs
      PROVE  RowsMove
  <2>1. nextRun' = nextRun /\ \A s \in RunIds \ {r} : runs'[s] = runs[s]
    BY <1>5 DEF PipelineStep, MarkTailorRunning, InsertPipelineReviewRun,
       RecordTailorSuccess, RecordTailorFailure, TypeOK
  <2>2. CASE MarkTailorRunning(r)
    <3>1. runs[r].status = "PENDING" /\ runs'[r] = [runs[r] EXCEPT !.status = "RUNNING"]
      BY <1>5, <2>2 DEF MarkTailorRunning, TypeOK
    <3>2. RowMoves(r)
      BY <1>0, <3>1 DEF RowMoves, Fresh, Active, Run
    <3>3. QED
      BY <1>2, <2>1, <3>2
  <2>3. ASSUME NEW f \in {"SUCCESS", "FAILED"}, Active(runs[r]),
               runs'[r] = [runs[r] EXCEPT !.status = f, !.stale = FALSE]
        PROVE  RowsMove
    <3>1. RowMoves(r)
      BY <1>0, <2>3 DEF RowMoves, Fresh, Active, Run
    <3>2. QED
      BY <1>2, <2>1, <3>1
  <2>4. CASE RecordTailorSuccess(r)
    <3>1. Active(runs[r]) /\ runs'[r] = [runs[r] EXCEPT !.status = "SUCCESS", !.stale = FALSE]
      BY <1>5, <2>4 DEF RecordTailorSuccess, TypeOK
    <3>2. QED
      BY <2>3, <3>1
  <2>5. CASE RecordTailorFailure(r)
    <3>1. Active(runs[r]) /\ runs'[r] = [runs[r] EXCEPT !.status = "FAILED", !.stale = FALSE]
      BY <1>5, <2>5 DEF RecordTailorFailure, TypeOK
    <3>2. QED
      BY <2>3, <3>1
  <2>6. QED
    BY <1>5, <2>2, <2>4, <2>5 DEF PipelineStep, InsertPipelineReviewRun
<1>6. ASSUME NEW r \in RunIds, LeaseExpires(r) \/ SoftDeleteTailorRun(r)
      PROVE  RowsMove
  <2>1. nextRun' = nextRun /\ \A s \in RunIds \ {r} : runs'[s] = runs[s]
    BY <1>6 DEF LeaseExpires, SoftDeleteTailorRun, TypeOK
  <2>2. /\ runs[r].status # "NONE"
        /\ runs'[r] = [runs[r] EXCEPT !.stale = TRUE]
             \/ runs'[r] = [runs[r] EXCEPT !.deleted = TRUE]
    BY <1>6 DEF LeaseExpires, SoftDeleteTailorRun, TypeOK, Active
  <2>3. RowMoves(r)
    BY <1>0, <2>2 DEF RowMoves, Fresh, Active, Run
  <2>4. QED
    BY <1>2, <2>1, <2>3
<1>7. ASSUME NEW j \in JobIds, EnqueueTailorRun(j)
      PROVE  ClaimOf(j)
  BY <1>7, SlotIsFreeForClaim DEF EnqueueTailorRun, StartUserRun, ClaimOf
<1>8. ASSUME NEW j \in JobIds, ResetTailorFailureState(j)
      PROVE  RowsMove
  <2>1. \A r \in RunIds : runs'[r] = IF runs[r].job = j /\ runs[r].status = "FAILED"
                                     THEN NoRun ELSE runs[r]
    BY <1>8 DEF ResetTailorFailureState
  <2>2. \A r \in RunIds : RowMoves(r)
    BY <2>1 DEF RowMoves, Fresh, Active, NoRun
  <2>3. QED
    BY <1>8, <2>2 DEF ResetTailorFailureState, RowsMove
<1>9. ASSUME NEW q \in Requests, RetryDelete(q), runs' # runs
      PROVE  RowsMove
  <2>1. request[q].run \in RunIds /\ runs[request[q].run].status # "NONE"
        /\ runs' = [runs EXCEPT ![request[q].run].deleted = TRUE]
    BY <1>9 DEF RetryDelete, TypeOK
  <2>2. PICK r \in RunIds : r = request[q].run
    BY <2>1
  <2>3. /\ runs[r].status # "NONE" /\ runs'[r] = [runs[r] EXCEPT !.deleted = TRUE]
        /\ \A s \in RunIds \ {r} : runs'[s] = runs[s]
    BY <2>1, <2>2 DEF TypeOK
  <2>4. RowMoves(r)
    BY <1>0, <2>3 DEF RowMoves, Fresh, Active, Run
  <2>5. QED
    BY <1>2, <1>9, <2>3, <2>4 DEF RetryDelete
<1>10. ASSUME NEW q \in Requests, RetryInsert(q)
       PROVE  \E j \in JobIds : ClaimOf(j)
  BY <1>10, SlotIsFreeForClaim DEF RetryInsert, StartUserRun, ClaimOf, RequestsHaveJobs
<1>11. QED
  BY <1>1, <1>3, <1>4, <1>5, <1>6, <1>7, <1>8, <1>9, <1>10
     DEF Next, CycleStep, SkipClaim, AbandonTask, PipelineStep, MarkTailorRunning,
         InsertPipelineReviewRun, RecordTailorSuccess, RecordTailorFailure, UserStep,
         InsertBaseRun, LeaveQualified, RetryCheck, RetryDelete, RetryLeftToLoop,
         RetryRefused, vars

-----------------------------------------------------------------------------
(* What an insertion does. *)

LEMMA InsertEffect ==
  ASSUME IInv, NEW j \in JobIds, NEW status \in {"PENDING", "SUCCESS"},
         InsertRun(j, status)
  PROVE  \E n \in RunIds :
           /\ n = nextRun /\ n \in Nat /\ nextRun' = n + 1
           /\ runs[n] = NoRun
           /\ \A r \in RunIds : r # n => runs'[r] = runs[r]
           /\ runs'[n].status = status /\ runs'[n].job = j
           /\ Fresh(n)' <=> status = "PENDING"
           /\ ~Fresh(n)
           /\ \A r \in RunIds : r # n => (Fresh(r)' <=> Fresh(r))
<1> USE ConstantsAssumption
<1>1. j \in 0 .. MaxJobs /\ TypeOK
  BY JobIdsType DEF IInv
<1>2. nextRun \in RunIds
  BY <1>1, InsertType
<1>3. PICK n \in RunIds : n = nextRun
  BY <1>2
<1>4. n \in Nat /\ nextRun' = n + 1
  BY <1>3 DEF RunIds, InsertRun
<1>5. runs' = [runs EXCEPT ![n] = [NoRun EXCEPT !.status = status, !.job = j]]
  BY <1>3 DEF InsertRun
<1>6. runs[n] = NoRun
  BY <1>3, <1>4 DEF IInv, FreshRows
<1>7. runs'[n] = [status |-> status, job |-> j, stale |-> FALSE, deleted |-> FALSE]
  BY <1>1, <1>5 DEF TypeOK, NoRun
<1>8. \A r \in RunIds : r # n => runs'[r] = runs[r]
  BY <1>1, <1>5 DEF TypeOK
<1>9. Fresh(n)' <=> status = "PENDING"
  BY <1>7 DEF Fresh, Active
<1>10. ~Fresh(n)
  BY <1>6 DEF Fresh, Active, NoRun
<1>11. \A r \in RunIds : r # n => (Fresh(r)' <=> Fresh(r))
  BY <1>8 DEF Fresh
<1>12. QED
  BY <1>3, <1>4, <1>6, <1>7, <1>8, <1>9, <1>10, <1>11

LEMMA StepIInv == IInv /\ [Next]_vars => IInv'
<1> USE ConstantsAssumption
<1> SUFFICES ASSUME IInv, [Next]_vars
             PROVE  IInv'
  OBVIOUS
<1>1. TypeOK'
  BY StepTypeOK DEF IInv
<1>2. FreshRows' /\ RowsHaveJobs' /\ OneFreshRun'
  <2>1. ASSUME NEW j \in JobIds, NEW status \in {"PENDING", "SUCCESS"},
               InsertRun(j, status),
               status = "PENDING" => \A r \in RunIds : Fresh(r) => runs[r].job # j
        PROVE  FreshRows' /\ RowsHaveJobs' /\ OneFreshRun'
    <3>1. PICK n \in RunIds :
            /\ n = nextRun /\ n \in Nat /\ nextRun' = n + 1
            /\ \A r \in RunIds : r # n => runs'[r] = runs[r]
            /\ runs'[n].status = status /\ runs'[n].job = j
            /\ Fresh(n)' <=> status = "PENDING"
            /\ \A r \in RunIds : r # n => (Fresh(r)' <=> Fresh(r))
      BY <2>1, InsertEffect
    <3>2. \A r \in RunIds : r \in Nat
      BY DEF RunIds
    <3>3. FreshRows'
      BY <3>1, <3>2 DEF IInv, FreshRows
    <3>4. RowsHaveJobs'
      BY <3>1 DEF IInv, RowsHaveJobs
    <3>5. OneFreshRun'
      BY <2>1, <3>1 DEF IInv, OneFreshRun
    <3>6. QED
      BY <3>3, <3>4, <3>5
  <2>2. ASSUME NEW j \in JobIds, InsertRun(j, "SUCCESS")
        PROVE  FreshRows' /\ RowsHaveJobs' /\ OneFreshRun'
    BY <2>1, <2>2
  <2>3. CASE RowsMove
    <3>1. FreshRows'
      BY <2>3 DEF IInv, FreshRows, RowsMove, RowMoves, NoRun
    <3>2. RowsHaveJobs'
      BY <2>3 DEF IInv, RowsHaveJobs, RowsMove, RowMoves
    <3>3. \A r \in RunIds : Fresh(r)' => runs'[r].job = runs[r].job
      BY <2>3 DEF RowsMove, RowMoves, Fresh, Active
    <3>4. OneFreshRun'
      BY <2>3, <3>3 DEF IInv, OneFreshRun, RowsMove, RowMoves
    <3>5. QED
      BY <3>1, <3>2, <3>4
  <2>4. QED
    BY <2>1, <2>2, <2>3, StepKinds DEF ClaimOf
<1>3. RequestsHaveJobs'
  <2>1. ASSUME NEW q \in Requests, NEW r \in RunIds, RetryCheck(q, r)
        PROVE  RequestsHaveJobs'
    BY <2>1 DEF IInv, RequestsHaveJobs, RowsHaveJobs, RetryCheck, TypeOK
  <2>2. ASSUME NEW q \in Requests, NEW pc \in {"deleted", "accepted", "refused"},
               Answer(q, pc), request[q].pc \in {"checked", "deleted"}
        PROVE  RequestsHaveJobs'
    BY <2>2 DEF IInv, RequestsHaveJobs, Answer, TypeOK, Request
  <2>3. CASE UNCHANGED request
    BY <2>3 DEF IInv, RequestsHaveJobs
  <2>4. QED
    BY <2>1, <2>2, <2>3
       DEF Next, CycleStep, SweepStaleRuns, ClaimNextTailorJob, SkipClaim, PipelineStep,
           MarkTailorRunning, InsertPipelineReviewRun, RecordTailorSuccess,
           RecordTailorFailure, AbandonTask, LeaseExpires, UserStep, EnqueueTailorRun,
           InsertBaseRun, SoftDeleteTailorRun, ResetTailorFailureState, LeaveQualified,
           RetryDelete, RetryInsert, RetryLeftToLoop, RetryRefused, vars
<1>4. reviews \subseteq reviews'
  BY DEF Next, CycleStep, SweepStaleRuns, ClaimNextTailorJob, SkipClaim, PipelineStep,
         MarkTailorRunning, InsertPipelineReviewRun, RecordTailorSuccess,
         RecordTailorFailure, AbandonTask, LeaseExpires, UserStep, EnqueueTailorRun,
         InsertBaseRun, SoftDeleteTailorRun, ResetTailorFailureState, LeaveQualified,
         RetryCheck, RetryDelete, RetryInsert, RetryLeftToLoop, RetryRefused, vars
<1>5. PublishedHaveReviews'
  <2>1. ASSUME NEW r \in RunIds, InsertPipelineReviewRun(r)
        PROVE  PublishedHaveReviews'
    BY <2>1 DEF IInv, TypeOK, PublishedHaveReviews, InsertPipelineReviewRun
  <2>2. ASSUME NEW r \in RunIds, task' = [task EXCEPT ![r] = NoTask]
                                 \/ task' = [task EXCEPT ![r].pc = "working"]
        PROVE  PublishedHaveReviews'
    BY <1>4, <2>2 DEF IInv, TypeOK, Task, PublishedHaveReviews, NoTask
  <2>3. ASSUME NEW who, StartTask(who)
        PROVE  PublishedHaveReviews'
    BY <1>4, <2>3 DEF IInv, TypeOK, PublishedHaveReviews, StartTask
  <2>4. CASE UNCHANGED task
    BY <1>4, <2>4 DEF IInv, PublishedHaveReviews
  <2>5. QED
    BY <2>1, <2>2, <2>3, <2>4
       DEF Next, CycleStep, SweepStaleRuns, ClaimNextTailorJob, SkipClaim, PipelineStep,
           MarkTailorRunning, RecordTailorSuccess, RecordTailorFailure, AbandonTask,
           LeaseExpires, UserStep, EnqueueTailorRun, StartUserRun, InsertBaseRun,
           SoftDeleteTailorRun, ResetTailorFailureState, LeaveQualified, RetryCheck,
           RetryDelete, RetryInsert, RetryLeftToLoop, RetryRefused, vars
<1>6. SuccessHasReview'
  <2>1. SUFFICES ASSUME NEW r \in RunIds, runs'[r].status = "SUCCESS",
                        runs[r].status # "SUCCESS"
                 PROVE  r \in reviews'
    BY <1>4 DEF IInv, SuccessHasReview
  <2>2. CASE RecordTailorSuccess(r)
    BY <1>4, <2>2 DEF RecordTailorSuccess, IInv, PublishedHaveReviews
  <2>3. ASSUME NEW j \in JobIds, InsertBaseRun(j)
        PROVE  r \in reviews'
    BY <2>1, <2>3, InsertEffect DEF InsertBaseRun
  <2>4. ASSUME NEW j \in JobIds, InsertRun(j, "PENDING")
        PROVE  FALSE
    BY <2>1, <2>4, InsertEffect
  <2>5. ASSUME NEW s \in RunIds \ {r}, NEW new, runs' = [runs EXCEPT ![s] = new]
        PROVE  FALSE
    BY <2>1, <2>5 DEF IInv, TypeOK
  <2>6. ASSUME NEW l \in Loops, SweepStaleRuns(l)
        PROVE  FALSE
    <3>1. runs'[r] = Swept(runs[r]) /\ runs[r] \in Run
      BY <2>6 DEF SweepStaleRuns, IInv, TypeOK
    <3>2. QED
      BY <2>1, <3>1 DEF Swept, Run
  <2>7. ASSUME NEW s \in RunIds, NEW f \in {"RUNNING", "FAILED"},
               \/ runs' = [runs EXCEPT ![s].status = f]
               \/ runs' = [runs EXCEPT ![s] = [@ EXCEPT !.status = f, !.stale = FALSE]]
               \/ runs' = [runs EXCEPT ![s].stale = TRUE]
               \/ runs' = [runs EXCEPT ![s].deleted = TRUE]
        PROVE  FALSE
    <3>0. runs \in [RunIds -> Run]
      BY DEF IInv, TypeOK
    <3>1. runs[s] \in Run /\ runs[r] \in Run
      BY DEF IInv, TypeOK
    <3>2. s # r => runs'[r] = runs[r]
      BY <2>7, <3>0
    <3>4. \/ runs'[s] = [runs[s] EXCEPT !.status = f]
          \/ runs'[s] = [runs[s] EXCEPT !.status = f, !.stale = FALSE]
          \/ runs'[s] = [runs[s] EXCEPT !.stale = TRUE]
          \/ runs'[s] = [runs[s] EXCEPT !.deleted = TRUE]
      BY <2>7, <3>0
    <3>5. runs'[s].status \in {f, runs[s].status}
      BY <3>1, <3>4 DEF Run
    <3>6. QED
      BY <2>1, <3>2, <3>5
  <2>8. ASSUME NEW q \in Requests, RetryDelete(q)
        PROVE  FALSE
    BY <2>1, <2>8 DEF RetryDelete, IInv, TypeOK, Run
  <2>9. ASSUME NEW j \in JobIds, ResetTailorFailureState(j)
        PROVE  FALSE
    BY <2>1, <2>9 DEF ResetTailorFailureState, NoRun
  <2>10. ASSUME NEW q \in Requests, RetryInsert(q)
         PROVE  FALSE
    BY <2>4, <2>10 DEF RetryInsert, StartUserRun, IInv, RequestsHaveJobs
  <2>11. runs' # runs
    BY <2>1
  <2>12. ASSUME NEW s \in RunIds, PipelineStep(s)
         PROVE  r \in reviews'
    BY <2>2, <2>5, <2>7, <2>11, <2>12 DEF PipelineStep, MarkTailorRunning,
       InsertPipelineReviewRun, RecordTailorSuccess, RecordTailorFailure
  <2>13. QED
    BY <2>3, <2>4, <2>6, <2>7, <2>8, <2>9, <2>10, <2>11, <2>12
       DEF Next, CycleStep, ClaimNextTailorJob, SkipClaim, AbandonTask, LeaseExpires,
           UserStep, EnqueueTailorRun, StartUserRun, SoftDeleteTailorRun,
           LeaveQualified, RetryCheck, RetryLeftToLoop, RetryRefused, vars
<1>7. QED
  BY <1>1, <1>2, <1>3, <1>5, <1>6 DEF IInv

LEMMA InitIInv == Init => IInv
<1> SUFFICES ASSUME Init
             PROVE  IInv
  OBVIOUS
<1>1. TypeOK
  BY InitTypeOK
<1>2. QED
  BY <1>1 DEF Init, IInv, FreshRows, RowsHaveJobs, RequestsHaveJobs, OneFreshRun,
              PublishedHaveReviews, SuccessHasReview, Fresh, Active, NoRun, NoTask,
              IdleRequest

\* The inductive invariant: types, unused keys are unused, rows and requests
\* name jobs, one claim per job counts, and what is published has a review run.
THEOREM Invariance == Spec => []IInv
BY InitIInv, StepIInv, PTL DEF Spec

\* A tailor run counts as successful only once its review run is there.
THEOREM SuccessIsReviewed == Spec => []SuccessHasReview
<1>1. IInv => SuccessHasReview
  BY DEF IInv
<1>2. QED
  BY <1>1, Invariance, PTL

\* A pipeline that outlives its lease never changes a result, although no
\* write checks a token.
THEOREM ResultsAreFinal == Spec => ResultIsFinal
<1> DEFINE Final == \A r \in RunIds :
              /\ runs[r].status = "SUCCESS" => runs'[r].status = "SUCCESS"
              /\ runs[r].status = "FAILED" => runs'[r].status \in {"FAILED", "NONE"}
<1>1. IInv /\ [Next]_vars => Final
  <2> SUFFICES ASSUME IInv, [Next]_vars
               PROVE  Final
    OBVIOUS
  <2>1. ASSUME NEW j \in JobIds, NEW status \in {"PENDING", "SUCCESS"},
               InsertRun(j, status)
        PROVE  Final
    BY <2>1, InsertEffect DEF NoRun
  <2>2. CASE RowsMove
    BY <2>2 DEF RowsMove, RowMoves
  <2>3. QED
    BY <2>1, <2>2, StepKinds DEF ClaimOf
<1>2. QED
  BY <1>1, Invariance, PTL DEF Spec, ResultIsFinal

-----------------------------------------------------------------------------
(* Refinement of LeaseSlot. *)

\* The holder of a job is its one run whose claim counts.
LEMMA HolderIs ==
  ASSUME TypeOK, OneFreshRun, NEW j \in JobIds
  PROVE  /\ \A r \in RunIds : runs[r].job = j /\ Fresh(r) => slotHolder[j] = r
         /\ (\A r \in RunIds : ~(runs[r].job = j /\ Fresh(r))) => slotHolder[j] = 0
         /\ slotHolder[j] # 0 => /\ slotHolder[j] \in RunIds
                                 /\ runs[slotHolder[j]].job = j
                                 /\ Fresh(slotHolder[j])
<1>1. slotHolder[j] = IF \E r \in RunIds : runs[r].job = j /\ Fresh(r)
                      THEN CHOOSE r \in RunIds : runs[r].job = j /\ Fresh(r) ELSE 0
  BY DEF slotHolder
<1>2. 0 \notin RunIds
  BY DEF RunIds
<1>3. QED
  BY <1>1, <1>2 DEF OneFreshRun

LEMMA RefineInit == Init => Lease!Init
<1> SUFFICES ASSUME Init
             PROVE  Lease!Init
  OBVIOUS
<1>1. \A r \in RunIds : ~Fresh(r)
  BY DEF Init, Fresh, Active, NoRun
<1>2. slotHolder = [j \in JobIds |-> 0]
  BY <1>1 DEF slotHolder
<1>3. slotSpent = {}
  <2>1. \A r \in RunIds : ~(r < 1)
    BY DEF RunIds
  <2>2. QED
    BY <2>1 DEF slotSpent, Init
<1>4. QED
  BY <1>2, <1>3 DEF Lease!Init

\* The same of the next state.
LEMMA NextHolderIs ==
  ASSUME OneFreshRun', NEW j \in JobIds
  PROVE  /\ \A r \in RunIds : runs'[r].job = j /\ Fresh(r)' => slotHolder'[j] = r
         /\ (\A r \in RunIds : ~(runs'[r].job = j /\ Fresh(r)')) => slotHolder'[j] = 0
         /\ slotHolder'[j] # 0 => /\ slotHolder'[j] \in RunIds
                                 /\ \E r \in RunIds : /\ r = slotHolder'[j]
                                                       /\ runs'[r].job = j
                                                       /\ Fresh(r)'
<1>1. slotHolder'[j] = IF \E r \in RunIds : runs'[r].job = j /\ Fresh(r)'
                       THEN CHOOSE r \in RunIds : runs'[r].job = j /\ Fresh(r)' ELSE 0
  BY DEF slotHolder
<1>2. CASE \A r \in RunIds : ~(runs'[r].job = j /\ Fresh(r)')
  BY <1>1, <1>2
<1>3. ASSUME NEW r \in RunIds, runs'[r].job = j /\ Fresh(r)'
      PROVE  slotHolder'[j] = r
  <2>1. \A x \in RunIds : runs'[x].job = j /\ Fresh(x)' => x = r
    BY <1>3 DEF OneFreshRun
  <2>2. QED
    BY <1>1, <1>3, <2>1
<1>4. QED
  BY <1>2, <1>3

LEMMA SlotShapes ==
  /\ slotHolder = [j \in JobIds |-> slotHolder[j]]
  /\ slotHolder' = [j \in JobIds |-> slotHolder'[j]]
BY DEF slotHolder

LEMMA HolderKept ==
  ASSUME IInv, IInv', NEW y \in JobIds,
         \A r \in RunIds : runs'[r].job = y /\ Fresh(r)' <=> runs[r].job = y /\ Fresh(r)
  PROVE  slotHolder'[y] = slotHolder[y]
<1>1. CASE \E r \in RunIds : runs[r].job = y /\ Fresh(r)
  BY <1>1, HolderIs, NextHolderIs DEF IInv
<1>2. CASE ~\E r \in RunIds : runs[r].job = y /\ Fresh(r)
  BY <1>2, HolderIs, NextHolderIs DEF IInv
<1>3. QED
  BY <1>1, <1>2

LEMMA InsertRefines ==
  ASSUME IInv, IInv', NEW j \in JobIds, NEW status \in {"PENDING", "SUCCESS"},
         InsertRun(j, status),
         status = "PENDING" => \A r \in RunIds : Fresh(r) => runs[r].job # j
  PROVE  \E n \in RunIds : IF status = "PENDING" THEN Lease!Take(j, n) ELSE Lease!Void(n)
<1>1. PICK n \in RunIds :
        /\ n = nextRun /\ n \in Nat /\ nextRun' = n + 1
        /\ \A r \in RunIds : r # n => runs'[r] = runs[r]
        /\ runs'[n].status = status /\ runs'[n].job = j
        /\ Fresh(n)' <=> status = "PENDING"
        /\ ~Fresh(n)
        /\ \A r \in RunIds : r # n => (Fresh(r)' <=> Fresh(r))
  BY InsertEffect
<1>2. n # 0
  BY DEF RunIds
<1>3. \A y \in JobIds : slotHolder[y] # n
  BY <1>1, <1>2, HolderIs DEF IInv
<1>4. \A r \in RunIds : r < nextRun' <=> (r < nextRun \/ r = n)
  BY <1>1 DEF RunIds
<1>5. CASE status = "PENDING"
  <2>1. slotHolder[j] = 0
    BY <1>5, HolderIs DEF IInv
  <2>2. n \notin slotSpent
    BY <1>1 DEF slotSpent
  <2>3. slotHolder'[j] = n
    BY <1>1, <1>5, NextHolderIs DEF IInv
  <2>4. ASSUME NEW y \in JobIds, y # j
        PROVE  slotHolder'[y] = slotHolder[y]
    <3>1. \A r \in RunIds : runs'[r].job = y /\ Fresh(r)' <=> runs[r].job = y /\ Fresh(r)
      BY <1>1, <2>4
    <3>2. QED
      BY <3>1, HolderKept
  <2>5. slotHolder' = [slotHolder EXCEPT ![j] = n]
    BY <2>3, <2>4, SlotShapes
  <2>6. slotSpent' = slotSpent
    <3>1. \A r \in RunIds : (r < nextRun' /\ ~Fresh(r)') <=> (r < nextRun /\ ~Fresh(r))
      <4>1. n < nextRun' /\ ~(n < nextRun) /\ Fresh(n)'
        BY <1>1, <1>4, <1>5
      <4>2. \A r \in RunIds : r # n => (r < nextRun' <=> r < nextRun)
        BY <1>4
      <4>3. QED
        BY <1>1, <4>1, <4>2 DEF Fresh
    <3>2. QED
      BY <3>1 DEF slotSpent
  <2>7. Lease!Take(j, n)
    BY <1>3, <2>1, <2>2, <2>5, <2>6 DEF Lease!Take
  <2>8. QED
    BY <1>5, <2>7
<1>6. CASE status # "PENDING"
  <2>1. ASSUME NEW y \in JobIds
        PROVE  slotHolder'[y] = slotHolder[y]
    <3>1. \A r \in RunIds : runs'[r].job = y /\ Fresh(r)' <=> runs[r].job = y /\ Fresh(r)
      BY <1>1, <1>6
    <3>2. QED
      BY <3>1, HolderKept
  <2>2. slotHolder' = slotHolder
    BY <2>1, SlotShapes
  <2>3. slotSpent' = slotSpent \cup {n}
    <3>1. \A r \in RunIds : (r < nextRun' /\ ~Fresh(r)')
                             <=> (r < nextRun /\ ~Fresh(r)) \/ r = n
      BY <1>1, <1>4, <1>6
    <3>2. QED
      BY <3>1 DEF slotSpent
  <2>4. Lease!Void(n)
    BY <1>3, <2>2, <2>3 DEF Lease!Void
  <2>5. QED
    BY <1>6, <2>4
<1>7. QED
  BY <1>5, <1>6

LEMMA RowsMoveLose ==
  ASSUME IInv, IInv', RowsMove
  PROVE  \E S \in SUBSET JobIds : Lease!Lose(S)
<1> DEFINE S == {x \in JobIds : slotHolder[x] # 0 /\ slotHolder'[x] = 0}
<1>0. \A r \in RunIds : /\ Fresh(r)' => (Fresh(r) /\ runs'[r].job = runs[r].job)
                        /\ Fresh(r) => (runs[r].job \in JobIds)
  BY DEF RowsMove, RowMoves, Fresh, Active, IInv, RowsHaveJobs
<1>1. ASSUME NEW x \in JobIds, slotHolder'[x] # 0
      PROVE  slotHolder'[x] = slotHolder[x]
  <2>1. PICK r \in RunIds : r = slotHolder'[x] /\ runs'[r].job = x /\ Fresh(r)'
    BY <1>1, NextHolderIs DEF IInv
  <2>2. runs[r].job = x /\ Fresh(r)
    BY <1>0, <2>1 DEF Fresh
  <2>3. QED
    BY <2>1, <2>2, HolderIs DEF IInv
<1>2. slotHolder' = [x \in JobIds |-> IF x \in S THEN 0 ELSE slotHolder[x]]
  BY <1>1, SlotShapes
<1>3. ASSUME NEW r \in RunIds, r < nextRun
      PROVE  (~Fresh(r)') <=> (~Fresh(r) \/ \E x \in S : slotHolder[x] = r)
  <2>1. ASSUME Fresh(r), ~Fresh(r)'
        PROVE  \E x \in S : slotHolder[x] = r
    <3> DEFINE x == runs[r].job
    <3>1. x \in JobIds /\ slotHolder[x] = r
      BY <1>0, <2>1, HolderIs DEF IInv, Fresh
    <3>2. slotHolder'[x] = 0
      BY <1>1, <2>1, <3>1, NextHolderIs DEF IInv
    <3>3. r # 0
      BY DEF RunIds
    <3>4. QED
      BY <3>1, <3>2, <3>3
  <2>2. ASSUME NEW x \in S, slotHolder[x] = r
        PROVE  ~Fresh(r)'
    <3>1. runs[r].job = x /\ Fresh(r)
      BY <2>2, HolderIs DEF IInv
    <3>2. r # 0 /\ slotHolder'[x] = 0
      BY <2>2 DEF RunIds
    <3>3. QED
      BY <1>0, <2>2, <3>1, <3>2, NextHolderIs DEF IInv, Fresh
  <2>3. QED
    BY <1>0, <2>1, <2>2 DEF Fresh
<1>4. \A x \in S : slotHolder[x] \in RunIds /\ slotHolder[x] < nextRun
  <2> SUFFICES ASSUME NEW x \in S
               PROVE  slotHolder[x] \in RunIds /\ slotHolder[x] < nextRun
    OBVIOUS
  <2>1. slotHolder[x] \in RunIds /\ Fresh(slotHolder[x])
    BY HolderIs DEF IInv
  <2>2. runs[slotHolder[x]] # NoRun
    BY <2>1 DEF Fresh, Active, NoRun
  <2>3. nextRun \in Nat /\ slotHolder[x] \in Nat
    BY <2>1 DEF IInv, TypeOK, RunIds
  <2>4. QED
    BY <2>1, <2>2, <2>3 DEF IInv, FreshRows
<1>5. slotSpent' = slotSpent \cup {slotHolder[x] : x \in S}
  <2>1. nextRun' = nextRun
    BY DEF RowsMove
  <2>2. QED
    BY <1>3, <1>4, <2>1 DEF slotSpent
<1>6. \A x \in S : slotHolder[x] # 0
  OBVIOUS
<1> HIDE DEF S
<1>7. Lease!Lose(S)
  BY <1>2, <1>5, <1>6 DEF Lease!Lose
<1>8. S \in SUBSET JobIds
  BY DEF S
<1>9. QED
  BY <1>7, <1>8

\* TailorRuns implements LeaseSlot: loops and dashboard together hold a leased
\* slot per job, taken only when it is free and never regained.
THEOREM Refinement == Spec => ImplementsLease
<1>1. IInv /\ IInv' /\ [Next]_vars => [Lease!Next]_Lease!leaseVars
  <2> SUFFICES ASSUME IInv, IInv', [Next]_vars
               PROVE  Lease!Next
    OBVIOUS
  <2>1. ASSUME NEW j \in JobIds, ClaimOf(j)
        PROVE  Lease!Next
    <3>1. \E n \in RunIds : Lease!Take(j, n)
      BY <2>1, InsertRefines DEF ClaimOf
    <3>2. QED
      BY <3>1 DEF Lease!Next
  <2>2. ASSUME NEW j \in JobIds, InsertRun(j, "SUCCESS")
        PROVE  Lease!Next
    <3>1. \E n \in RunIds : Lease!Void(n)
      BY <2>2, InsertRefines
    <3>2. QED
      BY <3>1 DEF Lease!Next
  <2>3. CASE RowsMove
    BY <2>3, RowsMoveLose DEF Lease!Next
  <2>4. QED
    BY <2>1, <2>2, <2>3, StepKinds
<1>2. QED
  BY <1>1, RefineInit, Invariance, PTL DEF Spec, ImplementsLease, Lease!Spec

=============================================================================
