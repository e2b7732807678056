------------------------------ MODULE GateQueue ------------------------------
(***************************************************************************)
(* The gate: the agent_ columns of job_postings, and the workers that      *)
(* claim a batch of NEW jobs under one lease, ask the model about them one *)
(* by one, and write each decision, retry or terminal failure back.        *)
(*                                                                         *)
(* One action per transaction or read: between two of a worker's, others   *)
(* step.  Nothing a worker writes back depends on the claim token: every   *)
(* UPDATE names only the job.                                              *)
(***************************************************************************)
EXTENDS Naturals, FiniteSets, SequencesExt, Selection

CONSTANTS
  Jobs,         \* job hashes
  Workers,      \* gate workers: the supervisor's loop, the script
  Nobody,       \* no claim token
  BatchLimit,   \* DEFAULT_AGENT_BATCH_LIMIT
  MaxRetries,   \* DEFAULT_AGENT_MAX_RETRIES
  Budget,       \* the monthly budget, in decisions
  MaxLosses,    \* bound on batches abandoned and leases outlived
  MaxTouches    \* bound on resets, verdicts and purges by others

ASSUME ConstantsAssumption ==
  /\ IsFiniteSet(Workers) /\ Nobody \notin Workers
  /\ BatchLimit \in Nat \ {0}
  /\ MaxRetries \in Nat \ {0}
  /\ Budget \in Nat
  /\ MaxLosses \in Nat
  /\ MaxTouches \in Nat

Decisions == {"QUALIFIED", "FILTERED"}
Verdicts == {"APPLIED", "REJECTED"}

VARIABLES
  row,      \* of each job: its row of job_postings
  line,     \* jobs in the order of next_retry_at or else fetched_at
  at,       \* of each worker: what it does next
  batch,    \* of each worker: the claimed jobs it has still to decide
  mode,     \* automation.gate_mode permits model calls
  spent,    \* decisions charged this month
  crossed,  \* history: jobs whose row others wrote while a worker had them
  losses,   \* batches abandoned and leases outlived so far
  touches   \* resets, verdicts and purges so far

vars == <<row, line, at, batch, mode, spent, crossed, losses, touches>>

Row == [status : {"ABSENT", "NEW"} \cup Decisions \cup Verdicts,
        processed : BOOLEAN,                 \* agent_processed_at IS NOT NULL
        failed : BOOLEAN,                    \* agent_failed_at IS NOT NULL
        retries : 0 .. MaxRetries,           \* agent_retry_count
        retryAt : {"none", "later", "due"},  \* agent_next_retry_at
        holder : Workers \cup {Nobody},      \* agent_claim_token
        lapsed : BOOLEAN]                    \* agent_claimed_at <= now - lease

Fresh == [status |-> "NEW", processed |-> FALSE, failed |-> FALSE,
          retries |-> 0, retryAt |-> "none", holder |-> Nobody, lapsed |-> FALSE]
NoRow == [Fresh EXCEPT !.status = "ABSENT"]

\* Read the mode, check the budget, claim a batch, decide its jobs, and pay for
\* each decision.
Places == {"poll", "check", "claim", "decide", "charge"}

\* A claimed row as the worker read it.
Item == [job : Jobs, retries : 0 .. MaxRetries]

TypeOK ==
  /\ row \in [Jobs -> Row]
  /\ line \in Seq(Jobs) /\ IsInjective(line)
  /\ at \in [Workers -> Places]
  /\ batch \in [Workers -> Seq(Item)]
  /\ mode \in BOOLEAN
  /\ spent \in Nat
  /\ crossed \subseteq Jobs
  /\ losses \in 0 .. MaxLosses
  /\ touches \in 0 .. MaxTouches

Init ==
  /\ row = [j \in Jobs |-> NoRow]
  /\ line = <<>>
  /\ at = [w \in Workers |-> "poll"]
  /\ batch = [w \in Workers |-> <<>>]
  /\ mode = TRUE
  /\ spent = 0
  /\ crossed = {}
  /\ losses = 0
  /\ touches = 0

-----------------------------------------------------------------------------
(* Queries. *)

\* The jobs of S, as they stand in line.
LineOf(S) == Kept(line, {i \in DOMAIN line : line[i] \in S})
LineWithout(j) == LineOf(Jobs \ {j})

Unclaimed(r) == [r EXCEPT !.holder = Nobody, !.lapsed = FALSE]

InBatch(j, w) == \E i \in DOMAIN batch[w] : batch[w][i].job = j
Held(j) == \E w \in Workers : InBatch(j, w)

\* Mutant of Pending: a processed job is claimed again.
PendingThoughProcessed(r) ==
  /\ r.status # "ABSENT" /\ ~r.failed /\ r.retryAt # "later"
  /\ r.holder = Nobody \/ r.lapsed

\* Mutant of Pending: a claim does not keep others away.
PendingThoughClaimed(r) ==
  /\ r.status = "NEW" /\ ~r.processed /\ ~r.failed /\ r.retryAt # "later"

\* Mutant of Pending: a lapsed lease is never taken over.
PendingUnlessClaimed(r) ==
  /\ r.status = "NEW" /\ ~r.processed /\ ~r.failed /\ r.retryAt # "later"
  /\ r.holder = Nobody

\* WHERE clause of get_jobs_pending_agent_processing.
Pending(r) ==
  /\ r.status = "NEW" /\ ~r.processed /\ ~r.failed /\ r.retryAt # "later"
  /\ r.holder = Nobody \/ r.lapsed

\* ORDER BY next_retry_at or fetched_at, LIMIT; RETURNING sorted again.
NextBatch(ready) ==
  SubSeq(ready, 1, IF Len(ready) < BatchLimit THEN Len(ready) ELSE BatchLimit)

\* Mutant of BudgetLeft: the budget is not looked at.
BudgetUnchecked == spent >= 0

\* check_budget_before_claim: remaining_usd > 0.
BudgetLeft == spent < Budget

\* retry_count of a failed attempt: counted from the claimed row.
RetryOf(item) == item.retries + 1

-----------------------------------------------------------------------------
(* Discovery. *)

\* The gate has no more to do with the posting.
Settled(r) == r.status \notin {"ABSENT", "NEW"} \/ r.processed \/ r.failed

\* insert_job: the hash is new; a duplicate changes nothing.  Postings arrive
\* for ever, so a settled one that no worker has lends its name to a new one.
InsertJob(j) ==
  /\ row[j].status = "ABSENT" \/ Settled(row[j])
  /\ ~Held(j)
  /\ row' = [row EXCEPT ![j] = Fresh]
  /\ line' = Append(LineWithout(j), j)
  /\ crossed' = crossed \ {j}
  /\ UNCHANGED <<at, batch, mode, spent, losses, touches>>

\* The same hash is discovered again after its row was purged.
InsertPurgedJob(j) ==
  /\ row[j].status = "ABSENT"
  /\ Held(j)
  /\ row' = [row EXCEPT ![j] = Fresh]
  /\ line' = Append(line, j)
  /\ UNCHANGED <<at, batch, mode, spent, crossed, losses, touches>>

\* cleanup_old_records: NEW rows older than 90 days go, claimed or not.
PurgeJob(j) ==
  /\ touches < MaxTouches
  /\ row[j].status = "NEW"
  /\ row' = [row EXCEPT ![j] = NoRow]
  /\ line' = LineWithout(j)
  /\ crossed' = IF Held(j) THEN crossed \cup {j} ELSE crossed
  /\ touches' = touches + 1
  /\ UNCHANGED <<at, batch, mode, spent, losses>>

-----------------------------------------------------------------------------
(* The worker. *)

Goto(w, place) == at' = [at EXCEPT ![w] = place]

\* run_gate_loop: the mode is read in each cycle, and only then.
ReadMode(w) ==
  /\ at[w] = "poll"
  /\ mode
  /\ Goto(w, "check")
  /\ UNCHANGED <<row, line, batch, mode, spent, crossed, losses, touches>>

\* check_budget_before_claim reads the charges there are by now.
CheckBudget(w) ==
  /\ at[w] = "check"
  /\ Goto(w, IF BudgetLeft THEN "claim" ELSE "poll")
  /\ UNCHANGED <<row, line, batch, mode, spent, crossed, losses, touches>>

\* get_jobs_pending_agent_processing: one BEGIN IMMEDIATE, whatever mode and
\* budget are by now.
ClaimBatch(w) ==
  LET ready == LineOf({j \in Jobs : Pending(row[j])})
      taken == NextBatch(ready)
  IN /\ at[w] = "claim"
     /\ Goto(w, IF taken = <<>> THEN "poll" ELSE "decide")
     /\ row' = [j \in Jobs |-> IF j \in ToSet(taken)
                               THEN [row[j] EXCEPT !.holder = w, !.lapsed = FALSE]
                               ELSE row[j]]
     /\ batch' = [batch EXCEPT ![w] = [i \in DOMAIN taken |->
                    [job |-> taken[i], retries |-> row[taken[i]].retries]]]
     /\ UNCHANGED <<line, mode, spent, crossed, losses, touches>>

\* The job the worker asks the model about.
Current(w, item) == at[w] = "decide" /\ batch[w] # <<>> /\ item = Head(batch[w])

\* On to the next job of the batch that is left, or to the next cycle.
After(left) == IF left = <<>> THEN "poll" ELSE "decide"

\* UPDATE ... WHERE job_hash = ?: the claim is cleared, nobody's or another's.
WriteBack(w, item, r) ==
  /\ row' = IF row[item.job].status = "ABSENT" THEN row
            ELSE [row EXCEPT ![item.job] = Unclaimed(r)]
  /\ batch' = [batch EXCEPT ![w] = Tail(@)]
  /\ crossed' = IF row[item.job].holder # w THEN crossed \cup {item.job} ELSE crossed

\* record_agent_decision: committed before the decision is charged.
RecordDecision(w, item, decision) ==
  /\ Current(w, item)
  /\ WriteBack(w, item, [row[item.job] EXCEPT !.status = decision,
       !.processed = TRUE, !.failed = FALSE, !.retries = 0, !.retryAt = "none"])
  /\ line' = LineWithout(item.job)
  /\ Goto(w, "charge")
  /\ UNCHANGED <<mode, spent, losses, touches>>

\* record_llm_call_cost: a transaction of its own.
Charge(w) ==
  /\ at[w] = "charge"
  /\ spent' = spent + 1
  /\ Goto(w, After(batch[w]))
  /\ UNCHANGED <<row, line, batch, mode, crossed, losses, touches>>

\* record_agent_retry: the model call failed and attempts are left.
RecordRetry(w, item) ==
  /\ Current(w, item)
  /\ RetryOf(item) < MaxRetries
  /\ WriteBack(w, item, [row[item.job] EXCEPT !.retries = RetryOf(item),
                                              !.retryAt = "later"])
  /\ line' = LineWithout(item.job)
  /\ Goto(w, After(Tail(batch[w])))
  /\ UNCHANGED <<mode, spent, losses, touches>>

\* mark_job_agent_terminal_failed: the model call failed for the last time.
RecordTerminalFailure(w, item) ==
  /\ Current(w, item)
  /\ RetryOf(item) >= MaxRetries
  /\ WriteBack(w, item, [row[item.job] EXCEPT !.retries = RetryOf(item),
                                              !.retryAt = "none", !.failed = TRUE])
  /\ line' = LineWithout(item.job)
  /\ Goto(w, After(Tail(batch[w])))
  /\ UNCHANGED <<mode, spent, losses, touches>>

\* A failed write, a cancelled task or a dead process: the rest of the batch
\* stays claimed until its lease ends, and what was decided is not charged.
AbandonBatch(w) ==
  /\ losses < MaxLosses
  /\ at[w] # "poll"
  /\ Goto(w, "poll")
  /\ batch' = [batch EXCEPT ![w] = <<>>]
  /\ losses' = losses + 1
  /\ UNCHANGED <<row, line, mode, spent, crossed, touches>>

-----------------------------------------------------------------------------
(* Time. *)

\* The backoff of a failed attempt is over.
RetryDue(j) ==
  /\ row[j].retryAt = "later"
  /\ row' = [row EXCEPT ![j].retryAt = "due"]
  /\ line' = Append(line, j)
  /\ UNCHANGED <<at, batch, mode, spent, crossed, losses, touches>>

Lapse(j) == row' = [row EXCEPT ![j].lapsed = TRUE]

\* The lease of an abandoned job ends.
LeaseEnds(j) ==
  /\ row[j].holder # Nobody /\ ~row[j].lapsed
  /\ ~InBatch(j, row[j].holder)
  /\ Lapse(j)
  /\ UNCHANGED <<line, at, batch, mode, spent, crossed, losses, touches>>

\* The lease ends while the job still waits in a long batch.
LeaseOutlived(j) ==
  /\ losses < MaxLosses
  /\ row[j].holder # Nobody /\ ~row[j].lapsed
  /\ InBatch(j, row[j].holder)
  /\ Lapse(j)
  /\ losses' = losses + 1
  /\ crossed' = crossed \cup {j}
  /\ UNCHANGED <<line, at, batch, mode, spent, touches>>

\* The rollup of get_budget_settings starts a new month.
NewMonth ==
  /\ spent # 0
  /\ spent' = 0
  /\ UNCHANGED <<row, line, at, batch, mode, crossed, losses, touches>>

-----------------------------------------------------------------------------
(* The operator and the later stages. *)

SwitchOff ==
  /\ touches < MaxTouches
  /\ mode
  /\ mode' = FALSE
  /\ touches' = touches + 1
  /\ UNCHANGED <<row, line, at, batch, spent, crossed, losses>>

SwitchOn ==
  /\ ~mode
  /\ mode' = TRUE
  /\ UNCHANGED <<row, line, at, batch, spent, crossed, losses, touches>>

\* reset_agent_failure_state of POST /api/failures/GATE:<hash>/retry: any row
\* becomes NEW, its place in line is that of fetched_at, and
\* agent_processed_at is not cleared.
ResetAgentFailureState(j) ==
  /\ touches < MaxTouches
  /\ row[j].status # "ABSENT"
  /\ row' = [row EXCEPT ![j] = [Fresh EXCEPT !.processed = row[j].processed]]
  /\ \E i \in 1 .. (Len(LineWithout(j)) + 1) :
        line' = InsertAt(LineWithout(j), i, j)
  /\ crossed' = IF Held(j) THEN crossed \cup {j} ELSE crossed
  /\ touches' = touches + 1
  /\ UNCHANGED <<at, batch, mode, spent, losses>>

\* transition_handoff_status: the verdict on an application, also on one the
\* user made of a job the gate has not decided.
HumanVerdict(j, verdict) ==
  /\ touches < MaxTouches
  /\ row[j].status # "ABSENT"
  /\ row' = [row EXCEPT ![j].status = verdict]
  /\ crossed' = IF Held(j) THEN crossed \cup {j} ELSE crossed
  /\ touches' = touches + 1
  /\ UNCHANGED <<line, at, batch, mode, spent, losses>>

-----------------------------------------------------------------------------

Write(w) ==
  \E item \in Item :
    \/ \E d \in Decisions : RecordDecision(w, item, d)
    \/ RecordRetry(w, item)
    \/ RecordTerminalFailure(w, item)

Work(w) == ReadMode(w) \/ CheckBudget(w) \/ ClaimBatch(w) \/ Write(w) \/ Charge(w)

Next ==
  \/ \E w \in Workers : Work(w) \/ AbandonBatch(w)
  \/ \E j \in Jobs : InsertJob(j) \/ InsertPurgedJob(j) \/ PurgeJob(j)
                     \/ RetryDue(j) \/ LeaseEnds(j) \/ LeaseOutlived(j)
                     \/ ResetAgentFailureState(j)
  \/ \E j \in Jobs, v \in Verdicts : HumanVerdict(j, v)
  \/ NewMonth \/ SwitchOff \/ SwitchOn

Spec == Init /\ [][Next]_vars

\* A worker polls for ever and every model call ends; leases and backoffs end,
\* months pass, and an operator who switched the gate off turns it on again.
FairSpec ==
  /\ Spec
  /\ \A w \in Workers : WF_vars(Work(w))
  /\ \A j \in Jobs : WF_vars(RetryDue(j)) /\ WF_vars(LeaseEnds(j))
  /\ WF_vars(NewMonth) /\ WF_vars(SwitchOn)

-----------------------------------------------------------------------------
(* Properties. *)

\* Unless somebody wrote its row under a worker, a job is in the batch of one
\* worker at most, and a decided or failed job is in none and not claimed.
ClaimsAreExclusive ==
  \A j \in Jobs \ crossed :
    /\ Cardinality({w \in Workers : InBatch(j, w)}) <= 1
    /\ row[j].processed \/ row[j].failed => ~Held(j) /\ row[j].holder = Nobody

\* The budget is checked before a batch is claimed, and charged decision by
\* decision, each after it was made, with other workers in between: what has been
\* decided, charged or not yet, overdraws it by less than one batch for every
\* worker.
OverdraftIsBounded ==
  LET decided == spent + Cardinality({w \in Workers : at[w] = "charge"})
  IN decided > Budget => decided < Budget + Cardinality(Workers) * BatchLimit

\* The human's verdict stands, unless a worker had the job or the operator
\* put it back to NEW.
VerdictStands ==
  [][\A j \in Jobs \ crossed' :
       row[j].status \in Verdicts => row'[j].status \in Verdicts \cup {"NEW"}]_vars

\* However many postings arrive, and whatever crashes or is put off, each NEW
\* job is decided, given up, or gone.
EveryJobIsDecided ==
  \A j \in Jobs : row[j].status = "NEW" ~> row[j].status = "ABSENT" \/ Settled(row[j])

=============================================================================
