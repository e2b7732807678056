# A formal model of agentic-job-applier

The program takes job postings from discovery to a sent application. Its state is
one SQLite database and a few files; the actors are asyncio loops inside the API
process, command-line scripts run by systemd or by hand, background tasks the API
spawns, and people at the dashboard or in a mail client. They share rows and files
only, and coordinate by claims (a row with a token), leases (the age of a row),
sweeps that fail old rows, and retry counts derived from rows. This directory
models that in TLA+, checks it with TLC and proves part of it with TLAPS.

`PROJECT.json` lists the components with their status, the hazards at their lines,
the runs, the mutants, the theorems, and for every definition the lines it models.

## The system

| part | state | operations | hard because |
|---|---|---|---|
| Discovery (`orchestrator`, `fetchers`) | `job_postings`, `crawl_history` | crawl page by page, deduplicate, filter, insert, count, announce, clean up | listings shift between pages; requests fail; families and processes insert side by side |
| Gate (`workers/gate.py`, `_mixins/jobs.py`) | the `agent_` columns of `job_postings`, the month's cost | claim a batch, decide, retry, give up, reset | one lease for a batch; writes without a token; a budget checked before and charged after |
| Tailor store and worker (`workers/tailor.py`, `_mixins/tailor.py`, `tailor_runs.py`) | `tailor_runs` | claim, run, record, sweep, delete, retry | two commits per success, no token on writes, a retry in three steps |
| Tailor pipeline (`agents/resume_tailor`) | the job's artifact directory, `review_runs` | locate bullets, patch, compile, trim, retailor, review, publish | offsets into a text that changes; a directory shared by runs |
| Apply store and worker (`workers/apply.py`, `_mixins/apply.py`) | `apply_runs`, `apply_handoffs` | claim, enqueue, record, sweep, delete, reset | three kinds of claimers with different queries; coroutines that outlive their lease |
| Browser and finisher (`apply_worker`, `apply_finisher`) | a form, a tab, the agent's record | prefill, fill, defer, draft, submit, classify | one browser for all workers; a page that says too little |
| Answer cache (`answer_cache.py`, `answer_cache_seeding.py`) | `answer_cache.yaml` | load, look up, append | appended by one process, read and created by another |
| Human review (`human_review.py`) | handoffs, job status | complete, dismiss, relaunch, save answers | relaunch is three steps that race |
| Supervisor (`supervisor.py`, `status.py`) | running loops, modes | start, cancel, restart, reconcile, stop | modes flip while loops are cancelled one by one |
| Shared connection (`db_manager.py`) | the open transaction | every method of the loops | one connection, several coroutines |
| Digest (`digest/`, `routers/digest.py`) | `email_subscribers`, `digest_sends` | subscribe, confirm, hide, change, leave, send | mails cannot be taken back; links in old mails |

They interact through tables and files: discovery inserts NEW postings; the gate
makes them QUALIFIED; tailor claims those and publishes review runs; apply claims
review runs, uploads the variant in the job's artifact directory, and publishes
handoffs; human review sets `APPLIED` or `REJECTED` and feeds the answer cache. The
dashboard can insert, delete, reset and relaunch at every stage. What makes the
parts correct: one worker per unit of work; nothing recorded twice or overwritten;
a bounded number of attempts; nothing stuck for ever; nothing sent that was not
vetted; nobody's finished work undone by somebody else's transaction.

## Modules

| module | what it is |
|---|---|
| `ApplyRuns` | the apply stage and human review, row by row |
| `ApplySlot` | abstract: what the loops promise for a review run: free, held or done, at most `MaxRetries` failures |
| `TailorRuns` | the tailor stage: workers, endpoints, the pipeline's transactions |
| `LeaseSlot` | abstract: leased mutual exclusion, what the tailor stage promises for a job |
| `GateQueue` | the gate: batches, leases, budget, decisions |
| `Supervisor` | the loops of the API process and the watcher that follows the modes |
| `SharedConnection` | transactions of coroutines that share a connection |
| `Discovery` | a discovery cycle and the eleven kinds of fetchers |
| `ApplyFlow` | one browser run from claim to outcome, for several workers |
| `ResumePipeline` | the tailor pipeline of one job: texts, directory, verdicts |
| `ResumeContract` | operators: what the validator demands of a resume, and the bullets the locator finds |
| `AnswerCache` | the answer cache between reviewers and attempts |
| `Digest` | the daily digest |
| `Selection` | operators: what `GateQueue`, `Discovery` and the resume modules select of a list |
| `MC...` | the values for model checking of the module of that name, where a `.cfg` cannot give them |
| `..._proofs` | theorems about the module of that name; `ApiProcess_proofs` is about `Supervisor` and `SharedConnection`, `SharedFiles_proofs` about `ResumePipeline` and `AnswerCache` |

So that one module of proofs can extend two modules, the usual names of
`SharedConnection` and `AnswerCache` have a prefix: `ConnInit`, `ConnSpec`, `CacheInit`,
`CacheSpec` and so on.

`ApplyRuns` and `TailorRuns` say who may work on what; `ApplyFlow` and
`ResumePipeline` say what the work does, and reduce the rows to what they need of
them. `ApplyFlow` and `AnswerCache` meet in the deferred questions of a handoff.

### ApplyRuns

| variable | in the code |
|---|---|
| `jobStatus` | `job_postings.status` |
| `reviews` | rows of `review_runs` with status SUCCESS |
| `runs`, `nextRun` | rows of `apply_runs` and its AUTOINCREMENT key |
| `handoffs` | `apply_handoffs.handoff_status`, keyed by the UNIQUE `apply_run_id` |
| `task[r]` | where the coroutine of run `r` is: `applying` (in the browser), `failRetry`/`failFinal` (failures counted, result not written), `handoff` (success written, handoff not) |
| `request[q]` | a relaunch request between its three steps |
| `up[l]` | whether an apply script is running |

One action per database method, as each is one transaction; a coroutine is cut
at every await on the database. `RecordApplySuccess`, `RecordApplyFailure` and
`RecordApplyHandoff` are the methods of the same names (in camel case) with the
error path of `_process_apply_row`: a `ClaimOwnershipError` ends the coroutine.
`CountFailures` is the first half of `_handle_apply_failure`; its `limit` is 0 in
the two places the code passes `max_retries=0`. `StartScript` is the start of
`process_apply_jobs.py` with its sweep, `StopScript` its end or death,
`AbandonTask` a cancellation (a mode flip), a kill or an unexpected database
error. The relaunch actions follow `_relaunch_apply_for_handoff_id` step by step.

Abstractions. Time is reduced to two facts of a row: `stale` (older than the
lease) and `waiting` (`next_retry_at` in the future); each changes once, at any
moment. A claim token is known only to the coroutine of its row, so a boolean
suffices. The order of review runs by completion time is their order of
insertion. The mode, budget and Chrome checks before a claim only make a claim
not happen, which a specification without fairness allows anyway. Columns that
hold artifacts, costs and notifications are left out. `by` (who inserted the
row) is no column: it only serves properties.

### TailorRuns

| variable | in the code |
|---|---|
| `qualified` | `job_postings` rows with status QUALIFIED |
| `runs`, `nextRun` | rows of `tailor_runs` and its AUTOINCREMENT key |
| `reviews` | the tailor runs that have a row in `review_runs` |
| `task[r]` | where the pipeline of run `r` is (`starting`, `working`, `published`: review run committed, success not) and who awaits it |
| `cycle[l]` | whether loop `l` sweeps or claims next |
| `request[q]` | a retry request between its transactions, then its answer |

A cycle of the worker is `SweepStaleRuns` and then `ClaimNextTailorJob` or
`SkipClaim`: two transactions with the reading of mode and budget between them. The
claimed run's pipeline is awaited before the next cycle (`LoopIsIdle`); a user's
pipeline is a background task. The pipeline is cut at its transactions: RUNNING,
the review run, SUCCESS, and FAILED from any exception. `record_tailor_success` and
`_failure` test the status of the row but no claim token, so that the pipeline of a
run that was swept, deleted or erased goes on and writes nothing, or publishes its
review run. The retry endpoint is `RetryCheck`, `RetryDelete` and one of
`RetryInsert`, `RetryLeftToLoop` (autonomous mode) and `RetryRefused`.

Abstractions. A lease is the boolean `stale`. Mode and budget are not state: they
decide whether a claim or a retry goes on, and both outcomes are possible at any
time. `next_retry_at` is left out because every caller passes NULL. What the
pipeline does between its transactions is `ResumePipeline`. `InsertBaseRun` (the
base-resume apply) and `LeaveQualified` (a human decision) belong to the apply stage
and are the environment here; the apply run `apply_after` chains is left out.

### GateQueue

`row[j]` is the job's row with its `agent_` columns, `line` the jobs in the order
the claim query sorts them (`next_retry_at`, else `fetched_at`), `batch[w]` the
claimed rows worker `w` still has to decide, as it read them, `at[w]` what it does
next. A cycle is one action per await: `ReadMode`, `CheckBudget`, `ClaimBatch` (one
`BEGIN IMMEDIATE`, whatever mode and budget are by then), then for each job
`RecordDecision`, `RecordRetry` or `RecordTerminalFailure`, each an `UPDATE` by job
hash alone, which a purged row does not match, and after a decision `Charge`, whose
commit is its own. A worker that dies between the two never charges (`AbandonBatch`). The retry count is the one of
the claimed row, not of the row. `ResetAgentFailureState`, `HumanVerdict` and
`PurgeJob` write the row whoever has claimed it. A lease ends for a job its worker
has dropped (`LeaseEnds`) or, a bounded number of times, while it still waits in
the batch (`LeaseOutlived`). A settled job lends its name to a new posting
(`InsertJob`), so that postings arrive for ever with finitely many names. What leaves
the line or is claimed from it is selected by `LineOf`, on `Selection`. The
budget is counted in decisions. `crossed` is history: jobs whose row was written
under a worker.

### Supervisor

An action is the code between two awaits of the one event loop: the watcher wakes,
reads a mode, reconciles up to the next loop it must cancel, awaits that loop, and
rests. `Reconcile` follows `gated_factories` in order. `tasks` holds the keys of
`_tasks`, `live` what each loop's task does, `event` is `_mode_changed`. `deaf` and
`swallowed` are history: a mode changed without a notification (`PATCH
/system-settings/automation`), and a `stop` that cancelled the watcher inside
`_cancel_task`, whose `except` swallows the watcher's own cancellation. A loop is
running, in backoff or cleaning up; what its cycles do is the other modules.

### SharedConnection

An action is one call of the driver. An operation is a statement and a commit
(`plain`), a `BEGIN IMMEDIATE` block with a rollback (`block`: the `BEGIN`, two
statements and the commit are four calls), or a statement that
may be refused without a rollback (`guarded`: `ClaimOwnershipError`, a duplicate
insert). `pending[c]` is what the open transaction of connection `c` holds, whoever
wrote it; `writer` is SQLite's write lock. `FindNothing` is the block that rolls back
because there is nothing to claim, with whatever else is in the transaction. `Busy` is
the timeout of a statement that waits for the lock; the driver's transaction stays open
without it. A loop whose mode goes off is cancelled (`Cancel`), rolls nothing back, since
`CancelledError` is no `Exception`, and calls again only if its mode goes on (`Respawn`).
A request closes its connection, which ends its transaction. `crossed` is history: the
coroutines whose writes another one committed or rolled back.

### Discovery

`fam[f]` is the coroutine of a fetcher family: it starts a crawl row, fetches page
by page, deduplicates against the database, inserts one posting at a time and
completes the crawl row. A fetcher is a record of how it pages its listing and what
a refused, missing (404) and failed request make of its crawl; the eleven
records are read off the eleven fetchers a cycle uses. A job hash is the posting, the text
its site has for it (`edition`: date, description, requirements) and whether its
description could be read, so that a posting gets a second row when any of it changes.
`TitleOf` is its company and title. Sites edit their listings and texts, the gate decides
on rows, ninety days pass (`MonthsPass`) and another process runs its cycles
(`BeginElsewhere`, `InsertElsewhere`), a bounded number of times. Both processes announce
and clean up: `Announce` the titles of rows fetched since the cycle began that have no
older row (`MIN(id)`), `CleanUp` what is older than 90 days and still NEW. A removed row
that is still listed is stored and announced again; `purged` counts such rows, `lost`
has the titles whose announcement died with a cycle or a family. `crawl_history` rows
that the cleanup removes are not the latest of their source. A page holds one posting.
`filter_job` is a constant verdict per posting. `WatchList` has the sources of a family that are not
filtered out, `Without` a listing after an edit, both on `Selection`; `TotalNew` adds up
what the families count, as the size of a set of pairs. Cycles repeat for ever.

### ApplyFlow

`att[w]` is the attempt of worker `w`: where its coroutine is and what the finisher
has recorded (deferred and weakly drafted fields, passes, turns). `form[t]` holds
the required fields filled in on tab `t`: the worker's own, or one left open on a
job's form by a dead worker or by a session that opened another one. `active` is the
tab the one command-line browser is attached to. `Switch`, `SwitchToOther` and
`SessionFails` are the outcomes of the session's start: the tab list may match
another tab or fail, and the finisher starts all the same. `EvaluateSubmitGate`,
`Classify` and `NeedsHandoff` follow `evaluate_submit_gate`, `try_submit_and_classify`
and `_process_apply_row`. `click()` may raise although the click went out
(`ClickFails`). `received` counts what the employer has; `doubts`, `astray`, `again` and
`unnoticed` are history. The agent is taken to follow its prompt: it reports what it
sees, and does not click submit itself.

A job has one review run, and its apply runs are reduced to the latest (`run`), its
claim, the failure count, whether one succeeded, and the number of pending handoffs.
`Enqueue` is the dashboard's `POST /jobs/{hash}/apply`, which only a run under way stops:
a job that was applied to can be applied to again, and a handoff stays pending meanwhile.
A relaunch is an `Enqueue` followed by the approval of its handoff (`HumanDecides`
without an application). `again` counts the requests for a job known to be applied for
or in the human's hands, `unnoticed` the applications no record tells of.
The base resume, which gives the job a second review run the autonomous loop may also
claim, and the deletion of a run under way are in `ApplyRuns` only; so are the rows.

### ResumePipeline and ResumeContract

A resume is a sequence of tokens: headings, entry headers, three bullet macros,
braces and text; `ResumeContract` computes sections, bodies, the validator's rules
and the bullet manifest from it, and `ResumePipeline` patches, measures and
publishes such texts. `disk` is the job's artifact directory, `.tex` and `.pdf` of
each variant, which all runs of the job share; `task[r]` holds the texts the
coroutine of run `r` keeps in memory; `rows[r]` also names the variant whose directory a
`DELETE` or a retry of the run removes. That removal (`RemoveArtifact`) is apart from the
soft delete, takes one file at a time and may come after another run has begun:
`removing` are the runs whose files a request is about to remove. An action is the code between two awaits at
which another process can step in. A model call answers any list of rewrites in
`Outputs`, also with unknown or repeated ids, or fails. `writer` is history, and so are
`source` and `asked`: what was patched last, and with what.

A bullet's `id` is what `_build_entry_id` leaves of its section, entry and number:
behind a header whose line is short the entry's number survives, behind a long one (`l`)
it does not. `Indexed` is the pipeline's `bullet_index`, in which the last bullet of an
id wins. `Manifest` walks sections, entries and bullets as the locator does, skipping a
macro without a body and what stands within a body already taken; `InSpliceOrder` is
the patcher's stable sort from the back, `ApplyPatches` its splices. `Woven` is the
reference they are measured against: the text copied once from front to back with
the bodies exchanged. Two rewrites of one bullet overlap and fail the run, unless the
body is empty (`\resumeItem{}`): then the patcher accepts them all and they end up
behind each other (`PilesUp`), which `RewritesLand` leaves out.

### AnswerCache

`file` is `answer_cache.yaml` as a sequence of entries, `attempt[w]` the copy a
browser run has read, `handoff[c]` the deferred questions a reviewer sees,
`request[r]` a save between its transaction and its seeding. `Lookup` follows
`lookup`: the exact label first, then the best ratio above the threshold, in the
company's entries and in those filed under no company; `Filed`, `Exact` and `Near` are
places in the file. `SeedAnswers` appends the answers one after the other. `Bootstrap` is the second half
of a load that found no file. Questions are told apart by their normalized labels,
`token_set_ratio` is a constant. A reviewer names no company but the application's.

### Digest

`sub` holds the rows of `email_subscribers`, `sends` the pairs of `digest_sends`,
`sender[p]` a request to `/send`, cut at its awaits: the subscribers are read once,
then for each the jobs are read, the mail goes out, and it is recorded. A mail may
fail, go out with its answer lost, or go out before the process dies. `hide` is a
hide link between its read and its write, `page[i]` the list an open manage page
shows and will write back. There are two instants in a day, and `FetchedAfter`
compares as the query does: as text, which within a day always makes SQLite's
timestamp the smaller one.

## Runs

`CHECK_DEADLOCK FALSE` where the system may rest: bounds used up and every coroutine
done. `connection_locks` and `discovery_cycle` check deadlock, as those systems
never rest.

| run | bounds | what it shows |
|---|---|---|
| `apply_claims` | 1 job, 1 review run, 3 runs, the supervisor's loop and a script, 1 relaunch, crashes | loops never apply twice, nobody holds a second visible claim, handoffs and results and decisions stay, `ApplySlot` is implemented |
| `apply_settles` | 1 job, 2 review runs, 4 runs, nobody at the dashboard, crashes | a review run ends applied or out of retries |
| `tailor_claims` | 1 job, 2 runs, 2 loops, 1 retry request, crashes | no success without review run, no result changed, `LeaseSlot` is implemented, active runs are resolved, qualified jobs settle |
| `gate_decides` | 2 jobs, 2 workers, batches of 2, 2 attempts, budget 1, 1 batch lost or lease outlived, 1 touch by others (a reset, verdict, purge or switch) | one worker per claim, a bounded overdraft, a human verdict stands, every job is decided |
| `supervisor_follows` | 2 requests, 2 mode writes, 1 crash | no twin loop, no loop on a closed connection, loops follow the modes, shutdown ends |
| `connection_locks` | 2 loops on one connection, a request on its own, 2 cancellations | writes no other coroutine ends are atomic, a request's always; the write lock is given back while a loop goes on |
| `discovery_cycle` | a family with a source of 3 postings, 2 of them of one title, and any of three paging fetchers, a family with an unwanted source and one of 1 posting the first has too; 2 pages, 1 edit (of a listing, a text, the gate, time, or a cycle elsewhere that inserts 1 row), 1 fault | counts are rows, a title is announced once by a process unless rows of it were removed, what is stored is announced unless a cycle died, what stays in reach of the page cap is stored |
| `apply_flow` | 2 workers, 1 job, 1 required field, 2 turns, 1 rate-limit retry, 2 attempts, 1 fault | submits are vetted and complete, every application beyond the first was asked for or is one no record tells of, every job settles |
| `resume_pipeline` | 2 runs, each swept or deleted at any time, a resume with two kinds of bullets, a page with room for one more token, 4 outputs, 1 upload of a resume with long headers and an empty bullet | rewrites land, bullets are found again in a patched text, what ships is what was preferred and fits unless a delete has removed it, every pipeline ends |
| `digest_mail` | 1 subscription, 2 postings of one role, 2 senders, 3 instants, 1 visit, 1 fault | copies are explained, a posting of a later day is mailed |
| `answer_cache` | 2 companies, 2 questions with ratio 90, 3 answers, 2 attempts, 1 request, 2 saves, 2 deferred questions | answered questions are found, no foreign answer, an answer stands |
| `doc_digest_window` | as `digest_mail` | counterexample: a posting fetched after the digest of its day is never found (see below) |

Why the bounds are enough. Three apply runs of one review run are a run that is
swept while its coroutine goes on, the run claimed after it, and one of the
dashboard or beyond `MaxRetries = 2`. `apply_settles` has a second review run
that waits behind the first one, or is not eligible. Two tailor runs are a stale run and the claim that
passes over it, or a run deleted by a retry and an insert that competes for its
slot; `MaxRetries = 2` is reached by two failures. In `gate_decides` a budget of one and batches
of two overdraw it by both workers, who check the same budget before either charges;
one touch comes between any two steps of a batch. In `apply_flow` the one fault may be a crash (which leaves a tab
behind for the next attempt), a sweep of a live worker (so that two work on a job)
or one more request for a job that is done. `resume_pipeline`'s outputs overflow the page, repeat an id, name an
unknown one and hold characters to escape; a swept run and its successor share the
directory. Three instants of `digest_mail` are a day and the next, so that a digest
of one day, a posting later that day and a posting of the next day all happen; the
two postings are of one role, so that they are mailed as one or one after the other.
In `discovery_cycle` three postings and a cap of two pages leave one beyond the cap, two
of one title tell a row from a title, and the one edit comes between any two requests.
`answer_cache`'s attempts are alike, hence the symmetry; it checks no liveness.

## Fairness

Liveness is checked under what the code's scheduling gives, and never against
faults: crashes and edits are bounded, not excluded, and where no bound is named
(`ApplyRuns`, `TailorRuns`) each costs an attempt or the id of a row.

- `ApplyRuns.UnattendedSpec`: leases and retry times run out, a coroutine that is
  not lost goes on, an invocation of the script ends and systemd starts it again,
  and strong fairness of the script's claim: each invocation makes one attempt to
  claim, and the candidate it needs is there again and again. Nobody is at the
  dashboard. The only sweep of apply runs is at the start of the script.
- `TailorRuns.FairSpec`: each loop goes on with its cycles (both sweep in every
  cycle, in any mode), leases run out, pipelines that are not lost go on. `JobSettles`
  is conditional: once users, modes and budget no longer interfere.
- `GateQueue.FairSpec`: workers poll and model calls end, leases and backoffs end,
  months pass, and who switched the gate off turns it on again.
- `Supervisor.FairSpec`: the event loop runs every coroutine whose await is over;
  the watcher's timer fires without a notification.
- `SharedConnection.ConnFairSpec`: statements return, no more. A cancelled loop need
  not come back, so `WriteLockIsReleased` is conditional: for a shared connection it
  asks that some loop of it begins a claim again and again, which ends a transaction
  somebody left open, as the `BEGIN` is refused and its handler rolls back.
- `Discovery.FairSpec`: requests and writes return, a cycle follows each pause.
- `ApplyFlow.FairSpec`, `ResumePipeline.FairSpec`: calls of the browser, LaTeX and the
  models return, so that each attempt takes a next step, whichever; ready jobs are
  claimed. Nearly all of them have timeouts in the code. `page.evaluate`
  (`browser.py:568`) has none: a page whose script hangs holds its worker for ever, and
  `EveryRunSettles` assumes that none does.
- `Digest.FairSpec`: the cron job calls again and a request goes on. Time need not
  pass, nor need mails arrive more often than faults let them.

## What is proved

Each theorem holds for every value of the constants that satisfies the assumption of
its module (`ConstantsAssumption`, `ConnConstants`, `PipelineAssumption`,
`CacheConstants`); no other assumption is used. They bound nothing but the counters:
sets of actors and rows are arbitrary, and finite where something is counted (workers
and batches of the gate, families and listings of discovery), the measure of likeness
is any function that gives 100 to a question and itself, a resume that may be
uploaded fits on a page.

| module | theorem | statement |
|---|---|---|
| `ApplyRuns_proofs` | `TypeCorrect`, `LoopsApplyOnce`, `ClaimsExclude`, `HandoffsAreBacked` | `Spec => []TypeOK`, `[]LoopAppliesOnce`, `[]OneClaimPerReview`, `[]HandoffFollowsSuccess` |
| | `ResultsAreFinal`, `DecisionsAreFinal` | `Spec => RecordedResultIsFinal`, `DecisionIsFinal` |
| | `Refinement` | `Spec => ImplementsSlot` |
| `TailorRuns_proofs` | `TypeCorrect`, `SuccessIsReviewed` | `Spec => []TypeOK`, `[]SuccessHasReview` |
| | `ResultsAreFinal`, `Refinement` | `Spec => ResultIsFinal`, `ImplementsLease` |
| `GateQueue_proofs` | `TypeCorrect`, `ExclusiveClaims`, `BoundedOverdraft` | `Spec => []TypeOK`, `[]ClaimsAreExclusive`, `[]OverdraftIsBounded` |
| | `VerdictsStand` | `Spec => VerdictStands` |
| `Discovery_proofs` | `TypeCorrect`, `CountsAreTrue`, `AnnouncedAtMostOnce` | `Spec => []TypeOK`, `[]CountsMatchRows`, `[]AnnouncedOnce` |
| `ApplyFlow_proofs` | `TypeCorrect`, `CompleteForm`, `ApplicationsAreExplained` | `Spec => []TypeOK`, `[]SubmittedFormIsComplete`, `[]EveryApplicationIsExplained` |
| | `VettedSubmits` | `Spec => SubmitsAreVetted` |
| `SharedFiles_proofs` | `PreferredIsShipped`, `ShippedFits` | `Spec => []ShippedWasPreferred`, `[]ShippedFitsPage` |
| | `RewritesAreWhereTheyBelong` | `Spec => []RewritesLand` |
| | `CacheTypeCorrect`, `AnsweredOnce`, `FormsAreOwn` | `CacheSpec => []CacheTypeOK`, `[]AnsweredIsFound`, `[]NoForeignAnswer` |
| | `AnswersStand` | `CacheSpec => AnswerStands` |
| `ApiProcess_proofs` | `TypeCorrect`, `CloseIsLast`, `OneLoopPerStage` | `Spec => []TypeOK`, `[]LoopsEndBeforeClose`, `NoTwinLoop` |
| | `ConnTypeCorrect`, `UncrossedAtomicity` | `ConnSpec => []ConnTypeOK`, `[]UncrossedWritesAreAtomic` |
| | `PrivateIsUncrossed` | `ConnSpec => [](Private \cap crossed = {})` |
| `Digest_proofs` | `TypeCorrect`, `CopiesAreBounded` | `Spec => []TypeOK`, `[]CopiesAreExplained` |

Each specification also has its `Invariance` (`ConnInvariance`, `CacheInvariance`),
`Spec => []IInv`: the properties are not inductive by themselves, and `IInv` adds what
the code silently relies on.
The type invariants are proved and not checked by a run, as the theorem covers it.

Recursive functions. The queue, the watch lists and the seeding of answers are built by
recursion over a list. That such a function exists, and what it returns, is proved by
induction over the natural numbers, which `GateQueue_proofs`, `Discovery_proofs` and
`SharedFiles_proofs` get from their well-foundedness: `LeastNat` (a set of numbers that
is not empty has a least member) and `Induct` (a set with 0 and all successors is
`Nat`). A proof by induction is then a set of numbers: `{n \in Nat : n <= Len(seq) =>
...}`.

`ApplyRuns_proofs`. `StepKinds` looks at the actions once: a step either inserts one
row after a check (a claim, an enqueue), or changes rows only along
PENDING -> SUCCESS, PENDING -> FAILED, FAILED -> gone. `SideKinds` does the same for
coroutines, handoffs and requests. `IInv` adds:

- `FreshRows`: a key not yet given out is unused everywhere, so an insertion
  overwrites nothing;
- `ClaimsHaveTokens`: every PENDING row has a claim token. The claim query lets
  rows past their lease through its first test; that a stale row still blocks
  the slot rests on the second, `claim_token IS NOT NULL`, and on no writer ever
  clearing the token of a PENDING row;
- `RowsHaveReviews`: rows exist for published review runs only, so the
  dashboard's check by job sees what the loops inserted by review run.

For the refinement, `QuietKinds` sharpens the steps that insert nothing: they fail
rows, succeed one row, or erase failed rows of one job. Because a review run has at
most one live or successful loop row, a sweep ends at most one attempt of each, so
that counting failures with `Cardinality` moves by one: `Take`, `Finish`, `Fail` and
`Forget` are the four cases, everything else stutters.

`TailorRuns_proofs`. A step inserts a row after a look at the others, inserts a
finished one, or moves rows without making a claim fresh again; and at most one
claim per job is fresh, so the `CHOOSE` of the refinement mapping has one candidate.
That a pipeline without token cannot overwrite a result follows from the status test
of its `UPDATE` alone, and `SuccessHasReview` from the order of the two commits and
from where the pipeline then is.

`GateQueue_proofs`. Nothing a worker writes names its token, so exclusion has to be
read off the batches. `ClaimsHold`: unless somebody else has written its row (`crossed`),
a job that waits in a batch is NEW, held by that worker and within its lease, hence in no
other batch. It needs `SettledRowsAreFree` and `BatchesAreLists` (a job is once in a
batch, or deciding its first copy would free the second), `LineIsDue` and
`PutOffRowsExist` (what is claimed is there), and `AttemptsAreLeft` (a retry count below
the limit when claimed). `BudgetHolds` strengthens the bound on the overdraft: a worker
checks the budget before it claims and spends afterwards, so what counts is what has been
spent and what each worker may still spend without looking again (`Owed`: a full batch
between check and claim, the rest of its batch and the decision not yet charged after
it), `spent + Cardinality(Outstanding) < Budget + Cardinality(Workers) * BatchLimit`.
`spent` alone is not inductive. `BatchesFitPlaces` says when a batch is empty or not full.

`Discovery_proofs`. Most steps move one family and leave the rows alone; `FamilyStep`
says once what such a step must keep. `IInv` adds `CrawlsAreOfSources` (the crawl that
counts an insertion is of the source at hand), `RowsAreThere` (fresh rows are stored and
none of them is old, so that a cleanup removes nothing a cycle counts) and `ToldIsKnown`:
a process has announced a title at most as often as rows of it were removed, or once more
and then the title has a row older than the process's cycle, so that it is no news.
`CountsMatchRows` needs that the pairs
in `TotalNew` are finitely many, which `Home` and `Families` grant.

`ApplyFlow_proofs`. Three facts carry the properties: what was ever doubtful is
still recorded as deferred or weak when the gate looks (`AttemptIsSound`), an attempt
that was not led astray has the tool on its own tab (`OnOwnTab`, `SaidIsTrue`), and
the ledger of a job balances (`Ledger`): applications received, handoffs pending and
the run that is open are one, plus those asked for again and those no record tells of.
A run is open until its worker has seen the application go through, so a record, a
sweep or a crash moves the one from place to place; that needs the claim to be that of
a running run whose worker is on the job (`ClaimsRun`).

`SharedFiles_proofs`, the directory. `Progress` says, step by step, what a run has put
there: written, compiled, or compiled and measured, always under the condition that no
other run has written the variant since, and that a delete may have removed it
(`Holds`, `Removed`). `FilesStay` is why others do no harm: they can
only compile once more the text that is there, or remove it. `V2IsThere` has the detail on which the
three-way choice rests: the first text is forgotten when the second is made.
`ReviewedIsThere` carries the choice on after the run has ended. The patcher does not
matter here: nothing is assumed of `ApplyPatches`.

`SharedFiles_proofs`, the patcher. `RewritesLand` compares what splicing from the back
makes of a text with a single copy from the front, for texts and answers of any length.
The invariant is `Landing`: every text a task holds is one of tokens, and what a task
has just patched is `Woven`. All the work is in what the operators do, in this order:

1. The sections of a text, the lines with a header and the bullets of an entry come out
   from front to back and apart from each other, so that the manifest is a row of spans
   (`ManifestIs`). The last member of each list bounds the next, which is what the walk
   of `InTurn` (`next`) and the end of each entry are for; nothing is assumed about
   braces.
2. Patches that do not overlap are of different bullets, or of one with an empty body
   (`PatchesDiffer`); and the list that is sorted by insertion is the same patches, from
   the back (`SortedIs`, `SpliceOrder`).
3. A splice at bullet b leaves the text in front of it, and what was spliced behind it
   before, as they were: by induction over the sorted patches the text is the woven one
   from the bullet last reached on (`SplicesWeave`, `SplicesFit`, `AppliedIs`).
4. `PatchedIs` puts them together for any text and answer, `StepLanding` goes through
   the actions.

The recursion of `Manifest`, `InTurn`, `InSpliceOrder`, `ApplyPatches` and `Woven` is
over lists, as above. `Tokens` adds the two escaped tokens to `STRING` because the prover
does not know that a literal is one. That a rewrite lands in the bullet it was *meant*
for also needs ids that tell bullets apart, which they do not always (see below).

`SharedFiles_proofs`, the cache. The file only grows at its end unless a run wipes it.
`HitStands` says that the first exact entry then stays the best one; `NothingForeign`,
that an entry filed under no company names none, which is why `IsCompanySpecific` must
look at the answer and not only at the label; `SeededIsFindable`, that a seeding leaves
an entry near enough for each answer it has come to, whether it appended it or found it
there (`AppendAnswerIs`, `SeedAnswersIs`).

`ApiProcess_proofs`, the supervisor. Every loop that is alive is registered, awaited or
gathered, and one that is cleaning up is awaited or gathered; so the watcher spawns no
second one, and `gather` returns to a quiet process. The connections: until another
coroutine ends a transaction it has written in, the transaction holds exactly the
statements a coroutine has executed and the disk none (`Progress`). A private connection
has nobody else to end it (`PrivateIsUncrossed`), so requests are atomic.

`Digest_proofs`. The bound on copies is no invariant by itself: what a request has
mailed and not yet recorded, and what it is about to mail, count too. `Explained` says
that before a pair of subscriber and job is in `digest_sends`, each copy is lost or
belongs to a request that has sent it; and from then on copies and the mails still to
be sent are no more than the requests and the losses, as no request that looks after
the recording picks the job again.

Only model-checked. All liveness, as the prover has no rules for fairness here:
`ReviewSettles`, `RunResolves`, `JobSettles`, `EveryJobIsDecided`, `LoopsFollowModes`,
`ShutdownEnds`, `WriteLockIsReleased`, `EveryPostingIsStored`, `EveryRunSettles`,
`EveryPipelineEnds`, `NextDayPostingIsMailed`. And `BulletsAreFoundAgain`, because it
depends on what the models answer: a rewrite that opens a brace it does not close, or
holds a macro, does move bullets. TLC checks it for the outputs of the run, which do
neither. `RewritesLand` needs no such condition: a trim is shown what the locator finds
in the patched text, whatever that is, and patches that.

## Where code and documents disagree

Checked by a run: `doc_digest_window`. `sender.py:132` compares SQLite's
`2026-07-01 18:00:00` with Python's `2026-07-01T15:00:00+00:00` as text; a blank sorts
before `T`, so a posting found after the digest of its day is never mailed, although
`sender.py:3` promises roles fetched since the last digest.

Met while modelling, and visible in a few lines of the code. Apply and tailor:

- One slot per job (`spec/spec.md:223`): `claim_next_apply_job` looks at the review
  run only (`_mixins/apply.py:237`), so that a loop may claim beside a job's other run.
- Stale rows are recovered "every cycle" (`spec/spec.md:221`, `:522`): apply runs are
  swept at the start of the script only (`process_apply_jobs.py:185`).
- A failure the worker calls terminal (`workers/apply.py:604`, "no retry") is claimed
  again while the job has attempts left (`_mixins/apply.py:253`).
- Soft-deleted rows are excluded from claim queries (`spec/spec.md:222`): no subquery
  of `claim_next_apply_job` tests `deleted_at`.
- An autonomous SUBMITTED takes the job to APPLIED (`spec/spec.md:460`): only
  `transition_handoff_status` changes the status.
- Every NEEDS_REVIEW run has a handoff (`spec/data_models.md:205`): success and handoff
  are two transactions (`workers/apply.py:719`).
- A tailor retry is atomic (`spec/spec.md:555`, docstring `tailor_runs.py:517`): delete
  and insert are two transactions (`:561`) with the mode and the budget read between.
- A worker without its token has its completion dropped (`spec/spec.md:220`,
  `spec/workflows.md:210`): tailor and gate writes test no token, and a swept tailor
  pipeline still publishes its review run.
- Relaunch starts the browser flow immediately: if the handoff was resolved between
  the insert and the transition, a PENDING run is left without a task (`RelaunchRaced`).

Browser and resume:

- A submit without a new address and without a toast is taken for an infrastructure
  failure and retried (`finisher_integration.py:350`), although the site may have
  accepted it; a success notice with `role=alert` is reported as blocked (`:346`).
- The finisher starts although the switch to the apply tab failed (`browser.py:202`); what
  is then checked and what is then submitted may be two forms.
- A swept run whose browser is still at work can submit beside the run claimed after it:
  the records name one application, the employer has two.
- The artifact directory is called per-run (`pipeline.py:30`, `patcher.py:14`) and is
  per job (`workers/tailor.py:249`): runs of one job overwrite each other's variants, and
  deleting or retrying one removes a directory that another's review may name
  (`tailor_runs.py:444`).
- A run that finds no `answer_cache.yaml` writes an empty one (`answer_cache.py:447`), also
  over answers that another process has saved between its look and its write.
- The validator's rule 4, balanced bodies (`validator.py:14`), is not applied to `\item`.
- The number of an entry stands at the end of its id and is cut off behind a long header
  (`locator.py:597`; `Senior Software Engineering Intern, Cloud Infrastructure Team` is
  long enough). Two entries whose headers begin alike then share ids, and `bullet_index`
  (`pipeline.py:396`) knows only the bullets of the second: a rewrite of the first one's
  bullet overwrites the other. The locator calls the number a "tiebreaker for collisions"
  (`:580`), and a test has unique ids (`tests/test_bullet_locator.py:64`), with short
  headers. `resume_pipeline` has such a resume.
- Two rewrites of one bullet raise on overlap (`tests/test_pipeline_risk_areas.py:166`),
  except for an empty body, where both are spliced in.

Discovery, gate and supervisor:

- The soft filters qualify and filter (`job_filter.py`), but `insert_job` has no status
  column (`jobs.py:43`), so every posting it inserts is NEW.
- A cycle that dies between its inserts and its notifications announces nothing, and a
  cancelled one leaves crawl rows IN_PROGRESS.
- The cleanup removes a NEW row after 90 days (`db_manager.py:228`), also one that is still
  listed: the next cycle stores and announces it as new. Two processes whose cycles overlap
  announce the same row each. A title whose first row was soft-filtered is never announced.
- What a listing has beyond the page cap is never stored while it stays there; the fetchers
  log a warning.
- A gate reset does not clear `agent_processed_at`: a decided job put back to NEW is
  never claimed again (`failure_resets.py:32`).
- The autonomous toggle is "one transactional write path" (`status.py:340`) and commits
  three times.
- On the shared connection a method may return after a commit that another coroutine's
  rollback has forestalled, so "returns after committing" holds for requests only.
- The loops share one connection "to avoid SQLite file-lock contention"
  (`supervisor.py:218`). A loop that is cancelled between its statement and its commit
  keeps the write lock on that connection; if every mode is off then, the watcher only
  reads, and every other process waits until a mode goes on.
- The restart backoff of a loop is never reset (`supervisor.py:447`).

Answer cache and digest:

- Seeding needs no file lock as there is a single process (`answer_cache_seeding.py:16`):
  the apply script is another one, and its bootstrap may wipe what was saved.
- A corrected answer is appended behind the old one, which stays the one that is found.
- A hidden company may come back: the hide link and the manage page each write the
  whole list, against `pages.py:700` ("You won't see jobs from X").
- When the confirmation mail fails the answer is "Please try again" (`digest.py:184`);
  the row is there, so the second attempt gets a 409 and no mail.
- Two requests to `/send` side by side mail a posting twice.

## Not modelled

- Dashboard reads, cost reports and the edit of configuration files: no protocol.
- Notifications: fire-and-forget HTTP. Prices and per-stage cost rows: the gate's
  budget stands for the check and the charge.
- Model calls, pages and sites: external, with every answer the code tells apart.
- The text of postings, mails and pages, selectors, field scanning, LaTeX: data the
  properties do not tell apart.
- Fetchers, the ATS scanner and the standalone review worker that nothing calls.
- Migrations, one-off scripts and research code.

## What is left

1. The composition of `GateQueue`, `TailorRuns` and `ApplyRuns` over
   `job_postings.status`, with the tailor run's `apply_after_completion`.
2. For which answers `BulletsAreFoundAgain` holds: a grammar of balanced rewrites, and
   a proof that follows nested braces through `Manifest`.
3. Several modes of an answer cache that is edited by hand, and `$COMPANY`.
