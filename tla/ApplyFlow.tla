------------------------------ MODULE ApplyFlow ------------------------------
(***************************************************************************)
(* One browser run from claim to outcome: open the form, let the extension *)
(* and the finisher agent fill it in, decide whether to submit, click, and *)
(* read from the page what became of the application.                      *)
(*                                                                         *)
(* The worker drives a tab of its own; the agent drives whichever tab of   *)
(* the one browser the command line tool is attached to.  The rows of      *)
(* apply_runs are in ApplyRuns; here a job has one review run, of which    *)
(* the latest apply run is ready, running, or ended.  A user may ask for   *)
(* another run of a job that is done.  (The base resume, which makes a     *)
(* second review run, and the deletion of a run under way are in ApplyRuns *)
(* only.)  The agent is taken to follow its prompt: it reports what it     *)
(* sees and never clicks submit itself.                                    *)
(***************************************************************************)
EXTENDS Naturals, FiniteSets

CONSTANTS
  Jobs,
  Workers,        \* apply workers on the same Chrome
  NoOne,          \* no live worker
  Elsewhere,      \* a tab that is no application form
  Fields,         \* required fields
  RequestLimit,   \* _REQUEST_LIMIT
  RateRetries,    \* _RATE_LIMIT_MAX_RETRIES
  MaxRetries,     \* DEFAULT_APPLY_MAX_RETRIES
  MaxFaults       \* bound on crashes, outlived leases and runs asked for

ASSUME ConstantsAssumption ==
  /\ NoOne \notin Workers
  /\ Workers \cap Jobs = {} /\ Elsewhere \notin Workers \cup Jobs
  /\ RequestLimit \in Nat \ {0}
  /\ RateRetries \in Nat
  /\ MaxRetries \in Nat \ {0}
  /\ MaxFaults \in Nat

\* A tab is that of a worker's page, or one left open on a job's form.
Tabs == Workers \cup Jobs

Settled == {"SUCCESS", "FAILED"}
Failures == {"FAILED_NAVIGATION", "FAILED_OTHER"}

VARIABLES
  run,        \* of each job: its latest run
  owner,      \* of each job: the worker whose claim token its run carries
  failures,   \* of each job: get_apply_failure_count
  succeeded,  \* jobs that have a run with status SUCCESS
  handoffs,   \* of each job: handoffs in PENDING_REVIEW
  att,        \* of each worker: its attempt
  form,       \* of each tab: the required fields filled in
  active,     \* the tab the command line tool is attached to
  left,       \* jobs with a tab left open on their form
  received,   \* applications the employer has for the job
  unnoticed,  \* history: those of them no record tells of
  again,      \* history: how often the user asked for one more
  faults

\* The records of the job, and what the employer has.
records == <<run, owner, failures, succeeded, handoffs>>
outside == <<received, unnoticed, again>>
vars == <<run, owner, failures, succeeded, handoffs, att, form, active, left,
          received, unnoticed, again, faults>>

Attempt == [pc : {"idle", "opening", "prefilling", "connecting", "starting",
                  "finishing", "deciding", "submitting", "reading", "recording"},
            job : Jobs \cup {NoOne},
            pass : Nat,                 \* rate-limit retries taken
            turns : 0 .. RequestLimit,
            deferred : SUBSET Fields,   \* recorded_deferrals
            weak : SUBSET Fields,       \* drafted_fields under the threshold
            finisher : {"SKIPPED", "COMPLETE", "AGENT_GAVE_UP", "USAGE_LIMIT_HIT",
                        "RUNTIME_ERROR"},
            filled : BOOLEAN,           \* all_required_filled
            outcome : {"none", "SUBMITTED", "NEEDS_REVIEW"} \cup Failures,
            sent : {"nothing", "late", "alert", "seen"},  \* what the click did
            doubts : SUBSET Fields,     \* history: ever deferred or drafted weakly
            astray : BOOLEAN]           \* history: the agent was on another tab

Rest == [pc |-> "idle", job |-> NoOne, pass |-> 0, turns |-> 0, deferred |-> {},
         weak |-> {}, finisher |-> "SKIPPED", filled |-> FALSE, outcome |-> "none",
         sent |-> "nothing", doubts |-> {}, astray |-> FALSE]

TypeOK ==
  /\ run \in [Jobs -> {"ready", "running"} \cup Settled]
  /\ owner \in [Jobs -> Workers \cup {NoOne}]
  /\ failures \in [Jobs -> Nat]
  /\ succeeded \subseteq Jobs
  /\ handoffs \in [Jobs -> Nat]
  /\ att \in [Workers -> Attempt]
  /\ form \in [Tabs -> SUBSET Fields]
  /\ active \in Tabs \cup {Elsewhere}
  /\ left \subseteq Jobs
  /\ received \in [Jobs -> Nat]
  /\ unnoticed \in [Jobs -> Nat]
  /\ again \in [Jobs -> Nat]
  /\ faults \in 0 .. MaxFaults

Init ==
  /\ run = [j \in Jobs |-> "ready"]
  /\ owner = [j \in Jobs |-> NoOne]
  /\ failures = [j \in Jobs |-> 0]
  /\ succeeded = {}
  /\ handoffs = [j \in Jobs |-> 0]
  /\ att = [w \in Workers |-> Rest]
  /\ form = [t \in Tabs |-> {}]
  /\ active = Elsewhere
  /\ left = {}
  /\ received = [j \in Jobs |-> 0]
  /\ unnoticed = [j \in Jobs |-> 0]
  /\ again = [j \in Jobs |-> 0]
  /\ faults = 0

Fault == faults < MaxFaults /\ faults' = faults + 1

\* The attempt moves on and nothing else changes.
Becomes(w, a) ==
  /\ att' = [att EXCEPT ![w] = a]
  /\ UNCHANGED <<records, outside, form, active, left, faults>>

-----------------------------------------------------------------------------
(* Claim and prefill. *)

\* A run is inserted with a claim token, and w starts on it.
StartRun(w, j) ==
  /\ att[w].pc = "idle"
  /\ run' = [run EXCEPT ![j] = "running"]
  /\ owner' = [owner EXCEPT ![j] = w]
  /\ att' = [att EXCEPT ![w] = [Rest EXCEPT !.pc = "opening", !.job = j]]
  /\ UNCHANGED <<failures, succeeded, handoffs, form, active, left, received, unnoticed>>

\* claim_next_apply_job, or the dashboard's request, of a job that waits.
Claim(w, j) == run[j] = "ready" /\ StartRun(w, j) /\ UNCHANGED <<again, faults>>

\* The records say that the employer has the application, or that a human
\* is to decide on it.
IsKnown(j) == received[j] > unnoticed[j] \/ handoffs[j] > 0

\* POST /jobs/{hash}/apply, also by way of a relaunch: only a run under way
\* stands against one more, whatever became of those before.
Enqueue(w, j) ==
  /\ run[j] \in Settled
  /\ Fault
  /\ StartRun(w, j)
  /\ again' = IF IsKnown(j) THEN [again EXCEPT ![j] = @ + 1] ELSE again

\* connect_over_cdp, new_page, goto: a new tab with an empty form.
OpenForm(w) ==
  /\ att[w].pc = "opening"
  /\ att' = [att EXCEPT ![w].pc = "prefilling"]
  /\ form' = [form EXCEPT ![w] = {}]
  /\ UNCHANGED <<records, outside, active, left, faults>>

\* No connection, no context, or the page cannot be loaded.
NavigationFails(w) ==
  /\ att[w].pc = "opening"
  /\ Becomes(w, [att[w] EXCEPT !.pc = "recording", !.outcome = "FAILED_NAVIGATION"])

\* The extension is looked for, clicked and waited for until the form is
\* stable or the deadline passes; the upload, the field scan, the confidence
\* checks and verify_after_fill are best effort and steer nothing.  Only on a
\* platform it knows does the finisher start.
Prefill(w) ==
  /\ att[w].pc = "prefilling"
  /\ \E some \in SUBSET Fields : form' = [form EXCEPT ![w] = some]
  /\ \E next \in {"connecting", "deciding"} : att' = [att EXCEPT ![w].pc = next]
  /\ UNCHANGED <<records, outside, active, left, faults>>

\* An exception out of the flow: the page crashed or closed.
FlowFails(w) ==
  /\ att[w].pc \in {"prefilling", "deciding"}
  /\ Becomes(w, [Rest EXCEPT !.job = att[w].job, !.pc = "recording",
                          !.outcome = "FAILED_OTHER"])

-----------------------------------------------------------------------------
(* The session of the command line tool. *)

\* The tool is attached to tab t for worker w; whoever used it before is not.
Attach(w, t) ==
  /\ active' = t
  /\ att' = [v \in Workers |->
       IF v = w THEN [att[v] EXCEPT !.pc = "starting", !.astray = (t # w)]
       ELSE [att[v] EXCEPT !.astray = @ \/ (att[v].pc \in {"starting", "finishing"})]]

\* Mutant of SwitchTo: the tab the tool is attached to is kept.
SwitchToCurrent(w) == active

\* tab list, then tab: the tab with the worker's own form.
SwitchTo(w) == w

Switch(w) ==
  /\ att[w].pc = "connecting"
  /\ active' = SwitchTo(w)
  /\ att' = [v \in Workers |->
       IF v = w THEN [att[v] EXCEPT !.pc = "starting"]
       ELSE [att[v] EXCEPT !.astray = @ \/ (att[v].pc \in {"starting", "finishing"})]]
  /\ UNCHANGED <<records, outside, form, left, faults>>

\* A tab that was left open on the same form matches first, or the worker's is
\* not listed and the form is opened again in a tab nobody closes.
SwitchToOther(w) ==
  LET j == att[w].job
  IN /\ att[w].pc = "connecting"
     /\ Attach(w, j)
     /\ left' = left \cup {j}
     /\ \E some \in SUBSET form[w] :
          form' = [form EXCEPT ![j] = IF j \in left THEN @ ELSE some]
     /\ UNCHANGED <<records, outside, faults>>

\* connect, the list of tabs, the switch or the new tab fails: the finisher is
\* started all the same, on the tab the tool happens to be attached to.
SessionFails(w) ==
  /\ att[w].pc = "connecting"
  /\ \E t \in {active, Elsewhere} : Attach(w, t)
  /\ UNCHANGED <<records, outside, form, left, faults>>

\* load_finisher_dependencies raises: there is no result.
LoadFails(w) ==
  /\ att[w].pc = "connecting"
  /\ Becomes(w, [att[w] EXCEPT !.pc = "deciding"])

-----------------------------------------------------------------------------
(* The finisher. *)

Preflight(w) ==
  /\ att[w].pc = "starting"
  /\ \/ Becomes(w, [att[w] EXCEPT !.pc = "finishing"])
     \/ Becomes(w, [att[w] EXCEPT !.pc = "deciding", !.turns = 0, !.pass = 0,
                                  !.finisher = "RUNTIME_ERROR"])

\* A turn of the agent; each costs one request.
Turn(w, a) ==
  /\ att[w].pc = "finishing" /\ att[w].turns < RequestLimit
  /\ att' = [att EXCEPT ![w] = [a EXCEPT !.turns = @ + 1]]
  /\ UNCHANGED <<records, outside, active, left, faults>>

\* fill_combobox, pick_option, agent_browser: the field is filled on the tab
\* the tool is attached to.
FillField(w, f) ==
  /\ active \in Tabs /\ f \notin form[active]
  /\ form' = [form EXCEPT ![active] = @ \cup {f}]
  /\ Turn(w, att[w])

\* The same followed by flag_for_verify under the threshold.
DraftField(w, f) ==
  /\ active \in Tabs /\ f \notin form[active]
  /\ form' = [form EXCEPT ![active] = @ \cup {f}]
  /\ Turn(w, [att[w] EXCEPT !.weak = @ \cup {f}, !.doubts = @ \cup {f}])

Defer(w, f) ==
  /\ active \in Tabs /\ f \notin form[active] \cup att[w].deferred
  /\ UNCHANGED form
  /\ Turn(w, [att[w] EXCEPT !.deferred = @ \cup {f}, !.doubts = @ \cup {f}])

\* A snapshot, a lookup, a call that fails or times out.
OtherTurn(w) == UNCHANGED form /\ Turn(w, att[w])

\* complete_apply: required fields are filled on the tab, or deferred.
CompleteApply(w) ==
  /\ att[w].pc = "finishing"
  /\ Becomes(w, [att[w] EXCEPT !.pc = "deciding", !.turns = 0, !.pass = 0,
                               !.finisher = "COMPLETE",
       !.filled = active \in Tabs /\ Fields \subseteq form[active] \cup att[w].deferred])

GiveUp(w) ==
  /\ att[w].pc = "finishing"
  /\ Becomes(w, [att[w] EXCEPT !.pc = "deciding", !.turns = 0, !.pass = 0,
                               !.finisher = "AGENT_GAVE_UP"])

UsageLimit(w) ==
  /\ att[w].pc = "finishing" /\ att[w].turns = RequestLimit
  /\ Becomes(w, [att[w] EXCEPT !.pc = "deciding", !.turns = 0, !.pass = 0,
                               !.finisher = "USAGE_LIMIT_HIT"])

\* Mutant of NextPass: the second pass starts with new FinisherDeps.
NextPassAfresh(a) == [a EXCEPT !.pass = @ + 1, !.turns = 0, !.deferred = {}, !.weak = {}]

\* Mutant of NextPass: the passes are not counted.
NextPassUncounted(a) == [a EXCEPT !.turns = 0]

\* A new conversation over the same form and with what was recorded.
NextPass(a) == [a EXCEPT !.pass = @ + 1, !.turns = 0]

\* 429: wait and start over, once.
RateLimited(w) ==
  /\ att[w].pc = "finishing" /\ att[w].pass < RateRetries
  /\ Becomes(w, NextPass(att[w]))

\* A second 429 or any other exception.
FinisherFails(w) ==
  /\ att[w].pc = "finishing"
  /\ Becomes(w, [att[w] EXCEPT !.pc = "deciding", !.turns = 0, !.pass = 0,
                               !.finisher = "RUNTIME_ERROR"])

-----------------------------------------------------------------------------
(* Gate, click and outcome. *)

EvaluateSubmitGate(a) ==
  a.finisher = "COMPLETE" /\ a.filled /\ a.deferred = {} /\ a.weak = {}

\* What the rest of the attempt still needs to know.
Decided(w) == [Rest EXCEPT !.job = att[w].job, !.astray = att[w].astray]

Decide(w) ==
  /\ att[w].pc = "deciding"
  /\ IF EvaluateSubmitGate(att[w])
     THEN Becomes(w, [Decided(w) EXCEPT !.pc = "submitting"])
     ELSE Becomes(w, [Decided(w) EXCEPT !.pc = "recording", !.outcome = "NEEDS_REVIEW"])

\* SAFE_MODE or dry_run closes the gate whatever the finisher says.
GateIsClosed(w) ==
  /\ att[w].pc = "deciding"
  /\ Becomes(w, [Decided(w) EXCEPT !.pc = "recording", !.outcome = "NEEDS_REVIEW"])

\* The employer gets the application; noticed says whether a record will tell.
Send(w, noticed) ==
  LET j == att[w].job
  IN /\ Fields \subseteq form[w]
     /\ received' = [received EXCEPT ![j] = @ + 1]
     /\ unnoticed' = IF noticed THEN unnoticed ELSE [unnoticed EXCEPT ![j] = @ + 1]

\* The site takes a complete form and shows a new address, shows it late or
\* not at all, or shows a notice.
ClickAccepted(w) ==
  /\ att[w].pc = "submitting"
  /\ \E how \in {"seen", "late", "alert"} :
       /\ att' = [att EXCEPT ![w].pc = "reading", ![w].sent = how]
       /\ Send(w, how = "seen" /\ owner[att[w].job] = w)
  /\ UNCHANGED <<records, again, form, active, left, faults>>

\* The site shows what is wrong, or nothing.
ClickRefused(w) ==
  /\ att[w].pc = "submitting"
  /\ \E how \in {"alert", "nothing"} :
       Becomes(w, [att[w] EXCEPT !.pc = "reading", !.sent = how])

\* click() raises: the button is not there or cannot be clicked, or it was
\* clicked and the wait for what follows timed out.
ClickFails(w) ==
  /\ att[w].pc = "submitting"
  /\ att' = [att EXCEPT ![w].pc = "recording", ![w].outcome = "FAILED_OTHER"]
  /\ Send(w, FALSE) \/ UNCHANGED <<received, unnoticed>>
  /\ UNCHANGED <<records, again, form, active, left, faults>>

\* try_submit_and_classify after the click: a new address within five seconds,
\* else a notice, else nothing.
Classify(w) ==
  /\ att[w].pc = "reading"
  /\ Becomes(w, [att[w] EXCEPT !.pc = "recording",
       !.outcome = CASE att[w].sent = "seen" -> "SUBMITTED"
                     [] att[w].sent = "alert" -> "NEEDS_REVIEW"
                     [] OTHER -> "FAILED_OTHER"])

\* claim_next_apply_job passes over a review run that has a SUCCESS or has
\* failed too often.
FailedRun(j) ==
  IF j \notin succeeded /\ failures[j] + 1 < MaxRetries THEN "ready" ELSE "FAILED"

\* Mutant of NeedsHandoff: every success is handed to the human.
NeedsHandoffAlways(o) == o \notin Failures

\* Only a run that needs review gets a handoff.
NeedsHandoff(o) == o = "NEEDS_REVIEW"

\* page.close, then record_apply_success with the handoff, or
\* record_apply_failure; both refuse a run that is no longer the worker's.
Record(w) ==
  LET a == att[w]
      owned == owner[a.job] = w
  IN /\ a.pc = "recording"
     /\ att' = [att EXCEPT ![w] = Rest]
     /\ active' = IF active = w THEN Elsewhere ELSE active
     /\ owner' = IF owned THEN [owner EXCEPT ![a.job] = NoOne] ELSE owner
     /\ run' = IF ~owned THEN run
               ELSE [run EXCEPT ![a.job] =
                       IF a.outcome \in Failures THEN FailedRun(a.job) ELSE "SUCCESS"]
     /\ failures' = IF owned /\ a.outcome \in Failures
                    THEN [failures EXCEPT ![a.job] = @ + 1] ELSE failures
     /\ succeeded' = IF owned /\ a.outcome \notin Failures
                     THEN succeeded \cup {a.job} ELSE succeeded
     /\ handoffs' = IF owned /\ NeedsHandoff(a.outcome)
                    THEN [handoffs EXCEPT ![a.job] = @ + 1] ELSE handoffs
     /\ form' = [form EXCEPT ![w] = {}]
     /\ UNCHANGED <<left, outside, faults>>

-----------------------------------------------------------------------------
(* Crashes, leases and the human. *)

\* The worker of w's run has seen the application go through, and a record
\* will tell unless the run is taken from it.
SawIt(a) == a.sent = "seen" /\ a.pc \in {"reading", "recording"}

\* Whoever has the claim of j's run does not record what it saw.
LoseSight(j) ==
  unnoticed' = IF owner[j] # NoOne /\ SawIt(att[owner[j]])
               THEN [unnoticed EXCEPT ![j] = @ + 1] ELSE unnoticed

\* The worker dies; its tab stays open in Chrome.
Crash(w) ==
  LET j == att[w].job
  IN /\ att[w].pc # "idle"
     /\ Fault
     /\ att' = [att EXCEPT ![w] = Rest]
     /\ IF owner[j] = w THEN owner' = [owner EXCEPT ![j] = NoOne] /\ LoseSight(j)
        ELSE UNCHANGED <<owner, unnoticed>>
     /\ IF att[w].pc = "opening" THEN UNCHANGED <<form, active, left>>
        ELSE /\ form' = [form EXCEPT ![j] = form[w], ![w] = {}]
             /\ active' = IF active = w THEN j ELSE active
             /\ left' = left \cup {j}
     /\ UNCHANGED <<run, failures, succeeded, handoffs, received, again>>

\* mark_stale_apply_runs_failed fails the run of a worker that is dead, or of
\* one that has outlived its lease and is still at work.
Sweep(j) ==
  /\ run[j] = "running"
  /\ IF owner[j] = NoOne THEN UNCHANGED faults ELSE Fault
  /\ run' = [run EXCEPT ![j] = FailedRun(j)]
  /\ failures' = [failures EXCEPT ![j] = @ + 1]
  /\ owner' = [owner EXCEPT ![j] = NoOne]
  /\ LoseSight(j)
  /\ UNCHANGED <<succeeded, handoffs, att, form, active, left, received, again>>

\* The human sends the application and approves the handoff, or approves or
\* rejects it without (a relaunch approves what it has enqueued anew).
HumanDecides(j) ==
  /\ handoffs[j] > 0
  /\ handoffs' = [handoffs EXCEPT ![j] = @ - 1]
  /\ received' = [received EXCEPT ![j] = @ + 1] \/ UNCHANGED received
  /\ UNCHANGED <<run, owner, failures, succeeded, att, form, active, left,
                 unnoticed, again, faults>>

-----------------------------------------------------------------------------

Prepare(w) == OpenForm(w) \/ NavigationFails(w) \/ Prefill(w) \/ FlowFails(w)
Connect(w) == Switch(w) \/ SwitchToOther(w) \/ SessionFails(w) \/ LoadFails(w)
Finish(w) ==
  \/ Preflight(w) \/ OtherTurn(w) \/ CompleteApply(w) \/ GiveUp(w) \/ UsageLimit(w)
  \/ RateLimited(w) \/ FinisherFails(w)
  \/ \E f \in Fields : FillField(w, f) \/ DraftField(w, f) \/ Defer(w, f)
Submit(w) ==
  \/ Decide(w) \/ GateIsClosed(w) \/ ClickAccepted(w) \/ ClickRefused(w) \/ ClickFails(w)
  \/ Classify(w) \/ Record(w)

Work(w) == Prepare(w) \/ Connect(w) \/ Finish(w) \/ Submit(w)

Next ==
  \/ \E w \in Workers : \/ Work(w) \/ Crash(w)
                         \/ \E j \in Jobs : Claim(w, j) \/ Enqueue(w, j)
  \/ \E j \in Jobs : Sweep(j) \/ HumanDecides(j)

Spec == Init /\ [][Next]_vars

\* Browser and model calls return, and the loop claims what is ready.
FairSpec ==
  /\ Spec
  /\ \A w \in Workers : WF_vars(Work(w)) /\ \A j \in Jobs : WF_vars(Claim(w, j))

-----------------------------------------------------------------------------
(* Properties. *)

\* The worker clicks submit only if nothing was left to the human in any pass
\* of the conversation, not even before a rate limit cut one short.
SubmitsAreVetted ==
  [][\A w \in Workers :
       att[w].pc # "submitting" /\ att'[w].pc = "submitting" =>
         att[w].doubts = {}]_vars

\* What the worker submits is complete, unless the agent was led to a tab that
\* is not the worker's.
SubmittedFormIsComplete ==
  \A w \in Workers :
    att[w].pc = "submitting" /\ ~att[w].astray => Fields \subseteq form[w]

\* The employer has one application of a job, one more for each time the user
\* asked for another run of a job known to be applied for or in the human's
\* hands, and one more for each no record tells of: its page said too little,
\* its click raised, or its run had been taken from its worker.
EveryApplicationIsExplained ==
  \A j \in Jobs : received[j] <= 1 + again[j] + unnoticed[j]

\* A job that is ready settles or is left by a worker that died, however often
\* pages, sessions and the model fail.
EveryRunSettles ==
  \A j \in Jobs :
    run[j] = "ready" ~> (run[j] \in Settled \/ (run[j] = "running" /\ owner[j] = NoOne))

=============================================================================
