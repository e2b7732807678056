--------------------------- MODULE ResumePipeline ---------------------------
(* The tailor pipeline of one job: what it writes into the job's artifact    *)
(* directory, what it asks the tailor, trim and reviewer calls, and what it  *)
(* publishes (src/src/agents/resume_tailor).                                 *)
(*                                                                           *)
(* A resume is a sequence of tokens (ResumeContract).  A proposal names a    *)
(* bullet by its id; here, by the place of the bullet that was shown with    *)
(* it, which is no bullet if the id is made up.  A model call answers        *)
(* anything in Outputs, or fails; LaTeX may fail on any text.  The steps of  *)
(* two runs of the job interleave: the API and a script have processes of    *)
(* their own, and a run whose row was swept or deleted goes on.              *)
EXTENDS ResumeContract

CONSTANTS
  Base,       \* config/resume.tex at first
  Resumes,    \* texts somebody may upload
  PageSize,   \* tokens that fit on a page
  Outputs,    \* the lists of rewrites a tailor or trim call may answer
  MaxRuns,    \* bound: tailor runs of the job
  MaxEdits    \* bound: uploads of a resume

ASSUME PipelineAssumption ==
  /\ PageSize \in Nat \ {0}
  /\ Conforms(Base)
  /\ \A text \in Resumes \cup {Base} : text \in Seq(STRING) /\ Len(text) <= PageSize
  /\ MaxRuns \in Nat /\ MaxEdits \in Nat
  /\ Outputs \subseteq Seq([bullet : Nat, text : Seq(STRING)])

RunIds == 1 .. MaxRuns
PageLimit == 1
NoText == <<>>

VARIABLES
  resume,   \* config/resume.tex
  rows,     \* tailor_runs
  task,     \* the coroutine of each run
  disk,     \* <output_dir>/<job_hash>/<variant>/<variant>.{tex,pdf}
  removing, \* runs whose artifact_pdf_path a DELETE or retry request holds
  writer,   \* the run that last wrote each variant (history)
  reviews,  \* review_runs, in the order they were inserted
  edits

settings == <<resume, edits>>
vars == <<settings, rows, task, disk, removing, writer, reviews>>

Variants == {"base", "tailored_v1", "tailored_v2"}
Idle == [pc |-> "idle", base |-> NoText, v1 |-> NoText, v2 |-> NoText,
         source |-> NoText, asked |-> <<>>, artifact |-> "none",
         selected |-> "none", better |-> NoText]
NoRow == [status |-> "NONE", deleted |-> FALSE, artifact |-> "none"]

Init ==
  /\ resume = Base
  /\ edits = 0
  /\ rows = [r \in RunIds |-> NoRow]
  /\ task = [r \in RunIds |-> Idle]
  /\ disk = [v \in Variants |-> [tex |-> NoText, pdf |-> NoText]]
  /\ removing = {}
  /\ writer = [v \in Variants |-> 0]
  /\ reviews = <<>>

-----------------------------------------------------------------------------
(* config/resume.tex. *)

\* Bound: runs of the job that have yet to load the resume.
MayLoad(r) == rows[r].status = "NONE" \/ task[r].pc \in {"start", "load"}

\* POST /settings/resume: a text that keeps the contract.
UploadResume(text) ==
  /\ edits < MaxEdits /\ \E r \in RunIds : MayLoad(r)
  /\ Conforms(text)
  /\ resume' = text
  /\ edits' = edits + 1
  /\ UNCHANGED <<rows, task, disk, removing, writer, reviews>>

-----------------------------------------------------------------------------
(* The patcher. *)

Pages(text) == (Len(text) + PageSize - 1) \div PageSize

\* latex_safe: an even number of dollars is math, an odd one is currency.
Sanitized(text) ==
  LET dollars == Cardinality({k \in DOMAIN text : text[k] = "$"})
      safe(t) == IF t = "&" THEN "\\&" ELSE IF t = "$" /\ dollars % 2 = 1 THEN "\\$" ELSE t
  IN [k \in DOMAIN text |-> safe(text[k])]

\* bullet_index: of the bullets with one id, the last.
Indexed(manifest, b) == Max({c \in DOMAIN manifest : manifest[c].id = manifest[b].id})

\* _resolve_patches_from_proposals: a rewrite of an id that is not in the
\* manifest is dropped.
Patches(manifest, out) ==
  LET known == Kept(out, {k \in DOMAIN out : out[k].bullet \in DOMAIN manifest})
  IN [k \in DOMAIN known |-> [span |-> manifest[Indexed(manifest, known[k].bullet)],
                              text |-> known[k].text]]

Overlap(patches) ==
  \E i, j \in DOMAIN patches : /\ i # j
                               /\ patches[i].span.from <= patches[j].span.from
                               /\ patches[j].span.from < patches[i].span.to

Splice(text, patch) ==
  SubSeq(text, 1, patch.span.from - 1) \o Sanitized(patch.text)
    \o SubSeq(text, patch.span.to, Len(text))

\* p put between those of patches at the places in I and the others.
Inserted(patches, p, I) ==
  Kept(patches, I) \o <<p>> \o Kept(patches, DOMAIN patches \ I)

\* Mutant of InSpliceOrder: from the front, so that spans move under way.
FromTheFront(patches) ==
  LET sorted[n \in 0 .. Len(patches)] ==
        IF n = 0 THEN <<>>
        ELSE LET done == sorted[n - 1]
                 p == patches[n]
             IN Inserted(done, p, {k \in DOMAIN done : done[k].span.from <= p.span.from})
  IN sorted[Len(patches)]

\* _validate_and_sort_patches: from the back, so that earlier offsets stay valid.
InSpliceOrder(patches) ==
  LET sorted[n \in 0 .. Len(patches)] ==
        IF n = 0 THEN <<>>
        ELSE LET done == sorted[n - 1]
                 p == patches[n]
             IN Inserted(done, p, {k \in DOMAIN done : done[k].span.from >= p.span.from})
  IN sorted[Len(patches)]

ApplyPatches(text, patches) ==
  LET sorted == InSpliceOrder(patches)
      spliced[k \in 0 .. Len(sorted)] ==
        IF k = 0 THEN text ELSE Splice(spliced[k - 1], sorted[k])
  IN spliced[Len(sorted)]

-----------------------------------------------------------------------------
(* The directory of the job.  compile_resume_tex overwrites the PDF when it  *)
(* succeeds and leaves the old one when it does not.                         *)

WriteTex(r, variant, text) ==
  /\ disk' = [disk EXCEPT ![variant].tex = text]
  /\ writer' = [writer EXCEPT ![variant] = r]

\* Compiles whatever the file holds by now, if it is still there.
CompileVariant(variant) ==
  /\ disk[variant].tex # NoText
  /\ disk' = [disk EXCEPT ![variant].pdf = disk[variant].tex]

PagesOf(variant) == Pages(disk'[variant].pdf)

Go(r, pc) == task' = [task EXCEPT ![r].pc = pc]

-----------------------------------------------------------------------------
(* Rows: the worker's claim and the endpoints (TailorRuns has them in full). *)

\* Neither the claim nor the endpoints start a run beside one that is active
\* or has succeeded, unless that one is deleted.
StartRun(r) ==
  /\ rows[r].status = "NONE"
  /\ \A q \in RunIds : /\ rows[q].status \notin {"RUNNING", "SUCCESS"} \/ rows[q].deleted
                       /\ q < r => rows[q].status # "NONE"
  /\ rows' = [rows EXCEPT ![r].status = "RUNNING"]
  /\ Go(r, "start")
  /\ UNCHANGED <<settings, disk, removing, writer, reviews>>

\* DELETE and retry.  The row was read before, and may not have had its artifact
\* yet; a failed one never has.
DeleteRun(r) ==
  /\ rows[r].status \in {"RUNNING", "SUCCESS"} /\ ~rows[r].deleted
  /\ rows' = [rows EXCEPT ![r].deleted = TRUE]
  /\ \/ removing' = removing
     \/ rows[r].status = "SUCCESS" /\ removing' = removing \cup {r}
  /\ UNCHANGED <<settings, task, disk, writer, reviews>>

\* _cleanup_tailor_artifacts: rmtree on the variant that the row names, a file
\* at a time, and errors ignored.  Another run may have started or ended since,
\* and another request may have read the row before it was deleted.
RemoveArtifact(r, kind) ==
  /\ r \in removing
  /\ disk' = [disk EXCEPT ![rows[r].artifact][kind] = NoText]
  /\ removing' \in {removing, removing \ {r}}
  /\ UNCHANGED <<settings, rows, task, writer, reviews>>

\* The sweep of a run that outlived its lease; its coroutine is not told.
SweepRun(r) ==
  /\ rows[r].status = "RUNNING"
  /\ rows' = [rows EXCEPT ![r].status = "FAILED"]
  /\ UNCHANGED <<settings, task, disk, removing, writer, reviews>>

-----------------------------------------------------------------------------
(* run_tailor_review_pipeline, one action for what happens between two       *)
(* points at which another run may step.                                     *)

\* What is published, the variant the row will name, and the text the last
\* verdict preferred (history).
Publish(r, verdict, selected, artifact) ==
  LET t == task[r]
      better == IF verdict # "TAILORED" THEN t.base ELSE IF t.v2 # NoText THEN t.v2 ELSE t.v1
  IN task' = [task EXCEPT ![r] = [Idle EXCEPT !.pc = "publish", !.selected = selected,
                                              !.artifact = artifact, !.better = better]]

\* _maybe_enrich_job_description: a stub of a description is fetched again and
\* stored.  Descriptions are not told apart here, and that there is nothing to
\* fetch, or that it fails or is not stored, is no reason not to go on.
EnrichJobDescription(r) ==
  /\ task[r].pc = "start"
  /\ Go(r, "load")
  /\ UNCHANGED <<settings, rows, disk, removing, writer, reviews>>

\* Loads the resume, checks its contract and writes the base variant.
WriteBase(r) ==
  /\ task[r].pc = "load"
  /\ Conforms(resume)
  /\ WriteTex(r, "base", resume)
  /\ task' = [task EXCEPT ![r].pc = "base", ![r].base = resume]
  /\ UNCHANGED <<settings, rows, removing, reviews>>

CompileBase(r) ==
  /\ task[r].pc = "base"
  /\ CompileVariant("base")
  /\ Go(r, "tailor")
  /\ UNCHANGED <<settings, rows, removing, writer, reviews>>

\* The bail: nothing was proposed, or every edit dropped.
ShipBase(r) ==
  /\ Publish(r, "NO_IMPROVEMENT", "base", "base")
  /\ UNCHANGED <<settings, rows, disk, removing, writer, reviews>>

Tailored(r, text, from, out, pc) ==
  task' = [task EXCEPT ![r] = [@ EXCEPT !.pc = pc, !.v1 = text, !.source = from, !.asked = out]]

AnswerTailor(r, out) ==
  /\ task[r].pc = "tailor"
  /\ LET patches == Patches(Manifest(task[r].base), out)
         text == ApplyPatches(task[r].base, patches)
     IN /\ ~Overlap(patches)
        /\ IF patches = <<>> THEN ShipBase(r)
           ELSE /\ Tailored(r, text, task[r].base, out, "v1")
                /\ WriteTex(r, "tailored_v1", text)
                /\ UNCHANGED <<settings, rows, removing, reviews>>

Measured(r, pc) ==
  task' = [task EXCEPT ![r] = [@ EXCEPT !.pc = pc, !.source = NoText, !.asked = <<>>]]

\* The page fit failed: the base resume is selected.
PageFitFails(r) == Publish(r, "PAGE_FIT_FAILED", "base", "tailored_v1")

\* Mutant of CompileV1: trimmed again until it fits.
CompileV1UntilItFits(r) ==
  /\ task[r].pc \in {"v1", "v1_trimmed"}
  /\ CompileVariant("tailored_v1")
  /\ Measured(r, IF PagesOf("tailored_v1") <= PageLimit THEN "review" ELSE "trim")
  /\ UNCHANGED <<settings, rows, removing, writer, reviews>>

CompileV1(r) ==
  /\ task[r].pc \in {"v1", "v1_trimmed"}
  /\ CompileVariant("tailored_v1")
  /\ IF PagesOf("tailored_v1") <= PageLimit THEN Measured(r, "review")
     ELSE IF task[r].pc = "v1" THEN Measured(r, "trim")
     ELSE PageFitFails(r)
  /\ UNCHANGED <<settings, rows, removing, writer, reviews>>

\* The trim call is shown, and patched against, the tailored text.
TrimManifest(r) == Manifest(task[r].v1)

AnswerTrim(r, out) ==
  /\ task[r].pc = "trim"
  /\ LET patches == Patches(TrimManifest(r), out)
         text == ApplyPatches(task[r].v1, patches)
     IN /\ ~Overlap(patches)
        /\ IF patches = <<>>
           THEN PageFitFails(r) /\ UNCHANGED <<disk, writer>>
           ELSE /\ Tailored(r, text, task[r].v1, out, "v1_trimmed")
                /\ WriteTex(r, "tailored_v1", text)
  /\ UNCHANGED <<settings, rows, removing, reviews>>

\* _select_final_variant
SelectFinal(verdict, tailored) == IF verdict = "TAILORED" THEN tailored ELSE "base"

\* The row names the tailored variant even if the base resume is selected.
Select(r, verdict, tailored) ==
  Publish(r, verdict, SelectFinal(verdict, tailored), tailored)

\* The two-way verdict; a better base has the resume tailored once more.
AnswerReview(r, verdict) ==
  /\ task[r].pc = "review"
  /\ IF verdict = "BASE" THEN Go(r, "retailor")
     ELSE Select(r, verdict, "tailored_v1")
  /\ UNCHANGED <<settings, rows, disk, removing, writer, reviews>>

Retailored(r, text, out) ==
  task' = [task EXCEPT ![r] = [@ EXCEPT !.pc = "v2", !.v1 = NoText, !.v2 = text,
                                        !.source = task[r].base, !.asked = out]]

AnswerRetailor(r, out) ==
  /\ task[r].pc = "retailor"
  /\ LET patches == Patches(Manifest(task[r].base), out)
         text == ApplyPatches(task[r].base, patches)
     IN /\ ~Overlap(patches)
        /\ IF patches = <<>>
           THEN /\ Select(r, "BASE", "tailored_v1")
                /\ UNCHANGED <<disk, writer>>
           ELSE /\ Retailored(r, text, out)
                /\ WriteTex(r, "tailored_v2", text)
  /\ UNCHANGED <<settings, rows, removing, reviews>>

\* Mutant of CompileV2: the second attempt is not measured.
CompileV2Unmeasured(r) ==
  /\ task[r].pc = "v2"
  /\ CompileVariant("tailored_v2")
  /\ Measured(r, "three_way")
  /\ UNCHANGED <<settings, rows, removing, writer, reviews>>

\* A second attempt that does not fit is dropped for the two-way verdict.
CompileV2(r) ==
  /\ task[r].pc = "v2"
  /\ CompileVariant("tailored_v2")
  /\ IF PagesOf("tailored_v2") <= PageLimit THEN Measured(r, "three_way")
     ELSE Select(r, "BASE", "tailored_v1")
  /\ UNCHANGED <<settings, rows, removing, writer, reviews>>

\* Mutant of AnswerThreeWay: the first attempt is shipped for the second.
AnswerThreeWayForV1(r, verdict) ==
  /\ task[r].pc = "three_way"
  /\ Select(r, verdict, "tailored_v1")
  /\ UNCHANGED <<settings, rows, disk, removing, writer, reviews>>

AnswerThreeWay(r, verdict) ==
  /\ task[r].pc = "three_way"
  /\ Select(r, verdict, "tailored_v2")
  /\ UNCHANGED <<settings, rows, disk, removing, writer, reviews>>

\* insert_pipeline_review_run, a transaction of its own.
InsertReviewRun(r) ==
  /\ task[r].pc = "publish"
  /\ reviews' = Append(reviews, [run |-> r, selected |-> task[r].selected,
                                 better |-> task[r].better])
  /\ task' = [task EXCEPT ![r] = [Idle EXCEPT !.pc = "record", !.artifact = task[r].artifact]]
  /\ UNCHANGED <<settings, rows, disk, removing, writer>>

\* record_tailor_success: only a row that is still active.
RecordSuccess(r) ==
  /\ task[r].pc = "record"
  /\ rows' = IF rows[r].status # "RUNNING" THEN rows
             ELSE [rows EXCEPT ![r].status = "SUCCESS", ![r].artifact = task[r].artifact]
  /\ task' = [task EXCEPT ![r] = Idle]
  /\ UNCHANGED <<settings, disk, removing, writer, reviews>>

\* A resume that does not load or keep its contract, LaTeX, a model call or
\* the database failing, overlapping patches: from any step.  A process that
\* dies is a sweep of its row before this.
RecordFailure(r) ==
  /\ task[r].pc # "idle"
  /\ rows' = IF rows[r].status # "RUNNING" THEN rows
             ELSE [rows EXCEPT ![r].status = "FAILED"]
  /\ task' = [task EXCEPT ![r] = Idle]
  /\ UNCHANGED <<settings, disk, removing, writer, reviews>>

-----------------------------------------------------------------------------
\* The answers to a model call that the code goes on with.
Answered(r) ==
  \/ \E out \in Outputs : AnswerTailor(r, out) \/ AnswerTrim(r, out) \/ AnswerRetailor(r, out)
  \/ \E verdict \in {"TAILORED", "BASE", "NO_IMPROVEMENT"} :
       AnswerReview(r, verdict) \/ AnswerThreeWay(r, verdict)

PipelineStep(r) ==
  \/ EnrichJobDescription(r) \/ WriteBase(r) \/ CompileBase(r)
  \/ CompileV1(r) \/ CompileV2(r)
  \/ Answered(r)
  \/ InsertReviewRun(r) \/ RecordSuccess(r)

Next ==
  \/ \E r \in RunIds :
       \/ StartRun(r) \/ DeleteRun(r) \/ SweepRun(r)
       \/ \E kind \in {"tex", "pdf"} : RemoveArtifact(r, kind)
       \/ PipelineStep(r) \/ RecordFailure(r)
  \/ \E text \in Resumes : UploadResume(text)

Spec == Init /\ [][Next]_vars

\* Every await of the pipeline ends: LaTeX and the model calls have timeouts,
\* and what they raise is recorded.
FairSpec == Spec /\ \A r \in RunIds : WF_vars(RecordFailure(r) \/ PipelineStep(r))

-----------------------------------------------------------------------------
(* Properties *)

Body(text, span) == SubSeq(text, span.from, span.to - 1)

\* A text copied from front to back with other bodies for its bullets, up to
\* the b-th one and what stands behind it.
Woven(text, spans, bodies) ==
  LET start(b) == IF b > Len(spans) THEN Len(text) + 1 ELSE spans[b].from
      woven[b \in 0 .. Len(spans)] ==
        IF b = 0 THEN SubSeq(text, 1, start(1) - 1)
        ELSE woven[b - 1] \o bodies[b] \o SubSeq(text, spans[b].to, start(b + 1) - 1)
  IN woven

\* The places of asked that rewrite bullet b.
Rewrites(spans, asked, b) ==
  {k \in DOMAIN asked : /\ asked[k].bullet \in DOMAIN spans
                        /\ Indexed(spans, asked[k].bullet) = b}

\* What each bullet should hold: a rewrite of it, or what it held.
Bodies(text, spans, asked) ==
  [b \in DOMAIN spans |->
     IF Rewrites(spans, asked, b) = {} THEN Body(text, spans[b])
     ELSE Sanitized(asked[CHOOSE k \in Rewrites(spans, asked, b) : TRUE].text)]

\* Several rewrites of a bullet do not overlap if its body is empty: all go in.
PilesUp(spans, asked) ==
  \E b \in DOMAIN spans :
    /\ spans[b].from = spans[b].to
    /\ \E j, k \in Rewrites(spans, asked, b) : j # k

JustPatched(r) ==
  /\ task[r].pc \in {"v1", "v1_trimmed", "v2"}
  /\ ~PilesUp(Manifest(task[r].source), task[r].asked)
Patched(r) == IF task[r].pc = "v2" THEN task[r].v2 ELSE task[r].v1

\* Whatever a model answered, and on a text that was patched before: each
\* bullet it rewrote holds the rewrite, each other bullet what it held, and
\* nothing outside the bullets has changed or moved (locator and patcher).
RewritesLand ==
  \A r \in RunIds : JustPatched(r) =>
    LET spans == Manifest(task[r].source)
    IN Patched(r) = Woven(task[r].source, spans,
                          Bodies(task[r].source, spans, task[r].asked))[Len(spans)]

\* The trim call is shown the bullets of a text that has rewrites in it: those
\* of the text before, each where its body has gone, or within the braces that
\* an \item was rewritten to have around its body.  (Of rewrites that close the
\* braces they open and hold no macros, as those in Outputs of the runs.)
BulletsAreFoundAgain ==
  \A r \in RunIds : JustPatched(r) =>
    LET before == Manifest(task[r].source)
        after == Manifest(Patched(r))
        bodies == Bodies(task[r].source, before, task[r].asked)
        woven == Woven(task[r].source, before, bodies)
        first(b) == Len(woven[b - 1]) + 1
        last(b) == Len(woven[b - 1]) + Len(bodies[b])
    IN /\ DOMAIN after = DOMAIN before
       /\ \A b \in DOMAIN after :
            \/ after[b].from = first(b) /\ after[b].to = last(b) + 1
            \/ /\ after[b].from = first(b) + 1 /\ after[b].to = last(b)
               /\ Patched(r)[first(b) - 1] = "I" /\ Patched(r)[first(b)] = "{"

\* The runs whose files nobody wrote over.
Undisturbed(review) == writer[review.selected] = review.run

\* A run was deleted whose row names the variant.
Removed(variant) == \E q \in RunIds : rows[q].deleted /\ rows[q].artifact = variant

\* What apply uploads for a review is the text its last verdict preferred, as
\* long as no other run wrote the variant: trimmed, second and dropped attempts
\* do not get mixed up between the reviewer and the directory.  If there is
\* nothing to upload, a run was deleted, of this review or another, whose row
\* names the variant.
ShippedWasPreferred ==
  \A k \in DOMAIN reviews : Undisturbed(reviews[k]) =>
    LET pdf == disk[reviews[k].selected].pdf
    IN pdf = reviews[k].better \/ (pdf = NoText /\ Removed(reviews[k].selected))

\* ... and it has one page.
ShippedFitsPage ==
  \A k \in DOMAIN reviews : Undisturbed(reviews[k]) =>
    LET pdf == disk[reviews[k].selected].pdf
    IN pdf = NoText \/ Pages(pdf) <= PageLimit

\* A run does not go on for ever: at any time, its coroutine will return.
EveryPipelineEnds ==
  \A r \in RunIds : []<>(task[r].pc = "idle")

=============================================================================
