----------------------------- MODULE AnswerCache -----------------------------
(***************************************************************************)
(* What the finisher learns from its reviewers: an attempt reads           *)
(* answer_cache.yaml, looks questions up and defers others; the reviewer   *)
(* answers the deferred ones in the handoff, and POST                      *)
(* /human-review/{id}/answers appends the answers to the file for the next *)
(* attempts.                                                               *)
(*                                                                         *)
(* Questions are labels told apart by normalize().  The reviewer of an     *)
(* application names no company but its own, and no answer holds the       *)
(* placeholder $COMPANY.                                                   *)
(*                                                                         *)
(* The names a specification usually has begin with Cache here, so that a  *)
(* module can extend this one and that of the other shared files.          *)
(***************************************************************************)
EXTENDS Naturals, Sequences, SequencesExt

CONSTANTS
  Companies,
  Questions,
  Unlabelled,     \* questions with no label, or "(no label)"
  Ratio,          \* token_set_ratio of two questions
  Answers,
  Blank,          \* the answer left empty
  NamedIn,        \* of each question and answer: the company it names, if any
  Anyone,         \* no company: "_", or an anonymized entry
  Refs,           \* field ids of the finisher's snapshots
  Attempts,       \* browser runs, in processes of their own
  Requests,       \* requests to save answers that may be under way
  MaxSaves,       \* bound on requests to save
  MaxDeferred     \* bound on the questions of a handoff

Threshold == 85

ASSUME CacheConstants ==
  /\ Blank \in Answers /\ Anyone \notin Companies
  /\ Unlabelled \subseteq Questions
  /\ Ratio \in [Questions -> [Questions -> 0 .. 100]]
  /\ \A q \in Questions : Ratio[q][q] = 100
  /\ NamedIn \in [Questions \cup Answers -> Companies \cup {Anyone}]
  /\ MaxSaves \in Nat /\ MaxDeferred \in Nat

VARIABLES
  missing,    \* there is no answer_cache.yaml
  file,       \* its entries
  attempt,
  handoff,    \* of each company: the questions of the open handoff
  request,
  saves,
  seeded,     \* history: company and label of the answers cached
  wiped       \* history: a run has put an empty file over the entries

cacheVars == <<missing, file, attempt, handoff, request, saves, seeded, wiped>>

\* company is Anyone unless company_specific.
Entry == [question : Questions, answer : Answers, company : Companies \cup {Anyone}]

Deferred == [ref : Refs, question : Questions]
Typed == [ref : Refs, answer : Answers]

IdleAttempt == [pc |-> "idle", company |-> Anyone, cache |-> <<>>]
NoRequest == [pc |-> "idle", company |-> Anyone, deferred |-> <<>>, answers |-> <<>>]

CacheTypeOK ==
  /\ missing \in BOOLEAN
  /\ file \in Seq(Entry)
  /\ attempt \in [Attempts -> [pc : {"idle", "bootstrapping", "filling"},
                               company : Companies \cup {Anyone},
                               cache : Seq(Entry)]]
  /\ handoff \in [Companies -> Seq(Deferred)]
  /\ request \in [Requests -> [pc : {"idle", "saved"},
                               company : Companies \cup {Anyone},
                               deferred : Seq(Deferred), answers : Seq(Typed)]]
  /\ saves \in 0 .. MaxSaves
  /\ seeded \subseteq Companies \X Questions
  /\ wiped \in BOOLEAN

CacheInit ==
  /\ missing = TRUE
  /\ file = <<>>
  /\ attempt = [w \in Attempts |-> IdleAttempt]
  /\ handoff = [c \in Companies |-> <<>>]
  /\ request = [r \in Requests |-> NoRequest]
  /\ saves = 0
  /\ seeded = {}
  /\ wiped = FALSE

-----------------------------------------------------------------------------
(* Looking up. *)

Miss == [score |-> 0, answer |-> Blank]

\* The entries filed under one company, or under none.
Filed(cache, c) == {i \in DOMAIN cache : cache[i].company = c}

Exact(cache, q, c) == {i \in Filed(cache, c) : cache[i].question = q}
Near(cache, q, c) ==
  {i \in Filed(cache, c) : Ratio[q][cache[i].question] >= Threshold}

\* The first entry with the question itself, else the first of the nearest.
Best(cache, q, c) ==
  LET exact == Exact(cache, q, c)
      near == Near(cache, q, c)
      score(i) == Ratio[q][cache[i].question]
  IN IF exact # {}
     THEN CHOOSE i \in exact : \A k \in exact : i <= k
     ELSE CHOOSE i \in near : \A k \in near :
            \/ score(k) < score(i)
            \/ score(k) = score(i) /\ i <= k

BestHit(cache, q, c) ==
  IF Near(cache, q, c) = {} THEN Miss
  ELSE LET entry == cache[Best(cache, q, c)]
       IN [score |-> Ratio[q][entry.question], answer |-> entry.answer]

\* Mutant of Lookup: without the anonymized entries.
LookupOfCompany(cache, q, c) == BestHit(cache, q, c)

\* Mutant of Lookup: the anonymized entry wins a tie.
LookupSharedFirst(cache, q, c) ==
  LET own == BestHit(cache, q, c)
      anonymized == BestHit(cache, q, Anyone)
  IN IF c # Anyone /\ own.score > anonymized.score THEN own ELSE anonymized

\* The company's own entry wins a tie.
Lookup(cache, q, c) ==
  LET own == BestHit(cache, q, c)
      anonymized == BestHit(cache, q, Anyone)
  IN IF c # Anyone /\ own.score >= anonymized.score THEN own ELSE anonymized

-----------------------------------------------------------------------------
(* Seeding. *)

\* Mutant of IsCompanySpecific: the answer is not looked at.
LabelNamesCompany(c, q, a) == NamedIn[q] = c

IsCompanySpecific(c, q, a) == NamedIn[q] = c \/ NamedIn[a] = c

AlreadyCached(cache, q, a, c) ==
  LET hit == Lookup(cache, q, c) IN hit.score = 100 /\ hit.answer = a

\* _index_questions_by_field_id: of two questions with one field id the later.
QuestionOf(deferred, ref) ==
  LET found == {i \in DOMAIN deferred : deferred[i].ref = ref}
  IN {deferred[i].question : i \in {k \in found : \A l \in found : l <= k}}

\* One answer: appended unless it is blank, has no question or no label, or is
\* what the lookup gives already.
AppendAnswer(cache, c, deferred, typed) ==
  LET found == QuestionOf(deferred, typed.ref) \ Unlabelled
      q == CHOOSE x \in found : TRUE
      filedUnder == IF IsCompanySpecific(c, q, typed.answer) THEN c ELSE Anyone
  IN IF \/ typed.answer = Blank
        \/ found = {}
        \/ AlreadyCached(cache, q, typed.answer, filedUnder)
     THEN cache
     ELSE Append(cache, [question |-> q, answer |-> typed.answer, company |-> filedUnder])

SeedAnswers(cache, c, deferred, answers) ==
  LET seeding[n \in 0 .. Len(answers)] ==
        IF n = 0 THEN cache ELSE AppendAnswer(seeding[n - 1], c, deferred, answers[n])
  IN seeding[Len(answers)]

\* The questions some of the answers are for.
Labels(deferred, answers) ==
  UNION {QuestionOf(deferred, answers[i].ref) \ Unlabelled :
           i \in {k \in DOMAIN answers : answers[k].answer # Blank}}

-----------------------------------------------------------------------------
(* The finisher. *)

\* load_answer_cache: the file is read, or found missing.
LoadAnswerCache(w, c) ==
  /\ attempt[w].pc = "idle"
  /\ attempt' = [attempt EXCEPT ![w] =
       [IdleAttempt EXCEPT !.pc = IF missing THEN "bootstrapping" ELSE "filling",
                           !.company = c, !.cache = file]]
  /\ UNCHANGED <<missing, file, handoff, request, saves, seeded, wiped>>

\* write_text of an empty document, whatever another process has written since.
Bootstrap(w) ==
  /\ attempt[w].pc = "bootstrapping"
  /\ missing' = FALSE
  /\ file' = <<>>
  /\ wiped' = (wiped \/ file # <<>>)
  /\ attempt' = [attempt EXCEPT ![w].pc = "filling"]
  /\ UNCHANGED <<handoff, request, saves, seeded>>

\* The questions an attempt for c can have deferred.  Another snapshot may give
\* a field id to another question.
DeferredFor(c) ==
  LET own == {d \in Deferred : NamedIn[d.question] \in {c, Anyone}}
  IN BoundedSeq(own, MaxDeferred)

\* record_apply_handoff, with what the attempt has deferred on its way.
RecordHandoff(w, deferred) ==
  /\ attempt[w].pc = "filling"
  /\ handoff' = [handoff EXCEPT ![attempt[w].company] = deferred]
  /\ attempt' = [attempt EXCEPT ![w] = IdleAttempt]
  /\ UNCHANGED <<missing, file, request, saves, seeded, wiped>>

-----------------------------------------------------------------------------
(* The reviewer. *)

\* save_handoff_user_answers; no attempt reads what it stores.
SaveAnswers(r, c, answers) ==
  /\ request[r].pc = "idle" /\ saves < MaxSaves
  /\ handoff[c] # <<>>
  /\ saves' = saves + 1
  /\ request' = [request EXCEPT ![r] = [pc |-> "saved", company |-> c,
                                              deferred |-> handoff[c], answers |-> answers]]
  /\ UNCHANGED <<missing, file, attempt, handoff, seeded, wiped>>

\* What the dashboard posts: an entry for each of the fields, in order, with
\* what is typed for its field id; the answers name no other company.
Drafts(c) ==
  LET ownAnswers == {a \in Answers : NamedIn[a] \in {c, Anyone}}
      DraftOf(typed) == [i \in DOMAIN handoff[c] |->
                          [ref |-> handoff[c][i].ref, answer |-> typed[handoff[c][i].ref]]]
  IN {DraftOf(typed) : typed \in [{handoff[c][i].ref : i \in DOMAIN handoff[c]} -> ownAnswers]}

\* The file once answers have been seeded into it.
Seeded(r, answers) ==
  LET c == request[r].company
      deferred == request[r].deferred
  IN /\ missing' = FALSE
     /\ file' = SeedAnswers(file, c, deferred, answers)
     /\ seeded' = seeded \cup {<<c, q>> : q \in Labels(deferred, answers)}
     /\ request' = [request EXCEPT ![r] = NoRequest]
     /\ UNCHANGED <<attempt, handoff, saves, wiped>>

\* seed_answer_cache_from_handoff, under the lock and without an await.
SeedFromHandoff(r) ==
  /\ request[r].pc = "saved"
  /\ Seeded(r, request[r].answers)

\* The write of an entry fails, or the process ends: those before it are there.
SeedingFails(r) ==
  /\ request[r].pc = "saved"
  /\ \E n \in 0 .. Len(request[r].answers) - 1 :
       Seeded(r, SubSeq(request[r].answers, 1, n))

-----------------------------------------------------------------------------

CacheNext ==
  \/ \E w \in Attempts :
       \/ Bootstrap(w)
       \/ \E c \in Companies : LoadAnswerCache(w, c)
       \/ \E deferred \in DeferredFor(attempt[w].company) : RecordHandoff(w, deferred)
  \/ \E r \in Requests :
       \/ SeedFromHandoff(r) \/ SeedingFails(r)
       \/ \E c \in Companies : \E answers \in Drafts(c) : SaveAnswers(r, c, answers)

CacheSpec == CacheInit /\ [][CacheNext]_cacheVars

-----------------------------------------------------------------------------
(* Properties. *)

\* A question that has been answered and cached for a company is not asked of
\* the reviewer again for want of an answer: the next lookup finds one.
AnsweredIsFound ==
  ~wiped => \A s \in seeded : Lookup(file, s[2], s[1]).score >= Threshold

\* A form is never filled in with an answer that names another company:
\* whatever an attempt looks up in the entries it has read.
NoForeignAnswer ==
  \A w \in Attempts : attempt[w].pc = "filling" =>
    \A q \in Questions :
      LET hit == Lookup(attempt[w].cache, q, attempt[w].company)
      IN hit.score > 0 => NamedIn[hit.answer] \in {attempt[w].company, Anyone}

\* Two forms of one company say the same: an answer cached for the question
\* itself stays the one that is found, until one that names the company comes.
AnswerStands ==
  [][\A c \in Companies, q \in Questions :
       /\ ~wiped'
       /\ \/ Exact(file, q, c) # {}
          \/ Exact(file, q, Anyone) # {} /\ Near(file', q, c) = {}
       => Lookup(file', q, c).answer = Lookup(file, q, c).answer]_cacheVars

=============================================================================
