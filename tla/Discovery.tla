------------------------------ MODULE Discovery ------------------------------
(***************************************************************************)
(* A discovery cycle: the families of fetchers crawl their sources side by *)
(* side, each source page by page, and what a crawl found is deduplicated, *)
(* filtered and inserted; then the cycle updates the daily statistics,     *)
(* announces new postings, removes old rows and starts over after a pause. *)
(*                                                                         *)
(* Sites change their listings and their texts, refuse requests and fail   *)
(* at any time, and another process may run its cycles on the same         *)
(* database, of which only what it does to the rows is kept.               *)
(***************************************************************************)
EXTENDS Naturals, FiniteSets, SequencesExt, Selection

CONSTANTS
  Families,      \* fetcher families with a section in companies.yaml
  Sources,       \* companies, boards or searches
  MayUse,        \* of each family: the fetchers it may have
  SourcesOf,     \* of each family: its sources in order
  Postings,      \* postings a site may list
  Titles,        \* company and title of a posting
  TitleOf,       \* of each posting: its company and title
  Home,          \* of each source: postings it may list
  Industry,      \* of each source: its industry tag, or Untagged
  Untagged,
  Wanted,        \* industries of the user's domains; none: no domain filter
  HardHits,      \* postings a hard filter matches
  Negatives,     \* postings with a negative keyword or too many years
  Positives,     \* postings with a positive keyword
  PageCap,       \* PAGE_CAP, max_pages, results_wanted; a page has one posting
  MaxEdits,      \* bound on edits by the sites, the gate, time and the other process
  MaxElsewhere,  \* bound on rows the other process inserts in a cycle
  MaxFaults      \* bound on requests, writes and processes that fail

ASSUME ConstantsAssumption ==
  /\ IsFiniteSet(Families) /\ {"nobody", "other"} \cap Families = {}
  /\ TitleOf \in [Postings -> Titles]
  /\ SourcesOf \in [Families -> Seq(Sources)]
  /\ Home \in [Sources -> SUBSET Postings]
  /\ \A s \in Sources : IsFiniteSet(Home[s])
  /\ HardHits \cup Negatives \cup Positives \subseteq Postings
  /\ PageCap \in Nat \ {0}
  /\ MaxEdits \in Nat
  /\ MaxElsewhere \in Nat
  /\ MaxFaults \in Nat

\* The supervisor's process and main.py run by hand or by a timer.
Processes == {"own", "other"}

\* job_hash: the posting, the text the site has for it (its date, description
\* and requirements, which the site may change) and whether the page with the
\* description could be read.
Hashes == Postings \X (0 .. MaxEdits) \X {"full", "bare"}

\* Whether a posting has its description.
Reading(clear) == IF clear THEN "full" ELSE "bare"

TitlesOf(rows) == {TitleOf[h[1]] : h \in rows}

Without(seq, p) == Kept(seq, {i \in DOMAIN seq : seq[i] # p})

-----------------------------------------------------------------------------
(* What the fetchers make of their sites.  pages: how a listing is paged;  *)
(* limited, gone, broken: what a refused, a missing and a failed request   *)
(* make of the crawl; details: each posting has a page of its own.         *)

Board == [pages |-> "one", limited |-> "nothing", gone |-> "nothing",
          broken |-> "raise", details |-> FALSE]

Greenhouse == Board
Lever == Board
Ashby == Board
GitHubRepo == [Board EXCEPT !.limited = "raise"]
JobSpy == [Board EXCEPT !.limited = "raise", !.gone = "raise"]
CareerPage == [Board EXCEPT !.limited = "raise", !.gone = "raise"]
Workday == [Board EXCEPT !.pages = "total", !.details = TRUE]
Taleo == [pages |-> "firstTotal", limited |-> "raise", gone |-> "raise",
          broken |-> "raise", details |-> TRUE]
ICIMS == [Board EXCEPT !.pages = "fresh", !.limited = "some", !.gone = "some"]
LinkedIn == [ICIMS EXCEPT !.pages = "empty", !.broken = "some"]
Adzuna == [ICIMS EXCEPT !.pages = "empty", !.gone = "raise"]

Fetchers == {Greenhouse, Lever, Ashby, GitHubRepo, JobSpy, CareerPage, Workday,
             Taleo, ICIMS, LinkedIn, Adzuna}

VARIABLES
  listing,    \* of each source: the postings the site lists, newest first
  edition,    \* of each posting: how often its text has changed
  fetcher,    \* of each family: its fetcher
  status,     \* of each hash: the status of its row in job_postings
  aged,       \* hashes whose row is older than 90 days
  by,         \* history: of each hash a running cycle finds fresh: who inserted it
  crawlRow,   \* of each source: the status of its latest crawl_history row
  fam,        \* of each family: where its coroutine is
  phase,      \* of each process: where its cycle is
  fresh,      \* of each process: hashes inserted, by anyone, since its cycle began
  stats,      \* daily_stats: jobs_new
  told,       \* history: how often a process announced a title
  purged,     \* history: how many rows of a title were removed
  lost,       \* history: titles inserted in a cycle or by a family that died
  edits, faults

rows == <<status, aged, by, fresh>>
cycle == <<phase, stats, told, purged, lost>>
vars == <<listing, edition, fetcher, rows, crawlRow, fam, cycle, edits, faults>>

Family == [pc : {"done", "next", "fetching", "found", "inserting", "failing",
                 "raised"},
           at : Nat,              \* the source it crawls
           page : 1 .. PageCap,
           total : Nat,           \* postings, as the first page said
           got : Seq(Hashes),     \* postings fetched
           todo : Seq(Hashes),    \* postings to insert
           new : Nat]             \* postings counted as new in this cycle
Asleep == [pc |-> "done", at |-> 0, page |-> 1, total |-> 0, got |-> <<>>,
           todo |-> <<>>, new |-> 0]

TypeOK ==
  /\ listing \in [Sources -> Seq(Postings)]
  /\ edition \in [Postings -> 0 .. MaxEdits]
  /\ fetcher \in [Families -> Fetchers]
  /\ status \in [Hashes -> {"none", "NEW", "QUALIFIED", "FILTERED"}]
  /\ aged \subseteq Hashes
  /\ by \in [Hashes -> Families \cup {"nobody", "other"}]
  /\ crawlRow \in [Sources -> {"none", "IN_PROGRESS", "SUCCESS", "FAILED"}]
  /\ fam \in [Families -> Family]
  /\ phase \in [Processes -> {"sleeping", "crawling", "announcing", "cleaning"}]
  /\ fresh \in [Processes -> SUBSET Hashes]
  /\ stats \in Nat
  /\ told \in [Processes -> [Titles -> Nat]]
  /\ purged \in [Titles -> Nat]
  /\ lost \subseteq Titles
  /\ edits \in 0 .. MaxEdits
  /\ faults \in 0 .. MaxFaults

Init ==
  /\ listing = [s \in Sources |-> SetToSeq(Home[s])]
  /\ edition = [p \in Postings |-> 0]
  /\ fetcher \in {g \in [Families -> Fetchers] : \A f \in Families : g[f] \in MayUse[f]}
  /\ status = [h \in Hashes |-> "none"]
  /\ aged = {}
  /\ by = [h \in Hashes |-> "nobody"]
  /\ crawlRow = [s \in Sources |-> "none"]
  /\ fam = [f \in Families |-> Asleep]
  /\ phase = [w \in Processes |-> "sleeping"]
  /\ fresh = [w \in Processes |-> {}]
  /\ stats = 0
  /\ told = [w \in Processes |-> [t \in Titles |-> 0]]
  /\ purged = [t \in Titles |-> 0]
  /\ lost = {}
  /\ edits = 0
  /\ faults = 0

Stored == {h \in Hashes : status[h] # "none"}

\* A request, a write or a process fails.
Fault == faults < MaxFaults /\ faults' = faults + 1

Edit == edits < MaxEdits /\ edits' = edits + 1

-----------------------------------------------------------------------------
(* The sites, time and the gate. *)

Delist(s, p) ==
  /\ Edit
  /\ p \in ToSet(listing[s])
  /\ listing' = [listing EXCEPT ![s] = Without(@, p)]
  /\ UNCHANGED <<edition, fetcher, rows, crawlRow, fam, cycle, faults>>

\* On top, whether it was listed before or not.
List(s, p) ==
  /\ Edit
  /\ p \in Home[s] /\ ~(listing[s] # <<>> /\ p = Head(listing[s]))
  /\ listing' = [listing EXCEPT ![s] = <<p>> \o Without(@, p)]
  /\ UNCHANGED <<edition, fetcher, rows, crawlRow, fam, cycle, faults>>

\* The date, the description or the requirements of a posting change.
Reword(p) ==
  /\ Edit
  /\ edition' = [edition EXCEPT ![p] = edits + 1]
  /\ UNCHANGED <<listing, fetcher, rows, crawlRow, fam, cycle, faults>>

\* Ninety days pass since what was stored before the running cycles.
MonthsPass ==
  /\ Edit
  /\ aged' = Stored \ UNION {fresh[w] : w \in Processes}
  /\ UNCHANGED <<listing, edition, fetcher, status, by, fresh, crawlRow, fam, cycle,
                 faults>>

\* The gate decides, after which the row is not NEW.
Decide(h) ==
  /\ Edit
  /\ status[h] = "NEW"
  /\ status' = [status EXCEPT ![h] = "QUALIFIED"]
  /\ UNCHANGED <<listing, edition, fetcher, aged, by, fresh, crawlRow, fam, cycle,
                 faults>>

-----------------------------------------------------------------------------
(* Filters. *)

\* filter_job: the hard filters, then the soft ones.
FilterJob(p) ==
  IF p \in HardHits THEN "REJECT"
  ELSE IF p \in Negatives THEN "REJECT_FILTERED"
  ELSE IF p \in Positives THEN "ACCEPT_QUALIFIED"
  ELSE "ACCEPT_NEW"

\* The status insert_job stores: its INSERT has no status column, so that of a
\* new row is the default of the schema.
StoredStatus(p) == "NEW"

\* The row of a posting that passed the hard filters; a duplicate changes
\* nothing.
InsertJob(h, who) ==
  IF h \in Stored \/ FilterJob(h[1]) = "REJECT" THEN UNCHANGED rows
  ELSE /\ status' = [status EXCEPT ![h] = StoredStatus(h[1])]
       /\ by' = [by EXCEPT ![h] = who]
       /\ fresh' = [w \in Processes |->
                      IF phase[w] \in {"crawling", "announcing"}
                      THEN fresh[w] \cup {h} ELSE fresh[w]]
       /\ UNCHANGED aged

\* The other process stores a posting it has found.
InsertElsewhere(h) ==
  /\ phase["other"] = "crawling"
  /\ Cardinality({g \in fresh["other"] : by[g] = "other"}) < MaxElsewhere
  /\ h \notin Stored
  /\ \E s \in Sources : h[1] \in ToSet(listing[s])
  /\ h[2] = edition[h[1]]
  /\ IF h[3] = "bare" THEN Fault ELSE UNCHANGED faults
  /\ InsertJob(h, "other")
  /\ UNCHANGED <<listing, edition, fetcher, crawlRow, fam, cycle, edits>>

-----------------------------------------------------------------------------
(* A crawl. *)

\* company_matches_domains: no domains, an untagged company, or one of the
\* user's industries.
Watched(s) == Wanted = {} \/ Industry[s] \in Wanted \cup {Untagged}

WatchList ==
  [f \in Families |->
     Kept(SourcesOf[f], {i \in DOMAIN SourcesOf[f] : Watched(SourcesOf[f][i])})]
Current(f) == WatchList[f][fam[f].at]

Goto(f, pc) == fam' = [fam EXCEPT ![f].pc = pc]
NextSource(f) == [fam[f] EXCEPT !.pc = "next", !.at = @ + 1]

\* start_crawl.
StartCrawl(f) ==
  /\ fam[f].pc = "next" /\ fam[f].at <= Len(WatchList[f])
  /\ crawlRow' = [crawlRow EXCEPT ![Current(f)] = "IN_PROGRESS"]
  /\ fam' = [fam EXCEPT ![f] = [Asleep EXCEPT !.pc = "fetching", !.at = fam[f].at,
                                              !.new = fam[f].new]]
  /\ UNCHANGED <<listing, edition, fetcher, rows, cycle, edits, faults>>

\* start_crawl fails: there is no row, and the source counts as failed.
StartFails(f) ==
  /\ Fault
  /\ fam[f].pc = "next" /\ fam[f].at <= Len(WatchList[f])
  /\ fam' = [fam EXCEPT ![f] = NextSource(f)]
  /\ UNCHANGED <<listing, edition, fetcher, rows, crawlRow, cycle, edits>>

FamilyDone(f) ==
  /\ fam[f].pc = "next" /\ fam[f].at > Len(WatchList[f])
  /\ Goto(f, "done")
  /\ UNCHANGED <<listing, edition, fetcher, rows, crawlRow, cycle, edits, faults>>

\* The postings of the next request.
PageOf(f) ==
  LET l == listing[Current(f)]
      n == fam[f].page
  IN CASE fetcher[f].pages = "one" -> l
       [] n \in DOMAIN l -> <<l[n]>>
       [] OTHER -> <<>>

\* Mutant of LastPage: the page at the cap is no longer asked for.
LastPageTooEarly(f) ==
  fetcher[f].pages = "one" \/ PageOf(f) = <<>> \/ fam[f].page + 1 >= PageCap

\* Why the fetchers stop: the listing came whole, a page is empty or had only
\* postings seen before, the total is reached, or the cap is.
LastPage(f) ==
  LET pages == fetcher[f].pages
  IN \/ pages = "one" \/ PageOf(f) = <<>> \/ fam[f].page = PageCap
     \/ pages = "total" /\ fam[f].page >= Len(listing[Current(f)])
     \/ /\ pages = "firstTotal"
        /\ fam[f].page >= (IF fam[f].page = 1 THEN Len(listing[Current(f)])
                           ELSE fam[f].total)
     \/ /\ pages = "fresh"
        /\ ToSet(PageOf(f)) \subseteq {fam[f].got[i][1] : i \in DOMAIN fam[f].got}

\* One page; a failed request for details leaves its posting without them.
FetchPage(f, clear) ==
  LET found == [i \in DOMAIN PageOf(f) |->
                  <<PageOf(f)[i], edition[PageOf(f)[i]], Reading(clear)>>]
  IN /\ fam[f].pc = "fetching"
     /\ IF clear THEN UNCHANGED faults
        ELSE fetcher[f].details /\ PageOf(f) # <<>> /\ Fault
     /\ fam' = [fam EXCEPT ![f].pc = IF LastPage(f) THEN "found" ELSE "fetching",
                           ![f].page = IF LastPage(f) THEN 1 ELSE @ + 1,
                           ![f].total = IF @ = 0 THEN Len(listing[Current(f)]) ELSE @,
                           ![f].got = @ \o found]
     /\ UNCHANGED <<listing, edition, fetcher, rows, crawlRow, cycle, edits>>

\* A request is refused, answered 404, or fails: the crawl fails, or goes on
\* with nothing or with the pages read before.
FetchFails(f, how) ==
  LET outcome == CASE how = "limited" -> fetcher[f].limited
                   [] how = "gone" -> fetcher[f].gone
                   [] how = "broken" -> fetcher[f].broken
  IN /\ fam[f].pc = "fetching"
     /\ Fault
     /\ fam' = [fam EXCEPT ![f].pc = IF outcome = "raise" THEN "failing" ELSE "found",
                           ![f].page = 1,
                           ![f].got = IF outcome = "some" THEN @ ELSE <<>>]
     /\ UNCHANGED <<listing, edition, fetcher, rows, crawlRow, cycle, edits>>

\* filter_new_jobs: the first of each hash the database does not have.
FilterNewJobs(f) ==
  LET got == fam[f].got
      isNew(i) == got[i] \notin Stored /\ \A k \in 1 .. i - 1 : got[k] # got[i]
  IN
  /\ fam[f].pc = "found"
  /\ fam' = [fam EXCEPT ![f].pc = "inserting",
                        ![f].todo = Kept(got, {i \in DOMAIN got : isNew(i)})]
  /\ UNCHANGED <<listing, edition, fetcher, rows, crawlRow, cycle, edits, faults>>

\* Mutant of CountsAsNew: the result of insert_job is not looked at.
CountsAsNewAnyway(h) == FilterJob(h[1]) \in {"ACCEPT_NEW", "ACCEPT_QUALIFIED"}

\* The posting was accepted and its row is new.
CountsAsNew(h) ==
  FilterJob(h[1]) \in {"ACCEPT_NEW", "ACCEPT_QUALIFIED"} /\ h \notin Stored

\* The next posting of insert_with_filters.
InsertNext(f) ==
  LET h == Head(fam[f].todo)
  IN /\ fam[f].pc = "inserting" /\ fam[f].todo # <<>>
     /\ InsertJob(h, f)
     /\ fam' = [fam EXCEPT ![f].todo = Tail(@),
                           ![f].new = IF CountsAsNew(h) THEN @ + 1 ELSE @]
     /\ UNCHANGED <<listing, edition, fetcher, crawlRow, cycle, edits, faults>>

\* complete_crawl.
CompleteCrawl(f) ==
  /\ fam[f].pc = "inserting" /\ fam[f].todo = <<>>
  /\ crawlRow' = [crawlRow EXCEPT ![Current(f)] = "SUCCESS"]
  /\ fam' = [fam EXCEPT ![f] = NextSource(f)]
  /\ UNCHANGED <<listing, edition, fetcher, rows, cycle, edits, faults>>

\* The duplicate check, an insert or complete_crawl fails.
WriteFails(f) ==
  /\ Fault
  /\ fam[f].pc \in {"found", "inserting"}
  /\ Goto(f, "failing")
  /\ UNCHANGED <<listing, edition, fetcher, rows, crawlRow, cycle, edits>>

\* complete_crawl with the error.
FailCrawl(f) ==
  /\ fam[f].pc = "failing"
  /\ crawlRow' = [crawlRow EXCEPT ![Current(f)] = "FAILED"]
  /\ fam' = [fam EXCEPT ![f] = NextSource(f)]
  /\ UNCHANGED <<listing, edition, fetcher, rows, cycle, edits, faults>>

\* complete_crawl fails in the handler too: the exception ends the family.
FamilyRaises(f) ==
  /\ fam[f].pc = "failing"
  /\ Goto(f, "raised")
  /\ lost' = lost \cup TitlesOf(fresh["own"])
  /\ UNCHANGED <<listing, edition, fetcher, rows, crawlRow, phase, stats, told, purged,
                 edits, faults>>

-----------------------------------------------------------------------------
(* The cycle. *)

Begin(w) ==
  /\ phase[w] = "sleeping"
  /\ phase' = [phase EXCEPT ![w] = "crawling"]
  /\ fresh' = [fresh EXCEPT ![w] = {}]
  /\ UNCHANGED <<listing, edition, fetcher, status, aged, by, crawlRow, stats, told,
                 purged, lost, faults>>

\* run_job_discovery up to the gather; cycle_start is taken first.
BeginCycle ==
  /\ Begin("own")
  /\ fam' = [f \in Families |-> [Asleep EXCEPT !.pc = "next", !.at = 1]]
  /\ UNCHANGED edits

BeginElsewhere == Edit /\ Begin("other") /\ UNCHANGED fam

\* new_count of the families that returned; of the other process, its rows.
TotalNew(w) ==
  IF w = "own"
  THEN Cardinality(UNION {{f} \X (1 .. fam[f].new) :
                            f \in {g \in Families : fam[g].pc # "raised"}})
  ELSE Cardinality({h \in fresh[w] : by[h] = w /\ FilterJob(h[1]) # "REJECT_FILTERED"})

Gathered(w) ==
  phase[w] = "crawling"
    /\ (w = "own" => \A f \in Families : fam[f].pc \in {"done", "raised"})

UpdateDailyStats(w) ==
  /\ Gathered(w)
  /\ stats' = stats + TotalNew(w)
  /\ phase' = [phase EXCEPT ![w] = "announcing"]
  /\ UNCHANGED <<listing, edition, fetcher, rows, crawlRow, fam, told, purged, lost,
                 edits, faults>>

\* Mutant of NewTitles: the older row of the same title is not looked for.
NewTitlesByHash(w) == TitlesOf(fresh[w])

\* Mutant of NewTitles: titles of one row, not of rows that are the oldest.
NewTitlesWithOneRow(w) ==
  {t \in TitlesOf(fresh[w]) : Cardinality({h \in Stored : TitleOf[h[1]] = t}) = 1}

\* Titles of rows fetched since the cycle began, with no older row.
NewTitles(w) == TitlesOf(fresh[w]) \ TitlesOf(Stored \ fresh[w])

\* The rows are no news any more.
Forget(w) ==
  /\ fresh' = [fresh EXCEPT ![w] = {}]
  /\ by' = [h \in Hashes |->
             IF \E v \in Processes \ {w} : h \in fresh[v] THEN by[h] ELSE "nobody"]

\* _send_watched_job_notifications, when the cycle has counted something new.
Announce(w) ==
  /\ phase[w] = "announcing"
  /\ told' = [told EXCEPT ![w] = [t \in Titles |->
                IF TotalNew(w) > 0 /\ t \in NewTitles(w) THEN @[t] + 1 ELSE @[t]]]
  /\ Forget(w)
  /\ phase' = [phase EXCEPT ![w] = "cleaning"]
  /\ UNCHANGED <<listing, edition, fetcher, status, aged, crawlRow, fam, stats, purged,
                 lost, edits, faults>>

\* cleanup_old_records removes what nobody has decided on; then the pause.
CleanUp(w) ==
  LET old == {h \in aged : status[h] = "NEW"}
  IN /\ phase[w] = "cleaning"
     /\ status' = [h \in Hashes |-> IF h \in old THEN "none" ELSE status[h]]
     /\ aged' = aged \ old
     /\ purged' = [t \in Titles |->
                     purged[t] + Cardinality({h \in old : TitleOf[h[1]] = t})]
     /\ phase' = [phase EXCEPT ![w] = "sleeping"]
     /\ fam' = IF w = "own" THEN [f \in Families |-> Asleep] ELSE fam
     /\ UNCHANGED <<listing, edition, fetcher, by, fresh, crawlRow, stats, told, lost,
                    edits, faults>>

\* A write of the cycle fails, it is cancelled, or the process dies: what its
\* coroutines knew is gone.
CycleDies(w) ==
  /\ Fault
  /\ phase[w] # "sleeping"
  /\ phase' = [phase EXCEPT ![w] = "sleeping"]
  /\ Forget(w)
  /\ fam' = IF w = "own" THEN [f \in Families |-> Asleep] ELSE fam
  /\ lost' = lost \cup TitlesOf(fresh[w])
  /\ UNCHANGED <<listing, edition, fetcher, status, aged, crawlRow, stats, told, purged,
                 edits>>

-----------------------------------------------------------------------------

Crawl(f) ==
  \/ StartCrawl(f) \/ FamilyDone(f) \/ FetchPage(f, TRUE) \/ FilterNewJobs(f)
  \/ InsertNext(f) \/ CompleteCrawl(f) \/ FailCrawl(f)

Fails(f) ==
  \/ StartFails(f) \/ FetchPage(f, FALSE) \/ WriteFails(f) \/ FamilyRaises(f)
  \/ \E how \in {"limited", "gone", "broken"} : FetchFails(f, how)

Next ==
  \/ BeginCycle \/ BeginElsewhere \/ MonthsPass
  \/ \E w \in Processes : UpdateDailyStats(w) \/ Announce(w) \/ CleanUp(w) \/ CycleDies(w)
  \/ \E f \in Families : Crawl(f) \/ Fails(f)
  \/ \E s \in Sources, p \in Postings : Delist(s, p) \/ List(s, p)
  \/ \E p \in Postings : Reword(p)
  \/ \E h \in Hashes : InsertElsewhere(h) \/ Decide(h)

Spec == Init /\ [][Next]_vars

\* Requests and writes return, and the loop starts a cycle after each pause.
FairSpec ==
  /\ Spec
  /\ WF_vars(BeginCycle) /\ WF_vars(UpdateDailyStats("own"))
  /\ WF_vars(Announce("own")) /\ WF_vars(CleanUp("own"))
  /\ \A f \in Families : WF_vars(Crawl(f))

-----------------------------------------------------------------------------
(* Properties. *)

Accepted(h) == FilterJob(h[1]) \in {"ACCEPT_NEW", "ACCEPT_QUALIFIED"}

Mine(f) == {h \in fresh["own"] : by[h] = f /\ FilterJob(h[1]) # "REJECT_FILTERED"}

\* However the families and another process interleave, and wherever a crawl
\* breaks off, a family has counted exactly the accepted rows it inserted.
CountsMatchRows ==
  phase["own"] = "crawling" =>
    \A f \in Families : fam[f].new = Cardinality(Mine(f))

\* A process announces a company and title again only after rows of it were
\* removed by age: not because a site has changed the text of a posting, lists
\* it elsewhere or could not be read, nor after a restart.
AnnouncedOnce ==
  \A w \in Processes : \A t \in Titles : told[w][t] <= 1 + purged[t]

\* What is stored was announced, or is about to be: no accepted row falls
\* between the announcements of two cycles or of two processes, unless a cycle
\* or a family died, or an older row of its title was filtered or removed.
StoredIsTold ==
  \A h \in Stored :
    LET t == TitleOf[h[1]]
    IN \/ ~Accepted(h) \/ t \in lost \/ purged[t] > 0
       \/ \E g \in Stored : TitleOf[g[1]] = t /\ ~Accepted(g)
       \/ \E w \in Processes : told[w][t] > 0 \/ t \in TitlesOf(fresh[w])

\* The postings of a source that the crawl asks for.
InReach(f, s) ==
  IF fetcher[f].pages = "one" THEN ToSet(listing[s])
  ELSE {listing[s][n] : n \in {k \in DOMAIN listing[s] : k <= PageCap}}

\* A posting that stays within the pages a watched source is asked for is
\* stored sooner or later, whatever fails, shifts or crashes meanwhile.
EveryPostingIsStored ==
  \A f \in Families : \A s \in ToSet(WatchList[f]) : \A p \in Home[s] \ HardHits :
    p \in InReach(f, s) ~> (p \notin InReach(f, s) \/ \E h \in Stored : h[1] = p)

=============================================================================
