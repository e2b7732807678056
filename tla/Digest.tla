------------------------------- MODULE Digest -------------------------------
(***************************************************************************)
(* The daily digest: people subscribe and confirm, discovery inserts       *)
(* postings, and POST /api/digest/send, called by a cron job and by hand,  *)
(* mails every confirmed subscriber the postings found since the last      *)
(* digest.                                                                 *)
(*                                                                         *)
(* Two instants a day.  job_postings.fetched_at is written by SQLite, as   *)
(* "2026-07-01 12:00:00", and compared as text with an isoformat() time,   *)
(* "2026-07-01T09:00:00", so within one day it always compares smaller.    *)
(***************************************************************************)
EXTENDS Integers, FiniteSets

CONSTANTS
  Emails,         \* addresses that may subscribe
  NoOne,          \* no address: there is no such row
  Jobs,
  Companies,
  CompanyOf,      \* of each job
  Role,           \* of each job: its company and title
  DetailOf,       \* of each job: the length of its description
  Kinds,          \* levels, categories, terms and locations, told apart
  KindOf,         \* of each job
  Wishes,         \* the sets of kinds a subscriber may choose
  Senders,        \* requests to /send that may run at a time
  MaxIds,         \* bound on subscriptions
  MaxTime,        \* bound on the instants
  MaxVisits,      \* bound on hide links followed and manage pages opened
  MaxFaults       \* bound on deaths, mail failures and lost answers

Ids == 1 .. MaxIds
Times == 1 .. MaxTime

ASSUME ConstantsAssumption ==
  /\ NoOne \notin Emails
  /\ Companies # {} /\ IsFiniteSet(Senders)
  /\ CompanyOf \in [Jobs -> Companies] /\ KindOf \in [Jobs -> Kinds]
  /\ DetailOf \in [Jobs -> Nat]
  /\ Wishes \subseteq SUBSET Kinds
  /\ \A j, k \in Jobs : Role[j] = Role[k] => CompanyOf[j] = CompanyOf[k]
  /\ MaxIds \in Nat /\ MaxTime \in Nat \ {0} /\ MaxVisits \in Nat /\ MaxFaults \in Nat

VARIABLES
  now,
  fetched,    \* of each job: fetched_at, 0 before it is found
  filtered,   \* jobs whose status has become FILTERED
  sub,        \* the rows of email_subscribers
  nextId,
  linked,     \* rows whose confirmation mail arrived
  sends,      \* digest_sends: pairs of subscriber and job
  hide,       \* GET /hide under way: the list it has read
  page,       \* of each row: the list the open manage page shows
  sender,
  inbox,      \* of each row: how often each job was mailed
  losses,     \* history: mails that went out and were not recorded
  visits,
  faults

vars == <<now, fetched, filtered, sub, nextId, linked, sends, hide, page,
          sender, inbox, losses, visits, faults>>

NoRow == [email |-> NoOne, wants |-> {}, hidden |-> {}, confirmed |-> FALSE, last |-> 0]
Row == [email : Emails \cup {NoOne}, wants : SUBSET Kinds, hidden : SUBSET Companies,
        confirmed : BOOLEAN, last : 0 .. MaxTime]

NoHide == [id |-> 0, list |-> {}, company |-> CHOOSE c \in Companies : TRUE]
Closed == [open |-> FALSE, list |-> {}]

\* todo keeps the rows as they were read at the start.
Idle == [pc |-> "idle", todo |-> [i \in Ids |-> NoRow], id |-> 0, jobs |-> {}, at |-> 0]

TypeOK ==
  /\ now \in Times
  /\ fetched \in [Jobs -> 0 .. MaxTime]
  /\ filtered \subseteq Jobs
  /\ sub \in [Ids -> Row]
  /\ nextId \in 1 .. MaxIds + 1
  /\ linked \subseteq Ids
  /\ sends \subseteq Ids \X Jobs
  /\ hide \in [id : Ids \cup {0}, list : SUBSET Companies, company : Companies]
  /\ page \in [Ids -> [open : BOOLEAN, list : SUBSET Companies]]
  /\ sender \in [Senders -> [pc : {"idle", "listed", "sending", "sent"},
                             todo : [Ids -> Row], id : Ids \cup {0},
                             jobs : SUBSET Jobs, at : 0 .. MaxTime]]
  /\ inbox \in [Ids -> [Jobs -> Nat]]
  /\ losses \in 0 .. MaxFaults /\ visits \in 0 .. MaxVisits /\ faults \in 0 .. MaxFaults

Exists(i) == sub[i].email # NoOne

Init ==
  /\ now = 1
  /\ fetched = [j \in Jobs |-> 0]
  /\ filtered = {}
  /\ sub = [i \in Ids |-> NoRow]
  /\ nextId = 1
  /\ linked = {}
  /\ sends = {}
  /\ hide = NoHide
  /\ page = [i \in Ids |-> Closed]
  /\ sender = [p \in Senders |-> Idle]
  /\ inbox = [i \in Ids |-> [j \in Jobs |-> 0]]
  /\ losses = 0
  /\ visits = 0
  /\ faults = 0

Fault == faults < MaxFaults /\ faults' = faults + 1

-----------------------------------------------------------------------------
(* Postings. *)

Tick ==
  /\ now < MaxTime
  /\ now' = now + 1
  /\ UNCHANGED <<fetched, filtered, sub, nextId, linked, sends, hide, page,
                 sender, inbox, losses, visits, faults>>

\* insert_job leaves fetched_at to SQLite's CURRENT_TIMESTAMP.
InsertJob(j) ==
  /\ fetched[j] = 0
  /\ fetched' = [fetched EXCEPT ![j] = now]
  /\ UNCHANGED <<now, filtered, sub, nextId, linked, sends, hide, page,
                 sender, inbox, losses, visits, faults>>

\* The gate decides to skip the job.
GateSkips(j) ==
  /\ fetched[j] # 0 /\ j \notin filtered
  /\ filtered' = filtered \cup {j}
  /\ UNCHANGED <<now, fetched, sub, nextId, linked, sends, hide, page,
                 sender, inbox, losses, visits, faults>>

-----------------------------------------------------------------------------
(* Subscribers. *)

\* POST /subscribe: the row, unless the address has one, then the mail with
\* the link, which may not go out.
Subscribe(e, wants) ==
  /\ nextId \in Ids
  /\ \A i \in Ids : sub[i].email # e
  /\ sub' = [sub EXCEPT ![nextId] = [NoRow EXCEPT !.email = e, !.wants = wants]]
  /\ nextId' = nextId + 1
  /\ \/ linked' = linked \cup {nextId} /\ UNCHANGED faults
     \/ Fault /\ UNCHANGED linked
  /\ UNCHANGED <<now, fetched, filtered, sends, hide, page, sender, inbox, losses, visits>>

Confirm(i) ==
  /\ Exists(i) /\ i \in linked
  /\ sub' = [sub EXCEPT ![i].confirmed = TRUE]
  /\ UNCHANGED <<now, fetched, filtered, nextId, linked, sends, hide, page,
                 sender, inbox, losses, visits, faults>>

\* GET /hide, a link of the digest: SELECT, then UPDATE in a transaction of
\* its own.
HideRead(i, c) ==
  /\ visits < MaxVisits /\ visits' = visits + 1
  /\ hide = NoHide /\ Exists(i)
  /\ \E j \in Jobs : CompanyOf[j] = c /\ inbox[i][j] > 0
  /\ hide' = [id |-> i, list |-> sub[i].hidden, company |-> c]
  /\ UNCHANGED <<now, fetched, filtered, sub, nextId, linked, sends, page,
                 sender, inbox, losses, faults>>

HideWrite ==
  /\ hide # NoHide
  /\ sub' = IF Exists(hide.id)
            THEN [sub EXCEPT ![hide.id].hidden = hide.list \cup {hide.company}]
            ELSE sub
  /\ hide' = NoHide
  /\ UNCHANGED <<now, fetched, filtered, nextId, linked, sends, page,
                 sender, inbox, losses, visits, faults>>

\* The manage page shows GET /preferences, and its link comes with a digest.
OpenManagePage(i) ==
  /\ visits < MaxVisits /\ visits' = visits + 1
  /\ Exists(i) /\ \E j \in Jobs : inbox[i][j] > 0
  /\ page' = [page EXCEPT ![i] = [open |-> TRUE, list |-> sub[i].hidden]]
  /\ UNCHANGED <<now, fetched, filtered, sub, nextId, linked, sends, hide,
                 sender, inbox, losses, faults>>

\* PUT /preferences: all the lists as the page has them; the page stays open.
UpdatePreferences(i, wants, hidden) ==
  /\ page[i].open
  /\ page' = [page EXCEPT ![i].list = hidden]
  /\ sub' = IF Exists(i)
            THEN [sub EXCEPT ![i].wants = wants, ![i].hidden = hidden] ELSE sub
  /\ UNCHANGED <<now, fetched, filtered, nextId, linked, sends, hide,
                 sender, inbox, losses, visits, faults>>

\* The list with at most one company added or taken out.
Edits(i) == {page[i].list} \cup {page[i].list \cup {c} : c \in Companies}
                           \cup {page[i].list \ {c} : c \in Companies}

\* DELETE /unsubscribe, a button of the page; an address that comes back has a new row.
Unsubscribe(i) ==
  /\ Exists(i) /\ page[i].open
  /\ sub' = [sub EXCEPT ![i] = NoRow]
  /\ page' = [page EXCEPT ![i] = Closed]
  /\ UNCHANGED <<now, fetched, filtered, nextId, linked, sends, hide,
                 sender, inbox, losses, visits, faults>>

-----------------------------------------------------------------------------
(* Sending. *)

Day(t) == (t + 1) \div 2

\* _resolve_lookback_cutoff: 24 hours for who never had a digest.
Cutoff(row) == IF row.last # 0 THEN row.last ELSE now - 2

\* fetched_at > since, as text.
FetchedAfter(j, since) == fetched[j] # 0 /\ Day(fetched[j]) > Day(since)

\* Mutant of NewJobs: last_digest_at alone is relied on.
NewJobsByTime(i, row) ==
  {j \in Jobs : FetchedAfter(j, Cutoff(row)) /\ j \notin filtered}

\* _fetch_new_jobs_for_subscriber
NewJobs(i, row) ==
  {j \in Jobs : /\ FetchedAfter(j, Cutoff(row)) /\ j \notin filtered
                /\ <<i, j>> \notin sends}

\* _apply_preference_filters: nothing chosen lets everything pass.
Passes(row, j) ==
  (row.wants = {} \/ KindOf[j] \in row.wants) /\ CompanyOf[j] \notin row.hidden

\* _dedup_by_company_title: one job of a role, with the longest description;
\* of equally long ones the one read first, which is left open.
Deduped(jobs) ==
  {picked \in SUBSET jobs :
     /\ \A j \in jobs : Cardinality({k \in picked : Role[k] = Role[j]}) = 1
     /\ \A k \in picked, j \in jobs : Role[j] = Role[k] => DetailOf[j] <= DetailOf[k]}

\* send_daily_digest: the confirmed subscribers are read once.
FetchSubscribers(p) ==
  /\ sender[p].pc = "idle"
  /\ \E i \in Ids : sub[i].confirmed
  /\ sender' = [sender EXCEPT ![p] =
       [Idle EXCEPT !.pc = "listed",
          !.todo = [i \in Ids |-> IF sub[i].confirmed THEN sub[i] ELSE NoRow]]]
  /\ UNCHANGED <<now, fetched, filtered, sub, nextId, linked, sends, hide, page,
                 inbox, losses, visits, faults>>

\* The subscriber whose turn it is.
Upcoming(p, i) ==
  /\ sender[p].todo[i] # NoRow
  /\ \A k \in Ids : k < i => sender[p].todo[k] = NoRow

\* The sender once it is done with subscriber i.
After(p, i) ==
  LET todo == [sender[p].todo EXCEPT ![i] = NoRow]
  IN IF \A k \in Ids : todo[k] = NoRow THEN Idle
     ELSE [Idle EXCEPT !.pc = "listed", !.todo = todo]

\* Nothing new, or nothing the subscriber wants: no mail.
NothingToSend(p, i) ==
  LET row == sender[p].todo[i]
  IN /\ sender[p].pc = "listed" /\ Upcoming(p, i)
     /\ \A j \in NewJobs(i, row) : ~Passes(row, j)
     /\ sender' = [sender EXCEPT ![p] = After(p, i)]
     /\ UNCHANGED <<now, fetched, filtered, sub, nextId, linked, sends, hide, page,
                    inbox, losses, visits, faults>>

\* The mail is made up; sent_at is the time before it goes out.
ProcessSubscriber(p, i) ==
  LET row == sender[p].todo[i]
      wanted == {j \in NewJobs(i, row) : Passes(row, j)}
  IN /\ sender[p].pc = "listed" /\ Upcoming(p, i)
     /\ wanted # {}
     /\ \E picked \in Deduped(wanted) :
          sender' = [sender EXCEPT ![p].pc = "sending", ![p].id = i,
                                   ![p].jobs = picked, ![p].at = now]
     /\ UNCHANGED <<now, fetched, filtered, sub, nextId, linked, sends, hide, page,
                    inbox, losses, visits, faults>>

\* The mailbox: all the jobs of a mail arrive, or none.
Arrive(p) ==
  inbox' = [inbox EXCEPT ![sender[p].id] =
              [j \in Jobs |-> IF j \in sender[p].jobs THEN @[j] + 1 ELSE @[j]]]

SendViaResend(p) ==
  /\ sender[p].pc = "sending"
  /\ Arrive(p)
  /\ sender' = [sender EXCEPT ![p].pc = "sent"]
  /\ UNCHANGED <<now, fetched, filtered, sub, nextId, linked, sends, hide, page,
                 losses, visits, faults>>

\* Mutant of SendFails: the digest counts as sent.
SendFailsButCounts(p) ==
  LET i == sender[p].id
  IN /\ sender[p].pc = "sending"
     /\ Fault
     /\ sub' = IF Exists(i) THEN [sub EXCEPT ![i].last = sender[p].at] ELSE sub
     /\ sender' = [sender EXCEPT ![p] = After(p, i)]
     /\ UNCHANGED <<now, fetched, filtered, nextId, linked, sends, hide, page,
                    inbox, losses, visits>>

\* httpx.HTTPError: the next subscriber.
SendFails(p) ==
  /\ sender[p].pc = "sending"
  /\ Fault
  /\ sender' = [sender EXCEPT ![p] = After(p, sender[p].id)]
  /\ UNCHANGED <<now, fetched, filtered, sub, nextId, linked, sends, hide, page,
                 inbox, losses, visits>>

\* The same although the mail goes out: the answer is late or lost.
AnswerLost(p) ==
  /\ sender[p].pc = "sending"
  /\ Fault
  /\ Arrive(p)
  /\ losses' = losses + 1
  /\ sender' = [sender EXCEPT ![p] = After(p, sender[p].id)]
  /\ UNCHANGED <<now, fetched, filtered, sub, nextId, linked, sends, hide, page,
                 visits>>

\* _record_digest_sends; the row may be gone, digest_sends takes it all the same.
RecordDigestSends(p) ==
  LET i == sender[p].id
  IN /\ sender[p].pc = "sent"
     /\ sends' = sends \cup {<<i, j>> : j \in sender[p].jobs}
     /\ sub' = IF Exists(i) THEN [sub EXCEPT ![i].last = sender[p].at] ELSE sub
     /\ sender' = [sender EXCEPT ![p] = After(p, i)]
     /\ UNCHANGED <<now, fetched, filtered, nextId, linked, hide, page, inbox,
                    losses, visits, faults>>

\* The process ends, or the write raises out of the loop over subscribers.
SenderDies(p) ==
  /\ sender[p].pc # "idle"
  /\ Fault
  /\ losses' = IF sender[p].pc = "sent" THEN losses + 1 ELSE losses
  /\ sender' = [sender EXCEPT ![p] = Idle]
  /\ UNCHANGED <<now, fetched, filtered, sub, nextId, linked, sends, hide, page, inbox,
                 visits>>

-----------------------------------------------------------------------------

Sending(p) ==
  \/ FetchSubscribers(p) \/ SendViaResend(p) \/ RecordDigestSends(p)
  \/ \E i \in Ids : NothingToSend(p, i) \/ ProcessSubscriber(p, i)

\* What the people who get digests may do.
Reader ==
  \/ \E e \in Emails, wants \in Wishes : Subscribe(e, wants)
  \/ HideWrite
  \/ \E i \in Ids :
       \/ Confirm(i) \/ OpenManagePage(i) \/ Unsubscribe(i)
       \/ \E c \in Companies : HideRead(i, c)
       \/ \E wants \in Wishes, hidden \in Edits(i) :
            UpdatePreferences(i, wants, hidden)

Next ==
  \/ Tick \/ Reader
  \/ \E j \in Jobs : InsertJob(j) \/ GateSkips(j)
  \/ \E p \in Senders : Sending(p) \/ SendFails(p) \/ AnswerLost(p) \/ SenderDies(p)

Spec == Init /\ [][Next]_vars

\* The cron job calls again and again, and a request goes on.
FairSpec == Spec /\ \A p \in Senders : WF_vars(Sending(p))

-----------------------------------------------------------------------------
(* Properties. *)

\* Nobody is mailed a posting more often than requests ran side by side, plus
\* once for every mail that went out and was not recorded.
CopiesAreExplained ==
  \A i \in Ids, j \in Jobs : inbox[i][j] <= Cardinality(Senders) + losses

\* Row i, which has had a digest, should get job j with the next one.
Due(i, j) ==
  /\ sub[i].confirmed /\ sub[i].last # 0
  /\ fetched[j] > sub[i].last /\ j \notin filtered
  /\ Passes(sub[i], j) /\ <<i, j>> \notin sends

\* A mail had the posting, or one of its role that is no shorter and as new.
Mailed(i, j, since) ==
  \E k \in Jobs : /\ Role[k] = Role[j] /\ DetailOf[k] >= DetailOf[j]
                  /\ Day(fetched[k]) > Day(since) /\ inbox[i][k] > 0

\* A posting found on a later day than the subscriber's last digest is mailed,
\* or a longer one of its role in its place, however often mails fail and
\* senders die, unless a digest that does not have it was already under way,
\* or it is no longer wanted.
NextDayPostingIsMailed ==
  \A i \in Ids, j \in Jobs, since \in Times :
    (/\ Due(i, j) /\ sub[i].last = since /\ Day(fetched[j]) > Day(since)
     /\ \A p \in Senders : sender[p].pc = "idle")
      ~> (Mailed(i, j, since) \/ ~Exists(i) \/ j \in filtered \/ ~Passes(sub[i], j))

\* sender.py: "Queries job_postings for roles fetched since each subscriber's
\* last digest": what was fetched since is among the new jobs.
FetchedSinceIsFound ==
  \A i \in Ids, j \in Jobs : Due(i, j) => j \in NewJobs(i, sub[i])

=============================================================================
