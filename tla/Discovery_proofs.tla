--------------------------- MODULE Discovery_proofs ---------------------------
(***************************************************************************)
(* Proofs about Discovery, for every number of families, sources and       *)
(* postings, every kind of fetcher and every page cap.                     *)
(*                                                                         *)
(* Most steps move one family and leave the rows alone; the invariant says *)
(* what a family may hold while the rows change under it: what it counted  *)
(* are its own insertions since the cycle began, and what a process has    *)
(* announced has a row older than the process's cycle, unless rows of it   *)
(* were removed.                                                           *)
(***************************************************************************)
EXTENDS Discovery, FiniteSetTheorems, WellFoundedInduction, TLAPS

-----------------------------------------------------------------------------
(* Induction over the natural numbers, from their well-foundedness. *)

\* A set of numbers that is not empty has a least member.
LEMMA LeastNat ==
  ASSUME NEW T \in SUBSET Nat, T # {}
  PROVE  \E n \in T : \A m \in T : n <= m
<1>1. PICK n \in T : \A m \in T : ~(<<m, n>> \in OpToRel(<, Nat))
  BY NatLessThanWellFounded, WFMin
<1>2. \A m \in T : ~(m < n)
  BY <1>1 DEF OpToRel
<1>3. QED
  BY <1>2

\* A set that has 0, and n + 1 with n, has every number.
LEMMA Induct ==
  ASSUME NEW S \in SUBSET Nat, 0 \in S, \A n \in S : n + 1 \in S
  PROVE  S = Nat
<1>1. SUFFICES ASSUME S # Nat PROVE FALSE
  OBVIOUS
<1>2. PICK n \in Nat \ S : \A m \in Nat \ S : n <= m
  BY <1>1, LeastNat
<1>3. n - 1 \in S
  BY <1>2
<1>4. QED
  BY <1>2, <1>3

-----------------------------------------------------------------------------
(* Sequences. *)

\* The recursive function of Kept exists, whatever the elements are.
LEMMA KeptIsBuilt ==
  ASSUME NEW A, NEW seq \in Seq(A), NEW I
  PROVE  \E kept :
           /\ kept = [n \in 0 .. Len(seq) |->
                        IF n = 0 THEN <<>>
                        ELSE IF n \in I THEN Append(kept[n - 1], seq[n])
                        ELSE kept[n - 1]]
           /\ Kept(seq, I) = kept[Len(seq)]
<1> DEFINE Step(f, n) == IF n = 0 THEN <<>>
                         ELSE IF n \in I THEN Append(f[n - 1], seq[n])
                         ELSE f[n - 1]
           Builds(f, m) == f = [n \in 0 .. m |-> Step(f, n)]
           Built == {m \in Nat : \E f : Builds(f, m)}
<1>1. 0 \in Built
  <2>1. Builds([n \in 0 .. 0 |-> <<>>], 0)
    OBVIOUS
  <2>2. QED
    BY <2>1
<1>2. ASSUME NEW m \in Built
      PROVE  m + 1 \in Built
  <2>1. PICK f : Builds(f, m)
    BY <1>2
  <2> DEFINE g == [n \in 0 .. (m + 1) |-> IF n = m + 1 THEN Step(f, m + 1) ELSE f[n]]
  <2>2. ASSUME NEW n \in 0 .. (m + 1)
        PROVE  g[n] = Step(g, n)
    <3>1. CASE n = m + 1
      BY <3>1
    <3>2. CASE n # m + 1
      <4>1. g[n] = f[n] /\ n \in 0 .. m
        BY <3>2
      <4>2. f[n] = Step(f, n)
        BY <2>1, <4>1
      <4>3. n # 0 => g[n - 1] = f[n - 1]
        BY <3>2
      <4>4. QED
        BY <4>1, <4>2, <4>3
    <3>3. QED
      BY <3>1, <3>2
  <2>3. Builds(g, m + 1)
    BY <2>2
  <2>4. m + 1 \in Nat
    OBVIOUS
  <2> HIDE DEF g, Builds
  <2>5. QED
    BY <2>3, <2>4
<1>3. Built = Nat
  <2> HIDE DEF Built
  <2>1. Built \in SUBSET Nat
    BY DEF Built
  <2>2. QED
    BY <1>1, <1>2, <2>1, Induct
<1>4. PICK f : Builds(f, Len(seq))
  <2>1. Len(seq) \in Built
    BY <1>3
  <2>2. QED
    BY <2>1
<1>5. QED
  BY <1>4 DEF Kept

\* What is kept of a sequence is a sequence of the same members.
LEMMA KeptIsSeq ==
  ASSUME NEW A, NEW seq \in Seq(A), NEW I
  PROVE  Kept(seq, I) \in Seq(A)
<1>1. PICK kept : /\ kept = [n \in 0 .. Len(seq) |->
                               IF n = 0 THEN <<>>
                               ELSE IF n \in I THEN Append(kept[n - 1], seq[n])
                               ELSE kept[n - 1]]
                  /\ Kept(seq, I) = kept[Len(seq)]
  BY KeptIsBuilt
<1> DEFINE Good == {n \in Nat : n <= Len(seq) => kept[n] \in Seq(A)}
<1>2. kept[0] \in Seq(A)
  BY <1>1
<1>3. ASSUME NEW n \in Nat, n + 1 <= Len(seq), kept[n] \in Seq(A)
      PROVE  kept[n + 1] \in Seq(A)
  <2>1. n + 1 \in 0 .. Len(seq) /\ n + 1 # 0 /\ (n + 1) - 1 = n
    BY <1>3
  <2>2. kept[n + 1] = IF n + 1 \in I THEN Append(kept[n], seq[n + 1]) ELSE kept[n]
    BY <1>1, <2>1
  <2>3. seq[n + 1] \in A
    BY <1>3
  <2>4. QED
    BY <1>3, <2>2, <2>3
<1>4. Good = Nat
  <2> HIDE DEF Good
  <2>1. Good \in SUBSET Nat /\ 0 \in Good
    BY <1>2 DEF Good
  <2>2. ASSUME NEW n \in Good
        PROVE  n + 1 \in Good
    BY <1>3 DEF Good
  <2>3. QED
    BY <2>1, <2>2, Induct
<1>5. Len(seq) \in Good
  BY <1>4
<1>6. QED
  BY <1>1, <1>5

-----------------------------------------------------------------------------
(* The watch list. *)

\* The sites list their postings in some order.
LEMMA SetToSeqIsSeq ==
  ASSUME NEW A, NEW S \in SUBSET A, IsFiniteSet(S)
  PROVE  SetToSeq(S) \in Seq(A)
<1>1. PICK f \in [1 .. Cardinality(S) -> S] : IsInjective(f)
  <2>1. ExistsBijection(1 .. Cardinality(S), S)
    BY FS_CardinalityType
  <2>2. PICK g : g \in Bijection(1 .. Cardinality(S), S)
    BY <2>1 DEF ExistsBijection
  <2>3. QED
    BY <2>2 DEF Bijection, Injection, IsInjective, Surjection
<1>2. SetToSeq(S) \in [1 .. Cardinality(S) -> S]
  BY <1>1 DEF SetToSeq
<1>3. Cardinality(S) \in Nat
  BY FS_CardinalityType
<1>4. QED
  BY <1>2, <1>3

\* Each family crawls a sequence of its own sources.
LEMMA WatchListType == WatchList \in [Families -> Seq(Sources)]
<1>1. ASSUME NEW f \in Families
      PROVE  WatchList[f] \in Seq(Sources)
  BY KeptIsSeq, ConstantsAssumption DEF WatchList
<1>2. QED
  BY <1>1 DEF WatchList

-----------------------------------------------------------------------------
(* The inductive invariant. *)

\* A crawl is of a source of the watch list.
AtSource(f) ==
  /\ fam[f].pc = "next" => fam[f].at # 0
  /\ fam[f].pc \in {"fetching", "found", "inserting", "failing"}
       => fam[f].at \in DOMAIN WatchList[f]

CrawlsAreOfSources == \A f \in Families : AtSource(f)

\* Old and fresh rows are rows, and none is both.
RowsAreThere ==
  /\ IsFiniteSet(Stored)
  /\ aged \subseteq Stored
  /\ \A w \in Processes : fresh[w] \subseteq Stored \ aged

\* The title has a row older than the cycle of the process.
Known(w, t) == \E h \in Stored : TitleOf[h[1]] = t /\ h \notin fresh[w]

\* Announced, and not removed since, is known.
ToldIsKnownTo(w, t) ==
  told[w][t] <= purged[t] \/ (told[w][t] = purged[t] + 1 /\ Known(w, t))

ToldIsKnown == \A w \in Processes : \A t \in Titles : ToldIsKnownTo(w, t)

IInv ==
  /\ TypeOK
  /\ CrawlsAreOfSources
  /\ RowsAreThere
  /\ ToldIsKnown
  /\ CountsMatchRows

-----------------------------------------------------------------------------
(* A family takes a step of its own: the rows stay. *)

\* What must be true of the family's new state c.
FamilyMoved(f, c) ==
  /\ fam' = [fam EXCEPT ![f] = c]
  /\ c.new = fam[f].new
  /\ c.pc = "next" => c.at # 0
  /\ c.pc \in {"fetching", "found", "inserting", "failing"} => c.at \in DOMAIN WatchList[f]
  /\ crawlRow' \in [Sources -> {"none", "IN_PROGRESS", "SUCCESS", "FAILED"}]
  /\ faults' \in 0 .. MaxFaults
  /\ lost' \subseteq Titles
  /\ UNCHANGED <<listing, edition, fetcher, rows, phase, stats, told, purged, edits>>

\* A step that leaves the rows and the announcements alone.
LEMMA RowsStay ==
  ASSUME IInv, UNCHANGED <<rows, told, purged>>
  PROVE  /\ RowsAreThere' /\ ToldIsKnown' /\ Stored' = Stored
         /\ \A f \in Families : Mine(f)' = Mine(f)
<1>1. UNCHANGED <<status, aged, by, fresh, told, purged>>
  BY DEF rows
<1>2. Stored' = Stored
  BY <1>1 DEF Stored
<1>3. RowsAreThere'
  BY <1>1, <1>2 DEF IInv, RowsAreThere
<1>4. ToldIsKnown'
  BY <1>1, <1>2 DEF IInv, ToldIsKnown, ToldIsKnownTo, Known
<1>5. \A f \in Families : Mine(f)' = Mine(f)
  BY <1>1 DEF Mine
<1>6. QED
  BY <1>2, <1>3, <1>4, <1>5

LEMMA FamilyStep ==
  ASSUME IInv, NEW f \in Families, NEW c \in Family, FamilyMoved(f, c)
  PROVE  IInv'
<1>1. /\ fam' \in [Families -> Family]
      /\ fam'[f] = c /\ \A g \in Families \ {f} : fam'[g] = fam[g]
      /\ \A g \in Families : fam'[g].new = fam[g].new
  BY DEF IInv, TypeOK, FamilyMoved
<1>2. TypeOK'
  BY <1>1 DEF IInv, TypeOK, FamilyMoved, rows
<1>3. CrawlsAreOfSources'
  <2>1. ASSUME NEW g \in Families
        PROVE  AtSource(g)'
    BY <1>1 DEF IInv, CrawlsAreOfSources, AtSource, FamilyMoved
  <2>2. QED
    BY <2>1 DEF CrawlsAreOfSources
<1>4. RowsAreThere' /\ ToldIsKnown' /\ \A g \in Families : Mine(g)' = Mine(g)
  BY RowsStay DEF FamilyMoved
<1>5. CountsMatchRows'
  BY <1>1, <1>4 DEF IInv, CountsMatchRows, FamilyMoved
<1>6. QED
  BY <1>2, <1>3, <1>4, <1>5 DEF IInv

\* A fault is counted, and no more are met than MaxFaults.
LEMMA FaultType ==
  ASSUME IInv, Fault
  PROVE  faults' \in 0 .. MaxFaults
BY ConstantsAssumption DEF IInv, TypeOK, Fault

LEMMA EditType ==
  ASSUME IInv, Edit
  PROVE  edits' \in 0 .. MaxEdits
BY ConstantsAssumption DEF IInv, TypeOK, Edit

\* The families and the rows as they stand.
LEMMA FamilyIs ==
  ASSUME IInv, NEW f \in Families
  PROVE  /\ fam \in [Families -> Family]
         /\ fam[f] \in Family
         /\ fam[f].got \in Seq(Hashes) /\ fam[f].todo \in Seq(Hashes)
         /\ AtSource(f)
BY DEF IInv, TypeOK, CrawlsAreOfSources, Family

LEMMA CurrentIsSource ==
  ASSUME NEW f \in Families, fam[f].at \in DOMAIN WatchList[f]
  PROVE  Current(f) \in Sources
BY WatchListType DEF Current

\* What a family may become, and the fields that stay.
LEMMA FamilyEdits ==
  ASSUME NEW c \in Family
  PROVE  /\ \A pc \in {"done", "failing", "raised"} :
              LET d == [c EXCEPT !.pc = pc]
              IN /\ d \in Family
                 /\ d.pc = pc /\ d.at = c.at /\ d.new = c.new
                 /\ d.got = c.got /\ d.todo = c.todo
         /\ LET d == [c EXCEPT !.pc = "next", !.at = c.at + 1]
            IN /\ d \in Family
               /\ d.pc = "next" /\ d.at = c.at + 1 /\ d.new = c.new
               /\ d.got = c.got /\ d.todo = c.todo
<1>1. ASSUME NEW pc \in {"done", "failing", "raised"}
      PROVE  LET d == [c EXCEPT !.pc = pc]
             IN /\ d \in Family
                /\ d.pc = pc /\ d.at = c.at /\ d.new = c.new
                /\ d.got = c.got /\ d.todo = c.todo
  <2>1. pc \in {"done", "next", "fetching", "found", "inserting", "failing", "raised"}
    OBVIOUS
  <2>2. QED
    BY <2>1 DEF Family
<1>2. LET d == [c EXCEPT !.pc = "next", !.at = c.at + 1]
      IN /\ d \in Family
         /\ d.pc = "next" /\ d.at = c.at + 1 /\ d.new = c.new
         /\ d.got = c.got /\ d.todo = c.todo
  <2>1. c.at + 1 \in Nat
    BY DEF Family
  <2>2. QED
    BY <2>1 DEF Family
<1>3. QED
  BY <1>1, <1>2

\* A family that waits for the next cycle has gathered nothing.
LEMMA AsleepIs ==
  /\ Asleep \in Family
  /\ Asleep.pc = "done" /\ Asleep.new = 0
  /\ Asleep.got = <<>> /\ Asleep.todo = <<>>
<1>1. 1 \in 1 .. PageCap
  BY ConstantsAssumption
<1>2. <<>> \in Seq(Hashes)
  OBVIOUS
<1>3. QED
  BY <1>1, <1>2 DEF Asleep, Family

LEMMA StartCrawlStep ==
  ASSUME IInv, NEW f \in Families, StartCrawl(f)
  PROVE  IInv'
<1> DEFINE c == [Asleep EXCEPT !.pc = "fetching", !.at = fam[f].at, !.new = fam[f].new]
<1>1. fam[f] \in Family /\ AtSource(f)
  BY FamilyIs
<1>2. c.pc = "fetching" /\ c.at = fam[f].at /\ c.new = fam[f].new
  BY DEF Asleep
<1>3. c \in Family
  <2>1. fam[f].at \in Nat /\ fam[f].new \in Nat
    BY <1>1 DEF Family
  <2>2. QED
    BY <2>1, AsleepIs DEF Family
<1>4. fam' = [fam EXCEPT ![f] = c]
  BY DEF StartCrawl
<1> HIDE DEF c
<1>5. c.at \in DOMAIN WatchList[f]
  <2>1. fam[f].at \in Nat /\ fam[f].at # 0 /\ fam[f].at <= Len(WatchList[f])
    BY <1>1 DEF StartCrawl, AtSource, Family
  <2>2. QED
    BY <1>2, <2>1, WatchListType
<1>6. /\ crawlRow' \in [Sources -> {"none", "IN_PROGRESS", "SUCCESS", "FAILED"}]
      /\ faults' \in 0 .. MaxFaults /\ lost' \subseteq Titles
      /\ UNCHANGED <<listing, edition, fetcher, rows, phase, stats, told, purged, edits>>
  BY DEF StartCrawl, IInv, TypeOK, cycle
<1>7. FamilyMoved(f, c)
  BY <1>2, <1>4, <1>5, <1>6 DEF FamilyMoved
<1>8. QED
  BY <1>3, <1>7, FamilyStep

\* The source is done with, one way or another.
LEMMA NextSourceStep ==
  ASSUME IInv, NEW f \in Families, StartFails(f) \/ CompleteCrawl(f) \/ FailCrawl(f)
  PROVE  IInv'
<1> DEFINE c == NextSource(f)
<1>1. fam[f] \in Family
  BY FamilyIs
<1>2. c \in Family /\ c.pc = "next" /\ c.at = fam[f].at + 1 /\ c.new = fam[f].new
  BY <1>1, FamilyEdits DEF NextSource
<1>3. fam' = [fam EXCEPT ![f] = c]
  BY DEF StartFails, CompleteCrawl, FailCrawl
<1> HIDE DEF c
<1>4. c.at # 0
  BY <1>1, <1>2 DEF Family
<1>5. /\ crawlRow' \in [Sources -> {"none", "IN_PROGRESS", "SUCCESS", "FAILED"}]
      /\ lost' \subseteq Titles
      /\ UNCHANGED <<listing, edition, fetcher, rows, phase, stats, told, purged, edits>>
  BY DEF StartFails, CompleteCrawl, FailCrawl, IInv, TypeOK, cycle
<1>6. faults' \in 0 .. MaxFaults
  BY FaultType DEF StartFails, CompleteCrawl, FailCrawl, IInv, TypeOK
<1>7. FamilyMoved(f, c)
  BY <1>2, <1>3, <1>4, <1>5, <1>6 DEF FamilyMoved
<1>8. QED
  BY <1>2, <1>7, FamilyStep

\* The titles of rows are titles.
LEMMA TitlesOfType ==
  ASSUME NEW S \in SUBSET Hashes
  PROVE  TitlesOf(S) \subseteq Titles
BY ConstantsAssumption DEF TitlesOf, Hashes

\* The family goes to another place and keeps what it has.
LEMMA GotoStep ==
  ASSUME IInv, NEW f \in Families, FamilyDone(f) \/ WriteFails(f) \/ FamilyRaises(f)
  PROVE  IInv'
<1>1. PICK pc \in {"done", "failing", "raised"} :
        Goto(f, pc) /\ (pc = "failing" => WriteFails(f))
  BY DEF FamilyDone, WriteFails, FamilyRaises
<1> DEFINE c == [fam[f] EXCEPT !.pc = pc]
<1>2. fam[f] \in Family /\ AtSource(f)
  BY FamilyIs
<1>3. c \in Family /\ c.pc = pc /\ c.at = fam[f].at /\ c.new = fam[f].new
  BY <1>2, FamilyEdits
<1>4. fam' = [fam EXCEPT ![f] = c]
  BY <1>1 DEF Goto
<1> HIDE DEF c
<1>5. pc = "failing" => c.at \in DOMAIN WatchList[f]
  BY <1>1, <1>2, <1>3 DEF WriteFails, AtSource
<1>6. lost' \subseteq Titles
  <2>1. fresh["own"] \subseteq Hashes /\ lost \subseteq Titles
    BY DEF IInv, TypeOK, Processes
  <2>2. QED
    BY <2>1, TitlesOfType DEF FamilyDone, WriteFails, FamilyRaises, cycle
<1>7. /\ UNCHANGED <<listing, edition, fetcher, rows, crawlRow, phase, stats, told, purged,
                     edits>>
      /\ faults' \in 0 .. MaxFaults
  BY FaultType DEF FamilyDone, WriteFails, FamilyRaises, IInv, TypeOK, cycle
<1>8. crawlRow' \in [Sources -> {"none", "IN_PROGRESS", "SUCCESS", "FAILED"}]
  BY <1>7 DEF IInv, TypeOK
<1>9. FamilyMoved(f, c)
  BY <1>1, <1>3, <1>4, <1>5, <1>6, <1>7, <1>8 DEF FamilyMoved
<1>10. QED
  BY <1>3, <1>9, FamilyStep

LEMMA PageIs ==
  ASSUME IInv, NEW f \in Families, fam[f].pc = "fetching"
  PROVE  /\ PageOf(f) \in Seq(Postings)
         /\ listing[Current(f)] \in Seq(Postings)
<1>1. listing[Current(f)] \in Seq(Postings)
  BY FamilyIs, CurrentIsSource DEF AtSource, IInv, TypeOK
<1>2. \A n \in DOMAIN listing[Current(f)] : <<listing[Current(f)][n]>> \in Seq(Postings)
  BY <1>1
<1>3. <<>> \in Seq(Postings)
  OBVIOUS
<1>4. QED
  BY <1>1, <1>2, <1>3 DEF PageOf

LEMMA FetchPageStep ==
  ASSUME IInv, NEW f \in Families, NEW clear \in BOOLEAN, FetchPage(f, clear)
  PROVE  IInv'
<1> DEFINE page == PageOf(f)
           found == [i \in DOMAIN page |-> <<page[i], edition[page[i]], Reading(clear)>>]
           pc == IF LastPage(f) THEN "found" ELSE "fetching"
           next == IF LastPage(f) THEN 1 ELSE fam[f].page + 1
           total == IF fam[f].total = 0 THEN Len(listing[Current(f)]) ELSE fam[f].total
           c == [fam[f] EXCEPT !.pc = pc, !.page = next, !.total = total,
                               !.got = @ \o found]
<1>1. /\ fam \in [Families -> Family] /\ fam[f] \in Family /\ AtSource(f)
      /\ fam[f].got \in Seq(Hashes) /\ fam[f].todo \in Seq(Hashes)
      /\ fam[f].pc = "fetching"
  BY FamilyIs DEF FetchPage
<1>2. page \in Seq(Postings) /\ Len(listing[Current(f)]) \in Nat
  BY <1>1, PageIs
<1>3. faults' \in 0 .. MaxFaults
  BY FaultType DEF FetchPage, IInv, TypeOK
<1>4. found \in Seq(Hashes)
  <2>1. DOMAIN page = 1 .. Len(page) /\ Len(page) \in Nat
    BY <1>2
  <2>2. ASSUME NEW i \in 1 .. Len(page)
        PROVE  <<page[i], edition[page[i]], Reading(clear)>> \in Hashes
    <3>1. page[i] \in Postings
      BY <1>2, <2>1
    <3>2. edition[page[i]] \in 0 .. MaxEdits /\ Reading(clear) \in {"full", "bare"}
      BY <3>1 DEF IInv, TypeOK, Reading
    <3>3. QED
      BY <3>1, <3>2 DEF Hashes
  <2> HIDE DEF page
  <2>3. found \in [1 .. Len(page) -> Hashes]
    BY <2>1, <2>2
  <2>4. QED
    BY <2>1, <2>3
<1>5. fam[f].got \o found \in Seq(Hashes)
  <2> HIDE DEF found
  <2>1. QED
    BY <1>1, <1>4
<1>6. next \in 1 .. PageCap /\ total \in Nat
  <2>1. fam[f].page \in 1 .. PageCap /\ fam[f].total \in Nat
    BY <1>1 DEF Family
  <2>2. fam[f].page = PageCap => LastPage(f)
    BY DEF LastPage
  <2>3. QED
    BY <1>2, <2>1, <2>2, ConstantsAssumption
<1>7. /\ fam' = [fam EXCEPT ![f] = c]
      /\ UNCHANGED <<listing, edition, fetcher, rows, crawlRow, cycle, edits>>
  BY <1>1 DEF FetchPage
<1> HIDE DEF found, next, total
<1>8. /\ c.pc \in {"found", "fetching"} /\ c.at = fam[f].at /\ c.new = fam[f].new
      /\ c.got = fam[f].got \o found /\ c.todo = fam[f].todo
      /\ c.page = next /\ c.total = total
  BY <1>1 DEF Family
<1>9. c \in Family
  BY <1>1, <1>5, <1>6 DEF Family
<1> HIDE DEF c
<1>10. c.at \in DOMAIN WatchList[f]
  BY <1>1, <1>8 DEF AtSource
<1>11. /\ crawlRow' \in [Sources -> {"none", "IN_PROGRESS", "SUCCESS", "FAILED"}]
       /\ lost' \subseteq Titles
       /\ UNCHANGED <<listing, edition, fetcher, rows, phase, stats, told, purged, edits>>
  BY <1>7 DEF IInv, TypeOK, cycle
<1>12. FamilyMoved(f, c)
  BY <1>3, <1>7, <1>8, <1>10, <1>11 DEF FamilyMoved
<1>13. QED
  BY <1>9, <1>12, FamilyStep

LEMMA FetchFailsStep ==
  ASSUME IInv, NEW f \in Families, NEW how, FetchFails(f, how)
  PROVE  IInv'
<1>1. /\ fam \in [Families -> Family] /\ fam[f] \in Family /\ AtSource(f)
      /\ fam[f].got \in Seq(Hashes) /\ fam[f].todo \in Seq(Hashes)
      /\ fam[f].pc = "fetching"
  BY FamilyIs DEF FetchFails
<1>2. PICK pc \in {"failing", "found"}, got \in {fam[f].got, <<>>} :
        fam' = [fam EXCEPT ![f].pc = pc, ![f].page = 1, ![f].got = got]
  <2> DEFINE outcome == CASE how = "limited" -> fetcher[f].limited
                          [] how = "gone" -> fetcher[f].gone
                          [] how = "broken" -> fetcher[f].broken
  <2>1. fam' = [fam EXCEPT ![f].pc = IF outcome = "raise" THEN "failing" ELSE "found",
                           ![f].page = 1,
                           ![f].got = IF outcome = "some" THEN fam[f].got ELSE <<>>]
    BY <1>1 DEF FetchFails
  <2> HIDE DEF outcome
  <2>2. QED
    BY <2>1
<1> DEFINE c == [fam[f] EXCEPT !.pc = pc, !.page = 1, !.got = got]
<1>3. fam' = [fam EXCEPT ![f] = c]
  BY <1>1, <1>2, Zenon
<1>4. got \in Seq(Hashes)
  <2>1. <<>> \in Seq(Hashes)
    OBVIOUS
  <2>2. QED
    BY <1>1, <2>1
<1>5. c \in Family /\ c.pc \in {"failing", "found"} /\ c.at = fam[f].at /\ c.new = fam[f].new
  <2>1. 1 \in 1 .. PageCap
    BY ConstantsAssumption
  <2>2. pc \in {"done", "next", "fetching", "found", "inserting", "failing", "raised"}
    OBVIOUS
  <2>3. QED
    BY <1>1, <1>4, <2>1, <2>2 DEF Family
<1> HIDE DEF c
<1>6. /\ crawlRow' \in [Sources -> {"none", "IN_PROGRESS", "SUCCESS", "FAILED"}]
      /\ lost' \subseteq Titles
      /\ UNCHANGED <<listing, edition, fetcher, rows, phase, stats, told, purged, edits>>
  BY DEF FetchFails, IInv, TypeOK, cycle
<1>7. faults' \in 0 .. MaxFaults
  BY FaultType DEF FetchFails
<1>8. c.at \in DOMAIN WatchList[f]
  BY <1>1, <1>5 DEF AtSource
<1>9. FamilyMoved(f, c)
  BY <1>3, <1>5, <1>6, <1>7, <1>8 DEF FamilyMoved
<1>10. QED
  BY <1>5, <1>9, FamilyStep

LEMMA FilterNewJobsStep ==
  ASSUME IInv, NEW f \in Families, FilterNewJobs(f)
  PROVE  IInv'
<1>1. /\ fam \in [Families -> Family] /\ fam[f] \in Family /\ AtSource(f)
      /\ fam[f].got \in Seq(Hashes) /\ fam[f].pc = "found"
  BY FamilyIs DEF FilterNewJobs
<1>2. PICK I : fam' = [fam EXCEPT ![f].pc = "inserting", ![f].todo = Kept(fam[f].got, I)]
  BY DEF FilterNewJobs
<1> DEFINE todo == Kept(fam[f].got, I)
           c == [fam[f] EXCEPT !.pc = "inserting", !.todo = todo]
<1>3. todo \in Seq(Hashes)
  BY <1>1, KeptIsSeq
<1>4. fam' = [fam EXCEPT ![f] = c]
  BY <1>1, <1>2
<1> HIDE DEF todo
<1>5. c \in Family /\ c.pc = "inserting" /\ c.at = fam[f].at /\ c.new = fam[f].new
  BY <1>1, <1>3 DEF Family
<1> HIDE DEF c
<1>6. /\ crawlRow' \in [Sources -> {"none", "IN_PROGRESS", "SUCCESS", "FAILED"}]
      /\ lost' \subseteq Titles /\ faults' \in 0 .. MaxFaults
      /\ UNCHANGED <<listing, edition, fetcher, rows, phase, stats, told, purged, edits>>
  BY DEF FilterNewJobs, IInv, TypeOK, cycle
<1>7. c.at \in DOMAIN WatchList[f]
  BY <1>1, <1>5 DEF AtSource
<1>8. FamilyMoved(f, c)
  BY <1>4, <1>5, <1>6, <1>7 DEF FamilyMoved
<1>9. QED
  BY <1>5, <1>8, FamilyStep

-----------------------------------------------------------------------------
(* A row is inserted. *)

LEMMA RowTypes ==
  ASSUME IInv
  PROVE  /\ status \in [Hashes -> {"none", "NEW", "QUALIFIED", "FILTERED"}]
         /\ by \in [Hashes -> Families \cup {"nobody", "other"}]
         /\ fresh \in [Processes -> SUBSET Hashes]
         /\ \A w \in Processes :
              fresh[w] \subseteq Stored /\ IsFiniteSet(fresh[w])
         /\ Stored \subseteq Hashes
<1>1. \A w \in Processes : fresh[w] \subseteq Stored /\ IsFiniteSet(Stored)
  BY DEF IInv, RowsAreThere
<1>2. \A w \in Processes : IsFiniteSet(fresh[w])
  BY <1>1, FS_Subset
<1>3. QED
  BY <1>1, <1>2 DEF IInv, TypeOK, Stored

\* insert_job: a duplicate and what the hard filters reject change nothing, any
\* other hash is stored, and fresh to the cycles that run.
LEMMA InsertJobIs ==
  ASSUME IInv, NEW h \in Hashes, NEW who \in Families \cup {"other"}, InsertJob(h, who)
  PROVE  \/ /\ h \in Stored \/ FilterJob(h[1]) = "REJECT"
            /\ UNCHANGED rows /\ Stored' = Stored
         \/ /\ h \notin Stored /\ FilterJob(h[1]) # "REJECT"
            /\ status' \in [Hashes -> {"none", "NEW", "QUALIFIED", "FILTERED"}]
            /\ by' \in [Hashes -> Families \cup {"nobody", "other"}]
            /\ Stored' = Stored \cup {h} /\ aged' = aged
            /\ fresh' \in [Processes -> SUBSET Hashes]
            /\ \A w \in Processes :
                 fresh'[w] = IF phase[w] \in {"crawling", "announcing"}
                             THEN fresh[w] \cup {h} ELSE fresh[w]
            /\ by'[h] = who /\ \A k \in Hashes \ {h} : by'[k] = by[k]
<1>1. CASE h \in Stored \/ FilterJob(h[1]) = "REJECT"
  BY <1>1 DEF InsertJob, Stored, rows
<1>2. CASE h \notin Stored /\ FilterJob(h[1]) # "REJECT"
  <2>1. /\ status' = [status EXCEPT ![h] = "NEW"]
        /\ by' = [by EXCEPT ![h] = who] /\ aged' = aged
        /\ fresh' = [w \in Processes |-> IF phase[w] \in {"crawling", "announcing"}
                                         THEN fresh[w] \cup {h} ELSE fresh[w]]
    BY <1>2 DEF InsertJob, StoredStatus
  <2>2. /\ status' \in [Hashes -> {"none", "NEW", "QUALIFIED", "FILTERED"}]
        /\ status'[h] = "NEW" /\ \A k \in Hashes \ {h} : status'[k] = status[k]
    BY <2>1, RowTypes
  <2>3. /\ by' \in [Hashes -> Families \cup {"nobody", "other"}]
        /\ by'[h] = who /\ \A k \in Hashes \ {h} : by'[k] = by[k]
    BY <2>1, RowTypes
  <2>4. Stored' = Stored \cup {h}
    BY <2>2 DEF Stored
  <2>5. fresh' \in [Processes -> SUBSET Hashes]
    BY <2>1, RowTypes
  <2>6. QED
    BY <1>2, <2>1, <2>2, <2>3, <2>4, <2>5
<1>3. QED
  BY <1>1, <1>2

\* What an insertion does not disturb.
LEMMA InsertedRows ==
  ASSUME IInv, NEW h \in Hashes, NEW who \in Families \cup {"other"}, InsertJob(h, who),
         UNCHANGED <<told, purged>>
  PROVE  /\ status' \in [Hashes -> {"none", "NEW", "QUALIFIED", "FILTERED"}]
         /\ by' \in [Hashes -> Families \cup {"nobody", "other"}]
         /\ fresh' \in [Processes -> SUBSET Hashes]
         /\ aged' = aged
         /\ RowsAreThere' /\ ToldIsKnown'
<1>1. CASE UNCHANGED rows
  BY <1>1, RowsStay, RowTypes DEF rows
<1>2. CASE /\ h \notin Stored
           /\ Stored' = Stored \cup {h} /\ aged' = aged
           /\ \A w \in Processes : fresh'[w] \in {fresh[w], fresh[w] \cup {h}}
  <2>1. RowsAreThere'
    BY <1>2, FS_AddElement DEF IInv, RowsAreThere
  <2>2. ASSUME NEW w \in Processes, NEW t, Known(w, t)
        PROVE  Known(w, t)'
    <3>1. PICK k \in Stored : TitleOf[k[1]] = t /\ k \notin fresh[w]
      BY <2>2 DEF Known
    <3>2. k \in Stored' /\ k \notin fresh'[w]
      BY <1>2, <3>1
    <3>3. QED
      BY <3>1, <3>2 DEF Known
  <2>3. ToldIsKnown'
    BY <2>2 DEF IInv, ToldIsKnown, ToldIsKnownTo
  <2>4. QED
    BY <1>2, <2>1, <2>3, InsertJobIs, RowTypes DEF rows
<1>3. QED
  BY <1>1, <1>2, InsertJobIs

\* Who has inserted accepted rows since the cycle began has counted them.
LEMMA InsertedMine ==
  ASSUME IInv, NEW h \in Hashes, NEW who \in Families \cup {"other"}, InsertJob(h, who),
         NEW g \in Families, phase["own"] = "crawling"
  PROVE  /\ Cardinality(Mine(g)) \in Nat
         /\ g # who => Mine(g)' = Mine(g)
         /\ g = who => Cardinality(Mine(g)') = IF CountsAsNew(h) THEN Cardinality(Mine(g)) + 1
                                               ELSE Cardinality(Mine(g))
<1>1. IsFiniteSet(Mine(g)) /\ Cardinality(Mine(g)) \in Nat
  BY RowTypes, FS_Subset, FS_CardinalityType DEF Mine, Processes
<1>2. CASE UNCHANGED rows /\ (h \in Stored \/ FilterJob(h[1]) = "REJECT")
  <2>1. Mine(g)' = Mine(g)
    BY <1>2 DEF Mine, rows
  <2>2. ~CountsAsNew(h)
    BY <1>2 DEF CountsAsNew
  <2>3. QED
    BY <1>1, <2>1, <2>2
<1>3. CASE /\ h \notin Stored /\ FilterJob(h[1]) # "REJECT"
           /\ fresh'["own"] = fresh["own"] \cup {h}
           /\ by'[h] = who /\ \A k \in Hashes \ {h} : by'[k] = by[k]
  <2>1. h \notin fresh["own"] /\ \A k \in fresh["own"] : by'[k] = by[k]
    BY <1>3, RowTypes DEF Processes
  <2>2. CountsAsNew(h) <=> FilterJob(h[1]) # "REJECT_FILTERED"
    BY <1>3 DEF CountsAsNew, FilterJob
  <2>3. g # who => Mine(g)' = Mine(g)
    BY <1>3, <2>1 DEF Mine
  <2>4. g = who /\ ~CountsAsNew(h) => Mine(g)' = Mine(g)
    BY <1>3, <2>1, <2>2 DEF Mine
  <2>5. g = who /\ CountsAsNew(h) => Mine(g)' = Mine(g) \cup {h} /\ h \notin Mine(g)
    BY <1>3, <2>1, <2>2 DEF Mine
  <2>6. QED
    BY <1>1, <2>3, <2>4, <2>5, FS_AddElement
<1>4. QED
  BY <1>2, <1>3, InsertJobIs DEF Processes

LEMMA InsertNextStep ==
  ASSUME IInv, NEW f \in Families, InsertNext(f)
  PROVE  IInv'
<1> DEFINE h == Head(fam[f].todo)
           new == IF CountsAsNew(h) THEN fam[f].new + 1 ELSE fam[f].new
           c == [fam[f] EXCEPT !.todo = Tail(@), !.new = new]
<1>1. /\ fam \in [Families -> Family] /\ fam[f] \in Family /\ AtSource(f)
      /\ fam[f].todo \in Seq(Hashes)
      /\ fam[f].pc = "inserting" /\ fam[f].todo # <<>>
  BY FamilyIs DEF InsertNext
<1>2. h \in Hashes /\ Tail(fam[f].todo) \in Seq(Hashes)
  BY <1>1
<1>3. /\ InsertJob(h, f)
      /\ UNCHANGED <<listing, edition, fetcher, crawlRow, phase, stats, told, purged, lost,
                     edits, faults>>
  BY DEF InsertNext, cycle
<1>4. fam' = [fam EXCEPT ![f] = c]
  BY <1>1 DEF InsertNext
<1>5. new \in Nat
  BY <1>1 DEF Family
<1> HIDE DEF h, new
<1>6. c \in Family /\ c.pc = "inserting" /\ c.at = fam[f].at /\ c.new = new
  BY <1>1, <1>2, <1>5 DEF Family
<1> HIDE DEF c
<1>7. /\ fam' \in [Families -> Family] /\ fam'[f] = c
      /\ \A g \in Families \ {f} : fam'[g] = fam[g]
  BY <1>1, <1>4, <1>6
<1>8. /\ status' \in [Hashes -> {"none", "NEW", "QUALIFIED", "FILTERED"}]
      /\ by' \in [Hashes -> Families \cup {"nobody", "other"}]
      /\ fresh' \in [Processes -> SUBSET Hashes]
      /\ aged' = aged
      /\ RowsAreThere' /\ ToldIsKnown'
  BY <1>2, <1>3, InsertedRows
<1>9. TypeOK'
  BY <1>3, <1>7, <1>8 DEF IInv, TypeOK
<1>10. CrawlsAreOfSources'
  <2>1. ASSUME NEW g \in Families
        PROVE  AtSource(g)'
    BY <1>1, <1>6, <1>7 DEF IInv, CrawlsAreOfSources, AtSource
  <2>2. QED
    BY <2>1 DEF CrawlsAreOfSources
<1>11. CountsMatchRows'
  <2>1. ASSUME NEW g \in Families, phase["own"] = "crawling"
        PROVE  fam'[g].new = Cardinality(Mine(g)')
    <3>1. fam[g].new = Cardinality(Mine(g))
      BY <2>1 DEF IInv, CountsMatchRows
    <3>2. CASE g = f
      BY <1>2, <1>3, <1>6, <1>7, <2>1, <3>1, <3>2, InsertedMine DEF new
    <3>3. CASE g # f
      BY <1>2, <1>3, <1>7, <2>1, <3>1, <3>3, InsertedMine
    <3>4. QED
      BY <3>2, <3>3
  <2>2. QED
    BY <1>3, <2>1 DEF CountsMatchRows
<1>12. QED
  BY <1>8, <1>9, <1>10, <1>11 DEF IInv

LEMMA InsertElsewhereStep ==
  ASSUME IInv, NEW h \in Hashes, InsertElsewhere(h)
  PROVE  IInv'
<1>1. /\ InsertJob(h, "other")
      /\ UNCHANGED <<listing, edition, fetcher, crawlRow, fam, phase, stats, told, purged,
                     lost, edits>>
      /\ faults' \in 0 .. MaxFaults
  BY FaultType DEF InsertElsewhere, cycle, IInv, TypeOK
<1>2. /\ status' \in [Hashes -> {"none", "NEW", "QUALIFIED", "FILTERED"}]
      /\ by' \in [Hashes -> Families \cup {"nobody", "other"}]
      /\ fresh' \in [Processes -> SUBSET Hashes]
      /\ aged' = aged
      /\ RowsAreThere' /\ ToldIsKnown'
  BY <1>1, InsertedRows
<1>3. TypeOK'
  BY <1>1, <1>2 DEF IInv, TypeOK
<1>4. CrawlsAreOfSources'
  BY <1>1 DEF IInv, CrawlsAreOfSources, AtSource
<1>5. CountsMatchRows'
  <2>1. ASSUME NEW g \in Families, phase["own"] = "crawling"
        PROVE  Mine(g)' = Mine(g)
    <3>1. g # "other"
      BY ConstantsAssumption
    <3>2. QED
      BY <1>1, <2>1, <3>1, InsertedMine
  <2>2. QED
    BY <1>1, <2>1 DEF IInv, CountsMatchRows
<1>6. QED
  BY <1>2, <1>3, <1>4, <1>5 DEF IInv

-----------------------------------------------------------------------------
(* The sites, time and the gate. *)

LEMMA ListingStep ==
  ASSUME IInv, NEW s \in Sources, NEW p \in Postings, Delist(s, p) \/ List(s, p)
  PROVE  IInv'
<1>1. listing \in [Sources -> Seq(Postings)] /\ Without(listing[s], p) \in Seq(Postings)
  BY KeptIsSeq DEF Without, IInv, TypeOK
<1>2. /\ UNCHANGED <<edition, fetcher, rows, crawlRow, fam, cycle, faults>>
      /\ edits' \in 0 .. MaxEdits
  BY EditType DEF Delist, List
<1>3. listing' \in [Sources -> Seq(Postings)]
  <2>1. CASE Delist(s, p)
    BY <1>1, <2>1 DEF Delist
  <2>2. CASE List(s, p)
    <3>1. <<p>> \o Without(listing[s], p) \in Seq(Postings)
      BY <1>1
    <3>2. QED
      BY <1>1, <2>2, <3>1 DEF List
  <2>3. QED
    BY <2>1, <2>2
<1>4. TypeOK'
  BY <1>2, <1>3 DEF IInv, TypeOK, rows, cycle
<1>5. CrawlsAreOfSources'
  BY <1>2 DEF IInv, CrawlsAreOfSources, AtSource
<1>6. RowsAreThere' /\ ToldIsKnown' /\ CountsMatchRows'
  BY <1>2, RowsStay DEF IInv, CountsMatchRows, cycle
<1>7. QED
  BY <1>4, <1>5, <1>6 DEF IInv

LEMMA RewordStep ==
  ASSUME IInv, NEW p \in Postings, Reword(p)
  PROVE  IInv'
<1>1. /\ UNCHANGED <<listing, fetcher, rows, crawlRow, fam, cycle, faults>>
      /\ edits' \in 0 .. MaxEdits
  BY EditType DEF Reword
<1>2. edition' \in [Postings -> 0 .. MaxEdits]
  BY <1>1 DEF Reword, Edit, IInv, TypeOK
<1>3. TypeOK'
  BY <1>1, <1>2 DEF IInv, TypeOK, rows, cycle
<1>4. CrawlsAreOfSources'
  BY <1>1 DEF IInv, CrawlsAreOfSources, AtSource
<1>5. RowsAreThere' /\ ToldIsKnown' /\ CountsMatchRows'
  BY <1>1, RowsStay DEF IInv, CountsMatchRows, cycle
<1>6. QED
  BY <1>3, <1>4, <1>5 DEF IInv

\* Rows turn old or are decided on: they stay rows, of whom they are.
LEMMA SameRows ==
  ASSUME IInv, MonthsPass \/ \E h \in Hashes : Decide(h)
  PROVE  IInv'
<1>1. /\ UNCHANGED <<listing, edition, fetcher, by, fresh, crawlRow, fam, cycle, faults>>
      /\ edits' \in 0 .. MaxEdits
  BY EditType DEF MonthsPass, Decide
<1>2. /\ status' \in [Hashes -> {"none", "NEW", "QUALIFIED", "FILTERED"}]
      /\ Stored' = Stored
  <2>1. CASE MonthsPass
    BY <2>1, RowTypes DEF MonthsPass, Stored
  <2>2. ASSUME NEW h \in Hashes, Decide(h)
        PROVE  /\ status' \in [Hashes -> {"none", "NEW", "QUALIFIED", "FILTERED"}]
               /\ Stored' = Stored
    <3>1. status' = [status EXCEPT ![h] = "QUALIFIED"] /\ status[h] = "NEW"
      BY <2>2 DEF Decide
    <3>2. /\ status' \in [Hashes -> {"none", "NEW", "QUALIFIED", "FILTERED"}]
          /\ \A k \in Hashes : status'[k] # "none" <=> status[k] # "none"
      BY <3>1, RowTypes
    <3>3. QED
      BY <3>2 DEF Stored
  <2>3. QED
    BY <2>1, <2>2
<1>3. /\ aged' \subseteq Stored
      /\ \A w \in Processes : fresh[w] \subseteq Stored \ aged'
  BY DEF MonthsPass, Decide, IInv, RowsAreThere
<1>4. TypeOK'
  BY <1>1, <1>2, <1>3, RowTypes DEF IInv, TypeOK, cycle
<1>5. CrawlsAreOfSources'
  BY <1>1 DEF IInv, CrawlsAreOfSources, AtSource
<1>6. RowsAreThere'
  BY <1>1, <1>2, <1>3 DEF IInv, RowsAreThere
<1>7. ToldIsKnown'
  BY <1>1, <1>2 DEF IInv, ToldIsKnown, ToldIsKnownTo, Known, cycle
<1>8. CountsMatchRows'
  BY <1>1 DEF IInv, CountsMatchRows, Mine, cycle
<1>9. QED
  BY <1>4, <1>5, <1>6, <1>7, <1>8 DEF IInv

-----------------------------------------------------------------------------
(* The cycle. *)

\* News may be forgotten.
LEMMA FreshShrinks ==
  ASSUME IInv, UNCHANGED <<status, aged, told, purged>>,
         NEW w \in Processes, fresh' = [fresh EXCEPT ![w] = {}]
  PROVE  /\ fresh' \in [Processes -> SUBSET Hashes]
         /\ fresh'[w] = {} /\ \A v \in Processes \ {w} : fresh'[v] = fresh[v]
         /\ Stored' = Stored /\ RowsAreThere' /\ ToldIsKnown'
<1>1. /\ fresh' \in [Processes -> SUBSET Hashes]
      /\ fresh'[w] = {} /\ \A v \in Processes \ {w} : fresh'[v] = fresh[v]
      /\ \A v \in Processes : fresh'[v] \subseteq fresh[v]
  BY RowTypes
<1>2. Stored' = Stored
  BY DEF Stored
<1>3. RowsAreThere'
  BY <1>1, <1>2 DEF IInv, RowsAreThere
<1>4. ASSUME NEW v \in Processes, NEW t, Known(v, t)
      PROVE  Known(v, t)'
  BY <1>1, <1>2, <1>4 DEF Known
<1>5. ToldIsKnown'
  BY <1>4 DEF IInv, ToldIsKnown, ToldIsKnownTo
<1>6. QED
  BY <1>1, <1>2, <1>3, <1>5

LEMMA BeginStep ==
  ASSUME IInv, BeginCycle \/ BeginElsewhere
  PROVE  IInv'
<1> DEFINE c == [Asleep EXCEPT !.pc = "next", !.at = 1]
<1>1. c \in Family /\ c.pc = "next" /\ c.at = 1 /\ c.new = 0
  BY AsleepIs DEF Family
<1>2. PICK w \in Processes :
        /\ phase' = [phase EXCEPT ![w] = "crawling"]
        /\ fresh' = [fresh EXCEPT ![w] = {}]
        /\ w = "own" => fam' = [f \in Families |-> c]
        /\ w # "own" => UNCHANGED fam
  BY DEF BeginCycle, BeginElsewhere, Begin, Processes
<1>3. /\ UNCHANGED <<listing, edition, fetcher, status, aged, by, crawlRow, stats, told,
                     purged, lost, faults>>
      /\ edits' \in 0 .. MaxEdits
  BY EditType DEF BeginCycle, BeginElsewhere, Begin, IInv, TypeOK
<1> HIDE DEF c
<1>4. /\ fresh' \in [Processes -> SUBSET Hashes]
      /\ fresh'[w] = {} /\ \A v \in Processes \ {w} : fresh'[v] = fresh[v]
      /\ RowsAreThere' /\ ToldIsKnown'
  BY <1>2, <1>3, FreshShrinks
<1>5. w = "own" => \A f \in Families : fam'[f] = c
  BY <1>2
<1>6. phase' \in [Processes -> {"sleeping", "crawling", "announcing", "cleaning"}]
  BY <1>2 DEF IInv, TypeOK
<1>7. fam' \in [Families -> Family]
  BY <1>1, <1>2 DEF IInv, TypeOK
<1>8. TypeOK'
  BY <1>3, <1>4, <1>6, <1>7 DEF IInv, TypeOK
<1>9. CrawlsAreOfSources'
  <2>1. CASE w = "own"
    BY <1>1, <1>5, <2>1 DEF CrawlsAreOfSources, AtSource
  <2>2. CASE w # "own"
    BY <1>2, <2>2 DEF IInv, CrawlsAreOfSources, AtSource
  <2>3. QED
    BY <2>1, <2>2
<1>10. CountsMatchRows'
  <2>1. CASE w = "own"
    <3>1. ASSUME NEW f \in Families
          PROVE  fam'[f].new = Cardinality(Mine(f)')
      <4>1. Mine(f)' = {}
        BY <1>4, <2>1 DEF Mine
      <4>2. QED
        BY <1>1, <1>5, <2>1, <4>1, FS_EmptySet
    <3>2. QED
      BY <3>1 DEF CountsMatchRows
  <2>2. CASE w # "own"
    <3>1. phase'["own"] = phase["own"] /\ fresh'["own"] = fresh["own"] /\ fam' = fam
      BY <1>2, <1>4, <2>2 DEF Processes, IInv, TypeOK
    <3>2. \A f \in Families : Mine(f)' = Mine(f)
      BY <1>3, <3>1 DEF Mine
    <3>3. QED
      BY <3>1, <3>2 DEF IInv, CountsMatchRows
  <2>3. QED
    BY <2>1, <2>2
<1>11. QED
  BY <1>4, <1>8, <1>9, <1>10 DEF IInv

LEMMA TotalNewIsNat ==
  ASSUME IInv, NEW w \in Processes
  PROVE  TotalNew(w) \in Nat
<1> DEFINE Returned == {g \in Families : fam[g].pc # "raised"}
           counted == [f \in Returned |-> {f} \X (1 .. fam[f].new)]
<1>1. IsFiniteSet(Returned)
  BY FS_Subset, ConstantsAssumption
<1>2. ASSUME NEW f \in Returned
      PROVE  IsFiniteSet(counted[f])
  <2>1. fam[f].new \in Int /\ 1 \in Int
    BY DEF IInv, TypeOK, Family
  <2>2. IsFiniteSet(1 .. fam[f].new) /\ IsFiniteSet({f})
    BY <2>1, FS_Interval, FS_Singleton
  <2>3. QED
    BY <2>2, FS_Product
<1> DEFINE parts == {{f} \X (1 .. fam[f].new) : f \in Returned}
<1>3. parts = {counted[f] : f \in Returned}
  OBVIOUS
<1> HIDE DEF Returned, counted, parts
<1>4. IsFiniteSet(parts)
  <2>1. counted \in [Returned -> parts] /\ \A x \in parts : \E f \in Returned : counted[f] = x
    BY <1>3 DEF counted
  <2>2. counted \in Surjection(Returned, parts)
    BY <2>1 DEF Surjection
  <2>3. QED
    BY <1>1, <2>2, FS_Surjection
<1>5. \A x \in parts : IsFiniteSet(x)
  BY <1>2, <1>3
<1>6. IsFiniteSet(UNION parts)
  BY <1>4, <1>5, FS_UNION
<1>7. CASE w = "own"
  <2>1. TotalNew(w) = Cardinality(UNION parts)
    BY <1>7 DEF TotalNew, parts, Returned
  <2>2. QED
    BY <1>6, <2>1, FS_CardinalityType
<1>8. CASE w # "own"
  <2> DEFINE its == {h \in fresh[w] : by[h] = w /\ FilterJob(h[1]) # "REJECT_FILTERED"}
  <2>1. IsFiniteSet(its)
    BY RowTypes, FS_Subset
  <2>2. TotalNew(w) = Cardinality(its)
    BY <1>8 DEF TotalNew
  <2>3. QED
    BY <2>1, <2>2, FS_CardinalityType
<1>9. QED
  BY <1>7, <1>8

LEMMA UpdateDailyStatsStep ==
  ASSUME IInv, NEW w \in Processes, UpdateDailyStats(w)
  PROVE  IInv'
<1>1. /\ phase' = [phase EXCEPT ![w] = "announcing"] /\ stats' = stats + TotalNew(w)
      /\ UNCHANGED <<listing, edition, fetcher, rows, crawlRow, fam, told, purged, lost,
                     edits, faults>>
  BY DEF UpdateDailyStats
<1>2. /\ phase' \in [Processes -> {"sleeping", "crawling", "announcing", "cleaning"}]
      /\ phase'["own"] = "crawling" => phase["own"] = "crawling"
  BY <1>1 DEF IInv, TypeOK, Processes
<1>3. TypeOK'
  BY <1>1, <1>2, TotalNewIsNat DEF IInv, TypeOK, rows
<1>4. CrawlsAreOfSources'
  BY <1>1 DEF IInv, CrawlsAreOfSources, AtSource
<1>5. RowsAreThere' /\ ToldIsKnown' /\ \A f \in Families : Mine(f)' = Mine(f)
  BY <1>1, RowsStay
<1>6. CountsMatchRows'
  BY <1>1, <1>2, <1>5 DEF IInv, CountsMatchRows
<1>7. QED
  BY <1>3, <1>4, <1>5, <1>6 DEF IInv

\* A process goes on to its next phase, or its cycle is over and its families
\* are asleep.
CycleMoves(w) ==
  /\ \E next \in {"cleaning", "sleeping"} : phase' = [phase EXCEPT ![w] = next]
  /\ fam' \in {fam, [f \in Families |-> Asleep]}
  /\ w # "own" => /\ fam' = fam /\ fresh'["own"] = fresh["own"]
                  /\ \A h \in fresh["own"] : by'[h] = by[h]
  /\ UNCHANGED <<listing, edition, fetcher, crawlRow, stats, edits>>

LEMMA CycleMovesStep ==
  ASSUME IInv, NEW w \in Processes, CycleMoves(w)
  PROVE  /\ phase' \in [Processes -> {"sleeping", "crawling", "announcing", "cleaning"}]
         /\ fam' \in [Families -> Family]
         /\ CrawlsAreOfSources' /\ CountsMatchRows'
<1>1. phase' \in [Processes -> {"sleeping", "crawling", "announcing", "cleaning"}]
  BY DEF CycleMoves, IInv, TypeOK
<1>2. fam' \in [Families -> Family]
  BY AsleepIs DEF CycleMoves, IInv, TypeOK
<1>3. CrawlsAreOfSources'
  <2>1. CASE fam' = fam
    BY <2>1 DEF IInv, CrawlsAreOfSources, AtSource
  <2>2. CASE fam' = [f \in Families |-> Asleep]
    <3>1. \A f \in Families : fam'[f] = Asleep
      BY <2>2
    <3>2. QED
      BY <3>1, AsleepIs DEF CrawlsAreOfSources, AtSource
  <2>3. QED
    BY <2>1, <2>2 DEF CycleMoves
<1>4. CountsMatchRows'
  <2>1. CASE w = "own"
    <3>1. phase'["own"] # "crawling"
      BY <2>1 DEF CycleMoves, IInv, TypeOK
    <3>2. QED
      BY <3>1 DEF CountsMatchRows
  <2>2. CASE w # "own"
    <3>1. phase'["own"] = phase["own"]
      BY <2>2 DEF CycleMoves, IInv, TypeOK, Processes
    <3>2. \A f \in Families : Mine(f)' = Mine(f)
      BY <2>2 DEF CycleMoves, Mine
    <3>3. QED
      BY <2>2, <3>1, <3>2 DEF CycleMoves, IInv, CountsMatchRows
  <2>3. QED
    BY <2>1, <2>2
<1>5. QED
  BY <1>1, <1>2, <1>3, <1>4

\* Who has inserted what another cycle finds fresh is remembered.
LEMMA Forgotten ==
  ASSUME IInv, NEW w \in Processes, Forget(w)
  PROVE  /\ by' \in [Hashes -> Families \cup {"nobody", "other"}]
         /\ w # "own" => /\ fresh'["own"] = fresh["own"]
                         /\ \A h \in fresh["own"] : by'[h] = by[h]
<1>1. \A h \in Hashes :
        by'[h] = IF \E v \in Processes \ {w} : h \in fresh[v] THEN by[h] ELSE "nobody"
  BY DEF Forget
<1>2. by' \in [Hashes -> Families \cup {"nobody", "other"}]
  BY RowTypes DEF Forget
<1>3. w # "own" => fresh'["own"] = fresh["own"]
  BY RowTypes DEF Forget, Processes
<1>4. w # "own" => \A h \in fresh["own"] : by'[h] = by[h]
  BY <1>1, RowTypes DEF Processes
<1>5. QED
  BY <1>2, <1>3, <1>4

LEMMA AnnounceStep ==
  ASSUME IInv, NEW w \in Processes, Announce(w)
  PROVE  IInv'
<1>1. /\ Forget(w) /\ fresh' = [fresh EXCEPT ![w] = {}]
      /\ UNCHANGED <<listing, edition, fetcher, status, aged, crawlRow, fam, stats, purged,
                     lost, edits, faults>>
      /\ phase' = [phase EXCEPT ![w] = "cleaning"]
  BY DEF Announce, Forget
<1>2. CycleMoves(w)
  BY <1>1, Forgotten DEF CycleMoves
<1>3. /\ told' \in [Processes -> [Titles -> Nat]]
      /\ \A v \in Processes, t \in Titles :
           \/ told'[v][t] = told[v][t]
           \/ v = w /\ t \in NewTitles(w) /\ told'[v][t] = told[v][t] + 1
  <2>1. told \in [Processes -> [Titles -> Nat]]
    BY DEF IInv, TypeOK
  <2> DEFINE new == [t \in Titles |-> IF TotalNew(w) > 0 /\ t \in NewTitles(w)
                                      THEN told[w][t] + 1 ELSE told[w][t]]
  <2>2. new \in [Titles -> Nat]
    BY <2>1
  <2>3. told' = [told EXCEPT ![w] = new]
    BY <2>1 DEF Announce
  <2>4. \A t \in Titles : \/ new[t] = told[w][t]
                          \/ t \in NewTitles(w) /\ new[t] = told[w][t] + 1
    OBVIOUS
  <2> HIDE DEF new
  <2>5. QED
    BY <2>1, <2>2, <2>3, <2>4
<1>4. /\ fresh' \in [Processes -> SUBSET Hashes]
      /\ fresh'[w] = {} /\ \A v \in Processes \ {w} : fresh'[v] = fresh[v]
      /\ Stored' = Stored
  <2>1. fresh \in [Processes -> SUBSET Hashes]
    BY RowTypes
  <2>2. QED
    BY <1>1, <2>1 DEF Stored
<1>5. RowsAreThere'
  BY <1>1, <1>4 DEF IInv, RowsAreThere
<1>6. ToldIsKnown'
  <2>1. ASSUME NEW v \in Processes, NEW t \in Titles
        PROVE  ToldIsKnownTo(v, t)'
    <3>1. /\ ToldIsKnownTo(v, t) /\ purged'[t] = purged[t]
          /\ told[v][t] \in Nat /\ purged[t] \in Nat
      BY <1>1 DEF IInv, ToldIsKnown, TypeOK
    <3>2. Known(v, t) => Known(v, t)'
      BY <1>4 DEF Known
    <3>3. CASE told'[v][t] = told[v][t]
      BY <3>1, <3>2, <3>3 DEF ToldIsKnownTo
    <3>4. CASE v = w /\ t \in NewTitles(w) /\ told'[v][t] = told[v][t] + 1
      <4>1. ~Known(v, t)
        BY <3>4 DEF Known, NewTitles, TitlesOf
      <4>2. told'[v][t] <= purged'[t] + 1
        BY <3>1, <3>4, <4>1 DEF ToldIsKnownTo
      <4>3. Known(v, t)'
        <5>1. PICK h \in fresh[w] : TitleOf[h[1]] = t
          BY <3>4 DEF NewTitles, TitlesOf
        <5>2. h \in Stored
          BY <5>1, RowTypes
        <5>3. QED
          BY <1>4, <3>4, <5>1, <5>2 DEF Known
      <4>4. QED
        BY <3>1, <3>4, <4>2, <4>3 DEF ToldIsKnownTo
    <3>5. QED
      BY <1>3, <3>3, <3>4
  <2>2. QED
    BY <2>1 DEF ToldIsKnown
<1>7. TypeOK'
  BY <1>1, <1>2, <1>3, <1>4, CycleMovesStep, Forgotten DEF IInv, TypeOK
<1>8. QED
  BY <1>2, <1>5, <1>6, <1>7, CycleMovesStep DEF IInv

LEMMA CleanUpStep ==
  ASSUME IInv, NEW w \in Processes, CleanUp(w)
  PROVE  IInv'
<1> DEFINE old == {h \in aged : status[h] = "NEW"}
           of(t) == {h \in old : TitleOf[h[1]] = t}
<1>1. /\ status' = [h \in Hashes |-> IF h \in old THEN "none" ELSE status[h]]
      /\ aged' = aged \ old
      /\ purged' = [t \in Titles |-> purged[t] + Cardinality(of(t))]
      /\ UNCHANGED <<listing, edition, fetcher, by, fresh, crawlRow, stats, told, lost,
                     edits, faults>>
  BY DEF CleanUp
<1>2. CycleMoves(w)
  BY DEF CleanUp, CycleMoves
<1>3. old \subseteq Stored /\ IsFiniteSet(old) /\ old \subseteq aged
  <2>1. old \subseteq Stored /\ IsFiniteSet(Stored)
    BY DEF IInv, RowsAreThere
  <2>2. QED
    BY <2>1, FS_Subset
<1>4. Stored' = Stored \ old
  BY <1>1 DEF Stored
<1>5. status' \in [Hashes -> {"none", "NEW", "QUALIFIED", "FILTERED"}]
  BY <1>1, RowTypes
<1>6. \A t : Cardinality(of(t)) \in Nat /\ (of(t) # {} => Cardinality(of(t)) > 0)
  <2>1. ASSUME NEW t
        PROVE  Cardinality(of(t)) \in Nat /\ (of(t) # {} => Cardinality(of(t)) > 0)
    <3>1. IsFiniteSet(of(t))
      BY <1>3, FS_Subset
    <3> HIDE DEF of
    <3>2. Cardinality(of(t)) \in Nat /\ (Cardinality(of(t)) = 0 <=> of(t) = {})
      BY <3>1, FS_CardinalityType, FS_EmptySet
    <3>3. QED
      BY <3>2
  <2>2. QED
    BY <2>1
<1>7. purged' \in [Titles -> Nat]
  <2>1. purged \in [Titles -> Nat]
    BY DEF IInv, TypeOK
  <2>2. ASSUME NEW t \in Titles
        PROVE  purged[t] + Cardinality(of(t)) \in Nat
    <3>1. Cardinality(of(t)) \in Nat
      BY <1>6
    <3> HIDE DEF of
    <3>2. QED
      BY <2>1, <3>1
  <2>3. QED
    BY <1>1, <2>2
<1>8. RowsAreThere'
  <2>1. IsFiniteSet(Stored')
    BY <1>4, FS_Subset DEF IInv, RowsAreThere
  <2>2. aged' \subseteq Stored'
    BY <1>1, <1>4 DEF IInv, RowsAreThere
  <2>3. \A v \in Processes : fresh'[v] \subseteq Stored' \ aged'
    BY <1>1, <1>3, <1>4 DEF IInv, RowsAreThere
  <2>4. QED
    BY <2>1, <2>2, <2>3 DEF RowsAreThere
<1>9. ToldIsKnown'
  <2>1. ASSUME NEW v \in Processes, NEW t \in Titles
        PROVE  ToldIsKnownTo(v, t)'
    <3>1. /\ ToldIsKnownTo(v, t) /\ told'[v][t] = told[v][t]
          /\ told[v][t] \in Nat /\ purged[t] \in Nat
          /\ purged'[t] = purged[t] + Cardinality(of(t))
      BY <1>1 DEF IInv, ToldIsKnown, TypeOK
    <3>2. CASE of(t) # {}
      <4>1. Cardinality(of(t)) \in Nat /\ Cardinality(of(t)) > 0
        BY <1>6, <3>2
      <4> HIDE DEF of
      <4>2. told'[v][t] <= purged'[t]
        BY <3>1, <4>1 DEF ToldIsKnownTo
      <4>3. QED
        BY <4>2 DEF ToldIsKnownTo
    <3>3. CASE of(t) = {}
      <4>1. purged'[t] = purged[t]
        <5>1. Cardinality(of(t)) = 0
          BY <3>3, FS_EmptySet
        <5> HIDE DEF of
        <5>2. QED
          BY <3>1, <5>1
      <4>2. Known(v, t) => Known(v, t)'
        BY <1>1, <1>4, <3>3 DEF Known
      <4>3. QED
        BY <3>1, <4>1, <4>2 DEF ToldIsKnownTo
    <3>4. QED
      BY <3>2, <3>3
  <2>2. QED
    BY <2>1 DEF ToldIsKnown
<1>10. TypeOK'
  BY <1>1, <1>2, <1>5, <1>7, CycleMovesStep DEF IInv, TypeOK
<1>11. QED
  BY <1>2, <1>8, <1>9, <1>10, CycleMovesStep DEF IInv

LEMMA CycleDiesStep ==
  ASSUME IInv, NEW w \in Processes, CycleDies(w)
  PROVE  IInv'
<1>1. /\ Forget(w) /\ fresh' = [fresh EXCEPT ![w] = {}]
      /\ UNCHANGED <<listing, edition, fetcher, status, aged, crawlRow, stats, told, purged,
                     edits>>
      /\ faults' \in 0 .. MaxFaults
  BY FaultType DEF CycleDies, Forget
<1>2. CycleMoves(w)
  BY <1>1, Forgotten DEF CycleDies, CycleMoves
<1>3. lost' \subseteq Titles
  <2>1. fresh[w] \subseteq Hashes /\ lost \subseteq Titles
    BY DEF IInv, TypeOK
  <2>2. QED
    BY <2>1, TitlesOfType DEF CycleDies
<1>4. /\ fresh' \in [Processes -> SUBSET Hashes]
      /\ RowsAreThere' /\ ToldIsKnown'
  BY <1>1, FreshShrinks
<1>5. TypeOK'
  BY <1>1, <1>2, <1>3, <1>4, CycleMovesStep, Forgotten DEF IInv, TypeOK
<1>6. QED
  BY <1>2, <1>4, <1>5, CycleMovesStep DEF IInv

LEMMA StutterStep ==
  ASSUME IInv, UNCHANGED vars
  PROVE  IInv'
<1>1. UNCHANGED <<listing, edition, fetcher, rows, crawlRow, fam, cycle, edits, faults>>
  BY DEF vars
<1>2. TypeOK'
  BY <1>1 DEF IInv, TypeOK, rows, cycle
<1>3. CrawlsAreOfSources'
  BY <1>1 DEF IInv, CrawlsAreOfSources, AtSource
<1>4. RowsAreThere' /\ ToldIsKnown' /\ CountsMatchRows'
  BY <1>1, RowsStay DEF IInv, CountsMatchRows, cycle
<1>5. QED
  BY <1>2, <1>3, <1>4 DEF IInv

-----------------------------------------------------------------------------
(* The theorems. *)

\* Init establishes the invariant.
LEMMA InitInv == Init => IInv
<1> SUFFICES ASSUME Init PROVE IInv
  OBVIOUS
<1>1. Stored = {} /\ \A f \in Families : fam[f] = Asleep
  BY DEF Init, Stored
<1>2. TypeOK
  <2>1. listing \in [Sources -> Seq(Postings)]
    <3>1. \A s \in Sources : SetToSeq(Home[s]) \in Seq(Postings)
      BY SetToSeqIsSeq, ConstantsAssumption
    <3>2. QED
      BY <3>1 DEF Init
  <2>2. fam \in [Families -> Family]
    BY AsleepIs DEF Init
  <2>3. QED
    BY <2>1, <2>2, ConstantsAssumption DEF Init, TypeOK
<1>3. CrawlsAreOfSources
  BY <1>1, AsleepIs DEF CrawlsAreOfSources, AtSource
<1>4. RowsAreThere
  BY <1>1, FS_EmptySet DEF Init, RowsAreThere
<1>5. ToldIsKnown
  BY DEF Init, ToldIsKnown, ToldIsKnownTo
<1>6. CountsMatchRows
  BY DEF Init, CountsMatchRows, Processes
<1>7. QED
  BY <1>2, <1>3, <1>4, <1>5, <1>6 DEF IInv

\* Every step keeps the invariant.
LEMMA StepInv == IInv /\ [Next]_vars => IInv'
<1> SUFFICES ASSUME IInv, [Next]_vars PROVE IInv'
  OBVIOUS
<1>1. ASSUME NEW f \in Families, Crawl(f)
      PROVE  IInv'
  <2>1. CASE StartCrawl(f)
    BY <2>1, StartCrawlStep
  <2>2. CASE FamilyDone(f)
    BY <2>2, GotoStep
  <2>3. CASE FetchPage(f, TRUE)
    BY <2>3, FetchPageStep
  <2>4. CASE FilterNewJobs(f)
    BY <2>4, FilterNewJobsStep
  <2>5. CASE InsertNext(f)
    BY <2>5, InsertNextStep
  <2>6. CASE CompleteCrawl(f) \/ FailCrawl(f)
    BY <2>6, NextSourceStep
  <2>7. QED
    BY <1>1, <2>1, <2>2, <2>3, <2>4, <2>5, <2>6 DEF Crawl
<1>2. ASSUME NEW f \in Families, Fails(f)
      PROVE  IInv'
  <2>1. CASE StartFails(f)
    BY <2>1, NextSourceStep
  <2>2. CASE FetchPage(f, FALSE)
    BY <2>2, FetchPageStep
  <2>3. CASE WriteFails(f) \/ FamilyRaises(f)
    BY <2>3, GotoStep
  <2>4. ASSUME NEW how, FetchFails(f, how)
        PROVE  IInv'
    BY <2>4, FetchFailsStep
  <2>5. QED
    BY <1>2, <2>1, <2>2, <2>3, <2>4 DEF Fails
<1>3. ASSUME NEW s \in Sources, NEW p \in Postings, Delist(s, p) \/ List(s, p)
      PROVE  IInv'
  BY <1>3, ListingStep
<1>4. ASSUME NEW p \in Postings, Reword(p)
      PROVE  IInv'
  BY <1>4, RewordStep
<1>5. ASSUME NEW h \in Hashes, InsertElsewhere(h) \/ Decide(h)
      PROVE  IInv'
  BY <1>5, InsertElsewhereStep, SameRows
<1>6. CASE BeginCycle \/ BeginElsewhere \/ MonthsPass
  BY <1>6, BeginStep, SameRows
<1>7. ASSUME NEW w \in Processes,
             UpdateDailyStats(w) \/ Announce(w) \/ CleanUp(w) \/ CycleDies(w)
      PROVE  IInv'
  BY <1>7, UpdateDailyStatsStep, AnnounceStep, CleanUpStep, CycleDiesStep
<1>8. CASE UNCHANGED vars
  BY <1>8, StutterStep
<1>9. QED
  BY <1>1, <1>2, <1>3, <1>4, <1>5, <1>6, <1>7, <1>8 DEF Next

\* The invariant holds of every cycle, wherever its crawls break off.
THEOREM Invariance == Spec => []IInv
BY InitInv, StepInv, PTL DEF Spec

\* Listings, hashes, rows and counters keep their types.
THEOREM TypeCorrect == Spec => []TypeOK
BY Invariance, PTL DEF IInv

\* The number a family reports as new is the number of accepted rows it has
\* inserted in the cycle, though other families and other processes insert
\* rows of the same postings.
THEOREM CountsAreTrue == Spec => []CountsMatchRows
BY Invariance, PTL DEF IInv

\* What was announced has an older row, or was removed.
LEMMA InvAnnouncedOnce == IInv => AnnouncedOnce
<1> SUFFICES ASSUME IInv, NEW w \in Processes, NEW t \in Titles
             PROVE  told[w][t] <= 1 + purged[t]
  BY DEF AnnouncedOnce
<1>1. ToldIsKnownTo(w, t) /\ told[w][t] \in Nat /\ purged[t] \in Nat
  BY DEF IInv, ToldIsKnown, TypeOK
<1>2. QED
  BY <1>1 DEF ToldIsKnownTo

\* A process announces a title at most once more than rows of it were removed by
\* age, whatever is stored again with other texts or by others, and whatever
\* dies or restarts.
THEOREM AnnouncedAtMostOnce == Spec => []AnnouncedOnce
BY Invariance, InvAnnouncedOnce, PTL

=============================================================================
