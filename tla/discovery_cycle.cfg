CONSTANTS
  paged = paged
  listed = listed
  a = a
  b = b
  c = c
  p1 = p1
  p2 = p2
  p3 = p3
  tech = tech
  health = health
  t1 = t1
  t2 = t2
  Untagged = Untagged
  Families = {paged, listed}
  Sources = {a, b, c}
  MayUse <- MCMayUse
  SourcesOf <- MCSourcesOf
  Postings = {p1, p2, p3}
  Titles = {t1, t2}
  TitleOf <- MCTitleOf
  Home <- MCHome
  Industry <- MCIndustry
  Wanted = {tech}
  HardHits = {}
  Negatives = {p2}
  Positives = {p3}
  PageCap = 2
  MaxEdits = 1
  MaxElsewhere = 1
  MaxFaults = 1
SPECIFICATION FairSpec
INVARIANTS CountsMatchRows AnnouncedOnce StoredIsTold
PROPERTIES EveryPostingIsStored
