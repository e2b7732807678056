CONSTANTS
  acme = acme
  other = other
  q1 = q1
  q2 = q2
  yes = yes
  praise = praise
  w1 = w1
  w2 = w2
  r1 = r1
  e1 = e1
  Companies = {acme, other}
  Questions = {q1, q2}
  Unlabelled = {}
  Ratio <- MCRatio
  Answers = {Blank, yes, praise}
  Blank = Blank
  NamedIn <- MCNamedIn
  Anyone = Anyone
  Refs = {e1}
  Attempts = {w1, w2}
  Requests = {r1}
  MaxSaves = 2
  MaxDeferred = 2
SYMMETRY AttemptsAreAlike
SPECIFICATION CacheSpec
INVARIANTS AnsweredIsFound NoForeignAnswer
PROPERTIES AnswerStands
CHECK_DEADLOCK FALSE
