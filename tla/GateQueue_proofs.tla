--------------------------- MODULE GateQueue_proofs ---------------------------
(***************************************************************************)
(* Proofs about GateQueue, for every number of jobs and workers, every     *)
(* batch limit, retry limit and budget.                                    *)
(*                                                                         *)
(* Nothing a worker writes names its claim token, so the proofs rest on    *)
(* what the batches say of the rows: a job that nobody else has written    *)
(* since its claim is NEW, claimed by the worker that has it, and its      *)
(* lease runs.                                                             *)
(***************************************************************************)
EXTENDS GateQueue, FiniteSetTheorems, WellFoundedInduction, TLAPS

-----------------------------------------------------------------------------
(* Induction over the natural numbers, from their well-foundedness. *)

\* A set of numbers that is not empty has a least member.
LEMMA LeastNat ==
  ASSUME NEW T \in SUBSET Nat, T # {}
  PROVE  \E n \in T : \A m \in T : n <= m
<1>1. PICK n \in T : \A m \in T : ~(<<m, n>> \in OpToRel(<, Nat))
  BY NatLessThanWellFounded, WFMin
<1>2. \A m \in T : ~(m < n)
  BY <1>1 DEF OpToRel
<1>3. QED
  BY <1>2

\* A set that has 0, and n + 1 with n, has every number.
LEMMA Induct ==
  ASSUME NEW S \in SUBSET Nat, 0 \in S, \A n \in S : n + 1 \in S
  PROVE  S = Nat
<1>1. SUFFICES ASSUME S # Nat PROVE FALSE
  OBVIOUS
<1>2. PICK n \in Nat \ S : \A m \in Nat \ S : n <= m
  BY <1>1, LeastNat
<1>3. n - 1 \in S
  BY <1>2
<1>4. QED
  BY <1>2, <1>3

-----------------------------------------------------------------------------
(* Sequences. *)

\* The recursive function of Kept exists, whatever the elements are.
LEMMA KeptIsBuilt ==
  ASSUME NEW A, NEW seq \in Seq(A), NEW I
  PROVE  \E kept :
           /\ kept = [n \in 0 .. Len(seq) |->
                        IF n = 0 THEN <<>>
                        ELSE IF n \in I THEN Append(kept[n - 1], seq[n])
                        ELSE kept[n - 1]]
           /\ Kept(seq, I) = kept[Len(seq)]
<1> DEFINE Step(f, n) == IF n = 0 THEN <<>>
                         ELSE IF n \in I THEN Append(f[n - 1], seq[n])
                         ELSE f[n - 1]
           Builds(f, m) == f = [n \in 0 .. m |-> Step(f, n)]
           Built == {m \in Nat : \E f : Builds(f, m)}
<1>1. 0 \in Built
  <2>1. Builds([n \in 0 .. 0 |-> <<>>], 0)
    OBVIOUS
  <2>2. QED
    BY <2>1
<1>2. ASSUME NEW m \in Built
      PROVE  m + 1 \in Built
  <2>1. PICK f : Builds(f, m)
    BY <1>2
  <2> DEFINE g == [n \in 0 .. (m + 1) |-> IF n = m + 1 THEN Step(f, m + 1) ELSE f[n]]
  <2>2. ASSUME NEW n \in 0 .. (m + 1)
        PROVE  g[n] = Step(g, n)
    <3>1. CASE n = m + 1
      BY <3>1
    <3>2. CASE n # m + 1
      <4>1. g[n] = f[n] /\ n \in 0 .. m
        BY <3>2
      <4>2. f[n] = Step(f, n)
        BY <2>1, <4>1
      <4>3. n # 0 => g[n - 1] = f[n - 1]
        BY <3>2
      <4>4. QED
        BY <4>1, <4>2, <4>3
    <3>3. QED
      BY <3>1, <3>2
  <2>3. Builds(g, m + 1)
    BY <2>2
  <2>4. m + 1 \in Nat
    OBVIOUS
  <2> HIDE DEF g, Builds
  <2>5. QED
    BY <2>3, <2>4
<1>3. Built = Nat
  <2> HIDE DEF Built
  <2>1. Built \in SUBSET Nat
    BY DEF Built
  <2>2. QED
    BY <1>1, <1>2, <2>1, Induct
<1>4. PICK f : Builds(f, Len(seq))
  <2>1. Len(seq) \in Built
    BY <1>3
  <2>2. QED
    BY <2>1
<1>5. QED
  BY <1>4 DEF Kept

-----------------------------------------------------------------------------
(* The line: sequences without repetition. *)

\* seq is a list of members of A, each once.
Lists(seq, A) == seq \in Seq(A) /\ IsInjective(seq)

\* A member that is not in a list is put at its end.
LEMMA AppendLists ==
  ASSUME NEW A, NEW seq, Lists(seq, A), NEW x \in A, x \notin ToSet(seq)
  PROVE  Lists(Append(seq, x), A) /\ ToSet(Append(seq, x)) = ToSet(seq) \cup {x}
<1> DEFINE new == Append(seq, x)
<1>1. /\ seq \in Seq(A) /\ new \in Seq(A) /\ Len(new) = Len(seq) + 1
      /\ DOMAIN seq = 1 .. Len(seq) /\ DOMAIN new = 1 .. (Len(seq) + 1)
      /\ \A i \in 1 .. Len(seq) : new[i] = seq[i] /\ seq[i] # x
      /\ new[Len(seq) + 1] = x
  BY DEF Lists, ToSet
<1> HIDE DEF new
<1>2. IsInjective(new)
  BY <1>1 DEF Lists, IsInjective
<1>3. ToSet(new) = ToSet(seq) \cup {x}
  BY <1>1 DEF ToSet
<1>4. QED
  BY <1>1, <1>2, <1>3 DEF Lists, new

\* What stands at a place of two lists put one after the other.
LEMMA JoinedAt ==
  ASSUME NEW A, NEW s \in Seq(A), NEW t \in Seq(A), NEW k \in 1 .. (Len(s) + Len(t))
  PROVE  (s \o t)[k] = IF k <= Len(s) THEN s[k] ELSE t[k - Len(s)]
OBVIOUS

\* A member that is not in a list is put at any place of it.
LEMMA InsertAtLists ==
  ASSUME NEW A, NEW seq, Lists(seq, A), NEW x \in A, x \notin ToSet(seq),
         NEW i \in 1 .. (Len(seq) + 1)
  PROVE  /\ Lists(InsertAt(seq, i, x), A)
         /\ ToSet(InsertAt(seq, i, x)) = ToSet(seq) \cup {x}
<1> DEFINE new == InsertAt(seq, i, x)
           val(k) == IF k < i THEN seq[k] ELSE IF k = i THEN x ELSE seq[k - 1]
<1>1. /\ seq \in Seq(A) /\ Len(seq) \in Nat /\ DOMAIN seq = 1 .. Len(seq)
      /\ \A k \in 1 .. Len(seq) : seq[k] # x
  BY DEF Lists, ToSet
<1>2. /\ new \in Seq(A) /\ Len(new) = Len(seq) + 1
      /\ \A k \in 1 .. (Len(seq) + 1) : new[k] = val(k)
  <2> DEFINE front == SubSeq(seq, 1, i - 1)
             back == SubSeq(seq, i, Len(seq))
  <2>1. /\ front \in Seq(A) /\ Len(front) = i - 1
        /\ \A k \in 1 .. (i - 1) : front[k] = seq[k]
    BY <1>1
  <2>2. /\ back \in Seq(A) /\ Len(back) = Len(seq) + 1 - i
        /\ \A k \in 1 .. (Len(seq) + 1 - i) : back[k] = seq[i + k - 1]
    BY <1>1
  <2>3. new = (front \o <<x>>) \o back
    BY DEF InsertAt
  <2> HIDE DEF front, back, new
  <2>4. /\ front \o <<x>> \in Seq(A) /\ Len(front \o <<x>>) = i
        /\ \A k \in 1 .. i : (front \o <<x>>)[k] = val(k)
    BY <2>1
  <2>5. new \in Seq(A) /\ Len(new) = Len(seq) + 1
    <3> DEFINE head == front \o <<x>>
    <3>1. head \in Seq(A) /\ Len(head) = i /\ new = head \o back
      BY <2>3, <2>4
    <3> HIDE DEF head
    <3>2. \A s, t \in Seq(A) : s \o t \in Seq(A) /\ Len(s \o t) = Len(s) + Len(t)
      OBVIOUS
    <3>3. new \in Seq(A) /\ Len(new) = Len(head) + Len(back)
      BY <2>2, <3>1, <3>2
    <3>4. QED
      BY <1>1, <2>2, <3>1, <3>3
  <2>6. ASSUME NEW k \in 1 .. (Len(seq) + 1)
        PROVE  new[k] = val(k)
    <3>1. CASE k <= i
      BY <1>1, <2>2, <2>3, <2>4, <3>1
    <3>2. CASE k > i
      <4>1. k - i \in 1 .. (Len(seq) + 1 - i)
        BY <1>1, <3>2
      <4>2. new[k] = back[k - i]
        <5> DEFINE head == front \o <<x>>
        <5>1. head \in Seq(A) /\ Len(head) = i /\ new = head \o back
          BY <2>3, <2>4
        <5> HIDE DEF head
        <5>2. k \in 1 .. (Len(head) + Len(back)) /\ ~(k <= Len(head))
          BY <1>1, <2>2, <3>2, <5>1
        <5>3. (head \o back)[k] = back[k - Len(head)]
          BY <2>2, <5>1, <5>2, JoinedAt
        <5>4. QED
          BY <5>1, <5>3
      <4>3. back[k - i] = seq[i + (k - i) - 1] /\ i + (k - i) - 1 = k - 1
        BY <1>1, <2>2, <4>1
      <4>4. QED
        BY <3>2, <4>2, <4>3
    <3>3. QED
      BY <3>1, <3>2
  <2>7. QED
    BY <2>5, <2>6
<1>3. DOMAIN new = 1 .. (Len(seq) + 1)
  BY <1>1, <1>2
<1> HIDE DEF new
<1>4. IsInjective(new)
  <2>1. \A a, b \in 1 .. Len(seq) : seq[a] = seq[b] => a = b
    BY <1>1 DEF Lists, IsInjective
  <2>2. ASSUME NEW a \in 1 .. (Len(seq) + 1), NEW b \in 1 .. (Len(seq) + 1),
               val(a) = val(b), a < b
        PROVE  FALSE
    BY <1>1, <2>1, <2>2
  <2>3. QED
    BY <1>1, <1>2, <1>3, <2>2 DEF IsInjective
<1>5. ASSUME NEW k \in 1 .. Len(seq)
      PROVE  seq[k] \in ToSet(new)
  <2>1. seq[k] = IF k < i THEN new[k] ELSE new[k + 1]
    BY <1>1, <1>2
  <2>2. QED
    BY <1>1, <1>3, <2>1 DEF ToSet
<1>6. x \in ToSet(new)
  BY <1>1, <1>2, <1>3 DEF ToSet
<1>7. ToSet(new) \subseteq ToSet(seq) \cup {x}
  BY <1>1, <1>2, <1>3 DEF ToSet
<1>8. ToSet(new) = ToSet(seq) \cup {x}
  BY <1>1, <1>5, <1>6, <1>7 DEF ToSet
<1>9. QED
  BY <1>2, <1>4, <1>8 DEF Lists, new

\* What is kept of a list is a list of those kept.
LEMMA KeptLists ==
  ASSUME NEW A, NEW seq, Lists(seq, A), NEW S
  PROVE  LET kept == Kept(seq, {i \in DOMAIN seq : seq[i] \in S})
         IN  Lists(kept, A) /\ ToSet(kept) = ToSet(seq) \cap S
<1> DEFINE I == {i \in DOMAIN seq : seq[i] \in S}
<1>1. seq \in Seq(A) /\ Len(seq) \in Nat /\ DOMAIN seq = 1 .. Len(seq)
  BY DEF Lists
<1>2. PICK kept : /\ kept = [n \in 0 .. Len(seq) |->
                               IF n = 0 THEN <<>>
                               ELSE IF n \in I THEN Append(kept[n - 1], seq[n])
                               ELSE kept[n - 1]]
                  /\ Kept(seq, I) = kept[Len(seq)]
  <2> HIDE DEF I
  <2>1. QED
    BY <1>1, KeptIsBuilt
<1> DEFINE Upto(n) == {seq[i] : i \in 1 .. n}
           Fits(n) == Lists(kept[n], A) /\ ToSet(kept[n]) = Upto(n) \cap S
           Good == {n \in Nat : n <= Len(seq) => Fits(n)}
<1>3. Fits(0)
  <2>1. kept[0] = <<>>
    BY <1>1, <1>2
  <2>2. QED
    BY <2>1 DEF Lists, IsInjective, ToSet
<1>4. ASSUME NEW n \in Nat, n + 1 <= Len(seq), Fits(n)
      PROVE  Fits(n + 1)
  <2>1. seq[n + 1] \in A /\ seq[n + 1] \notin Upto(n)
    BY <1>1, <1>4 DEF Lists, IsInjective
  <2>2. Upto(n + 1) = Upto(n) \cup {seq[n + 1]}
    BY <1>4
  <2>3. kept[n + 1] = IF seq[n + 1] \in S THEN Append(kept[n], seq[n + 1]) ELSE kept[n]
    <3>1. n + 1 \in 0 .. Len(seq) /\ n + 1 # 0 /\ (n + 1) - 1 = n
      BY <1>1, <1>4
    <3>2. n + 1 \in I <=> seq[n + 1] \in S
      BY <1>1, <1>4
    <3> HIDE DEF I
    <3>3. kept[n + 1] = IF n + 1 \in I THEN Append(kept[n], seq[n + 1]) ELSE kept[n]
      BY <1>2, <3>1
    <3>4. QED
      BY <3>2, <3>3
  <2> HIDE DEF Upto
  <2>4. CASE seq[n + 1] \in S
    <3>1. seq[n + 1] \notin ToSet(kept[n])
      BY <1>4, <2>1
    <3>2. QED
      BY <1>4, <2>1, <2>2, <2>3, <2>4, <3>1, AppendLists
  <2>5. CASE seq[n + 1] \notin S
    BY <1>4, <2>2, <2>3, <2>5
  <2>6. QED
    BY <2>4, <2>5
<1> HIDE DEF Fits
<1>5. Good = Nat
  <2> HIDE DEF Good
  <2>1. Good \in SUBSET Nat /\ 0 \in Good
    BY <1>3 DEF Good
  <2>2. ASSUME NEW n \in Good
        PROVE  n + 1 \in Good
    BY <1>1, <1>4 DEF Good
  <2>3. QED
    BY <2>1, <2>2, Induct
<1>6. Fits(Len(seq))
  BY <1>1, <1>5
<1>7. ToSet(seq) = Upto(Len(seq))
  BY <1>1 DEF ToSet
<1>8. QED
  BY <1>2, <1>6, <1>7 DEF Fits

-----------------------------------------------------------------------------
(* The inductive invariant. *)

\* What is in line is due: its row is there and not put off.
LineIsDue ==
  \A j \in ToSet(line) : row[j].status # "ABSENT" /\ row[j].retryAt # "later"

\* Only a row that is there is put off.
PutOffRowsExist ==
  \A j \in Jobs : row[j].retryAt # "none" => row[j].status # "ABSENT"

\* A row without attempts left has failed, and none was claimed that way.
AttemptsAreLeft ==
  /\ \A j \in Jobs : row[j].retries = MaxRetries => row[j].failed
  /\ \A w \in Workers : \A i \in DOMAIN batch[w] : batch[w][i].retries < MaxRetries

\* A batch is within the limit and has a job once.
BatchesAreLists ==
  \A w \in Workers :
    /\ Len(batch[w]) <= BatchLimit
    /\ \A i, k \in DOMAIN batch[w] : batch[w][i].job = batch[w][k].job => i = k

\* What a worker may still rely on of a job it claimed.
Claimed(r, w) ==
  /\ r.holder = w /\ ~r.lapsed
  /\ r.status = "NEW" /\ ~r.processed /\ ~r.failed

ClaimsHold ==
  \A j \in Jobs \ crossed, w \in Workers : InBatch(j, w) => Claimed(row[j], w)

SettledRowsAreFree ==
  \A j \in Jobs : row[j].processed \/ row[j].failed => row[j].holder = Nobody

\* A worker has a batch while it decides or charges, and with a decision still to
\* charge it is no longer a full one.
BatchesFitPlaces ==
  \A w \in Workers :
    /\ at[w] \in {"poll", "check", "claim"} => batch[w] = <<>>
    /\ at[w] = "charge" => Len(batch[w]) < BatchLimit

\* What a worker may still charge before it looks at the budget again.
Owed(w) ==
  IF at[w] = "claim" THEN BatchLimit
  ELSE IF at[w] = "charge" THEN Len(batch[w]) + 1
  ELSE Len(batch[w])

Outstanding == {p \in Workers \X (1 .. BatchLimit) : p[2] <= Owed(p[1])}

BudgetHolds ==
  \/ spent = 0 /\ Outstanding = {}
  \/ spent + Cardinality(Outstanding) < Budget + Cardinality(Workers) * BatchLimit

IInv ==
  /\ TypeOK
  /\ LineIsDue
  /\ PutOffRowsExist
  /\ AttemptsAreLeft
  /\ BatchesAreLists
  /\ ClaimsHold
  /\ SettledRowsAreFree
  /\ BatchesFitPlaces
  /\ BudgetHolds

-----------------------------------------------------------------------------
(* Consequences. *)

\* A set of jobs still to decide is no larger than the batches.
LEMMA SlotsAreFinite ==
  ASSUME NEW S \in SUBSET (Workers \X (1 .. BatchLimit))
  PROVE  /\ IsFiniteSet(S)
         /\ Cardinality(S) \in Nat
         /\ Cardinality(Workers) \in Nat
         /\ Cardinality(S) <= Cardinality(Workers) * BatchLimit
<1> DEFINE Slots == Workers \X (1 .. BatchLimit)
<1>1. /\ IsFiniteSet(1 .. BatchLimit) /\ Cardinality(1 .. BatchLimit) = BatchLimit
  <2>1. 1 \in Int /\ BatchLimit \in Int /\ ~(1 > BatchLimit)
    BY ConstantsAssumption
  <2>2. QED
    BY <2>1, FS_Interval
<1>2. IsFiniteSet(Slots) /\ Cardinality(Slots) = Cardinality(Workers) * BatchLimit
  BY <1>1, FS_Product, ConstantsAssumption
<1> HIDE DEF Slots
<1>3. S \in SUBSET Slots
  BY DEF Slots
<1>4. QED
  BY <1>2, <1>3, FS_Subset, FS_CardinalityType, ConstantsAssumption

\* The items still to be decided are finitely many, and fit the batches.
LEMMA FinitelyOutstanding ==
  /\ IsFiniteSet(Outstanding)
  /\ Cardinality(Outstanding) \in Nat
  /\ Cardinality(Workers) \in Nat
  /\ Cardinality(Outstanding) <= Cardinality(Workers) * BatchLimit
BY SlotsAreFinite DEF Outstanding

LEMMA NextFinitelyOutstanding ==
  /\ IsFiniteSet(Outstanding')
  /\ Cardinality(Outstanding') \in Nat
  /\ Cardinality(Outstanding') <= Cardinality(Workers) * BatchLimit
BY SlotsAreFinite DEF Outstanding

\* A job nobody else has written is with one worker at most.
LEMMA ClaimsAreFunctional ==
  ASSUME ClaimsHold, NEW j \in Jobs \ crossed
  PROVE  Cardinality({w \in Workers : InBatch(j, w)}) <= 1
<1> DEFINE Having == {w \in Workers : InBatch(j, w)}
<1>1. Having \in SUBSET {row[j].holder}
  BY DEF ClaimsHold, Claimed
<1> HIDE DEF Having
<1>2. IsFiniteSet({row[j].holder}) /\ Cardinality({row[j].holder}) = 1
  BY FS_Singleton
<1>3. Cardinality(Having) <= 1
  BY <1>1, <1>2, FS_Subset
<1>4. QED
  BY <1>3 DEF Having

\* The batches and the rows under them determine who may have a job.
LEMMA InvExclusive == IInv => ClaimsAreExclusive
<1> SUFFICES ASSUME IInv, NEW j \in Jobs \ crossed
             PROVE  /\ Cardinality({w \in Workers : InBatch(j, w)}) <= 1
                    /\ row[j].processed \/ row[j].failed
                         => ~Held(j) /\ row[j].holder = Nobody
  BY DEF ClaimsAreExclusive
<1>1. row[j].processed \/ row[j].failed => ~Held(j) /\ row[j].holder = Nobody
  BY DEF IInv, ClaimsHold, Claimed, Held, SettledRowsAreFree
<1>2. QED
  BY <1>1, ClaimsAreFunctional DEF IInv

\* What a worker owes is a number within the limit.
LEMMA OwedFits ==
  ASSUME IInv, NEW w \in Workers
  PROVE  Owed(w) \in 0 .. BatchLimit
<1>1. /\ BatchLimit \in Nat /\ Len(batch[w]) \in Nat /\ Len(batch[w]) <= BatchLimit
      /\ at[w] = "charge" => Len(batch[w]) < BatchLimit
  BY ConstantsAssumption DEF IInv, TypeOK, BatchesAreLists, BatchesFitPlaces
<1>2. QED
  BY <1>1 DEF Owed

\* A worker that has decided owes the charge.
LEMMA DecidedIsOutstanding ==
  ASSUME IInv
  PROVE  /\ Cardinality({w \in Workers : at[w] = "charge"}) \in Nat
         /\ Cardinality({w \in Workers : at[w] = "charge"}) <= Cardinality(Outstanding)
<1> DEFINE Deciding == {w \in Workers : at[w] = "charge"}
           Firsts == Deciding \X {1}
<1>1. IsFiniteSet(Deciding) /\ Cardinality(Deciding) \in Nat
  BY ConstantsAssumption, FS_Subset, FS_CardinalityType
<1>2. IsFiniteSet({1}) /\ Cardinality({1}) = 1
  BY FS_Singleton
<1>3. Cardinality(Firsts) = Cardinality(Deciding)
  <2> HIDE DEF Deciding
  <2>1. Cardinality(Firsts) = Cardinality(Deciding) * 1
    BY <1>1, <1>2, FS_Product
  <2>2. QED
    BY <1>1, <2>1
<1>4. Firsts \subseteq Outstanding
  <2>1. ASSUME NEW w \in Deciding
        PROVE  <<w, 1>> \in Outstanding
    <3>1. Len(batch[w]) \in Nat /\ 1 \in 1 .. BatchLimit
      BY ConstantsAssumption DEF IInv, TypeOK
    <3>2. QED
      BY <3>1 DEF Outstanding, Owed
  <2>2. QED
    BY <2>1
<1> HIDE DEF Firsts
<1>5. Cardinality(Firsts) <= Cardinality(Outstanding)
  BY <1>4, FinitelyOutstanding, FS_Subset
<1>6. QED
  BY <1>1, <1>3, <1>5

\* What is decided was claimed while the budget lasted.
LEMMA InvOverdraft == IInv => OverdraftIsBounded
<1> DEFINE owing == Cardinality({w \in Workers : at[w] = "charge"})
<1> SUFFICES ASSUME IInv, spent + owing > Budget
             PROVE  spent + owing < Budget + Cardinality(Workers) * BatchLimit
  BY DEF OverdraftIsBounded
<1>1. spent \in Nat /\ Budget \in Nat /\ BatchLimit \in Nat
  BY ConstantsAssumption DEF IInv, TypeOK
<1>2. owing \in Nat /\ owing <= Cardinality(Outstanding) /\ Cardinality(Outstanding) \in Nat
  BY DecidedIsOutstanding, FinitelyOutstanding
<1> HIDE DEF owing
<1>3. ~(spent = 0 /\ Outstanding = {})
  <2>1. SUFFICES ASSUME spent = 0, Outstanding = {} PROVE FALSE
    OBVIOUS
  <2>2. Cardinality(Outstanding) = 0
    BY <2>1, FS_EmptySet
  <2>3. QED
    BY <1>1, <1>2, <2>1, <2>2
<1>4. spent + Cardinality(Outstanding) < Budget + Cardinality(Workers) * BatchLimit
  BY <1>3 DEF IInv, BudgetHolds
<1>5. Cardinality(Workers) * BatchLimit \in Nat
  BY <1>1, FinitelyOutstanding
<1>6. QED
  BY <1>1, <1>2, <1>4, <1>5

-----------------------------------------------------------------------------
(* Rows. *)

LEMMA Rows ==
  /\ Fresh \in Row /\ NoRow \in Row
  /\ Fresh.retries = 0 /\ NoRow.retries = 0
  /\ Fresh.status = "NEW" /\ NoRow.status = "ABSENT"
  /\ Fresh.retryAt = "none" /\ NoRow.retryAt = "none"
  /\ Fresh.holder = Nobody /\ NoRow.holder = Nobody
  /\ ~Fresh.processed /\ ~Fresh.failed /\ ~NoRow.processed /\ ~NoRow.failed
<1>1. 0 \in 0 .. MaxRetries
  BY ConstantsAssumption
<1>2. Fresh \in Row
  BY <1>1 DEF Fresh, Row
<1>3. NoRow \in Row
  BY <1>2 DEF Row, NoRow
<1>4. QED
  BY <1>2, <1>3 DEF Fresh, NoRow

\* The jobs of S in line are a list of those.
LEMMA LineOfLists ==
  ASSUME Lists(line, Jobs), NEW S
  PROVE  Lists(LineOf(S), Jobs) /\ ToSet(LineOf(S)) = ToSet(line) \cap S
<1> DEFINE kept == Kept(line, {i \in DOMAIN line : line[i] \in S})
<1>1. Lists(kept, Jobs) /\ ToSet(kept) = ToSet(line) \cap S
  BY KeptLists
<1>2. QED
  BY <1>1 DEF LineOf

\* The line without a job is a list of the others.
LEMMA LineWithoutLists ==
  ASSUME TypeOK, NEW j
  PROVE  Lists(LineWithout(j), Jobs) /\ ToSet(LineWithout(j)) = ToSet(line) \ {j}
<1>1. Lists(line, Jobs)
  BY DEF TypeOK, Lists
<1>2. ToSet(line) \subseteq Jobs
  BY <1>1 DEF Lists, ToSet
<1>3. QED
  BY <1>1, <1>2, LineOfLists DEF LineWithout

-----------------------------------------------------------------------------
(* Somebody other than a worker writes one row: the batches stay. *)

\* What must be true of the row that is written, of the line after it, and of
\* the history.
RowWritten(j, r) ==
  /\ row' = [row EXCEPT ![j] = r]
  /\ r.retries = MaxRetries => r.failed
  /\ r.processed \/ r.failed => r.holder = Nobody
  /\ r.retryAt # "none" => r.status # "ABSENT"
  /\ Lists(line', Jobs)
  /\ ToSet(line') \subseteq ToSet(line) \cup {j}
  /\ j \in ToSet(line') => r.status # "ABSENT" /\ r.retryAt # "later"
  /\ crossed' \subseteq Jobs /\ crossed \subseteq crossed' \cup {j}
  /\ j \in crossed' \/ ~Held(j) \/ (j \notin crossed /\ \A w \in Workers :
                                      Claimed(row[j], w) => Claimed(r, w))
  /\ UNCHANGED <<at, batch, mode, spent>>
  /\ losses' \in 0 .. MaxLosses
  /\ touches' \in 0 .. MaxTouches

\* A write to the row of one job keeps the invariant (RowWritten).
LEMMA RowStep ==
  ASSUME IInv, NEW j \in Jobs, NEW r \in Row, RowWritten(j, r)
  PROVE  IInv'
<1>1. /\ row \in [Jobs -> Row] /\ row' \in [Jobs -> Row]
      /\ row'[j] = r /\ \A k \in Jobs \ {j} : row'[k] = row[k]
  BY DEF IInv, TypeOK, RowWritten
<1>2. TypeOK'
  BY <1>1 DEF IInv, TypeOK, RowWritten, Lists
<1>3. LineIsDue'
  <2>1. ToSet(line') \subseteq Jobs
    BY DEF RowWritten, Lists, ToSet
  <2>2. ASSUME NEW k \in ToSet(line')
        PROVE  row'[k].status # "ABSENT" /\ row'[k].retryAt # "later"
    BY <1>1, <2>1, <2>2 DEF IInv, LineIsDue, RowWritten
  <2>3. QED
    BY <2>2 DEF LineIsDue
<1>4. AttemptsAreLeft'
  <2>1. ASSUME NEW k \in Jobs
        PROVE  row'[k].retries = MaxRetries => row'[k].failed
    BY <1>1 DEF IInv, AttemptsAreLeft, RowWritten
  <2>2. QED
    BY <2>1 DEF IInv, AttemptsAreLeft, RowWritten
<1>5. BatchesAreLists'
  BY DEF IInv, BatchesAreLists, RowWritten
<1>6. ClaimsHold'
  <2>1. ASSUME NEW k \in Jobs, NEW w \in Workers, k \notin crossed', InBatch(k, w)'
        PROVE  Claimed(row'[k], w)
    <3>1. InBatch(k, w) /\ Held(k)
      BY <2>1 DEF InBatch, Held, RowWritten
    <3>2. CASE k # j
      BY <1>1, <2>1, <3>1, <3>2 DEF IInv, ClaimsHold, RowWritten
    <3>3. CASE k = j
      BY <1>1, <2>1, <3>1, <3>3 DEF IInv, ClaimsHold, RowWritten
    <3>4. QED
      BY <3>2, <3>3
  <2>2. QED
    BY <2>1 DEF ClaimsHold, Claimed
<1>7. SettledRowsAreFree'
  <2>1. ASSUME NEW k \in Jobs
        PROVE  row'[k].processed \/ row'[k].failed => row'[k].holder = Nobody
    BY <1>1 DEF IInv, SettledRowsAreFree, RowWritten
  <2>2. QED
    BY <2>1 DEF SettledRowsAreFree
<1>8. BudgetHolds' /\ BatchesFitPlaces'
  BY DEF IInv, BudgetHolds, Outstanding, Owed, BatchesFitPlaces, RowWritten
<1>9. PutOffRowsExist'
  <2>1. ASSUME NEW k \in Jobs
        PROVE  row'[k].retryAt # "none" => row'[k].status # "ABSENT"
    BY <1>1 DEF IInv, PutOffRowsExist, RowWritten
  <2>2. QED
    BY <2>1 DEF PutOffRowsExist
<1>10. QED
  BY <1>2, <1>3, <1>4, <1>5, <1>6, <1>7, <1>8, <1>9 DEF IInv

LEMMA InsertJobStep ==
  ASSUME IInv, NEW j \in Jobs, InsertJob(j)
  PROVE  IInv'
<1>1. /\ Lists(LineWithout(j), Jobs) /\ j \notin ToSet(LineWithout(j))
      /\ ToSet(LineWithout(j)) \subseteq ToSet(line)
  BY LineWithoutLists DEF IInv
<1>2. /\ Lists(line', Jobs)
      /\ ToSet(line') \subseteq ToSet(line) \cup {j}
  BY <1>1, AppendLists DEF InsertJob
<1>3. RowWritten(j, Fresh)
  BY <1>2, Rows, ConstantsAssumption DEF InsertJob, RowWritten, IInv, TypeOK
<1>4. QED
  BY <1>3, Rows, RowStep

LEMMA InsertPurgedJobStep ==
  ASSUME IInv, NEW j \in Jobs, InsertPurgedJob(j)
  PROVE  IInv'
<1>1. Lists(line, Jobs) /\ j \notin ToSet(line)
  BY DEF InsertPurgedJob, IInv, TypeOK, LineIsDue, Lists
<1>2. /\ Lists(line', Jobs)
      /\ ToSet(line') \subseteq ToSet(line) \cup {j}
  BY <1>1, AppendLists DEF InsertPurgedJob
<1>3. j \in crossed
  BY DEF InsertPurgedJob, IInv, ClaimsHold, Claimed, Held
<1>4. RowWritten(j, Fresh)
  BY <1>2, <1>3, Rows, ConstantsAssumption DEF InsertPurgedJob, RowWritten, IInv, TypeOK
<1>5. QED
  BY <1>4, Rows, RowStep

LEMMA PurgeJobStep ==
  ASSUME IInv, NEW j \in Jobs, PurgeJob(j)
  PROVE  IInv'
<1>1. /\ Lists(line', Jobs) /\ j \notin ToSet(line')
      /\ ToSet(line') \subseteq ToSet(line)
  BY LineWithoutLists DEF IInv, PurgeJob
<1>2. touches' \in 0 .. MaxTouches
  BY ConstantsAssumption DEF PurgeJob, IInv, TypeOK
<1>3. RowWritten(j, NoRow)
  BY <1>1, <1>2, Rows, ConstantsAssumption DEF PurgeJob, RowWritten, IInv, TypeOK
<1>4. QED
  BY <1>3, Rows, RowStep

LEMMA RetryDueStep ==
  ASSUME IInv, NEW j \in Jobs, RetryDue(j)
  PROVE  IInv'
<1> DEFINE due == [row[j] EXCEPT !.retryAt = "due"]
<1>1. row[j] \in Row
  BY DEF IInv, TypeOK
<1>2. Lists(line, Jobs) /\ j \notin ToSet(line)
  BY DEF RetryDue, IInv, TypeOK, LineIsDue, Lists
<1>3. /\ Lists(line', Jobs)
      /\ ToSet(line') \subseteq ToSet(line) \cup {j}
  BY <1>2, AppendLists DEF RetryDue
<1>4. due \in Row
  BY <1>1 DEF Row
<1>5. /\ due.retryAt = "due" /\ due.status = row[j].status
      /\ due.retries = row[j].retries /\ due.failed = row[j].failed
      /\ due.processed = row[j].processed /\ due.holder = row[j].holder
      /\ due.lapsed = row[j].lapsed
  BY <1>1 DEF Row
<1>6. due.status # "ABSENT"
  BY <1>5 DEF RetryDue, IInv, PutOffRowsExist
<1> HIDE DEF due
<1>7. RowWritten(j, due)
  <2>1. row' = [row EXCEPT ![j] = due] /\ UNCHANGED <<at, batch, mode, spent>>
    BY DEF RetryDue, due
  <2>2. /\ crossed' = crossed /\ crossed \subseteq Jobs
        /\ losses' \in 0 .. MaxLosses /\ touches' \in 0 .. MaxTouches
    BY DEF RetryDue, IInv, TypeOK
  <2>3. /\ due.retries = MaxRetries => due.failed
        /\ due.processed \/ due.failed => due.holder = Nobody
    BY <1>5 DEF IInv, AttemptsAreLeft, SettledRowsAreFree
  <2>4. \A w \in Workers : Claimed(row[j], w) => Claimed(due, w)
    BY <1>5 DEF Claimed
  <2>5. QED
    BY <1>3, <1>5, <1>6, <2>1, <2>2, <2>3, <2>4 DEF RowWritten
<1>8. QED
  BY <1>4, <1>7, RowStep

LEMMA LapseStep ==
  ASSUME IInv, NEW j \in Jobs, LeaseEnds(j) \/ LeaseOutlived(j)
  PROVE  IInv'
<1> DEFINE lapsed == [row[j] EXCEPT !.lapsed = TRUE]
<1>1. row[j] \in Row
  BY DEF IInv, TypeOK
<1>2. lapsed \in Row
  BY <1>1 DEF Row
<1>3. /\ lapsed.retryAt = row[j].retryAt /\ lapsed.status = row[j].status
      /\ lapsed.retries = row[j].retries /\ lapsed.failed = row[j].failed
      /\ lapsed.processed = row[j].processed /\ lapsed.holder = row[j].holder
  BY <1>1 DEF Row
<1>4. row' = [row EXCEPT ![j] = lapsed]
  BY DEF LeaseEnds, LeaseOutlived, Lapse
<1> HIDE DEF lapsed
<1>5. /\ Lists(line', Jobs) /\ ToSet(line') = ToSet(line)
      /\ j \in ToSet(line) => lapsed.status # "ABSENT" /\ lapsed.retryAt # "later"
  BY <1>3 DEF LeaseEnds, LeaseOutlived, IInv, TypeOK, Lists, LineIsDue
<1>6. j \in crossed' \/ ~Held(j) \/ (j \notin crossed /\ \A w \in Workers :
                                       Claimed(row[j], w) => Claimed(lapsed, w))
  <2>1. CASE LeaseOutlived(j)
    BY <2>1 DEF LeaseOutlived
  <2>2. CASE LeaseEnds(j) /\ j \notin crossed
    BY <2>2 DEF LeaseEnds, IInv, ClaimsHold, Claimed, Held
  <2>3. CASE LeaseEnds(j) /\ j \in crossed
    BY <2>3 DEF LeaseEnds
  <2>4. QED
    BY <2>1, <2>2, <2>3
<1>7. /\ losses' \in 0 .. MaxLosses /\ touches' \in 0 .. MaxTouches
      /\ crossed' \subseteq Jobs /\ crossed \subseteq crossed'
      /\ UNCHANGED <<at, batch, mode, spent>>
  BY ConstantsAssumption DEF LeaseEnds, LeaseOutlived, IInv, TypeOK
<1>8. RowWritten(j, lapsed)
  BY <1>3, <1>4, <1>5, <1>6, <1>7
     DEF RowWritten, IInv, AttemptsAreLeft, SettledRowsAreFree, PutOffRowsExist
<1>9. QED
  BY <1>2, <1>8, RowStep

LEMMA ResetStep ==
  ASSUME IInv, NEW j \in Jobs, ResetAgentFailureState(j)
  PROVE  IInv'
<1> DEFINE reset == [Fresh EXCEPT !.processed = row[j].processed]
<1>1. row[j] \in Row
  BY DEF IInv, TypeOK
<1>2. reset \in Row
  BY <1>1, Rows DEF Row
<1>3. /\ reset.retryAt = "none" /\ reset.status = "NEW" /\ reset.retries = 0
      /\ ~reset.failed /\ reset.holder = Nobody
  BY DEF Fresh
<1> HIDE DEF reset
<1>4. /\ Lists(LineWithout(j), Jobs) /\ j \notin ToSet(LineWithout(j))
      /\ ToSet(LineWithout(j)) \subseteq ToSet(line)
  BY LineWithoutLists DEF IInv
<1>5. /\ Lists(line', Jobs) /\ ToSet(line') \subseteq ToSet(line) \cup {j}
  BY <1>4, InsertAtLists DEF ResetAgentFailureState
<1>6. /\ row' = [row EXCEPT ![j] = reset]
      /\ touches' \in 0 .. MaxTouches /\ losses' \in 0 .. MaxLosses
      /\ crossed' = (IF Held(j) THEN crossed \cup {j} ELSE crossed)
      /\ UNCHANGED <<at, batch, mode, spent>>
  BY ConstantsAssumption DEF ResetAgentFailureState, IInv, TypeOK, reset
<1>7. crossed' \subseteq Jobs /\ crossed \subseteq crossed' /\ (j \in crossed' \/ ~Held(j))
  BY <1>6 DEF IInv, TypeOK
<1>8. RowWritten(j, reset)
  BY <1>3, <1>5, <1>6, <1>7, ConstantsAssumption DEF RowWritten
<1>9. QED
  BY <1>2, <1>8, RowStep

LEMMA HumanVerdictStep ==
  ASSUME IInv, NEW j \in Jobs, NEW verdict \in Verdicts, HumanVerdict(j, verdict)
  PROVE  IInv'
<1> DEFINE judged == [row[j] EXCEPT !.status = verdict]
<1>1. row[j] \in Row
  BY DEF IInv, TypeOK
<1>2. judged \in Row
  BY <1>1 DEF Row
<1>3. /\ judged.retryAt = row[j].retryAt /\ judged.status = verdict
      /\ judged.retries = row[j].retries /\ judged.failed = row[j].failed
      /\ judged.processed = row[j].processed /\ judged.holder = row[j].holder
  BY <1>1 DEF Row
<1> HIDE DEF judged
<1>4. verdict # "ABSENT"
  BY DEF Verdicts
<1>5. /\ Lists(line', Jobs) /\ ToSet(line') = ToSet(line)
      /\ j \in ToSet(line) => judged.retryAt # "later"
  BY <1>3 DEF HumanVerdict, IInv, TypeOK, Lists, LineIsDue
<1>6. /\ row' = [row EXCEPT ![j] = judged]
      /\ touches' \in 0 .. MaxTouches /\ losses' \in 0 .. MaxLosses
      /\ crossed' = (IF Held(j) THEN crossed \cup {j} ELSE crossed)
      /\ UNCHANGED <<at, batch, mode, spent>>
  BY ConstantsAssumption DEF HumanVerdict, IInv, TypeOK, judged
<1>7. crossed' \subseteq Jobs /\ crossed \subseteq crossed' /\ (j \in crossed' \/ ~Held(j))
  BY <1>6 DEF IInv, TypeOK
<1>8. RowWritten(j, judged)
  BY <1>3, <1>4, <1>5, <1>6, <1>7
     DEF RowWritten, IInv, AttemptsAreLeft, SettledRowsAreFree, PutOffRowsExist
<1>9. QED
  BY <1>2, <1>8, RowStep

-----------------------------------------------------------------------------
(* A worker is done with the first jobs of its batch, or with all of it. *)

Dropped(w, k) ==
  /\ k \in 0 .. Len(batch[w])
  /\ batch' \in [Workers -> Seq(Item)]
  /\ \A v \in Workers \ {w} : batch'[v] = batch[v]
  /\ Len(batch'[w]) = Len(batch[w]) - k
  /\ \A i \in 1 .. Len(batch'[w]) : batch'[w][i] = batch[w][i + k]

\* A batch without its first item is a list of the rest.
LEMMA HeadDropped ==
  ASSUME IInv, NEW w \in Workers, batch[w] # <<>>,
         batch' = [batch EXCEPT ![w] = Tail(@)]
  PROVE  Dropped(w, 1)
<1>1. batch \in [Workers -> Seq(Item)] /\ batch[w] \in Seq(Item)
  BY DEF IInv, TypeOK
<1>2. /\ Tail(batch[w]) \in Seq(Item) /\ Len(Tail(batch[w])) = Len(batch[w]) - 1
      /\ \A i \in 1 .. Len(Tail(batch[w])) : Tail(batch[w])[i] = batch[w][i + 1]
      /\ 1 \in 0 .. Len(batch[w])
  BY <1>1
<1>3. batch'[w] = Tail(batch[w]) /\ batch' \in [Workers -> Seq(Item)]
  BY <1>1, <1>2
<1>4. \A v \in Workers \ {w} : batch'[v] = batch[v]
  BY <1>1
<1>5. QED
  BY <1>2, <1>3, <1>4 DEF Dropped

LEMMA AllDropped ==
  ASSUME IInv, NEW w \in Workers, batch' = [batch EXCEPT ![w] = <<>>]
  PROVE  Dropped(w, Len(batch[w]))
<1>1. batch \in [Workers -> Seq(Item)] /\ Len(batch[w]) \in Nat
  BY DEF IInv, TypeOK
<1>2. batch'[w] = <<>> /\ batch' \in [Workers -> Seq(Item)]
  BY <1>1
<1>3. \A v \in Workers \ {w} : batch'[v] = batch[v]
  BY <1>1
<1>4. QED
  BY <1>1, <1>2, <1>3 DEF Dropped

\* What the workers still have they had before.
LEMMA DroppedBatches ==
  ASSUME IInv, NEW w \in Workers, NEW k, Dropped(w, k)
  PROVE  /\ BatchesAreLists'
         /\ \A v \in Workers : \A i \in DOMAIN batch'[v] :
              batch'[v][i].retries < MaxRetries
         /\ \A j \in Jobs, v \in Workers : InBatch(j, v)' => InBatch(j, v)
         /\ \A v \in Workers : Len(batch'[v]) <= Len(batch[v])
<1>0. /\ k \in Nat /\ k <= Len(batch[w])
      /\ BatchLimit \in Nat
      /\ \A v \in Workers : /\ Len(batch[v]) \in Nat /\ Len(batch[v]) <= BatchLimit
                            /\ DOMAIN batch[v] = 1 .. Len(batch[v])
      /\ \A v \in Workers : /\ Len(batch'[v]) \in Nat
                            /\ DOMAIN batch'[v] = 1 .. Len(batch'[v])
  BY ConstantsAssumption DEF IInv, TypeOK, BatchesAreLists, Dropped
<1>1. ASSUME NEW v \in Workers
      PROVE  \E n \in Nat : /\ Len(batch'[v]) + n = Len(batch[v])
                            /\ v # w \/ k = 0 => n = 0
                            /\ v = w => n = k
                            /\ \A i \in DOMAIN batch'[v] :
                                 i + n \in DOMAIN batch[v] /\ batch'[v][i] = batch[v][i + n]
  <2>1. CASE v = w
    <3>1. \A i \in DOMAIN batch'[v] :
            i + k \in DOMAIN batch[v] /\ batch'[v][i] = batch[v][i + k]
      BY <1>0, <2>1 DEF Dropped
    <3>2. Len(batch'[v]) + k = Len(batch[v])
      BY <1>0, <2>1 DEF Dropped
    <3>3. QED
      BY <1>0, <2>1, <3>1, <3>2
  <2>2. CASE v # w
    <3>1. batch'[v] = batch[v]
      BY <2>2 DEF Dropped
    <3>2. \A i \in DOMAIN batch'[v] :
            i + 0 \in DOMAIN batch[v] /\ batch'[v][i] = batch[v][i + 0]
      BY <1>0, <3>1
    <3>3. QED
      BY <1>0, <2>2, <3>1, <3>2
  <2>3. QED
    BY <2>1, <2>2
<1>2. BatchesAreLists'
  <2>1. ASSUME NEW v \in Workers
        PROVE  /\ Len(batch'[v]) <= BatchLimit
               /\ \A i, m \in DOMAIN batch'[v] :
                    batch'[v][i].job = batch'[v][m].job => i = m
    <3>1. PICK n \in Nat : /\ Len(batch'[v]) + n = Len(batch[v])
                           /\ \A i \in DOMAIN batch'[v] :
                                i + n \in DOMAIN batch[v] /\ batch'[v][i] = batch[v][i + n]
      BY <1>1
    <3>2. Len(batch'[v]) <= BatchLimit
      BY <1>0, <3>1
    <3>3. ASSUME NEW i \in DOMAIN batch'[v], NEW m \in DOMAIN batch'[v],
                 batch'[v][i].job = batch'[v][m].job
          PROVE  i = m
      <4>1. i + n = m + n
        <5>1. /\ i + n \in DOMAIN batch[v] /\ m + n \in DOMAIN batch[v]
              /\ batch[v][i + n].job = batch[v][m + n].job
          BY <3>1, <3>3
        <5>2. QED
          BY <5>1 DEF IInv, BatchesAreLists
      <4>2. i \in Nat /\ m \in Nat
        BY <1>0
      <4>3. QED
        BY <4>1, <4>2
    <3>4. QED
      BY <3>2, <3>3
  <2>2. QED
    BY <2>1 DEF BatchesAreLists
<1>3. ASSUME NEW v \in Workers, NEW i \in DOMAIN batch'[v]
      PROVE  batch'[v][i].retries < MaxRetries
  <2>1. \E m \in DOMAIN batch[v] : batch'[v][i] = batch[v][m]
    BY <1>1
  <2>2. QED
    BY <2>1 DEF IInv, AttemptsAreLeft
<1>4. ASSUME NEW j \in Jobs, NEW v \in Workers, InBatch(j, v)'
      PROVE  InBatch(j, v)
  <2>1. PICK i \in DOMAIN batch'[v] : batch'[v][i].job = j
    BY <1>4 DEF InBatch
  <2>2. \E m \in DOMAIN batch[v] : batch'[v][i] = batch[v][m]
    BY <1>1
  <2>3. QED
    BY <2>1, <2>2 DEF InBatch
<1>5. \A v \in Workers : Len(batch'[v]) <= Len(batch[v])
  BY <1>0, <1>1
<1>6. QED
  BY <1>2, <1>3, <1>4, <1>5

\* If no worker owes more, no more is outstanding, and less if one owes less.
LEMMA OwedShrinks ==
  ASSUME IInv, \A v \in Workers : Owed(v)' \in Int /\ Owed(v)' <= Owed(v)
  PROVE  /\ Outstanding' \subseteq Outstanding
         /\ (\E w \in Workers : Owed(w)' \in Nat /\ Owed(w)' < Owed(w))
              => Outstanding' # Outstanding
<1>1. \A v \in Workers : Owed(v) \in Int /\ Owed(v) <= BatchLimit
  BY OwedFits, ConstantsAssumption
<1>2. Outstanding' = {p \in Workers \X (1 .. BatchLimit) : p[2] <= Owed(p[1])'}
  BY DEF Outstanding, Owed
<1>3. Outstanding' \subseteq Outstanding
  <2>1. ASSUME NEW v \in Workers, NEW i \in 1 .. BatchLimit, i <= Owed(v)'
        PROVE  i <= Owed(v)
    BY <1>1, <2>1
  <2>2. QED
    BY <1>2, <2>1 DEF Outstanding
<1>4. ASSUME NEW w \in Workers, Owed(w)' \in Nat, Owed(w)' < Owed(w)
      PROVE  Outstanding' # Outstanding
  <2>1. Owed(w) \in 1 .. BatchLimit /\ ~(Owed(w) <= Owed(w)')
    BY <1>1, <1>4, ConstantsAssumption
  <2>2. <<w, Owed(w)>> \in Outstanding /\ <<w, Owed(w)>> \notin Outstanding'
    BY <1>2, <2>1 DEF Outstanding
  <2>3. QED
    BY <2>2
<1>5. QED
  BY <1>3, <1>4

LEMMA BudgetStep ==
  ASSUME IInv, Outstanding' \subseteq Outstanding,
         \/ spent' = spent
         \/ spent' = 0
         \/ spent' = spent + 1 /\ Outstanding' # Outstanding
  PROVE  BudgetHolds'
<1>1. /\ spent \in Nat /\ Budget \in Nat /\ BatchLimit \in Nat
      /\ Cardinality(Workers) * BatchLimit \in Nat
      /\ IsFiniteSet(Outstanding) /\ Cardinality(Outstanding) \in Nat
  BY FinitelyOutstanding, ConstantsAssumption DEF IInv, TypeOK
<1>2. /\ Cardinality(Outstanding') \in Nat
      /\ Cardinality(Outstanding') <= Cardinality(Outstanding)
      /\ Outstanding' # Outstanding => Cardinality(Outstanding') # Cardinality(Outstanding)
  BY <1>1, FS_Subset, FS_CardinalityType
<1>3. CASE spent = 0 /\ Outstanding = {}
  BY <1>1, <1>3 DEF BudgetHolds
<1>4. CASE spent + Cardinality(Outstanding) < Budget + Cardinality(Workers) * BatchLimit
  <2>1. spent' + Cardinality(Outstanding') <= spent + Cardinality(Outstanding)
    BY <1>1, <1>2
  <2>2. spent' \in Nat
    BY <1>1
  <2>3. spent' + Cardinality(Outstanding') < Budget + Cardinality(Workers) * BatchLimit
    BY <1>1, <1>2, <1>4, <2>1, <2>2
  <2>4. QED
    BY <2>3 DEF BudgetHolds
<1>5. QED
  BY <1>3, <1>4 DEF IInv, BudgetHolds

LEMMA AbandonBatchStep ==
  ASSUME IInv, NEW w \in Workers, AbandonBatch(w)
  PROVE  IInv'
<1>1. Dropped(w, Len(batch[w]))
  BY AllDropped DEF AbandonBatch
<1>2. /\ UNCHANGED <<row, line, mode, spent, crossed, touches>>
      /\ losses' \in 0 .. MaxLosses
      /\ at' = [at EXCEPT ![w] = "poll"] /\ at \in [Workers -> Places]
      /\ batch' = [batch EXCEPT ![w] = <<>>] /\ batch \in [Workers -> Seq(Item)]
  BY ConstantsAssumption DEF AbandonBatch, Goto, IInv, TypeOK
<1>3. TypeOK'
  BY <1>1, <1>2 DEF IInv, TypeOK, Dropped, Places
<1>4. LineIsDue' /\ PutOffRowsExist' /\ SettledRowsAreFree'
  BY <1>2 DEF IInv, LineIsDue, PutOffRowsExist, SettledRowsAreFree
<1>5. AttemptsAreLeft'
  BY <1>1, <1>2, DroppedBatches DEF IInv, AttemptsAreLeft
<1>6. BatchesAreLists'
  BY <1>1, DroppedBatches
<1>7. ClaimsHold'
  <2>1. \A j \in Jobs, v \in Workers : InBatch(j, v)' => InBatch(j, v)
    BY <1>1, DroppedBatches
  <2>2. QED
    BY <1>2, <2>1 DEF IInv, ClaimsHold, Claimed
<1>8. BudgetHolds'
  <2>1. ASSUME NEW v \in Workers
        PROVE  Owed(v)' \in Int /\ Owed(v)' <= Owed(v)
    <3>1. Owed(v) \in Nat
      BY OwedFits, ConstantsAssumption
    <3>2. CASE v = w
      BY <1>2, <3>1, <3>2 DEF Owed
    <3>3. CASE v # w
      <4>1. Owed(v)' = Owed(v)
        BY <1>2, <3>3 DEF Owed
      <4>2. QED
        BY <3>1, <4>1
    <3>4. QED
      BY <3>2, <3>3
  <2>2. QED
    BY <1>2, <2>1, OwedShrinks, BudgetStep
<1>9. BatchesFitPlaces'
  BY <1>2 DEF IInv, BatchesFitPlaces
<1>10. QED
  BY <1>3, <1>4, <1>5, <1>6, <1>7, <1>8, <1>9 DEF IInv

-----------------------------------------------------------------------------
(* A worker writes one job back. *)

\* What must be true of the row that is written, whoever holds it by now.
Writable(j, r) ==
  /\ r \in Row
  /\ r.retries = MaxRetries => r.failed
  /\ row[j].status # "ABSENT" => r.status # "ABSENT"

LEMMA WriteStep ==
  ASSUME IInv, NEW w \in Workers, NEW item \in Item, Current(w, item),
         NEW r, Writable(item.job, r), WriteBack(w, item, r),
         line' = LineWithout(item.job),
         NEW place \in {"charge", After(Tail(batch[w]))}, Goto(w, place),
         UNCHANGED <<mode, spent, losses, touches>>
  PROVE  IInv'
<1> DEFINE j == item.job
           free == Unclaimed(r)
<1>1. j \in Jobs /\ row[j] \in Row /\ row \in [Jobs -> Row] /\ batch[w] \in Seq(Item)
  BY DEF Item, IInv, TypeOK
<1>2. /\ free \in Row /\ free.holder = Nobody
      /\ free.retries = r.retries /\ free.failed = r.failed
      /\ free.status = r.status
  BY DEF Unclaimed, Row, Writable
<1> HIDE DEF free
<1>3. /\ row' \in [Jobs -> Row]
      /\ row'[j] = IF row[j].status = "ABSENT" THEN row[j] ELSE free
      /\ \A k \in Jobs \ {j} : row'[k] = row[k]
  <2>1. row' = IF row[j].status = "ABSENT" THEN row ELSE [row EXCEPT ![j] = free]
    BY DEF WriteBack, free
  <2>2. QED
    BY <1>1, <1>2, <2>1
<1>4. batch[w] # <<>> /\ batch[w][1] = item
  BY <1>1 DEF Current
<1>5. Dropped(w, 1)
  BY <1>4, HeadDropped DEF WriteBack
<1>6. InBatch(j, w) /\ ~InBatch(j, w)'
  <2>1. 1 \in DOMAIN batch[w]
    BY <1>1, <1>4
  <2>2. InBatch(j, w)
    BY <1>4, <2>1 DEF InBatch
  <2>3. ASSUME NEW i \in DOMAIN batch'[w], batch'[w][i].job = j
        PROVE  FALSE
    <3>1. i \in 1 .. Len(batch'[w])
      BY <1>5, <2>3 DEF Dropped
    <3>2. i + 1 \in DOMAIN batch[w] /\ batch[w][i + 1].job = j
      BY <1>1, <1>5, <2>3, <3>1 DEF Dropped
    <3>3. i + 1 = 1
      BY <1>4, <2>1, <3>2 DEF IInv, BatchesAreLists
    <3>4. QED
      BY <3>1, <3>3
  <2>4. QED
    BY <2>2, <2>3 DEF InBatch
<1>7. /\ Lists(line', Jobs) /\ j \notin ToSet(line')
      /\ ToSet(line') \subseteq ToSet(line) /\ ToSet(line') \subseteq Jobs
  <2>1. Lists(line', Jobs) /\ ToSet(line') = ToSet(line) \ {j}
    BY LineWithoutLists DEF IInv
  <2>2. ToSet(line') \subseteq Jobs
    BY <2>1 DEF Lists, ToSet
  <2>3. QED
    BY <2>1, <2>2
<1>8. crossed' \subseteq Jobs /\ crossed \subseteq crossed'
  BY <1>1 DEF WriteBack, IInv, TypeOK
<1>9. TypeOK'
  <2>1. at' \in [Workers -> Places]
    BY DEF IInv, TypeOK, Goto, After, Places
  <2>2. QED
    BY <1>3, <1>5, <1>7, <1>8, <2>1 DEF IInv, TypeOK, Dropped, Lists
<1>10. LineIsDue'
  <2>1. ASSUME NEW k \in ToSet(line')
        PROVE  row'[k].status # "ABSENT" /\ row'[k].retryAt # "later"
    BY <1>3, <1>7, <2>1 DEF IInv, LineIsDue
  <2>2. QED
    BY <2>1 DEF LineIsDue
<1>11. PutOffRowsExist'
  <2>1. ASSUME NEW k \in Jobs
        PROVE  row'[k].retryAt # "none" => row'[k].status # "ABSENT"
    BY <1>2, <1>3 DEF IInv, PutOffRowsExist, Writable
  <2>2. QED
    BY <2>1 DEF PutOffRowsExist
<1>12. AttemptsAreLeft'
  <2>1. ASSUME NEW k \in Jobs
        PROVE  row'[k].retries = MaxRetries => row'[k].failed
    BY <1>2, <1>3 DEF IInv, AttemptsAreLeft, Writable
  <2>2. QED
    BY <1>5, <2>1, DroppedBatches DEF AttemptsAreLeft
<1>13. BatchesAreLists'
  BY <1>5, DroppedBatches
<1>14. ClaimsHold'
  <2>1. ASSUME NEW k \in Jobs, NEW v \in Workers, k \notin crossed', InBatch(k, v)'
        PROVE  Claimed(row'[k], v)
    <3>1. InBatch(k, v) /\ Claimed(row[k], v)
      BY <1>5, <1>8, <2>1, DroppedBatches DEF IInv, ClaimsHold
    <3>2. CASE k = j
      <4>1. row[j].holder = w
        BY <2>1, <3>2 DEF WriteBack
      <4>2. v = w
        BY <3>1, <3>2, <4>1 DEF Claimed
      <4>3. QED
        BY <1>6, <2>1, <3>2, <4>2
    <3>3. CASE k # j
      BY <1>3, <3>1, <3>3
    <3>4. QED
      BY <3>2, <3>3
  <2>2. QED
    BY <2>1 DEF ClaimsHold, Claimed
<1>15. SettledRowsAreFree'
  <2>1. ASSUME NEW k \in Jobs
        PROVE  row'[k].processed \/ row'[k].failed => row'[k].holder = Nobody
    BY <1>2, <1>3 DEF IInv, SettledRowsAreFree
  <2>2. QED
    BY <2>1 DEF SettledRowsAreFree
<1>16. /\ at \in [Workers -> Places] /\ at[w] = "decide" /\ at'[w] = place
       /\ \A v \in Workers \ {w} : at'[v] = at[v] /\ batch'[v] = batch[v]
       /\ batch'[w] = Tail(batch[w]) /\ Len(batch'[w]) = Len(batch[w]) - 1
       /\ Len(batch[w]) \in Nat /\ Len(batch[w]) <= BatchLimit
  BY <1>1, <1>5 DEF IInv, TypeOK, Goto, Current, WriteBack, Dropped, BatchesAreLists
<1>17. /\ at'[w] \in {"poll", "decide", "charge"}
       /\ at'[w] = "poll" => batch'[w] = <<>>
       /\ Owed(w)' = IF at'[w] = "charge" THEN Len(batch'[w]) + 1 ELSE Len(batch'[w])
  <2>1. place = "charge" \/ place = After(batch'[w])
    BY <1>16
  <2>2. After(batch'[w]) \in {"poll", "decide"}
        /\ (After(batch'[w]) = "poll" => batch'[w] = <<>>)
    BY DEF After
  <2>3. at'[w] \in {"poll", "decide", "charge"} /\ (at'[w] = "poll" => batch'[w] = <<>>)
    BY <1>16, <2>1, <2>2
  <2>4. QED
    BY <2>3 DEF Owed
<1>18. BudgetHolds'
  <2>1. ASSUME NEW v \in Workers
        PROVE  Owed(v)' \in Int /\ Owed(v)' <= Owed(v)
    <3>1. Owed(v) \in Nat
      BY OwedFits, ConstantsAssumption
    <3>2. CASE v = w
      <4>1. Owed(w) = Len(batch[w])
        BY <1>16 DEF Owed
      <4>2. QED
        BY <1>16, <1>17, <3>2, <4>1
    <3>3. CASE v # w
      <4>1. Owed(v)' = Owed(v)
        BY <1>16, <3>3 DEF Owed
      <4>2. QED
        BY <3>1, <4>1
    <3>4. QED
      BY <3>2, <3>3
  <2>2. QED
    BY <2>1, OwedShrinks, BudgetStep
<1>19. BatchesFitPlaces'
  <2>1. ASSUME NEW v \in Workers
        PROVE  /\ at'[v] \in {"poll", "check", "claim"} => batch'[v] = <<>>
               /\ at'[v] = "charge" => Len(batch'[v]) < BatchLimit
    <3>1. CASE v = w
      <4>1. Len(batch'[w]) < BatchLimit
        BY <1>16, ConstantsAssumption
      <4>2. at'[w] \in {"check", "claim"} => batch'[w] = <<>>
        BY <1>17
      <4>3. at'[w] = "poll" => batch'[w] = <<>>
        BY <1>17
      <4>4. QED
        BY <3>1, <4>1, <4>2, <4>3
    <3>2. CASE v # w
      BY <1>16, <3>2 DEF IInv, BatchesFitPlaces
    <3>3. QED
      BY <3>1, <3>2
  <2>2. QED
    BY <2>1 DEF BatchesFitPlaces
<1>20. QED
  BY <1>9, <1>10, <1>11, <1>12, <1>13, <1>14, <1>15, <1>18, <1>19 DEF IInv

LEMMA RecordDecisionStep ==
  ASSUME IInv, NEW w \in Workers, NEW item \in Item, NEW decision \in Decisions,
         RecordDecision(w, item, decision)
  PROVE  IInv'
<1> DEFINE r == [row[item.job] EXCEPT !.status = decision,
       !.processed = TRUE, !.failed = FALSE, !.retries = 0, !.retryAt = "none"]
<1>1. row[item.job] \in Row /\ 0 \in 0 .. MaxRetries /\ MaxRetries # 0
  BY ConstantsAssumption DEF IInv, TypeOK, Item
<1>2. r \in Row /\ r.retries = 0 /\ r.status = decision
  BY <1>1 DEF Row
<1>3. WriteBack(w, item, r)
  BY DEF RecordDecision
<1> HIDE DEF r
<1>4. Writable(item.job, r)
  BY <1>1, <1>2 DEF Writable, Decisions
<1>5. QED
  BY <1>3, <1>4, WriteStep DEF RecordDecision

LEMMA RecordRetryStep ==
  ASSUME IInv, NEW w \in Workers, NEW item \in Item, RecordRetry(w, item)
  PROVE  IInv'
<1> DEFINE r == [row[item.job] EXCEPT !.retries = RetryOf(item), !.retryAt = "later"]
<1>1. /\ row[item.job] \in Row
      /\ RetryOf(item) \in 0 .. MaxRetries /\ RetryOf(item) # MaxRetries
  BY ConstantsAssumption DEF IInv, TypeOK, Item, RecordRetry, RetryOf
<1>2. r \in Row /\ r.retries = RetryOf(item) /\ r.status = row[item.job].status
  BY <1>1 DEF Row
<1>3. WriteBack(w, item, r)
  BY DEF RecordRetry
<1> HIDE DEF r
<1>4. Writable(item.job, r)
  BY <1>1, <1>2 DEF Writable
<1>5. QED
  BY <1>3, <1>4, WriteStep DEF RecordRetry

LEMMA RecordTerminalFailureStep ==
  ASSUME IInv, NEW w \in Workers, NEW item \in Item, RecordTerminalFailure(w, item)
  PROVE  IInv'
<1> DEFINE r == [row[item.job] EXCEPT !.retries = RetryOf(item),
                                      !.retryAt = "none", !.failed = TRUE]
<1>1. item.retries < MaxRetries
  <2>1. batch[w] \in Seq(Item) /\ batch[w] # <<>> /\ item = batch[w][1]
    BY DEF IInv, TypeOK, RecordTerminalFailure, Current
  <2>2. 1 \in DOMAIN batch[w]
    BY <2>1
  <2>3. QED
    BY <2>1, <2>2 DEF IInv, AttemptsAreLeft
<1>2. row[item.job] \in Row /\ RetryOf(item) \in 0 .. MaxRetries
  BY <1>1, ConstantsAssumption DEF IInv, TypeOK, Item, RetryOf
<1>3. r \in Row /\ r.failed /\ r.status = row[item.job].status
  BY <1>2 DEF Row
<1>4. WriteBack(w, item, r)
  BY DEF RecordTerminalFailure
<1> HIDE DEF r
<1>5. Writable(item.job, r)
  BY <1>3 DEF Writable
<1>6. QED
  BY <1>4, <1>5, WriteStep DEF RecordTerminalFailure

-----------------------------------------------------------------------------
(* A worker goes on without touching a row. *)

\* ... owing no more than before, or having just seen that the budget lasts.
LEMMA PlaceStep ==
  ASSUME IInv, NEW w \in Workers, NEW place \in Places, Goto(w, place),
         UNCHANGED <<row, line, batch, mode, crossed, losses, touches>>,
         spent' \in Nat, BatchesFitPlaces', BudgetHolds'
  PROVE  IInv'
<1>1. TypeOK'
  BY DEF IInv, TypeOK, Goto
<1>2. LineIsDue' /\ PutOffRowsExist' /\ SettledRowsAreFree'
  BY DEF IInv, LineIsDue, PutOffRowsExist, SettledRowsAreFree
<1>3. AttemptsAreLeft' /\ BatchesAreLists'
  BY DEF IInv, AttemptsAreLeft, BatchesAreLists
<1>4. ClaimsHold'
  BY DEF IInv, ClaimsHold, Claimed, InBatch
<1>5. QED
  BY <1>1, <1>2, <1>3, <1>4 DEF IInv

LEMMA ReadModeStep ==
  ASSUME IInv, NEW w \in Workers, ReadMode(w)
  PROVE  IInv'
<1>1. /\ at \in [Workers -> Places] /\ at[w] = "poll" /\ at' = [at EXCEPT ![w] = "check"]
      /\ spent \in Nat /\ UNCHANGED <<batch, spent>>
  BY DEF ReadMode, Goto, IInv, TypeOK
<1>2. BatchesFitPlaces'
  BY <1>1 DEF IInv, BatchesFitPlaces
<1>3. Outstanding' = Outstanding
  <2>1. \A v \in Workers : Owed(v)' = Owed(v)
    BY <1>1 DEF Owed
  <2>2. Outstanding' = {p \in Workers \X (1 .. BatchLimit) : p[2] <= Owed(p[1])'}
    BY DEF Outstanding, Owed
  <2>3. QED
    BY <2>1, <2>2 DEF Outstanding
<1>4. BudgetHolds'
  BY <1>1, <1>3, BudgetStep
<1>5. "check" \in Places
  BY DEF Places
<1>6. QED
  BY <1>1, <1>2, <1>4, <1>5, PlaceStep DEF ReadMode

LEMMA CheckBudgetStep ==
  ASSUME IInv, NEW w \in Workers, CheckBudget(w)
  PROVE  IInv'
<1> DEFINE place == IF BudgetLeft THEN "claim" ELSE "poll"
<1>1. /\ at \in [Workers -> Places] /\ at[w] = "check" /\ at' = [at EXCEPT ![w] = place]
      /\ spent \in Nat /\ UNCHANGED <<batch, spent>>
  BY DEF CheckBudget, Goto, IInv, TypeOK
<1>2. BatchesFitPlaces'
  BY <1>1 DEF IInv, BatchesFitPlaces
<1>3. BudgetHolds'
  <2>1. CASE BudgetLeft
    <3>1. /\ Cardinality(Outstanding') \in Nat
          /\ Cardinality(Outstanding') <= Cardinality(Workers) * BatchLimit
          /\ Cardinality(Workers) * BatchLimit \in Nat
      BY NextFinitelyOutstanding, FinitelyOutstanding, ConstantsAssumption
    <3>2. spent' \in Nat /\ spent' < Budget /\ Budget \in Nat
      BY <1>1, <2>1, ConstantsAssumption DEF BudgetLeft
    <3>3. spent' + Cardinality(Outstanding') < Budget + Cardinality(Workers) * BatchLimit
      BY <3>1, <3>2
    <3>4. QED
      BY <3>3 DEF BudgetHolds
  <2>2. CASE ~BudgetLeft
    <3>1. \A v \in Workers : Owed(v)' = Owed(v)
      BY <1>1, <2>2 DEF Owed
    <3>2. Outstanding' = {p \in Workers \X (1 .. BatchLimit) : p[2] <= Owed(p[1])'}
      BY DEF Outstanding, Owed
    <3>3. Outstanding' = Outstanding
      BY <3>1, <3>2 DEF Outstanding
    <3>4. QED
      BY <1>1, <3>3, BudgetStep
  <2>3. QED
    BY <2>1, <2>2
<1>4. place \in Places
  BY DEF Places
<1>5. QED
  BY <1>1, <1>2, <1>3, <1>4, PlaceStep DEF CheckBudget

LEMMA ChargeStep ==
  ASSUME IInv, NEW w \in Workers, Charge(w)
  PROVE  IInv'
<1> DEFINE place == After(batch[w])
<1>1. /\ at \in [Workers -> Places] /\ at[w] = "charge" /\ at' = [at EXCEPT ![w] = place]
      /\ spent' = spent + 1 /\ spent' \in Nat /\ UNCHANGED batch
      /\ batch[w] \in Seq(Item)
  BY DEF Charge, Goto, IInv, TypeOK
<1>2. place \in Places /\ place \notin {"check", "claim", "charge"}
      /\ (place = "poll" => batch[w] = <<>>)
  BY DEF Places, After
<1> HIDE DEF place
<1>3. BatchesFitPlaces'
  BY <1>1, <1>2 DEF IInv, BatchesFitPlaces
<1>4. Owed(w)' \in Nat /\ Owed(w)' < Owed(w)
  BY <1>1, <1>2 DEF Owed
<1>5. ASSUME NEW v \in Workers
      PROVE  Owed(v)' \in Int /\ Owed(v)' <= Owed(v)
  <2>1. Owed(v) \in Nat
    BY OwedFits, ConstantsAssumption
  <2>2. v # w => Owed(v)' = Owed(v)
    BY <1>1 DEF Owed
  <2>3. QED
    BY <1>4, <2>1, <2>2
<1>6. BudgetHolds'
  BY <1>1, <1>4, <1>5, OwedShrinks, BudgetStep
<1>7. QED
  BY <1>1, <1>2, <1>3, <1>6, PlaceStep DEF Charge, place

-----------------------------------------------------------------------------
(* A worker claims a batch. *)

LEMMA ClaimBatchStep ==
  ASSUME IInv, NEW w \in Workers, ClaimBatch(w)
  PROVE  IInv'
<1> DEFINE ready == LineOf({j \in Jobs : Pending(row[j])})
           taken == NextBatch(ready)
           claim(j) == [row[j] EXCEPT !.holder = w, !.lapsed = FALSE]
           item(i) == [job |-> taken[i], retries |-> row[taken[i]].retries]
<1>1. /\ row \in [Jobs -> Row] /\ batch \in [Workers -> Seq(Item)]
      /\ at \in [Workers -> Places] /\ at[w] = "claim"
      /\ at' = [at EXCEPT ![w] = IF taken = <<>> THEN "poll" ELSE "decide"]
      /\ row' = [j \in Jobs |-> IF j \in ToSet(taken) THEN claim(j) ELSE row[j]]
      /\ batch' = [batch EXCEPT ![w] = [i \in DOMAIN taken |-> item(i)]]
      /\ UNCHANGED <<line, mode, spent, crossed, losses, touches>>
  BY DEF ClaimBatch, Goto, IInv, TypeOK
<1>2. /\ ready \in Seq(Jobs) /\ IsInjective(ready)
      /\ \A j \in ToSet(ready) : j \in Jobs /\ Pending(row[j])
  <2>1. Lists(line, Jobs)
    BY DEF IInv, TypeOK, Lists
  <2>2. Lists(ready, Jobs) /\ ToSet(ready) \subseteq {j \in Jobs : Pending(row[j])}
    BY <2>1, LineOfLists
  <2>3. QED
    BY <2>2 DEF Lists
<1>3. /\ taken \in Seq(Jobs) /\ IsInjective(taken) /\ Len(taken) <= BatchLimit
      /\ \A j \in ToSet(taken) : j \in Jobs /\ Pending(row[j])
  <2> DEFINE size == IF Len(ready) < BatchLimit THEN Len(ready) ELSE BatchLimit
  <2> HIDE DEF ready
  <2>1. size \in 0 .. Len(ready) /\ size <= BatchLimit /\ taken = SubSeq(ready, 1, size)
    BY <1>2, ConstantsAssumption DEF NextBatch
  <2> HIDE DEF size, taken
  <2>2. /\ taken \in Seq(Jobs) /\ Len(taken) = size /\ DOMAIN taken = 1 .. size
        /\ DOMAIN ready = 1 .. Len(ready)
        /\ \A i \in 1 .. size : taken[i] = ready[i] /\ i \in 1 .. Len(ready)
    BY <1>2, <2>1
  <2>3. IsInjective(taken)
    BY <1>2, <2>2 DEF IsInjective
  <2>4. ToSet(taken) \subseteq ToSet(ready)
    BY <2>2 DEF ToSet
  <2>5. QED
    BY <1>2, <2>1, <2>2, <2>3, <2>4
<1> HIDE DEF ready, taken
<1>4. ASSUME NEW i \in DOMAIN taken
      PROVE  taken[i] \in ToSet(taken) /\ taken[i] \in Jobs /\ Pending(row[taken[i]])
  BY <1>3 DEF ToSet
<1>5. ASSUME NEW j \in ToSet(taken)
      PROVE  /\ claim(j) \in Row
             /\ claim(j).status = row[j].status /\ claim(j).retryAt = row[j].retryAt
             /\ claim(j).retries = row[j].retries /\ claim(j).failed = row[j].failed
             /\ claim(j).processed = row[j].processed
             /\ claim(j).holder = w /\ ~claim(j).lapsed
  <2>1. row[j] \in Row
    BY <1>1, <1>3
  <2>2. QED
    BY <2>1 DEF Row
<1>6. /\ row' \in [Jobs -> Row]
      /\ \A j \in Jobs : row'[j] = IF j \in ToSet(taken) THEN claim(j) ELSE row[j]
  BY <1>1, <1>5
<1>7. ASSUME NEW i \in DOMAIN taken
      PROVE  item(i) \in Item /\ item(i).job = taken[i] /\ item(i).retries < MaxRetries
  <2>1. row[taken[i]] \in Row /\ ~row[taken[i]].failed
    BY <1>1, <1>4 DEF Pending
  <2>2. row[taken[i]].retries \in 0 .. MaxRetries
    BY <2>1 DEF Row
  <2>3. row[taken[i]].retries # MaxRetries
    BY <1>4, <2>1 DEF IInv, AttemptsAreLeft
  <2>4. QED
    BY <1>4, <2>2, <2>3, ConstantsAssumption DEF Item
<1> HIDE DEF claim
<1>8. /\ batch' \in [Workers -> Seq(Item)]
      /\ \A v \in Workers \ {w} : batch'[v] = batch[v]
      /\ Len(batch'[w]) = Len(taken) /\ DOMAIN batch'[w] = DOMAIN taken
      /\ \A i \in DOMAIN taken : batch'[w][i] = item(i)
  <2> DEFINE new == [i \in DOMAIN taken |-> item(i)]
  <2>1. DOMAIN taken = 1 .. Len(taken) /\ Len(taken) \in Nat
    BY <1>3
  <2>2. \A i \in 1 .. Len(taken) : item(i) \in Item
    BY <1>7, <2>1
  <2>3. new \in Seq(Item) /\ Len(new) = Len(taken)
    <3> HIDE DEF item
    <3>1. new \in [1 .. Len(taken) -> Item]
      BY <2>1, <2>2
    <3>2. QED
      BY <2>1, <3>1
  <2>4. batch' = [batch EXCEPT ![w] = new]
    BY <1>1
  <2> HIDE DEF new
  <2>5. batch' \in [Workers -> Seq(Item)] /\ batch'[w] = new
        /\ \A v \in Workers \ {w} : batch'[v] = batch[v]
    BY <1>1, <2>3, <2>4
  <2>6. DOMAIN new = DOMAIN taken /\ \A i \in DOMAIN taken : new[i] = item(i)
    BY DEF new
  <2>7. QED
    BY <2>3, <2>5, <2>6
<1>9. TypeOK'
  BY <1>1, <1>6, <1>8 DEF IInv, TypeOK, Places
<1>10. LineIsDue'
  <2>1. ASSUME NEW j \in ToSet(line)
        PROVE  row'[j].status # "ABSENT" /\ row'[j].retryAt # "later"
    <3>1. j \in Jobs
      BY DEF IInv, TypeOK, ToSet
    <3>2. QED
      BY <1>5, <1>6, <3>1 DEF IInv, LineIsDue
  <2>2. QED
    BY <1>1, <2>1 DEF LineIsDue
<1>11. PutOffRowsExist'
  <2>1. ASSUME NEW j \in Jobs
        PROVE  row'[j].retryAt # "none" => row'[j].status # "ABSENT"
    BY <1>5, <1>6 DEF IInv, PutOffRowsExist
  <2>2. QED
    BY <2>1 DEF PutOffRowsExist
<1>12. AttemptsAreLeft'
  <2>1. ASSUME NEW j \in Jobs
        PROVE  row'[j].retries = MaxRetries => row'[j].failed
    BY <1>5, <1>6 DEF IInv, AttemptsAreLeft
  <2>2. ASSUME NEW v \in Workers, NEW i \in DOMAIN batch'[v]
        PROVE  batch'[v][i].retries < MaxRetries
    <3>1. CASE v = w
      BY <1>7, <1>8, <3>1
    <3>2. CASE v # w
      BY <1>8, <3>2 DEF IInv, AttemptsAreLeft
    <3>3. QED
      BY <3>1, <3>2
  <2>3. QED
    BY <2>1, <2>2 DEF AttemptsAreLeft
<1>13. BatchesAreLists'
  <2>1. ASSUME NEW v \in Workers
        PROVE  /\ Len(batch'[v]) <= BatchLimit
               /\ \A i, k \in DOMAIN batch'[v] :
                    batch'[v][i].job = batch'[v][k].job => i = k
    <3>1. CASE v = w
      <4>1. \A i \in DOMAIN taken : batch'[w][i].job = taken[i]
        BY <1>7, <1>8
      <4>2. QED
        BY <1>3, <1>8, <3>1, <4>1 DEF IsInjective
    <3>2. CASE v # w
      BY <1>8, <3>2 DEF IInv, BatchesAreLists
    <3>3. QED
      BY <3>1, <3>2
  <2>2. QED
    BY <2>1 DEF BatchesAreLists
<1>14. ClaimsHold'
  <2>1. ASSUME NEW j \in Jobs, NEW v \in Workers, j \notin crossed, InBatch(j, v)'
        PROVE  Claimed(row'[j], v)
    <3>1. CASE v = w
      <4>1. j \in ToSet(taken)
        BY <1>4, <1>7, <1>8, <2>1, <3>1 DEF InBatch
      <4>2. Pending(row[j])
        BY <1>3, <4>1
      <4>3. QED
        BY <1>5, <1>6, <3>1, <4>1, <4>2 DEF Pending, Claimed
    <3>2. CASE v # w
      <4>1. InBatch(j, v)
        BY <1>8, <2>1, <3>2 DEF InBatch
      <4>2. Claimed(row[j], v)
        BY <2>1, <4>1 DEF IInv, ClaimsHold
      <4>3. ~Pending(row[j])
        BY <4>2, ConstantsAssumption DEF Claimed, Pending
      <4>4. j \notin ToSet(taken)
        BY <1>3, <4>3
      <4>5. QED
        BY <1>6, <4>2, <4>4
    <3>3. QED
      BY <3>1, <3>2
  <2>2. QED
    BY <1>1, <2>1 DEF ClaimsHold, Claimed
<1>15. SettledRowsAreFree'
  <2>1. ASSUME NEW j \in Jobs
        PROVE  row'[j].processed \/ row'[j].failed => row'[j].holder = Nobody
    <3>1. CASE j \in ToSet(taken)
      BY <1>3, <1>5, <1>6, <3>1 DEF Pending
    <3>2. CASE j \notin ToSet(taken)
      BY <1>6, <3>2 DEF IInv, SettledRowsAreFree
    <3>3. QED
      BY <3>1, <3>2
  <2>2. QED
    BY <2>1 DEF SettledRowsAreFree
<1>16. BudgetHolds'
  <2>1. ASSUME NEW v \in Workers
        PROVE  Owed(v)' \in Int /\ Owed(v)' <= Owed(v)
    <3>1. Owed(v) \in Nat /\ BatchLimit \in Nat
      BY OwedFits, ConstantsAssumption
    <3>2. CASE v = w
      <4>1. at'[w] \in {"poll", "decide"} /\ Owed(w) = BatchLimit
        BY <1>1 DEF Owed
      <4>2. Owed(w)' = Len(taken)
        BY <1>8, <4>1 DEF Owed
      <4>3. QED
        BY <1>3, <3>1, <3>2, <4>1, <4>2
    <3>3. CASE v # w
      <4>1. Owed(v)' = Owed(v)
        BY <1>1, <1>8, <3>3 DEF Owed
      <4>2. QED
        BY <3>1, <4>1
    <3>4. QED
      BY <3>2, <3>3
  <2>2. QED
    BY <1>1, <2>1, OwedShrinks, BudgetStep
<1>17. BatchesFitPlaces'
  <2>1. ASSUME NEW v \in Workers
        PROVE  /\ at'[v] \in {"poll", "check", "claim"} => batch'[v] = <<>>
               /\ at'[v] = "charge" => Len(batch'[v]) < BatchLimit
    <3>1. CASE v = w
      <4>1. at'[w] = IF taken = <<>> THEN "poll" ELSE "decide"
        BY <1>1
      <4>2. taken = <<>> => batch'[w] = <<>>
        <5>1. batch'[w] \in Seq(Item) /\ (taken = <<>> => Len(batch'[w]) = 0)
          BY <1>8
        <5>2. QED
          BY <5>1
      <4>3. QED
        BY <3>1, <4>1, <4>2
    <3>2. CASE v # w
      BY <1>1, <1>8, <3>2 DEF IInv, BatchesFitPlaces
    <3>3. QED
      BY <3>1, <3>2
  <2>2. QED
    BY <2>1 DEF BatchesFitPlaces
<1>18. QED
  BY <1>9, <1>10, <1>11, <1>12, <1>13, <1>14, <1>15, <1>16, <1>17 DEF IInv

-----------------------------------------------------------------------------
(* The invariant. *)

\* The month turns, or the operator turns the switch.
LEMMA SwitchStep ==
  ASSUME IInv, NewMonth \/ SwitchOff \/ SwitchOn \/ UNCHANGED vars
  PROVE  IInv'
<1>1. UNCHANGED <<row, line, at, batch, crossed, losses>>
  BY DEF NewMonth, SwitchOff, SwitchOn, vars
<1>2. /\ mode' \in BOOLEAN /\ touches' \in 0 .. MaxTouches
      /\ spent' \in {spent, 0}
  <2>1. mode \in BOOLEAN /\ touches \in 0 .. MaxTouches /\ MaxTouches \in Nat
    BY ConstantsAssumption DEF IInv, TypeOK
  <2>2. CASE NewMonth
    BY <2>1, <2>2 DEF NewMonth
  <2>3. CASE SwitchOff
    <3>1. mode' = FALSE /\ spent' = spent
      BY <2>3 DEF SwitchOff
    <3>2. touches < MaxTouches /\ touches' = touches + 1
      BY <2>3 DEF SwitchOff
    <3>3. touches' \in 0 .. MaxTouches
      BY <2>1, <3>2
    <3>4. QED
      BY <3>1, <3>3
  <2>4. CASE SwitchOn
    BY <2>1, <2>4 DEF SwitchOn
  <2>5. CASE UNCHANGED vars
    BY <2>1, <2>5 DEF vars
  <2>6. QED
    BY <2>2, <2>3, <2>4, <2>5
<1>3. TypeOK'
  BY <1>1, <1>2 DEF IInv, TypeOK
<1>4. /\ LineIsDue' /\ PutOffRowsExist' /\ AttemptsAreLeft'
      /\ BatchesAreLists' /\ SettledRowsAreFree' /\ BatchesFitPlaces'
  BY <1>1 DEF IInv, LineIsDue, PutOffRowsExist, AttemptsAreLeft, BatchesAreLists,
              SettledRowsAreFree, BatchesFitPlaces
<1>5. ClaimsHold'
  BY <1>1 DEF IInv, ClaimsHold, Claimed, InBatch
<1>6. BudgetHolds'
  <2>1. Outstanding' = Outstanding
    BY <1>1 DEF Outstanding, Owed
  <2>2. QED
    BY <1>2, <2>1, BudgetStep
<1>7. QED
  BY <1>3, <1>4, <1>5, <1>6 DEF IInv

\* Init establishes the invariant.
LEMMA InitInv == Init => IInv
<1> SUFFICES ASSUME Init PROVE IInv
  OBVIOUS
<1>1. TypeOK
  BY Rows, ConstantsAssumption DEF Init, TypeOK, IsInjective, Places
<1>2. LineIsDue
  BY DEF Init, LineIsDue, ToSet
<1>3. PutOffRowsExist /\ SettledRowsAreFree
  BY Rows DEF Init, PutOffRowsExist, SettledRowsAreFree
<1>4. AttemptsAreLeft /\ BatchesAreLists
  BY Rows, ConstantsAssumption DEF Init, AttemptsAreLeft, BatchesAreLists
<1>5. ClaimsHold
  BY DEF Init, ClaimsHold, InBatch
<1>6. BudgetHolds /\ BatchesFitPlaces
  BY ConstantsAssumption DEF Init, BudgetHolds, Outstanding, Owed, BatchesFitPlaces
<1>7. QED
  BY <1>1, <1>2, <1>3, <1>4, <1>5, <1>6 DEF IInv

\* Every step keeps the invariant.
LEMMA StepInv == IInv /\ [Next]_vars => IInv'
<1> SUFFICES ASSUME IInv, [Next]_vars PROVE IInv'
  OBVIOUS
<1>1. ASSUME NEW w \in Workers, Work(w) \/ AbandonBatch(w)
      PROVE  IInv'
  <2>1. ASSUME Write(w)
        PROVE  IInv'
    BY <2>1, RecordDecisionStep, RecordRetryStep, RecordTerminalFailureStep DEF Write
  <2>2. QED
    BY <1>1, <2>1, ReadModeStep, CheckBudgetStep, ClaimBatchStep, ChargeStep,
       AbandonBatchStep DEF Work
<1>2. ASSUME NEW j \in Jobs,
             \/ InsertJob(j) \/ InsertPurgedJob(j) \/ PurgeJob(j)
             \/ RetryDue(j) \/ LeaseEnds(j) \/ LeaseOutlived(j)
             \/ ResetAgentFailureState(j)
      PROVE  IInv'
  BY <1>2, InsertJobStep, InsertPurgedJobStep, PurgeJobStep, RetryDueStep, LapseStep,
     ResetStep
<1>3. ASSUME NEW j \in Jobs, NEW v \in Verdicts, HumanVerdict(j, v)
      PROVE  IInv'
  BY <1>3, HumanVerdictStep
<1>4. CASE NewMonth \/ SwitchOff \/ SwitchOn \/ UNCHANGED vars
  BY <1>4, SwitchStep
<1>5. QED
  BY <1>1, <1>2, <1>3, <1>4 DEF Next

\* The inductive invariant of the gate's queue holds in every reachable state.
THEOREM Invariance == Spec => []IInv
BY InitInv, StepInv, PTL DEF Spec

\* The line stays a list of the jobs, and every row, batch and counter keeps its type.
THEOREM TypeCorrect == Spec => []TypeOK
BY Invariance, PTL DEF IInv

\* No job is decided twice at once, and what is decided or given up is claimed
\* by nobody, whatever lapses, crashes or is written by others.
THEOREM ExclusiveClaims == Spec => []ClaimsAreExclusive
BY Invariance, InvExclusive, PTL

\* However many workers there are and however large the batches, the month is
\* overdrawn by less than a batch for each worker.
THEOREM BoundedOverdraft == Spec => []OverdraftIsBounded
BY Invariance, InvOverdraft, PTL

\* The human's verdict survives every step of every worker.
THEOREM VerdictsStand == Spec => VerdictStands
<1> DEFINE Stands == \A j \in Jobs \ crossed' :
                       row[j].status \in Verdicts => row'[j].status \in Verdicts \cup {"NEW"}
<1>1. IInv /\ [Next]_vars => [Stands]_vars
  <2> SUFFICES ASSUME IInv, Next, NEW j \in Jobs, j \notin crossed',
                      row[j].status \in Verdicts
               PROVE  row'[j].status \in Verdicts \cup {"NEW"}
    OBVIOUS
  <2>1. row \in [Jobs -> Row] /\ row[j].status # "NEW" /\ row[j] \in Row
    BY DEF IInv, TypeOK, Verdicts
  <2>2. ASSUME NEW w \in Workers, NEW item \in Item, NEW r,
               Current(w, item), WriteBack(w, item, r)
        PROVE  row'[j] = row[j]
    <3>1. j # item.job
      <4>1. batch[w] \in Seq(Item) /\ 1 \in DOMAIN batch[w] /\ item = batch[w][1]
        BY <2>2 DEF IInv, TypeOK, Current
      <4>2. InBatch(item.job, w)
        BY <4>1 DEF InBatch
      <4>3. item.job \in crossed' \/ row[item.job].status = "NEW"
        BY <2>2, <4>2 DEF WriteBack, IInv, ClaimsHold, Claimed, Item
      <4>4. QED
        BY <2>1, <4>3
    <3>2. QED
      BY <2>1, <2>2, <3>1 DEF WriteBack
  <2>3. ASSUME NEW w \in Workers, Write(w)
        PROVE  row'[j] = row[j]
    BY <2>2, <2>3 DEF Write, RecordDecision, RecordRetry, RecordTerminalFailure
  <2>4. ASSUME NEW w \in Workers, ClaimBatch(w)
        PROVE  row'[j].status = row[j].status
    <3>1. row'[j] = row[j] \/ row'[j] = [row[j] EXCEPT !.holder = w, !.lapsed = FALSE]
      BY <2>4 DEF ClaimBatch
    <3>2. QED
      BY <2>1, <3>1 DEF Row
  <2>5. ASSUME NEW k \in Jobs, NEW r, row' = [row EXCEPT ![k] = r],
               k = j => r.status \in Verdicts \cup {"NEW"}
        PROVE  row'[j].status \in Verdicts \cup {"NEW"}
    BY <2>1, <2>5
  <2>6. ASSUME NEW k \in Jobs,
               \/ InsertJob(k) \/ InsertPurgedJob(k) \/ PurgeJob(k)
               \/ RetryDue(k) \/ LeaseEnds(k) \/ LeaseOutlived(k)
               \/ ResetAgentFailureState(k)
        PROVE  row'[j].status \in Verdicts \cup {"NEW"}
    <3>1. CASE InsertJob(k) \/ InsertPurgedJob(k)
      BY <2>5, <3>1, Rows DEF InsertJob, InsertPurgedJob
    <3>2. CASE PurgeJob(k)
      BY <2>1, <3>2 DEF PurgeJob
    <3>3. CASE RetryDue(k)
      BY <2>1, <3>3 DEF RetryDue, Row
    <3>4. CASE LeaseEnds(k) \/ LeaseOutlived(k)
      BY <2>1, <3>4 DEF LeaseEnds, LeaseOutlived, Lapse, Row
    <3>5. CASE ResetAgentFailureState(k)
      <4>1. [Fresh EXCEPT !.processed = row[k].processed].status = "NEW"
        BY DEF Fresh
      <4>2. QED
        BY <2>5, <3>5, <4>1 DEF ResetAgentFailureState
    <3>6. QED
      BY <2>6, <3>1, <3>2, <3>3, <3>4, <3>5
  <2>7. ASSUME NEW k \in Jobs, NEW v \in Verdicts, HumanVerdict(k, v)
        PROVE  row'[j].status \in Verdicts \cup {"NEW"}
    BY <2>1, <2>7 DEF HumanVerdict, Row
  <2>8. ASSUME \/ \E w \in Workers :
                    ReadMode(w) \/ CheckBudget(w) \/ Charge(w) \/ AbandonBatch(w)
               \/ NewMonth \/ SwitchOff \/ SwitchOn
        PROVE  row' = row
    BY <2>8 DEF ReadMode, CheckBudget, Charge, AbandonBatch, NewMonth, SwitchOff, SwitchOn
  <2>9. QED
    BY <2>3, <2>4, <2>6, <2>7, <2>8 DEF Next, Work
<1>2. QED
  BY <1>1, Invariance, PTL DEF Spec, VerdictStands

=============================================================================
