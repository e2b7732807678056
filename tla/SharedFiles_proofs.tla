------------------------- MODULE SharedFiles_proofs -------------------------
(***************************************************************************)
(* Proofs about the two components whose state is in files that several    *)
(* processes write.  ResumePipeline, the artifact directory of a job: for  *)
(* every number of runs and uploads, and whatever the models answer.       *)
(* AnswerCache: for every number of companies, questions, attempts and     *)
(* requests, and every measure of likeness.  The two share no variable, so *)
(* this module extends both.                                               *)
(***************************************************************************)
EXTENDS ResumePipeline, AnswerCache, FiniteSetTheorems, SequenceTheorems,
        WellFoundedInduction, TLAPS

-----------------------------------------------------------------------------
(* Induction over the natural numbers, from their well-foundedness. *)

\* A set of numbers that is not empty has a least member.
LEMMA LeastNat ==
  ASSUME NEW T \in SUBSET Nat, T # {}
  PROVE  \E n \in T : \A m \in T : n <= m
<1>1. PICK n \in T : \A m \in T : ~(<<m, n>> \in OpToRel(<, Nat))
  BY NatLessThanWellFounded, WFMin
<1>2. \A m \in T : ~(m < n)
  BY <1>1 DEF OpToRel
<1>3. QED
  BY <1>2

\* A set that has 0, and n + 1 with n, has every number.
LEMMA Induct ==
  ASSUME NEW S \in SUBSET Nat, 0 \in S, \A n \in S : n + 1 \in S
  PROVE  S = Nat
<1>1. SUFFICES ASSUME S # Nat PROVE FALSE
  OBVIOUS
<1>2. PICK n \in Nat \ S : \A m \in Nat \ S : n <= m
  BY <1>1, LeastNat
<1>3. n - 1 \in S
  BY <1>2
<1>4. QED
  BY <1>2, <1>3

-----------------------------------------------------------------------------
(* Recursive functions and sequences. *)

\* The strings, and the two that latex_safe writes: of a literal the provers do
\* not know that it is one.
Tokens == STRING \cup {"\\&", "\\$"}

LEMMA TextIs == \A text \in Seq(STRING) : text \in Seq(Tokens)
<1> TAKE text \in Seq(STRING)
<1>1. \A t \in STRING : t \in Tokens
  BY DEF Tokens
<1>2. Len(text) \in Nat /\ text = [k \in 1 .. Len(text) |-> text[k]]
      /\ \A k \in 1 .. Len(text) : text[k] \in STRING
  OBVIOUS
<1>3. \A k \in 1 .. Len(text) : text[k] \in Tokens
  BY <1>1, <1>2
<1>4. [k \in 1 .. Len(text) |-> text[k]] \in Seq(Tokens)
  BY <1>2, <1>3
<1>5. QED
  BY <1>2, <1>4

\* What holds at the lower bound and goes on from each number holds up to the
\* upper bound.
LEMMA InductUpTo ==
  ASSUME NEW lo \in Nat, NEW hi \in Nat, NEW Good, lo \in Good,
         \A n \in lo .. hi : n \in Good /\ n # hi => n + 1 \in Good
  PROVE  \A n \in lo .. hi : n \in Good
<1> DEFINE S == {n \in Nat : lo + n <= hi => lo + n \in Good}
<1>1. 0 \in S
  OBVIOUS
<1>2. ASSUME NEW n \in S
      PROVE  n + 1 \in S
  <2>1. SUFFICES ASSUME lo + (n + 1) <= hi PROVE lo + (n + 1) \in Good
    OBVIOUS
  <2>2. lo + n \in lo .. hi /\ lo + n # hi /\ lo + n \in Good
    BY <2>1
  <2>3. (lo + n) + 1 \in Good
    BY <2>2
  <2>4. (lo + n) + 1 = lo + (n + 1)
    OBVIOUS
  <2>5. QED
    BY <2>3, <2>4
<1>3. S = Nat
  <2> HIDE DEF S
  <2>1. S \in SUBSET Nat
    BY DEF S
  <2>2. QED
    BY <1>1, <1>2, <2>1, Induct
<1>4. ASSUME NEW n \in lo .. hi
      PROVE  n \in Good
  <2>1. n - lo \in S /\ lo + (n - lo) = n /\ n <= hi
    BY <1>3
  <2>2. QED
    BY <2>1
<1>5. QED
  BY <1>4

\* f has the value first at lo, and then what step makes of the value before.
Recurs(f, lo, hi, first, step) ==
  \A n \in lo .. hi : f[n] = IF n = lo THEN first ELSE step[n][f[n - 1]]

LEMMA Recursion ==
  ASSUME NEW V, NEW first \in V, NEW lo \in Nat, NEW hi \in Nat, lo <= hi,
         NEW S, NEW step \in [S -> [V -> V]], \A n \in lo .. hi : n # lo => n \in S
  PROVE  \E f \in [lo .. hi -> V] : Recurs(f, lo, hi, first, step)
<1> DEFINE Built == {m \in lo .. hi : \E f \in [lo .. m -> V] : Recurs(f, lo, m, first, step)}
<1>1. lo \in Built
  <2>1. [n \in lo .. lo |-> first] \in [lo .. lo -> V]
    OBVIOUS
  <2>2. Recurs([n \in lo .. lo |-> first], lo, lo, first, step)
    BY DEF Recurs
  <2>3. \E f \in [lo .. lo -> V] : Recurs(f, lo, lo, first, step)
    BY <2>1, <2>2
  <2>4. lo \in lo .. hi
    OBVIOUS
  <2>5. QED
    BY <2>3, <2>4
<1>2. ASSUME NEW m \in lo .. hi, m \in Built, m # hi
      PROVE  m + 1 \in Built
  <2>1. PICK f \in [lo .. m -> V] : Recurs(f, lo, m, first, step)
    BY <1>2
  <2> DEFINE g == [n \in lo .. m + 1 |-> IF n = m + 1 THEN step[m + 1][f[m]] ELSE f[n]]
  <2>2. m + 1 \in lo .. hi /\ m \in lo .. m /\ m + 1 # lo /\ (m + 1) - 1 = m
    BY <1>2
  <2>3. step[m + 1][f[m]] \in V
    BY <2>2
  <2>4. g \in [lo .. m + 1 -> V]
    <3>1. \A n \in lo .. m + 1 : n = m + 1 \/ n \in lo .. m
      OBVIOUS
    <3>2. QED
      BY <2>3, <3>1
  <2>5. ASSUME NEW n \in lo .. m + 1
        PROVE  g[n] = IF n = lo THEN first ELSE step[n][g[n - 1]]
    <3>1. CASE n = m + 1
      <4>1. g[n] = step[n][f[m]] /\ g[n - 1] = f[m]
        BY <2>2, <3>1
      <4>2. QED
        BY <2>2, <3>1, <4>1
    <3>2. CASE n # m + 1
      <4>1. n \in lo .. m /\ (n # lo => n - 1 \in lo .. m /\ n - 1 # m + 1)
        BY <3>2
      <4>2. g[n] = f[n] /\ (n # lo => g[n - 1] = f[n - 1])
        BY <3>2, <4>1
      <4>3. f[n] = IF n = lo THEN first ELSE step[n][f[n - 1]]
        BY <2>1, <4>1 DEF Recurs
      <4>4. QED
        BY <4>2, <4>3
    <3>3. QED
      BY <3>1, <3>2
  <2>6. Recurs(g, lo, m + 1, first, step)
    BY <2>5 DEF Recurs
  <2>7. m + 1 \in lo .. hi
    BY <2>2
  <2> HIDE DEF g
  <2>8. QED
    BY <2>4, <2>6, <2>7
<1>3. \A m \in lo .. hi : m \in Built
  <2> HIDE DEF Built
  <2>1. QED
    BY <1>1, <1>2, InductUpTo
<1>4. hi \in Built
  <2>1. hi \in lo .. hi
    OBVIOUS
  <2> HIDE DEF Built
  <2>2. QED
    BY <1>3, <2>1
<1>5. QED
  BY <1>4

-----------------------------------------------------------------------------
(* What is selected of a sequence. *)

\* kept has those of the first n members of seq that are at the places in I,
\* the k-th of them from place at[k].
Selects(kept, at, seq, n, I) ==
  /\ at \in [1 .. Len(kept) -> (1 .. n) \cap I]
  /\ \A k \in 1 .. Len(kept) : kept[k] = seq[at[k]]
  /\ \A j, k \in 1 .. Len(kept) : j < k => at[j] < at[k]
  /\ \A m \in (1 .. n) \cap I : \E k \in 1 .. Len(kept) : at[k] = m

LEMMA KeptIs ==
  ASSUME NEW A, NEW seq \in Seq(A), NEW I
  PROVE  /\ Kept(seq, I) \in Seq(A)
         /\ \E at : Selects(Kept(seq, I), at, seq, Len(seq), I)
<1> DEFINE N == Len(seq)
           Step(n, done) == IF n \in I THEN Append(done, seq[n]) ELSE done
           step == [n \in 1 .. N |-> [done \in Seq(A) |-> Step(n, done)]]
           IsKept(f) == f = [n \in 0 .. N |-> IF n = 0 THEN <<>>
                                              ELSE IF n \in I THEN Append(f[n - 1], seq[n])
                                              ELSE f[n - 1]]
<1>1. step \in [1 .. N -> [Seq(A) -> Seq(A)]]
  <2>1. \A n \in 1 .. N : \A done \in Seq(A) : Step(n, done) \in Seq(A)
    OBVIOUS
  <2> HIDE DEF Step
  <2>2. QED
    BY <2>1
<1>2. PICK g \in [0 .. N -> Seq(A)] : Recurs(g, 0, N, <<>>, step)
  <2>1. <<>> \in Seq(A) /\ 0 \in Nat /\ N \in Nat /\ 0 <= N
    OBVIOUS
  <2>2. \A n \in 0 .. N : n # 0 => n \in 1 .. N
    OBVIOUS
  <2> HIDE DEF step
  <2>3. QED
    BY <1>1, <2>1, <2>2, Recursion
<1>3. IsKept(g)
  <2>1. ASSUME NEW n \in 0 .. N, n # 0
        PROVE  step[n][g[n - 1]] = Step(n, g[n - 1])
    <3>1. n \in 1 .. N /\ g[n - 1] \in Seq(A)
      BY <2>1
    <3> HIDE DEF Step
    <3>2. QED
      BY <3>1
  <2>2. g = [n \in 0 .. N |-> g[n]]
    OBVIOUS
  <2>3. \A n \in 0 .. N : g[n] = IF n = 0 THEN <<>> ELSE Step(n, g[n - 1])
    <3> HIDE DEF Step, step
    <3>1. QED
      BY <1>2, <2>1 DEF Recurs
  <2>4. QED
    BY <2>2, <2>3
<1>4. PICK f : IsKept(f) /\ Kept(seq, I) = f[N]
  BY <1>3 DEF Kept
<1> DEFINE Good == {n \in 0 .. N : f[n] \in Seq(A) /\ \E at : Selects(f[n], at, seq, n, I)}
<1>5. 0 \in Good
  <2>1. f[0] = <<>>
    BY <1>4
  <2>2. Selects(<<>>, <<>>, seq, 0, I)
    BY DEF Selects
  <2>3. QED
    BY <2>1, <2>2
<1>6. ASSUME NEW n \in 0 .. N, n \in Good, n # N
      PROVE  n + 1 \in Good
  <2>1. n + 1 \in 0 .. N /\ n + 1 # 0 /\ (n + 1) - 1 = n /\ n + 1 \in 1 .. N
    BY <1>6
  <2>2. f[n + 1] = IF n + 1 \in I THEN Append(f[n], seq[n + 1]) ELSE f[n]
    BY <1>4, <2>1
  <2>3. PICK at : Selects(f[n], at, seq, n, I)
    BY <1>6
  <2>4. f[n] \in Seq(A) /\ seq[n + 1] \in A
    BY <1>6, <2>1
  <2>5. CASE n + 1 \notin I
    <3>1. (1 .. n + 1) \cap I = (1 .. n) \cap I
      BY <2>5
    <3>2. Selects(f[n], at, seq, n + 1, I)
      BY <2>3, <3>1 DEF Selects
    <3>3. QED
      BY <2>1, <2>2, <2>4, <2>5, <3>2
  <2>6. CASE n + 1 \in I
    <3> DEFINE L == Len(f[n])
               new == [k \in 1 .. L + 1 |-> IF k = L + 1 THEN n + 1 ELSE at[k]]
    <3>1. /\ f[n + 1] \in Seq(A) /\ Len(f[n + 1]) = L + 1 /\ L \in Nat
          /\ f[n + 1][L + 1] = seq[n + 1]
          /\ \A k \in 1 .. L : f[n + 1][k] = f[n][k]
      BY <2>2, <2>4, <2>6
    <3>2. \A k \in 1 .. L + 1 : k = L + 1 \/ k \in 1 .. L
      BY <3>1
    <3>3. \A k \in 1 .. L : at[k] \in 1 .. n /\ at[k] \in I /\ new[k] = at[k]
      <4>1. \A k \in 1 .. L : at[k] \in (1 .. n) \cap I
        BY <2>3 DEF Selects
      <4>2. \A k \in 1 .. L : k \in 1 .. L + 1 /\ k # L + 1
        BY <3>1
      <4> HIDE DEF L
      <4>3. QED
        BY <4>1, <4>2
    <3>4. new[L + 1] = n + 1 /\ L + 1 \in 1 .. L + 1
      BY <3>1
    <3>5. new \in [1 .. L + 1 -> (1 .. n + 1) \cap I]
      <4>1. ASSUME NEW k \in 1 .. L + 1
            PROVE  new[k] \in (1 .. n + 1) \cap I
        <5>1. n + 1 \in 1 .. n + 1 /\ 1 .. n \subseteq 1 .. n + 1
          OBVIOUS
        <5> HIDE DEF L
        <5>2. QED
          BY <2>6, <3>2, <3>3, <3>4, <5>1
      <4>2. QED
        BY <4>1
    <3>6. \A k \in 1 .. L + 1 : f[n + 1][k] = seq[new[k]]
      BY <2>3, <3>1, <3>2, <3>3, <3>4 DEF Selects
    <3>7. ASSUME NEW j \in 1 .. L + 1, NEW k \in 1 .. L + 1, j < k
          PROVE  new[j] < new[k]
      <4>1. j \in 1 .. L
        BY <3>1, <3>7
      <4>2. CASE k \in 1 .. L
        BY <2>3, <3>3, <3>7, <4>1, <4>2 DEF Selects
      <4>3. CASE k = L + 1
        <5>1. new[j] \in 1 .. n
          BY <3>3, <4>1
        <5>2. QED
          BY <3>4, <4>3, <5>1
      <4>4. QED
        BY <3>2, <4>2, <4>3
    <3>8. ASSUME NEW m \in (1 .. n + 1) \cap I
          PROVE  \E k \in 1 .. L + 1 : new[k] = m
      <4>1. CASE m = n + 1
        BY <3>4, <4>1
      <4>2. CASE m # n + 1
        <5>1. m \in (1 .. n) \cap I
          BY <4>2
        <5>2. PICK k \in 1 .. L : at[k] = m
          BY <2>3, <5>1 DEF Selects
        <5>3. k \in 1 .. L + 1
          BY <3>1
        <5>4. QED
          BY <3>3, <5>2, <5>3
      <4>3. QED
        BY <4>1, <4>2
    <3> HIDE DEF new
    <3>9. Selects(f[n + 1], new, seq, n + 1, I)
      BY <3>1, <3>5, <3>6, <3>7, <3>8 DEF Selects
    <3>10. QED
      BY <2>1, <3>1, <3>9
  <2>7. QED
    BY <2>5, <2>6
<1>7. \A n \in 0 .. N : n \in Good
  <2>1. N \in Nat
    OBVIOUS
  <2> HIDE DEF Good, N
  <2>2. QED
    BY <1>5, <1>6, <2>1, InductUpTo
<1>8. N \in Good
  <2>1. N \in 0 .. N
    OBVIOUS
  <2> HIDE DEF Good
  <2>2. QED
    BY <1>7, <2>1
<1>9. QED
  BY <1>4, <1>8

\* Of two members of seq, the first and the second are a pair in Q.
Ordered(seq, Q) == \A i, j \in 1 .. Len(seq) : i < j => <<seq[i], seq[j]>> \in Q

\* What is kept is in the order it was in.
LEMMA KeptOrdered ==
  ASSUME NEW A, NEW seq \in Seq(A), NEW I, NEW Q, Ordered(seq, Q)
  PROVE  Ordered(Kept(seq, I), Q)
<1> DEFINE kept == Kept(seq, I)
<1>1. PICK at : Selects(kept, at, seq, Len(seq), I)
  BY KeptIs
<1>2. \A k \in 1 .. Len(kept) : at[k] \in 1 .. Len(seq) /\ kept[k] = seq[at[k]]
  BY <1>1 DEF Selects
<1>3. \A j, k \in 1 .. Len(kept) : j < k => at[j] < at[k]
  BY <1>1 DEF Selects
<1> HIDE DEF kept
<1>4. QED
  BY <1>2, <1>3 DEF Ordered, kept

\* The members of what is kept, and where they were.
LEMMA KeptMembers ==
  ASSUME NEW A, NEW seq \in Seq(A), NEW I
  PROVE  /\ \A k \in 1 .. Len(Kept(seq, I)) :
              \E m \in 1 .. Len(seq) : m \in I /\ Kept(seq, I)[k] = seq[m]
         /\ \A m \in 1 .. Len(seq) : m \in I =>
              \E k \in 1 .. Len(Kept(seq, I)) : Kept(seq, I)[k] = seq[m]
<1> DEFINE kept == Kept(seq, I)
<1>1. PICK at : Selects(kept, at, seq, Len(seq), I)
  BY KeptIs
<1>2. \A k \in 1 .. Len(kept) : at[k] \in (1 .. Len(seq)) \cap I /\ kept[k] = seq[at[k]]
  BY <1>1 DEF Selects
<1>3. \A m \in (1 .. Len(seq)) \cap I : \E k \in 1 .. Len(kept) : at[k] = m
  BY <1>1 DEF Selects
<1> HIDE DEF kept
<1>4. QED
  BY <1>2, <1>3 DEF kept

\* The members of one sequence after another.
LEMMA ConcatIs ==
  ASSUME NEW A, NEW s \in Seq(A), NEW t \in Seq(A)
  PROVE  /\ s \o t \in Seq(A) /\ Len(s \o t) = Len(s) + Len(t)
         /\ \A k \in 1 .. Len(s) : k \in 1 .. Len(s \o t) /\ (s \o t)[k] = s[k]
         /\ \A k \in 1 .. Len(t) :
              k + Len(s) \in 1 .. Len(s \o t) /\ (s \o t)[k + Len(s)] = t[k]
         /\ \A k \in 1 .. Len(s \o t) :
              \/ k \in 1 .. Len(s) /\ (s \o t)[k] = s[k]
              \/ k - Len(s) \in 1 .. Len(t) /\ (s \o t)[k] = t[k - Len(s)]
OBVIOUS

LEMMA ConcatOrdered ==
  ASSUME NEW A, NEW s \in Seq(A), NEW t \in Seq(A), NEW Q, Ordered(s, Q), Ordered(t, Q),
         \A i \in 1 .. Len(s), j \in 1 .. Len(t) : <<s[i], t[j]>> \in Q
  PROVE  Ordered(s \o t, Q)
<1> DEFINE c == s \o t
<1>1. SUFFICES ASSUME NEW i \in 1 .. Len(c), NEW j \in 1 .. Len(c), i < j
               PROVE  <<c[i], c[j]>> \in Q
  BY DEF Ordered
<1>2. \A k \in 1 .. Len(c) : \/ k \in 1 .. Len(s) /\ c[k] = s[k]
                             \/ k - Len(s) \in 1 .. Len(t) /\ c[k] = t[k - Len(s)]
  BY ConcatIs
<1>3. Len(s) \in Nat /\ Len(t) \in Nat /\ Len(c) \in Nat
  BY ConcatIs
<1> HIDE DEF c
<1>4. CASE j \in 1 .. Len(s) /\ c[j] = s[j]
  <2>1. i \in 1 .. Len(s) /\ c[i] = s[i]
    BY <1>1, <1>2, <1>3, <1>4
  <2>2. QED
    BY <1>1, <1>4, <2>1 DEF Ordered
<1>5. CASE j - Len(s) \in 1 .. Len(t) /\ c[j] = t[j - Len(s)]
  <2>1. CASE i \in 1 .. Len(s) /\ c[i] = s[i]
    BY <1>5, <2>1
  <2>2. CASE i - Len(s) \in 1 .. Len(t) /\ c[i] = t[i - Len(s)]
    <3>1. i - Len(s) < j - Len(s)
      BY <1>1, <1>3
    <3>2. QED
      BY <1>5, <2>2, <3>1 DEF Ordered
  <2>3. QED
    BY <1>2, <2>1, <2>2
<1>6. QED
  BY <1>2, <1>4, <1>5

-----------------------------------------------------------------------------
(* The order of the patches. *)

\* s has the members of seq, p, and no others.
HasAlso(s, seq, p) ==
  /\ \A k \in 1 .. Len(s) : s[k] = p \/ \E m \in 1 .. Len(seq) : s[k] = seq[m]
  /\ \E k \in 1 .. Len(s) : s[k] = p
  /\ \A m \in 1 .. Len(seq) : \E k \in 1 .. Len(s) : s[k] = seq[m]

\* What is put between two parts of a list is between them.
LEMMA InsertedIs ==
  ASSUME NEW A, NEW seq \in Seq(A), NEW p \in A, NEW I, NEW Q, Ordered(seq, Q),
         \A k \in 1 .. Len(seq) : IF k \in I THEN <<seq[k], p>> \in Q ELSE <<p, seq[k]>> \in Q,
         \A k, m \in 1 .. Len(seq) : k \in I /\ m \notin I => <<seq[k], seq[m]>> \in Q
  PROVE  /\ Inserted(seq, p, I) \in Seq(A)
         /\ Ordered(Inserted(seq, p, I), Q)
         /\ HasAlso(Inserted(seq, p, I), seq, p)
<1> DEFINE J == DOMAIN seq \ I
           a == Kept(seq, I)
           b == Kept(seq, J)
           c == (a \o <<p>>) \o b
<1>0. J = 1 .. Len(seq) \ I /\ Inserted(seq, p, I) = c
  BY DEF Inserted
<1>1. /\ a \in Seq(A) /\ b \in Seq(A) /\ <<p>> \in Seq(A) /\ Len(<<p>>) = 1 /\ <<p>>[1] = p
      /\ Ordered(a, Q) /\ Ordered(b, Q)
  BY KeptIs, KeptOrdered
<1>2. /\ \A k \in 1 .. Len(a) : \E m \in 1 .. Len(seq) : m \in I /\ a[k] = seq[m]
      /\ \A k \in 1 .. Len(b) : \E m \in 1 .. Len(seq) : m \notin I /\ b[k] = seq[m]
      /\ \A m \in 1 .. Len(seq) : m \in I => \E k \in 1 .. Len(a) : a[k] = seq[m]
      /\ \A m \in 1 .. Len(seq) : m \notin I => \E k \in 1 .. Len(b) : b[k] = seq[m]
  <2>1. \A m \in 1 .. Len(seq) : m \in J <=> m \notin I
    BY <1>0
  <2> HIDE DEF J
  <2>2. QED
    BY <2>1, KeptMembers
<1> HIDE DEF a, b, J
<1>3. Ordered(<<p>>, Q)
  BY <1>1 DEF Ordered
<1>4. Ordered(a \o <<p>>, Q) /\ a \o <<p>> \in Seq(A)
  <2>1. ASSUME NEW i \in 1 .. Len(a), NEW j \in 1 .. Len(<<p>>)
        PROVE  <<a[i], <<p>>[j]>> \in Q
    <3>1. PICK m \in 1 .. Len(seq) : m \in I /\ a[i] = seq[m]
      BY <1>2
    <3>2. <<p>>[j] = p
      BY <1>1
    <3>3. <<seq[m], p>> \in Q
      BY <3>1
    <3>4. QED
      BY <3>1, <3>2, <3>3
  <2>2. QED
    BY <1>1, <1>3, <2>1, ConcatOrdered, ConcatIs
<1>5. \A k \in 1 .. Len(a \o <<p>>) :
        (\E m \in 1 .. Len(a) : (a \o <<p>>)[k] = a[m]) \/ (a \o <<p>>)[k] = p
  BY <1>1
<1>6. Ordered(c, Q) /\ c \in Seq(A)
  <2>1. ASSUME NEW i \in 1 .. Len(a \o <<p>>), NEW j \in 1 .. Len(b)
        PROVE  <<(a \o <<p>>)[i], b[j]>> \in Q
    <3>1. PICK m \in 1 .. Len(seq) : m \notin I /\ b[j] = seq[m]
      BY <1>2
    <3>2. CASE (a \o <<p>>)[i] = p
      BY <3>1, <3>2
    <3>3. ASSUME NEW l \in 1 .. Len(a), (a \o <<p>>)[i] = a[l]
          PROVE  <<(a \o <<p>>)[i], b[j]>> \in Q
      <4>1. PICK n \in 1 .. Len(seq) : n \in I /\ a[l] = seq[n]
        BY <1>2
      <4>2. <<seq[n], seq[m]>> \in Q
        BY <3>1, <4>1
      <4>3. QED
        BY <3>1, <3>3, <4>1, <4>2
    <3>4. QED
      BY <1>5, <3>2, <3>3
  <2>2. QED
    BY <1>1, <1>4, <2>1, ConcatOrdered, ConcatIs
<1>7. \A k \in 1 .. Len(c) :
        (\E m \in 1 .. Len(a) : c[k] = a[m]) \/ c[k] = p \/ (\E m \in 1 .. Len(b) : c[k] = b[m])
  <2>1. \A k \in 1 .. Len(c) : \/ k \in 1 .. Len(a \o <<p>>) /\ c[k] = (a \o <<p>>)[k]
                               \/ \E m \in 1 .. Len(b) : c[k] = b[m]
    BY <1>1, <1>4, ConcatIs
  <2>2. QED
    BY <1>5, <2>1
<1>8. /\ \A m \in 1 .. Len(a) : \E k \in 1 .. Len(c) : c[k] = a[m]
      /\ \E k \in 1 .. Len(c) : c[k] = p
      /\ \A m \in 1 .. Len(b) : \E k \in 1 .. Len(c) : c[k] = b[m]
  <2> DEFINE d == a \o <<p>>
  <2>1. /\ \A m \in 1 .. Len(a) : m \in 1 .. Len(d) /\ d[m] = a[m]
        /\ Len(a) + 1 \in 1 .. Len(d) /\ d[Len(a) + 1] = p
    BY <1>1
  <2>2. /\ \A m \in 1 .. Len(d) : m \in 1 .. Len(c) /\ c[m] = d[m]
        /\ \A m \in 1 .. Len(b) : m + Len(d) \in 1 .. Len(c) /\ c[m + Len(d)] = b[m]
    BY <1>1, <1>4, ConcatIs
  <2> HIDE DEF d, c
  <2>3. QED
    BY <2>1, <2>2
<1> HIDE DEF c
<1>9. ASSUME NEW k \in 1 .. Len(c)
      PROVE  c[k] = p \/ \E m \in 1 .. Len(seq) : c[k] = seq[m]
  BY <1>2, <1>7
<1>10. ASSUME NEW m \in 1 .. Len(seq)
       PROVE  \E k \in 1 .. Len(c) : c[k] = seq[m]
  <2>1. CASE m \in I
    BY <1>2, <1>8, <2>1
  <2>2. CASE m \notin I
    BY <1>2, <1>8, <2>2
  <2>3. QED
    BY <2>1, <2>2
<1>11. QED
  BY <1>0, <1>6, <1>8, <1>9, <1>10 DEF HasAlso

\* The splice order has the same patches, each no further back than the one
\* before it, and what holds of any two of them still does.
LEMMA SpliceOrder ==
  ASSUME NEW P, \A p \in P : p.span.from \in Nat, NEW patches \in Seq(P), NEW R,
         \A i, j \in 1 .. Len(patches) : i # j => <<patches[i], patches[j]>> \in R
  PROVE  /\ InSpliceOrder(patches) \in Seq(P)
         /\ \A k \in 1 .. Len(InSpliceOrder(patches)) :
              \E m \in 1 .. Len(patches) : InSpliceOrder(patches)[k] = patches[m]
         /\ \A m \in 1 .. Len(patches) :
              \E k \in 1 .. Len(InSpliceOrder(patches)) : InSpliceOrder(patches)[k] = patches[m]
         /\ \A i, j \in 1 .. Len(InSpliceOrder(patches)) : i < j =>
              /\ InSpliceOrder(patches)[j].span.from <= InSpliceOrder(patches)[i].span.from
              /\ <<InSpliceOrder(patches)[i], InSpliceOrder(patches)[j]>> \in R
              /\ <<InSpliceOrder(patches)[j], InSpliceOrder(patches)[i]>> \in R
<1> DEFINE N == Len(patches)
           Behind(done, p) == {k \in DOMAIN done : done[k].span.from >= p.span.from}
           Step(n, done) == Inserted(done, patches[n], Behind(done, patches[n]))
           step == [n \in 1 .. N |-> [done \in Seq(P) |-> Step(n, done)]]
           Sorting(f) ==
             f = [n \in 0 .. N |->
                    IF n = 0 THEN <<>>
                    ELSE LET done == f[n - 1]
                             p == patches[n]
                         IN Inserted(done, p, {k \in DOMAIN done : done[k].span.from >= p.span.from})]
           Q == {q \in P \X P : /\ q[2].span.from <= q[1].span.from
                                /\ q \in R /\ <<q[2], q[1]>> \in R}
<1>0. N \in Nat /\ \A n \in 1 .. N : patches[n] \in P
  OBVIOUS
<1>1. step \in [1 .. N -> [Seq(P) -> Seq(P)]]
  <2>1. ASSUME NEW n \in 1 .. N, NEW done \in Seq(P)
        PROVE  Step(n, done) \in Seq(P)
    <3> DEFINE I == Behind(done, patches[n])
    <3>1. Kept(done, I) \in Seq(P) /\ Kept(done, DOMAIN done \ I) \in Seq(P)
      BY KeptIs
    <3> HIDE DEF I
    <3>2. Inserted(done, patches[n], I) \in Seq(P)
      BY <1>0, <3>1 DEF Inserted
    <3>3. QED
      BY <3>2 DEF I
  <2> HIDE DEF Step, N
  <2>2. QED
    BY <2>1
<1>2. PICK g \in [0 .. N -> Seq(P)] : Recurs(g, 0, N, <<>>, step)
  <2>1. <<>> \in Seq(P) /\ 0 \in Nat /\ 0 <= N
    OBVIOUS
  <2>2. \A n \in 0 .. N : n # 0 => n \in 1 .. N
    OBVIOUS
  <2> HIDE DEF step, N
  <2>3. QED
    BY <1>0, <1>1, <2>1, <2>2, Recursion
<1>3. Sorting(g)
  <2>1. ASSUME NEW n \in 0 .. N, n # 0
        PROVE  step[n][g[n - 1]] = Step(n, g[n - 1])
    <3>1. n \in 1 .. N /\ g[n - 1] \in Seq(P)
      BY <2>1
    <3> HIDE DEF Step
    <3>2. QED
      BY <3>1
  <2>2. g = [n \in 0 .. N |-> g[n]]
    OBVIOUS
  <2>3. \A n \in 0 .. N : g[n] = IF n = 0 THEN <<>> ELSE Step(n, g[n - 1])
    <3> HIDE DEF Step, step
    <3>1. QED
      BY <1>2, <2>1 DEF Recurs
  <2>4. QED
    BY <2>2, <2>3
<1>4. PICK f : Sorting(f) /\ InSpliceOrder(patches) = f[N]
  BY <1>3 DEF InSpliceOrder
<1> DEFINE Sorts(s, n) == /\ s \in Seq(P) /\ Ordered(s, Q)
                          /\ \A k \in 1 .. Len(s) : \E m \in 1 .. n : s[k] = patches[m]
                          /\ \A m \in 1 .. n : \E k \in 1 .. Len(s) : s[k] = patches[m]
           Good == {n \in 0 .. N : Sorts(f[n], n)}
<1>5. 0 \in Good
  <2>1. f[0] = <<>> /\ 0 \in 0 .. N
    BY <1>0, <1>4
  <2>2. Sorts(<<>>, 0)
    BY DEF Ordered
  <2> HIDE DEF Sorts
  <2>3. QED
    BY <2>1, <2>2
<1>6. ASSUME NEW n \in 0 .. N, n \in Good, n # N
      PROVE  n + 1 \in Good
  <2> DEFINE done == f[n]
             p == patches[n + 1]
             I == Behind(done, p)
             s == Inserted(done, p, I)
  <2>1. n + 1 \in 0 .. N /\ n + 1 # 0 /\ (n + 1) - 1 = n /\ n + 1 \in 1 .. N /\ p \in P
    BY <1>0, <1>6
  <2>2. f[n + 1] = s
    BY <1>4, <2>1
  <2>3. Sorts(done, n)
    BY <1>6
  <2>4. \A k \in 1 .. Len(done) : k \in I <=> done[k].span.from >= p.span.from
    BY <2>3
  <2>5. \A k \in 1 .. Len(done) : done[k] \in P /\ <<done[k], p>> \in R /\ <<p, done[k]>> \in R
    <3>1. ASSUME NEW k \in 1 .. Len(done)
          PROVE  done[k] \in P /\ <<done[k], p>> \in R /\ <<p, done[k]>> \in R
      <4>1. PICK m \in 1 .. n : done[k] = patches[m]
        BY <2>3
      <4>2. m \in 1 .. N /\ m # n + 1
        BY <2>1
      <4>3. <<patches[m], p>> \in R /\ <<p, patches[m]>> \in R /\ patches[m] \in P
        BY <1>0, <2>1, <4>2
      <4> HIDE DEF done, p
      <4>4. QED
        BY <4>1, <4>3
    <3>2. QED
      BY <3>1
  <2>6. done \in Seq(P) /\ Ordered(done, Q)
    BY <2>3
  <2>7. ASSUME NEW k \in 1 .. Len(done)
        PROVE  IF k \in I THEN <<done[k], p>> \in Q ELSE <<p, done[k]>> \in Q
    <3>1. done[k].span.from \in Nat /\ p.span.from \in Nat
      BY <2>1, <2>5
    <3>2. CASE k \in I
      <4>1. p.span.from <= done[k].span.from
        BY <2>4, <3>1, <3>2
      <4> HIDE DEF I, done, p
      <4>2. QED
        BY <2>1, <2>5, <3>2, <4>1
    <3>3. CASE k \notin I
      <4>1. done[k].span.from <= p.span.from
        BY <2>4, <3>1, <3>3
      <4> HIDE DEF I, done, p
      <4>2. QED
        BY <2>1, <2>5, <3>3, <4>1
    <3>4. QED
      BY <3>2, <3>3
  <2>8. ASSUME NEW k \in 1 .. Len(done), NEW m \in 1 .. Len(done), k \in I, m \notin I
        PROVE  <<done[k], done[m]>> \in Q
    <3> HIDE DEF I, done, p
    <3>0. done[k].span.from \in Nat /\ done[m].span.from \in Nat /\ p.span.from \in Nat
      BY <2>1, <2>5
    <3>1. done[k].span.from > done[m].span.from /\ k # m
      BY <2>4, <2>8, <3>0
    <3>2. CASE k < m
      BY <2>6, <3>2 DEF Ordered
    <3>3. CASE m < k
      <4>1. <<done[m], done[k]>> \in Q
        BY <2>6, <3>3 DEF Ordered
      <4>2. done[k].span.from <= done[m].span.from
        BY <4>1
      <4>3. QED
        BY <3>0, <3>1, <4>2
    <3>4. QED
      BY <2>6, <3>1, <3>2, <3>3
  <2>9. /\ s \in Seq(P) /\ Ordered(s, Q)
        /\ \A k \in 1 .. Len(s) : s[k] = p \/ \E m \in 1 .. Len(done) : s[k] = done[m]
        /\ \E k \in 1 .. Len(s) : s[k] = p
        /\ \A m \in 1 .. Len(done) : \E k \in 1 .. Len(s) : s[k] = done[m]
    <3> HIDE DEF I, done, p, Q
    <3>1. \A k \in 1 .. Len(done) : IF k \in I THEN <<done[k], p>> \in Q ELSE <<p, done[k]>> \in Q
      BY <2>7
    <3>2. \A k, m \in 1 .. Len(done) : k \in I /\ m \notin I => <<done[k], done[m]>> \in Q
      BY <2>8
    <3> USE <2>1, <2>6, <3>1, <3>2
    <3>3. s \in Seq(P) /\ Ordered(s, Q) /\ HasAlso(s, done, p)
      BY InsertedIs
    <3> HIDE DEF s
    <3>4. QED
      BY <3>3 DEF HasAlso
  <2>10. ASSUME NEW k \in 1 .. Len(s)
         PROVE  \E m \in 1 .. n + 1 : s[k] = patches[m]
    <3>1. CASE s[k] = p
      <4> HIDE DEF s
      <4>1. n + 1 \in 1 .. n + 1
        OBVIOUS
      <4>2. QED
        BY <3>1, <4>1
    <3>2. CASE \E m \in 1 .. Len(done) : s[k] = done[m]
      <4> HIDE DEF s
      <4>1. PICK m \in 1 .. Len(done) : s[k] = done[m]
        BY <3>2
      <4>2. PICK l \in 1 .. n : done[m] = patches[l]
        BY <2>3
      <4>3. l \in 1 .. n + 1
        OBVIOUS
      <4> HIDE DEF done
      <4>4. QED
        BY <4>1, <4>2, <4>3
    <3> HIDE DEF s, done, p
    <3>3. QED
      BY <2>9, <3>1, <3>2
  <2>11. ASSUME NEW m \in 1 .. n + 1
         PROVE  \E k \in 1 .. Len(s) : s[k] = patches[m]
    <3>1. CASE m = n + 1
      <4> HIDE DEF s, done, I
      <4>1. QED
        BY <2>9, <3>1
    <3>2. CASE m # n + 1
      <4>1. m \in 1 .. n
        BY <3>2
      <4>2. PICK l \in 1 .. Len(done) : done[l] = patches[m]
        BY <2>3, <4>1
      <4> HIDE DEF s, done
      <4>3. QED
        BY <2>9, <4>2
    <3>3. QED
      BY <3>1, <3>2
  <2> HIDE DEF s, Q, done
  <2>12. Sorts(s, n + 1)
    BY <2>9, <2>10, <2>11
  <2> HIDE DEF Sorts
  <2>13. QED
    BY <2>1, <2>2, <2>12
<1>7. \A n \in 0 .. N : n \in Good
  <2>1. 0 \in Nat
    OBVIOUS
  <2> HIDE DEF Good, N
  <2>2. QED
    BY <1>0, <1>5, <1>6, <2>1, InductUpTo
<1>8. Sorts(f[N], N)
  <2>1. N \in 0 .. N
    OBVIOUS
  <2> HIDE DEF Sorts, N
  <2>2. QED
    BY <1>7, <2>1
<1>9. ASSUME NEW i \in 1 .. Len(f[N]), NEW j \in 1 .. Len(f[N]), i < j
      PROVE  /\ f[N][j].span.from <= f[N][i].span.from
             /\ <<f[N][i], f[N][j]>> \in R /\ <<f[N][j], f[N][i]>> \in R
  <2> DEFINE a == f[N][i]
             b == f[N][j]
  <2>1. <<a, b>> \in Q
    BY <1>8, <1>9 DEF Ordered
  <2> HIDE DEF a, b
  <2>2. b.span.from <= a.span.from /\ <<a, b>> \in R /\ <<b, a>> \in R
    BY <2>1
  <2>3. QED
    BY <2>2 DEF a, b
<1> HIDE DEF Q, N
<1>10. QED
  BY <1>4, <1>8, <1>9 DEF N

-----------------------------------------------------------------------------
(* Where the bullets are. *)

Span == [from : Nat, to : Nat, next : Nat]
Bullet == [id : Nat \X Nat \X Nat, from : Nat, to : Nat]

\* The spans of seq lie between lo and hi, each behind the one before it.
InRow(seq, lo, hi) ==
  /\ \A k \in 1 .. Len(seq) : lo < seq[k].from /\ seq[k].from <= seq[k].to /\ seq[k].to <= hi
  /\ \A j, k \in 1 .. Len(seq) : j < k => seq[j].to < seq[k].from

LEMMA RowConcat ==
  ASSUME NEW s \in Seq(Bullet), NEW t \in Seq(Bullet),
         NEW lo \in Nat, NEW mid \in Nat, NEW hi \in Nat, lo <= mid, mid <= hi,
         InRow(s, lo, mid), InRow(t, mid, hi)
  PROVE  s \o t \in Seq(Bullet) /\ InRow(s \o t, lo, hi)
<1> DEFINE c == s \o t
           Q == {q \in Bullet \X Bullet : q[1].to < q[2].from}
<1>1. \A b \in Bullet : b.from \in Nat /\ b.to \in Nat
  BY DEF Bullet
<1>2. /\ \A k \in 1 .. Len(s) : s[k] \in Bullet
      /\ \A k \in 1 .. Len(t) : t[k] \in Bullet
  OBVIOUS
<1>3. Ordered(s, Q) /\ Ordered(t, Q)
  BY <1>2 DEF Ordered, InRow
<1>4. ASSUME NEW i \in 1 .. Len(s), NEW j \in 1 .. Len(t)
      PROVE  <<s[i], t[j]>> \in Q
  <2>1. s[i].to <= mid /\ mid < t[j].from
    BY DEF InRow
  <2>2. s[i].to \in Nat /\ t[j].from \in Nat
    BY <1>1, <1>2
  <2>3. s[i].to < t[j].from
    BY <2>1, <2>2
  <2>4. QED
    BY <1>2, <2>3
<1>5. Ordered(c, Q) /\ c \in Seq(Bullet)
  <2> HIDE DEF Q
  <2>1. QED
    BY <1>3, <1>4, ConcatOrdered, ConcatIs
<1>6. \A k \in 1 .. Len(c) : c[k] \in Bullet /\ ((\E m \in 1 .. Len(s) : c[k] = s[m])
                                                \/ (\E m \in 1 .. Len(t) : c[k] = t[m]))
  BY <1>2, ConcatIs
<1> HIDE DEF c
<1>7. ASSUME NEW k \in 1 .. Len(c)
      PROVE  lo < c[k].from /\ c[k].from <= c[k].to /\ c[k].to <= hi
  <2>0. c[k].from \in Nat /\ c[k].to \in Nat
    BY <1>1, <1>6
  <2>1. CASE \E m \in 1 .. Len(s) : c[k] = s[m]
    BY <2>0, <2>1 DEF InRow
  <2>2. CASE \E m \in 1 .. Len(t) : c[k] = t[m]
    BY <2>0, <2>2 DEF InRow
  <2>3. QED
    BY <1>6, <2>1, <2>2
<1>8. \A j, k \in 1 .. Len(c) : j < k => c[j].to < c[k].from
  BY <1>5 DEF Ordered
<1>9. QED
  BY <1>5, <1>7, <1>8 DEF InRow, c

\* A span behind k and before end.
Within(g, k, end) ==
  g \in Span /\ k < g.from /\ g.from <= g.to /\ g.to <= g.next /\ g.next <= end

LEMMA GroupIs ==
  ASSUME NEW text, NEW k \in Nat, NEW end \in Nat, NEW g \in Group(text, k, end)
  PROVE  Within(g, k, end)
<1>1. PICK o \in k .. end - 1, e \in k .. end - 1 :
        o < e /\ g = [from |-> o + 1, to |-> e, next |-> e + 1]
  BY DEF Group
<1>2. QED
  BY <1>1 DEF Within, Span

LEMMA SecondGroupIs ==
  ASSUME NEW text, NEW k \in Nat, NEW end \in Nat, NEW g \in SecondGroup(text, k, end)
  PROVE  Within(g, k, end)
<1>1. PICK f \in Group(text, k, end) : g \in Group(text, f.next, end)
  BY DEF SecondGroup
<1>2. Within(f, k, end)
  BY <1>1, GroupIs
<1>3. f.next \in Nat /\ k < f.next
  BY <1>2 DEF Within, Span
<1>4. Within(g, f.next, end)
  BY <1>1, <1>3, GroupIs
<1>5. QED
  BY <1>3, <1>4 DEF Within, Span

LEMMA PlainIs ==
  ASSUME NEW text, NEW k \in Nat, NEW end \in Nat, k < end, NEW g \in Plain(text, k, end)
  PROVE  Within(g, k, end)
<1> DEFINE E == {e \in k + 2 .. end - 1 : text[e] \in Boundaries} \cup {end}
           stop == Min(E)
<1>1. E \in SUBSET Nat /\ E # {} /\ \A e \in E : k + 1 <= e /\ e <= end
  OBVIOUS
<1>2. stop \in E
  <2>1. \E e \in E : \A x \in E : e <= x
    BY <1>1, LeastNat
  <2> HIDE DEF E
  <2>2. QED
    BY <2>1 DEF Min
<1>3. g = [from |-> k + 1, to |-> stop, next |-> stop] /\ stop # k + 1
  BY DEF Plain
<1> HIDE DEF E, stop
<1>4. stop \in Nat /\ k + 1 <= stop /\ stop <= end
  BY <1>1, <1>2
<1>5. QED
  BY <1>3, <1>4 DEF Within, Span

\* A body is behind the macro of its bullet.
LEMMA BodySpanIs ==
  ASSUME NEW text, NEW k \in Nat, NEW end \in Nat, k < end, NEW g \in BodySpan(text, k, end)
  PROVE  Within(g, k, end)
<1>1. \/ g \in Group(text, k, end) \/ g \in SecondGroup(text, k, end)
      \/ g \in Plain(text, k, end)
  BY DEF BodySpan, ItemBody
<1>2. QED
  BY <1>1, GroupIs, SecondGroupIs, PlainIs

\* What is found between from and end stands there, one bullet behind the other.
LEMMA BulletsAre ==
  ASSUME NEW text, NEW from \in Nat, NEW end \in Nat, 1 <= from, from <= end
  PROVE  Bullets(text, from, end) \in Seq(Span) /\ InRow(Bullets(text, from, end), from - 1, end)
<1> DEFINE lo == from - 1
           hi == end - 1
           bodies == [k \in from .. end - 1 |->
                        IF IsBullet(text, k) THEN BodySpan(text, k, end) ELSE {}]
           Step(k, done) ==
             IF bodies[k] = {} \/ \E n \in DOMAIN done : k < done[n].next THEN done
             ELSE Append(done, CHOOSE b \in bodies[k] : TRUE)
           step == [k \in from .. hi |-> [done \in Seq(Span) |-> Step(k, done)]]
           IsFound(f) ==
             f = [k \in from - 1 .. end - 1 |->
                    IF k = from - 1 THEN <<>>
                    ELSE LET done == f[k - 1]
                         IN IF bodies[k] = {} \/ \E n \in DOMAIN done : k < done[n].next THEN done
                            ELSE Append(done, CHOOSE b \in bodies[k] : TRUE)]
<1>0. lo \in Nat /\ hi \in Nat /\ lo <= hi /\ \A k \in lo .. hi : k # lo => k \in from .. hi
  OBVIOUS
<1>1. \A k \in from .. hi : bodies[k] # {} => Within(CHOOSE b \in bodies[k] : TRUE, k, end)
  <2>1. ASSUME NEW k \in from .. hi, bodies[k] # {}
        PROVE  Within(CHOOSE b \in bodies[k] : TRUE, k, end)
    <3>1. bodies[k] = BodySpan(text, k, end)
      BY <2>1
    <3>2. k \in Nat /\ k < end
      OBVIOUS
    <3> HIDE DEF bodies
    <3>3. PICK found \in bodies[k] : TRUE
      BY <2>1
    <3>4. (CHOOSE b \in bodies[k] : TRUE) \in bodies[k]
      BY <3>3
    <3>5. QED
      BY <3>1, <3>2, <3>4, BodySpanIs
  <2>2. QED
    BY <2>1
<1> HIDE DEF bodies
<1>2. step \in [from .. hi -> [Seq(Span) -> Seq(Span)]]
  <2>1. ASSUME NEW k \in from .. hi, NEW done \in Seq(Span)
        PROVE  Step(k, done) \in Seq(Span)
    <3>1. bodies[k] # {} => (CHOOSE b \in bodies[k] : TRUE) \in Span
      BY <1>1 DEF Within
    <3>2. QED
      BY <3>1
  <2> HIDE DEF Step, hi
  <2>2. QED
    BY <2>1
<1>3. PICK g \in [lo .. hi -> Seq(Span)] : Recurs(g, lo, hi, <<>>, step)
  <2>1. <<>> \in Seq(Span)
    OBVIOUS
  <2> HIDE DEF step, hi, lo
  <2>2. QED
    BY <1>0, <1>2, <2>1, Recursion
<1>4. IsFound(g)
  <2>1. ASSUME NEW k \in lo .. hi, k # lo
        PROVE  step[k][g[k - 1]] = Step(k, g[k - 1])
    <3>1. k \in from .. hi /\ g[k - 1] \in Seq(Span)
      BY <2>1
    <3> HIDE DEF Step
    <3>2. QED
      BY <3>1
  <2>2. g = [k \in lo .. hi |-> g[k]]
    OBVIOUS
  <2>3. \A k \in lo .. hi : g[k] = IF k = lo THEN <<>> ELSE Step(k, g[k - 1])
    <3> HIDE DEF Step, step, lo, hi
    <3>1. QED
      BY <1>3, <2>1 DEF Recurs
  <2>4. QED
    BY <2>2, <2>3
<1>5. PICK f : IsFound(f) /\ Bullets(text, from, end) = f[hi]
  BY <1>4 DEF Bullets, InTurn, bodies
<1> DEFINE Found(s) == /\ s \in Seq(Span) /\ InRow(s, lo, end)
                       /\ \A n \in 1 .. Len(s) : s[n].to <= s[n].next
           Good == {k \in lo .. hi : Found(f[k])}
<1>6. lo \in Good
  <2>1. f[lo] = <<>> /\ lo \in lo .. hi
    BY <1>0, <1>5
  <2>2. Found(<<>>)
    BY DEF InRow
  <2> HIDE DEF Found
  <2>3. QED
    BY <2>1, <2>2
<1>7. ASSUME NEW k \in lo .. hi, k \in Good, k # hi
      PROVE  k + 1 \in Good
  <2> DEFINE done == f[k]
  <2>1. k + 1 \in lo .. hi /\ k + 1 # lo /\ (k + 1) - 1 = k /\ k + 1 \in from .. hi
    <3> HIDE DEF lo, hi
    <3>1. k + 1 \in lo .. hi /\ k + 1 # lo /\ (k + 1) - 1 = k
      BY <1>0, <1>7
    <3>2. QED
      BY <1>0, <3>1
  <2>2. f[k + 1] = Step(k + 1, done)
    BY <1>5, <2>1
  <2>3. Found(done)
    BY <1>7
  <2> HIDE DEF done
  <2>4. CASE bodies[k + 1] = {} \/ \E n \in DOMAIN done : k + 1 < done[n].next
    <3>1. f[k + 1] = done
      BY <2>2, <2>4
    <3> HIDE DEF Found
    <3>2. QED
      BY <2>1, <2>3, <3>1
  <2>5. CASE ~(bodies[k + 1] = {} \/ \E n \in DOMAIN done : k + 1 < done[n].next)
    <3> DEFINE b == CHOOSE b \in bodies[k + 1] : TRUE
               s == Append(done, b)
    <3>1. Within(b, k + 1, end) /\ f[k + 1] = s
      BY <1>1, <2>1, <2>2, <2>5
    <3> HIDE DEF b
    <3>2. b \in Span /\ b.from \in Nat /\ b.to \in Nat /\ b.next \in Nat /\ k + 1 < b.from
          /\ b.from <= b.to /\ b.to <= b.next /\ b.next <= end
      BY <3>1 DEF Within, Span
    <3>3. \A n \in 1 .. Len(done) : /\ done[n].to \in Nat /\ done[n].next \in Nat
                                    /\ done[n].next <= k + 1 /\ done[n].to <= done[n].next
      <4>1. \A n \in 1 .. Len(done) : done[n] \in Span /\ ~(k + 1 < done[n].next)
        BY <2>3, <2>5
      <4>2. \A n \in 1 .. Len(done) : done[n].to \in Nat /\ done[n].next \in Nat
        BY <4>1 DEF Span
      <4>3. QED
        BY <2>1, <2>3, <4>1, <4>2
    <3>4. \A n \in 1 .. Len(done) : done[n].to < b.from
      <4>1. k + 1 \in Nat
        OBVIOUS
      <4> HIDE DEF s, lo, hi
      <4>2. QED
        BY <3>2, <3>3, <4>1
    <3>5. /\ s \in Seq(Span) /\ Len(s) = Len(done) + 1 /\ s[Len(done) + 1] = b
          /\ Len(done) \in Nat /\ \A n \in 1 .. Len(done) : s[n] = done[n]
      BY <2>3, <3>2
    <3> HIDE DEF s, lo, hi
    <3>6. \A n \in 1 .. Len(s) : n \in 1 .. Len(done) \/ n = Len(done) + 1
      BY <3>5
    <3>7. lo < b.from /\ b.to <= end
      BY <1>0, <2>1, <3>2
    <3>8. \A n \in 1 .. Len(s) : /\ lo < s[n].from /\ s[n].from <= s[n].to /\ s[n].to <= end
                                 /\ s[n].to <= s[n].next
      BY <2>3, <3>2, <3>5, <3>6, <3>7 DEF InRow
    <3>9. ASSUME NEW i \in 1 .. Len(s), NEW j \in 1 .. Len(s), i < j
          PROVE  s[i].to < s[j].from
      <4>1. i \in 1 .. Len(done)
        BY <3>5, <3>9
      <4>2. CASE j \in 1 .. Len(done)
        BY <2>3, <3>5, <3>9, <4>1, <4>2 DEF InRow
      <4>3. CASE j = Len(done) + 1
        BY <3>4, <3>5, <4>1, <4>3
      <4>4. QED
        BY <3>6, <4>2, <4>3
    <3>10. Found(s)
      BY <3>5, <3>8, <3>9 DEF InRow
    <3> HIDE DEF Found
    <3>11. QED
      BY <2>1, <3>1, <3>10
  <2>6. QED
    BY <2>4, <2>5
<1>8. \A k \in lo .. hi : k \in Good
  <2> HIDE DEF Good, lo, hi
  <2>1. QED
    BY <1>0, <1>6, <1>7, InductUpTo
<1>9. Found(f[hi])
  <2>1. hi \in lo .. hi
    BY <1>0
  <2> HIDE DEF Found, lo, hi
  <2>2. QED
    BY <1>8, <2>1
<1>10. QED
  BY <1>5, <1>9

\* The places in I, in order.
LEMMA InOrderIs ==
  ASSUME NEW text \in Seq(Tokens), NEW I
  PROVE  /\ InOrder(text, I) \in Seq(Nat)
         /\ \A k \in 1 .. Len(InOrder(text, I)) :
              InOrder(text, I)[k] \in I /\ InOrder(text, I)[k] \in 1 .. Len(text)
         /\ \A j, k \in 1 .. Len(InOrder(text, I)) :
              j < k => InOrder(text, I)[j] < InOrder(text, I)[k]
<1> DEFINE places == [k \in DOMAIN text |-> k]
           kept == Kept(places, I)
<1>1. places \in Seq(Nat) /\ Len(places) = Len(text) /\ Len(text) \in Nat
      /\ \A k \in 1 .. Len(text) : places[k] = k
  OBVIOUS
<1> HIDE DEF places
<1>2. kept \in Seq(Nat) /\ \E at : Selects(kept, at, places, Len(places), I)
  BY <1>1, KeptIs
<1>3. PICK at : Selects(kept, at, places, Len(places), I)
  BY <1>2
<1> HIDE DEF kept
<1>4. \A k \in 1 .. Len(kept) : at[k] \in (1 .. Len(text)) \cap I /\ kept[k] = at[k]
  BY <1>1, <1>3 DEF Selects
<1>5. \A j, k \in 1 .. Len(kept) : j < k => at[j] < at[k]
  BY <1>3 DEF Selects
<1>6. InOrder(text, I) = kept
  BY DEF InOrder, kept, places
<1>7. QED
  BY <1>2, <1>4, <1>5, <1>6

\* The bullets of a section stand in it, one behind the other.
LEMMA EntryBulletsAre ==
  ASSUME NEW text \in Seq(Tokens), NEW s, s.from \in Nat, s.end \in Nat,
         1 <= s.from, s.from <= s.end
  PROVE  /\ EntryBullets(text, s) \in Seq(Bullet)
         /\ InRow(EntryBullets(text, s), s.from - 1, s.end)
<1> DEFINE headers == HeaderLines(text, s)
           N == Len(headers)
           lo == s.from - 1
           end(n) == IF n = Len(headers) THEN s.end ELSE headers[n + 1]
           entry(n) ==
             LET spans == Bullets(text, headers[n] + 1, end(n))
             IN [b \in DOMAIN spans |-> [id |-> BulletId(text, s, headers[n], n, b),
                                         from |-> spans[b].from, to |-> spans[b].to]]
           step == [n \in 1 .. N |-> [done \in Seq(Bullet) |-> done \o entry(n)]]
           IsUpTo(f) ==
             f = [n \in 0 .. Len(headers) |-> IF n = 0 THEN <<>> ELSE f[n - 1] \o entry(n)]
<1>0. /\ N \in Nat /\ lo \in Nat /\ s.end \in Nat /\ lo <= s.end
      /\ \A n \in 1 .. N : headers[n] \in Nat /\ lo < headers[n] /\ headers[n] < s.end
      /\ \A j, k \in 1 .. N : j < k => headers[j] < headers[k]
  <2>1. headers = InOrder(text, Headers(text, s))
    BY DEF HeaderLines
  <2>2. \A k \in Headers(text, s) : s.from <= k /\ k < s.end
    BY DEF Headers
  <2>3. /\ headers \in Seq(Nat)
        /\ \A k \in 1 .. Len(headers) : headers[k] \in Headers(text, s)
        /\ \A j, k \in 1 .. Len(headers) : j < k => headers[j] < headers[k]
    BY <2>1, InOrderIs
  <2> HIDE DEF headers
  <2>4. \A n \in 1 .. N : headers[n] \in Nat /\ s.from <= headers[n] /\ headers[n] < s.end
    BY <2>2, <2>3
  <2>5. QED
    BY <2>3, <2>4
<1> HIDE DEF headers
<1>1. /\ \A n \in 0 .. N : end(n) \in Nat /\ lo <= end(n) /\ end(n) <= s.end
      /\ \A n \in 0 .. N : n # N => n + 1 \in 1 .. N /\ end(n) = headers[n + 1]
      /\ end(N) = s.end
      /\ \A n \in 1 .. N : headers[n] + 1 <= end(n)
  <2>1. end(N) = s.end
    OBVIOUS
  <2>2. \A n \in 0 .. N : n # N => n + 1 \in 1 .. N /\ end(n) = headers[n + 1]
    BY <1>0
  <2> HIDE DEF end, N, lo
  <2>3. ASSUME NEW n \in 0 .. N
        PROVE  end(n) \in Nat /\ lo <= end(n) /\ end(n) <= s.end
    <3>1. CASE n = N
      BY <1>0, <2>1, <3>1
    <3>2. CASE n # N
      <4>1. n + 1 \in 1 .. N /\ end(n) = headers[n + 1]
        BY <2>2, <3>2
      <4>2. headers[n + 1] \in Nat /\ lo < headers[n + 1] /\ headers[n + 1] < s.end
        BY <1>0, <4>1
      <4>3. QED
        BY <1>0, <4>1, <4>2
    <3>3. QED
      BY <3>1, <3>2
  <2>4. ASSUME NEW n \in 1 .. N
        PROVE  headers[n] + 1 <= end(n)
    <3>1. CASE n = N
      BY <1>0, <2>1, <3>1
    <3>2. CASE n # N
      <4>1. n \in 0 .. N /\ n < n + 1
        BY <1>0
      <4>2. n + 1 \in 1 .. N /\ end(n) = headers[n + 1]
        BY <2>2, <3>2, <4>1
      <4>3. headers[n] < headers[n + 1] /\ headers[n] \in Nat /\ headers[n + 1] \in Nat
        BY <1>0, <4>1, <4>2
      <4>4. QED
        BY <4>2, <4>3
    <3>3. QED
      BY <3>1, <3>2
  <2>5. QED
    BY <2>1, <2>2, <2>3, <2>4
<1>2. ASSUME NEW n \in 1 .. N
      PROVE  entry(n) \in Seq(Bullet) /\ InRow(entry(n), headers[n], end(n))
  <2> DEFINE spans == Bullets(text, headers[n] + 1, end(n))
  <2>1. spans \in Seq(Span) /\ InRow(spans, headers[n], end(n))
    <3>1. /\ n \in 0 .. N /\ (headers[n] + 1) - 1 = headers[n]
          /\ headers[n] + 1 \in Nat /\ 1 <= headers[n] + 1
      BY <1>0
    <3> HIDE DEF end
    <3>2. spans \in Seq(Span) /\ InRow(spans, (headers[n] + 1) - 1, end(n))
      BY <1>1, <3>1, BulletsAre
    <3> HIDE DEF spans
    <3>3. QED
      BY <3>1, <3>2
  <2> DEFINE e == [b \in DOMAIN spans |-> [id |-> BulletId(text, s, headers[n], n, b),
                                           from |-> spans[b].from, to |-> spans[b].to]]
  <2>2. entry(n) = e
    OBVIOUS
  <2> HIDE DEF end, entry, spans
  <2>3. ASSUME NEW b \in 1 .. Len(spans)
        PROVE  /\ e[b] \in Bullet /\ e[b].from = spans[b].from /\ e[b].to = spans[b].to
    <3>0. spans[b] \in Span
      BY <2>1
    <3>1. spans[b].from \in Nat /\ spans[b].to \in Nat
      BY <3>0 DEF Span
    <3>2. BulletId(text, s, headers[n], n, b) \in Nat \X Nat \X Nat
      BY <2>1 DEF BulletId
    <3>3. e[b] = [id |-> BulletId(text, s, headers[n], n, b),
                  from |-> spans[b].from, to |-> spans[b].to]
      BY <2>1
    <3> HIDE DEF e
    <3>4. QED
      BY <3>1, <3>2, <3>3 DEF Bullet
  <2>4. e \in Seq(Bullet) /\ Len(e) = Len(spans)
    <3>1. DOMAIN e = 1 .. Len(spans) /\ Len(spans) \in Nat /\ e = [b \in 1 .. Len(spans) |-> e[b]]
      BY <2>1
    <3> HIDE DEF e
    <3>2. QED
      BY <2>3, <3>1
  <2> HIDE DEF e
  <2>5. InRow(e, headers[n], end(n))
    BY <2>1, <2>3, <2>4 DEF InRow
  <2>6. QED
    BY <2>2, <2>4, <2>5
<1> HIDE DEF entry, end
<1>3. step \in [1 .. N -> [Seq(Bullet) -> Seq(Bullet)]]
  <2>1. ASSUME NEW n \in 1 .. N, NEW done \in Seq(Bullet)
        PROVE  done \o entry(n) \in Seq(Bullet)
    BY <1>2
  <2> HIDE DEF N
  <2>2. QED
    BY <2>1
<1>4. PICK g \in [0 .. N -> Seq(Bullet)] : Recurs(g, 0, N, <<>>, step)
  <2>1. <<>> \in Seq(Bullet) /\ 0 \in Nat /\ 0 <= N
    BY <1>0
  <2>2. \A n \in 0 .. N : n # 0 => n \in 1 .. N
    BY <1>0
  <2> HIDE DEF step, N
  <2>3. QED
    BY <1>0, <1>3, <2>1, <2>2, Recursion
<1>5. IsUpTo(g)
  <2>1. ASSUME NEW n \in 0 .. N, n # 0
        PROVE  step[n][g[n - 1]] = g[n - 1] \o entry(n)
    <3>1. n \in 1 .. N /\ n - 1 \in 0 .. N
      BY <1>0, <2>1
    <3>2. g[n - 1] \in Seq(Bullet)
      BY <3>1
    <3> HIDE DEF N
    <3>3. QED
      BY <3>1, <3>2
  <2>2. g = [n \in 0 .. N |-> g[n]]
    OBVIOUS
  <2>3. \A n \in 0 .. N : g[n] = IF n = 0 THEN <<>> ELSE g[n - 1] \o entry(n)
    <3> HIDE DEF step
    <3>1. QED
      BY <1>4, <2>1 DEF Recurs
  <2>4. QED
    BY <2>2, <2>3
<1>6. PICK f : IsUpTo(f) /\ EntryBullets(text, s) = f[N]
  BY <1>5 DEF EntryBullets, entry, end, headers
<1> DEFINE Good == {n \in 0 .. N : f[n] \in Seq(Bullet) /\ InRow(f[n], lo, end(n))}
<1>7. 0 \in Good
  <2>1. f[0] = <<>> /\ 0 \in 0 .. N
    BY <1>0, <1>6
  <2>2. <<>> \in Seq(Bullet) /\ InRow(<<>>, lo, end(0))
    BY DEF InRow
  <2> HIDE DEF lo, N
  <2>3. QED
    BY <2>1, <2>2
<1> HIDE DEF lo, N
<1>8. ASSUME NEW n \in 0 .. N, n \in Good, n # N
      PROVE  n + 1 \in Good
  <2>1. n + 1 \in 1 .. N /\ n + 1 \in 0 .. N /\ n + 1 # 0 /\ (n + 1) - 1 = n
    BY <1>0, <1>8
  <2>2. f[n + 1] = f[n] \o entry(n + 1)
    BY <1>6, <2>1 DEF N
  <2>3. /\ entry(n + 1) \in Seq(Bullet) /\ InRow(entry(n + 1), end(n), end(n + 1))
        /\ end(n) \in Nat /\ end(n + 1) \in Nat /\ lo <= end(n) /\ end(n) <= end(n + 1)
    <3>1. end(n) = headers[n + 1] /\ headers[n + 1] + 1 <= end(n + 1) /\ headers[n + 1] \in Nat
          /\ end(n + 1) \in Nat /\ lo <= end(n)
      BY <1>0, <1>1, <1>8, <2>1
    <3>2. QED
      BY <1>2, <2>1, <3>1
  <2>4. f[n] \in Seq(Bullet) /\ InRow(f[n], lo, end(n))
    BY <1>8
  <2>5. f[n + 1] \in Seq(Bullet) /\ InRow(f[n + 1], lo, end(n + 1))
    <3> DEFINE a == f[n]
               b == entry(n + 1)
    <3> HIDE DEF a, b
    <3>1. a \in Seq(Bullet) /\ b \in Seq(Bullet)
          /\ InRow(a, lo, end(n)) /\ InRow(b, end(n), end(n + 1))
      BY <2>3, <2>4 DEF a, b
    <3>2. a \o b \in Seq(Bullet) /\ InRow(a \o b, lo, end(n + 1))
      BY <1>0, <2>3, <3>1, RowConcat
    <3>3. QED
      BY <2>2, <3>2 DEF a, b
  <2>6. QED
    BY <2>1, <2>5
<1>9. \A n \in 0 .. N : n \in Good
  <2>1. 0 \in Nat
    OBVIOUS
  <2> HIDE DEF Good
  <2>2. QED
    BY <1>0, <1>7, <1>8, <2>1, InductUpTo
<1>10. N \in Good
  <2>1. N \in 0 .. N
    BY <1>0
  <2> HIDE DEF Good
  <2>2. QED
    BY <1>9, <2>1
<1>11. QED
  BY <1>1, <1>6, <1>10 DEF lo

\* The bullets of a text stand in it, one behind the other.
LEMMA ManifestIs ==
  ASSUME NEW text \in Seq(Tokens)
  PROVE  Manifest(text) \in Seq(Bullet) /\ InRow(Manifest(text), 0, Len(text) + 1)
<1> DEFINE heads == InOrder(text, {k \in DOMAIN text : text[k] \in Headings})
           sections == Sections(text)
           N == Len(sections)
           end(n) == IF n = N THEN Len(text) + 1 ELSE heads[n + 1]
           Step(n, done) ==
             IF sections[n].tailorable THEN done \o EntryBullets(text, sections[n]) ELSE done
           step == [n \in 1 .. N |-> [done \in Seq(Bullet) |-> Step(n, done)]]
           IsUpTo(f) ==
             f = [n \in 0 .. Len(sections) |->
                    IF n = 0 THEN <<>>
                    ELSE IF sections[n].tailorable
                         THEN f[n - 1] \o EntryBullets(text, sections[n])
                    ELSE f[n - 1]]
<1>1. /\ heads \in Seq(Nat) /\ Len(heads) \in Nat
      /\ \A k \in 1 .. Len(heads) : heads[k] \in 1 .. Len(text)
      /\ \A j, k \in 1 .. Len(heads) : j < k => heads[j] < heads[k]
  <2> DEFINE I == {k \in DOMAIN text : text[k] \in Headings}
  <2> HIDE DEF I
  <2>1. /\ heads \in Seq(Nat)
        /\ \A k \in 1 .. Len(heads) : heads[k] \in 1 .. Len(text)
        /\ \A j, k \in 1 .. Len(heads) : j < k => heads[j] < heads[k]
    BY InOrderIs DEF I
  <2> HIDE DEF heads
  <2>2. QED
    BY <2>1
<1>2. /\ N = Len(heads)
      /\ \A n \in 1 .. Len(heads) :
           /\ sections[n].from = heads[n] + 1
           /\ sections[n].end = IF n = Len(heads) THEN Len(text) + 1 ELSE heads[n + 1]
  <2>1. sections = [n \in DOMAIN heads |->
                      [tailorable |-> text[heads[n]] = "S", from |-> heads[n] + 1,
                       end |-> IF n = Len(heads) THEN Len(text) + 1 ELSE heads[n + 1]]]
    BY DEF Sections
  <2>2. DOMAIN heads = 1 .. Len(heads)
    BY <1>1
  <2> HIDE DEF heads, sections
  <2>3. DOMAIN sections = 1 .. Len(heads) /\ Len(sections) = Len(heads)
    BY <1>1, <2>1, <2>2
  <2>4. ASSUME NEW n \in 1 .. Len(heads)
        PROVE  sections[n] = [tailorable |-> text[heads[n]] = "S", from |-> heads[n] + 1,
                              end |-> IF n = Len(heads) THEN Len(text) + 1 ELSE heads[n + 1]]
    BY <2>1, <2>2
  <2>5. ASSUME NEW n \in 1 .. Len(heads)
        PROVE  /\ sections[n].from = heads[n] + 1
               /\ sections[n].end = IF n = Len(heads) THEN Len(text) + 1 ELSE heads[n + 1]
    <3> DEFINE from == heads[n] + 1
               to == IF n = Len(heads) THEN Len(text) + 1 ELSE heads[n + 1]
    <3>1. sections[n] = [tailorable |-> text[heads[n]] = "S", from |-> from, end |-> to]
      BY <2>4
    <3> HIDE DEF from, to
    <3>2. sections[n].from = from /\ sections[n].end = to
      BY <3>1
    <3>3. QED
      BY <3>2 DEF from, to
  <2>6. QED
    BY <2>3, <2>5
<1> HIDE DEF heads, sections
<1>3. /\ N \in Nat /\ Len(text) + 1 \in Nat
      /\ \A n \in 0 .. N : n # N => n + 1 \in 1 .. N /\ end(n) = heads[n + 1]
      /\ end(N) = Len(text) + 1
      /\ \A n \in 1 .. N : n \in 0 .. N /\ sections[n].end = end(n)
  BY <1>1, <1>2
<1> HIDE DEF end, N
<1>4. ASSUME NEW n \in 0 .. N
      PROVE  end(n) \in Nat /\ end(n) <= Len(text) + 1
  <2>1. CASE n = N
    BY <1>3, <2>1
  <2>2. CASE n # N
    <3>1. n + 1 \in 1 .. Len(heads) /\ end(n) = heads[n + 1]
      BY <1>2, <1>3, <2>2
    <3>2. QED
      BY <1>1, <3>1
  <2>3. QED
    BY <2>1, <2>2
<1>5. ASSUME NEW n \in 1 .. N
      PROVE  heads[n] \in Nat /\ heads[n] + 1 <= end(n)
  <2>1. n \in 1 .. Len(heads) /\ heads[n] \in 1 .. Len(text)
    BY <1>1, <1>2
  <2>2. CASE n = N
    BY <1>3, <2>1, <2>2
  <2>3. CASE n # N
    <3>1. n < n + 1 /\ n + 1 \in 1 .. Len(heads) /\ end(n) = heads[n + 1]
      BY <1>2, <1>3, <2>3
    <3>2. heads[n] < heads[n + 1] /\ heads[n + 1] \in 1 .. Len(text)
      BY <1>1, <2>1, <3>1
    <3>3. QED
      BY <2>1, <3>1, <3>2
  <2>4. QED
    BY <2>2, <2>3
<1>6. ASSUME NEW n \in 1 .. N
      PROVE  /\ EntryBullets(text, sections[n]) \in Seq(Bullet)
             /\ InRow(EntryBullets(text, sections[n]), heads[n], end(n))
  <2> DEFINE s == sections[n]
  <2>1. s.from = heads[n] + 1 /\ s.end = end(n) /\ end(n) \in Nat
    BY <1>2, <1>3, <1>4
  <2> HIDE DEF s
  <2>2. s.from \in Nat /\ s.end \in Nat /\ 1 <= s.from /\ s.from <= s.end
        /\ s.from - 1 = heads[n]
    BY <1>5, <2>1
  <2>3. EntryBullets(text, s) \in Seq(Bullet) /\ InRow(EntryBullets(text, s), s.from - 1, s.end)
    BY <2>2, EntryBulletsAre
  <2>4. QED
    BY <2>1, <2>2, <2>3 DEF s
<1>7. step \in [1 .. N -> [Seq(Bullet) -> Seq(Bullet)]]
  <2>1. ASSUME NEW n \in 1 .. N, NEW done \in Seq(Bullet)
        PROVE  Step(n, done) \in Seq(Bullet)
    BY <1>6
  <2> HIDE DEF Step
  <2>2. QED
    BY <2>1
<1>8. PICK g \in [0 .. N -> Seq(Bullet)] : Recurs(g, 0, N, <<>>, step)
  <2>1. <<>> \in Seq(Bullet) /\ 0 \in Nat /\ 0 <= N
    BY <1>3
  <2>2. \A n \in 0 .. N : n # 0 => n \in 1 .. N
    BY <1>3
  <2> HIDE DEF step
  <2>3. QED
    BY <1>3, <1>7, <2>1, <2>2, Recursion
<1>9. IsUpTo(g)
  <2>1. ASSUME NEW n \in 0 .. N, n # 0
        PROVE  step[n][g[n - 1]] = Step(n, g[n - 1])
    <3>1. n \in 1 .. N /\ n - 1 \in 0 .. N
      BY <1>3, <2>1
    <3>2. g[n - 1] \in Seq(Bullet)
      BY <3>1
    <3> HIDE DEF Step
    <3>3. QED
      BY <3>1, <3>2
  <2>2. g = [n \in 0 .. N |-> g[n]]
    OBVIOUS
  <2>3. \A n \in 0 .. N : g[n] = IF n = 0 THEN <<>> ELSE Step(n, g[n - 1])
    <3> HIDE DEF step, Step
    <3>1. QED
      BY <1>8, <2>1 DEF Recurs
  <2>4. QED
    BY <2>2, <2>3 DEF N
<1>10. PICK f : IsUpTo(f) /\ Manifest(text) = f[N]
  BY <1>9 DEF Manifest, sections, N
<1> DEFINE Good == {n \in 0 .. N : f[n] \in Seq(Bullet) /\ InRow(f[n], 0, end(n))}
<1>11. 0 \in Good
  <2>1. f[0] = <<>> /\ 0 \in 0 .. N
    BY <1>3, <1>10 DEF N
  <2>2. <<>> \in Seq(Bullet) /\ InRow(<<>>, 0, end(0))
    BY DEF InRow
  <2>3. QED
    BY <2>1, <2>2
<1>12. ASSUME NEW n \in 0 .. N, n \in Good, n # N
       PROVE  n + 1 \in Good
  <2> DEFINE a == f[n]
             b == EntryBullets(text, sections[n + 1])
  <2>1. n + 1 \in 1 .. N /\ n + 1 \in 0 .. N /\ n + 1 # 0 /\ (n + 1) - 1 = n
    BY <1>3, <1>12
  <2>2. f[n + 1] = IF sections[n + 1].tailorable THEN a \o b ELSE a
    <3>1. f[n + 1] = IF sections[n + 1].tailorable THEN f[n] \o EntryBullets(text, sections[n + 1])
                     ELSE f[n]
      <4>1. \A m \in 0 .. N : m # 0 =>
              f[m] = IF sections[m].tailorable THEN f[m - 1] \o EntryBullets(text, sections[m])
                     ELSE f[m - 1]
        BY <1>10 DEF N
      <4>2. QED
        BY <2>1, <4>1
    <3>2. QED
      BY <3>1
  <2>3. /\ end(n) = heads[n + 1] /\ end(n) \in Nat /\ end(n + 1) \in Nat
        /\ heads[n + 1] + 1 <= end(n + 1) /\ 0 <= end(n)
    <3> DEFINE m == n + 1
    <3>1. m \in 1 .. N /\ m \in 0 .. N /\ end(n) = heads[m]
      BY <1>3, <1>12, <2>1
    <3> HIDE DEF m
    <3>2. heads[m] + 1 <= end(m)
      BY <1>5, <3>1
    <3>3. end(n) \in Nat /\ end(m) \in Nat
      BY <1>4, <3>1
    <3>4. QED
      BY <3>1, <3>2, <3>3 DEF m
  <2>4. b \in Seq(Bullet) /\ InRow(b, end(n), end(n + 1)) /\ end(n) <= end(n + 1)
    BY <1>6, <2>1, <2>3
  <2>5. a \in Seq(Bullet) /\ InRow(a, 0, end(n))
    BY <1>12
  <2> HIDE DEF a, b
  <2>6. <<>> \in Seq(Bullet) /\ InRow(<<>>, end(n), end(n + 1)) /\ a \o <<>> = a
    BY <2>5 DEF InRow
  <2>7. /\ a \o b \in Seq(Bullet) /\ InRow(a \o b, 0, end(n + 1))
        /\ a \o <<>> \in Seq(Bullet) /\ InRow(a \o <<>>, 0, end(n + 1))
    BY <2>3, <2>4, <2>5, <2>6, RowConcat
  <2>8. f[n + 1] \in Seq(Bullet) /\ InRow(f[n + 1], 0, end(n + 1))
    BY <2>2, <2>6, <2>7
  <2>9. QED
    BY <2>1, <2>8
<1>13. \A n \in 0 .. N : n \in Good
  <2>1. 0 \in Nat
    OBVIOUS
  <2> HIDE DEF Good
  <2>2. QED
    BY <1>3, <1>11, <1>12, <2>1, InductUpTo
<1>14. N \in Good
  <2>1. N \in 0 .. N
    BY <1>3
  <2> HIDE DEF Good
  <2>2. QED
    BY <1>13, <2>1
<1>15. QED
  BY <1>3, <1>10, <1>14

-----------------------------------------------------------------------------
(* Texts with other bodies for their bullets. *)

Weaves(text, spans, bodies) ==
  /\ text \in Seq(Tokens)
  /\ spans \in Seq(Bullet) /\ InRow(spans, 0, Len(text) + 1)
  /\ \A b \in 1 .. Len(spans) : bodies[b] \in Seq(Tokens)

\* Where bullet b starts, or the text ends.
Start(text, spans, b) == IF b > Len(spans) THEN Len(text) + 1 ELSE spans[b].from

\* What stands between bullet b and the next one.
Gap(text, spans, b) == SubSeq(text, spans[b].to, Start(text, spans, b + 1) - 1)

LEMMA StartIs ==
  ASSUME NEW text \in Seq(Tokens), NEW spans \in Seq(Bullet), InRow(spans, 0, Len(text) + 1)
  PROVE  /\ \A b \in 0 .. Len(spans) :
              /\ Start(text, spans, b + 1) \in Nat
              /\ 1 <= Start(text, spans, b + 1) /\ Start(text, spans, b + 1) <= Len(text) + 1
         /\ \A b \in 1 .. Len(spans) :
              /\ spans[b].from \in Nat /\ spans[b].to \in Nat
              /\ Start(text, spans, b) = spans[b].from
              /\ 1 <= spans[b].from /\ spans[b].from <= spans[b].to
              /\ spans[b].to <= Start(text, spans, b + 1)
<1>0. Len(text) \in Nat /\ Len(spans) \in Nat
  OBVIOUS
<1>1. ASSUME NEW b \in 1 .. Len(spans)
      PROVE  /\ spans[b].from \in Nat /\ spans[b].to \in Nat
             /\ 0 < spans[b].from /\ spans[b].from <= spans[b].to
             /\ spans[b].to <= Len(text) + 1
             /\ Start(text, spans, b) = spans[b].from
  <2>1. spans[b] \in Bullet
    OBVIOUS
  <2>2. spans[b].from \in Nat /\ spans[b].to \in Nat
    BY <2>1 DEF Bullet
  <2>3. ~(b > Len(spans))
    BY <1>0
  <2>4. QED
    BY <2>2, <2>3 DEF InRow, Start
<1>2. \A b \in 0 .. Len(spans) : b # Len(spans) => b + 1 \in 1 .. Len(spans)
  OBVIOUS
<1>3. Start(text, spans, Len(spans) + 1) = Len(text) + 1
  BY <1>0 DEF Start
<1>4. ASSUME NEW b \in 0 .. Len(spans)
      PROVE  /\ Start(text, spans, b + 1) \in Nat
             /\ 1 <= Start(text, spans, b + 1) /\ Start(text, spans, b + 1) <= Len(text) + 1
  <2>1. CASE b = Len(spans)
    BY <1>0, <1>3, <2>1
  <2>2. CASE b # Len(spans)
    <3>1. b + 1 \in 1 .. Len(spans)
      BY <1>2, <2>2
    <3>2. QED
      BY <1>0, <1>1, <3>1
  <2>3. QED
    BY <2>1, <2>2
<1>5. ASSUME NEW b \in 1 .. Len(spans)
      PROVE  spans[b].to <= Start(text, spans, b + 1)
  <2>1. CASE b = Len(spans)
    BY <1>1, <1>3, <2>1
  <2>2. CASE b # Len(spans)
    <3>1. b + 1 \in 1 .. Len(spans) /\ b < b + 1
      BY <1>0, <2>2
    <3>2. spans[b].to < spans[b + 1].from
      BY <3>1 DEF InRow
    <3>3. spans[b].to \in Nat /\ spans[b + 1].from \in Nat
          /\ Start(text, spans, b + 1) = spans[b + 1].from
      BY <1>1, <3>1
    <3>4. QED
      BY <3>2, <3>3
  <2>3. QED
    BY <2>1, <2>2
<1>6. \A b \in 1 .. Len(spans) : 1 <= spans[b].from
  BY <1>1
<1>7. QED
  BY <1>1, <1>4, <1>5, <1>6

\* A part of a text is a text.
LEMMA PartIs ==
  ASSUME NEW text \in Seq(Tokens), NEW m \in Nat, NEW n \in Nat,
         1 <= m, m <= n, n <= Len(text) + 1
  PROVE  SubSeq(text, m, n - 1) \in Seq(Tokens) /\ Len(SubSeq(text, m, n - 1)) = n - m
<1>1. m \in Int /\ n - 1 \in Int /\ \A k \in m .. n - 1 : text[k] \in Tokens
  OBVIOUS
<1>2. /\ SubSeq(text, m, n - 1) \in Seq(Tokens)
      /\ Len(SubSeq(text, m, n - 1)) = IF m <= n - 1 THEN (n - 1) - m + 1 ELSE 0
  BY <1>1, SubSeqProperties
<1>3. QED
  BY <1>2

LEMMA PartsJoin ==
  ASSUME NEW text \in Seq(Tokens), NEW l \in Nat, NEW m \in Nat, NEW n \in Nat,
         1 <= l, l <= m, m <= n, n <= Len(text) + 1
  PROVE  SubSeq(text, l, m - 1) \o SubSeq(text, m, n - 1) = SubSeq(text, l, n - 1)
<1>1. /\ l \in 1 .. Len(text) + 1 /\ m - 1 \in l - 1 .. Len(text)
      /\ n - 1 \in m - 1 .. Len(text) /\ (m - 1) + 1 = m
  OBVIOUS
<1>2. SubSeq(text, l, m - 1) \o SubSeq(text, (m - 1) + 1, n - 1) = SubSeq(text, l, n - 1)
  BY <1>1, ConcatAdjacentSubSeq
<1>3. QED
  BY <1>1, <1>2

\* A text of two parts has them.
LEMMA PartsAre ==
  ASSUME NEW s \in Seq(Tokens), NEW t \in Seq(Tokens)
  PROVE  /\ SubSeq(s \o t, 1, Len(s)) = s
         /\ SubSeq(s \o t, Len(s) + 1, Len(s \o t)) = t
<1> DEFINE c == s \o t
           front == SubSeq(c, 1, Len(s))
           back == SubSeq(c, Len(s) + 1, Len(c))
<1>1. /\ c \in Seq(Tokens) /\ Len(c) = Len(s) + Len(t) /\ Len(s) \in Nat /\ Len(t) \in Nat
      /\ \A k \in 1 .. Len(s) : c[k] = s[k]
      /\ \A k \in 1 .. Len(t) : c[k + Len(s)] = t[k]
  BY ConcatIs
<1> HIDE DEF c
<1>2. /\ front \in Seq(Tokens) /\ Len(front) = Len(s)
      /\ \A k \in 1 .. Len(s) : front[k] = c[k]
  <2>1. \A k \in 1 .. Len(s) : c[k] \in Tokens
    BY <1>1
  <2>2. /\ front \in Seq(Tokens)
        /\ Len(front) = IF 1 <= Len(s) THEN Len(s) - 1 + 1 ELSE 0
        /\ \A k \in 1 .. Len(s) - 1 + 1 : front[k] = c[1 + k - 1]
    BY <1>1, <2>1, SubSeqProperties
  <2> HIDE DEF front
  <2>3. QED
    BY <1>1, <2>2
<1>3. /\ back \in Seq(Tokens) /\ Len(back) = Len(t)
      /\ \A k \in 1 .. Len(t) : back[k] = c[k + Len(s)]
  <2> DEFINE m == Len(s) + 1
             n == Len(c)
  <2>1. m \in Int /\ n \in Int /\ \A k \in m .. n : c[k] \in Tokens
    BY <1>1
  <2>2. m \in Nat /\ n - m + 1 = Len(t)
    BY <1>1
  <2> HIDE DEF m, n
  <2>3. /\ SubSeq(c, m, n) \in Seq(Tokens)
        /\ Len(SubSeq(c, m, n)) = IF m <= n THEN n - m + 1 ELSE 0
        /\ \A k \in 1 .. n - m + 1 : SubSeq(c, m, n)[k] = c[m + k - 1]
    BY <2>1, SubSeqProperties
  <2>4. back = SubSeq(c, m, n)
    BY DEF m, n
  <2> HIDE DEF back
  <2>5. \A k \in 1 .. Len(t) : m + k - 1 = k + Len(s)
    BY <1>1 DEF m
  <2>6. Len(back) = Len(t)
    BY <1>1, <2>1, <2>2, <2>3, <2>4
  <2>7. QED
    BY <2>2, <2>3, <2>4, <2>5, <2>6
<1> HIDE DEF front, back
<1>4. front = s
  BY <1>1, <1>2
<1>5. back = t
  BY <1>1, <1>3
<1>6. QED
  BY <1>4, <1>5 DEF front, back, c

\* One sequence after the other, for the provers not to look into.
Glue(s, t) == s \o t

LEMMA GlueIs ==
  \A s, t, u \in Seq(Tokens) :
    Glue(s, t) \in Seq(Tokens) /\ Glue(Glue(s, t), u) = Glue(s, Glue(t, u))
<1> TAKE s, t, u \in Seq(Tokens)
<1> QED
  BY DEF Glue

\* A text is woven bullet by bullet.
LEMMA WovenIs ==
  ASSUME NEW text, NEW spans, NEW bodies, Weaves(text, spans, bodies)
  PROVE  /\ Woven(text, spans, bodies)[0] = SubSeq(text, 1, Start(text, spans, 1) - 1)
         /\ \A b \in 1 .. Len(spans) :
              /\ Gap(text, spans, b) \in Seq(Tokens)
              /\ Woven(text, spans, bodies)[b - 1] \in Seq(Tokens)
              /\ Woven(text, spans, bodies)[b] =
                   (Woven(text, spans, bodies)[b - 1] \o bodies[b]) \o Gap(text, spans, b)
         /\ \A b \in 0 .. Len(spans) : Woven(text, spans, bodies)[b] \in Seq(Tokens)
<1> DEFINE N == Len(spans)
           first == SubSeq(text, 1, Start(text, spans, 1) - 1)
           Step(b, w) == (w \o bodies[b]) \o Gap(text, spans, b)
           step == [b \in 1 .. N |-> [w \in Seq(Tokens) |-> Step(b, w)]]
           start(b) == IF b > Len(spans) THEN Len(text) + 1 ELSE spans[b].from
           IsWoven(f) ==
             f = [b \in 0 .. Len(spans) |->
                    IF b = 0 THEN SubSeq(text, 1, start(1) - 1)
                    ELSE f[b - 1] \o bodies[b] \o SubSeq(text, spans[b].to, start(b + 1) - 1)]
<1>0. /\ text \in Seq(Tokens) /\ spans \in Seq(Bullet) /\ InRow(spans, 0, Len(text) + 1)
      /\ \A b \in 1 .. N : bodies[b] \in Seq(Tokens)
  BY DEF Weaves
<1>1. N \in Nat
  BY <1>0
<1>2. first \in Seq(Tokens)
  <2>1. 0 \in 0 .. Len(spans) /\ 0 + 1 = 1 /\ 1 \in Nat /\ 1 <= 1
    BY <1>1
  <2>2. Start(text, spans, 1) \in Nat /\ 1 <= Start(text, spans, 1)
        /\ Start(text, spans, 1) <= Len(text) + 1
    BY <1>0, <2>1, StartIs
  <2>3. QED
    BY <1>0, <2>1, <2>2, PartIs
<1>3. \A b \in 1 .. N : Gap(text, spans, b) \in Seq(Tokens)
  <2>1. ASSUME NEW b \in 1 .. N
        PROVE  Gap(text, spans, b) \in Seq(Tokens)
    <3>1. b \in 0 .. Len(spans)
      OBVIOUS
    <3> DEFINE m == spans[b].to
               n == Start(text, spans, b + 1)
    <3>2. m \in Nat /\ n \in Nat /\ m <= n /\ n <= Len(text) + 1 /\ 1 <= m
      <4>1. n \in Nat /\ n <= Len(text) + 1
        BY <1>0, <3>1, StartIs
      <4>2. m \in Nat /\ m <= n /\ spans[b].from \in Nat /\ 1 <= spans[b].from /\ spans[b].from <= m
        BY <1>0, StartIs
      <4> HIDE DEF m, n
      <4>3. QED
        BY <4>1, <4>2
    <3>3. SubSeq(text, m, n - 1) \in Seq(Tokens)
      <4> HIDE DEF m, n
      <4>1. QED
        BY <1>0, <3>2, PartIs
    <3>4. QED
      BY <3>3 DEF Gap
  <2>2. QED
    BY <2>1
<1> HIDE DEF first
<1>4. \A b \in 1 .. N : \A w \in Seq(Tokens) : Step(b, w) \in Seq(Tokens)
  BY <1>0, <1>3
<1>5. step \in [1 .. N -> [Seq(Tokens) -> Seq(Tokens)]]
  <2> HIDE DEF Step, N
  <2>1. QED
    BY <1>4
<1>6. PICK g \in [0 .. N -> Seq(Tokens)] : Recurs(g, 0, N, first, step)
  <2>1. 0 \in Nat /\ 0 <= N /\ \A b \in 0 .. N : b # 0 => b \in 1 .. N
    BY <1>1
  <2> HIDE DEF step, N
  <2>2. QED
    BY <1>1, <1>2, <1>5, <2>1, Recursion
<1>7. IsWoven(g)
  <2>1. ASSUME NEW b \in 0 .. N, b # 0
        PROVE  step[b][g[b - 1]] = Step(b, g[b - 1])
    <3>1. b \in 1 .. N /\ b - 1 \in 0 .. N
      BY <1>1, <2>1
    <3>2. g[b - 1] \in Seq(Tokens)
      BY <3>1
    <3> HIDE DEF Step, N
    <3>3. QED
      BY <3>1, <3>2
  <2>2. g = [b \in 0 .. N |-> g[b]]
    OBVIOUS
  <2>3. \A b \in 0 .. N : g[b] = IF b = 0 THEN first ELSE Step(b, g[b - 1])
    <3> HIDE DEF step, Step, N
    <3>1. QED
      BY <1>6, <2>1 DEF Recurs
  <2>4. QED
    BY <2>2, <2>3 DEF first, Start, Gap
<1> DEFINE f == Woven(text, spans, bodies)
<1>8. IsWoven(f)
  BY <1>7 DEF Woven
<1>9. f[0] = first /\ \A b \in 1 .. N : f[b] = (f[b - 1] \o bodies[b]) \o Gap(text, spans, b)
  <2>1. f[0] = SubSeq(text, 1, start(1) - 1)
    <3> HIDE DEF f, start
    <3>1. 0 \in 0 .. N
      BY <1>1
    <3>2. QED
      BY <1>8, <3>1
  <2>2. ASSUME NEW b \in 1 .. N
        PROVE  f[b] = f[b - 1] \o bodies[b] \o SubSeq(text, spans[b].to, start(b + 1) - 1)
    <3> HIDE DEF f, start
    <3>1. b \in 0 .. N /\ b # 0
      OBVIOUS
    <3>2. QED
      BY <1>8, <3>1
  <2>3. QED
    BY <2>1, <2>2 DEF first, Start, Gap
<1> HIDE DEF f
<1> DEFINE Good == {b \in 0 .. N : f[b] \in Seq(Tokens)}
<1>10. \A b \in 0 .. N : b \in Good
  <2>1. 0 \in Good
    BY <1>1, <1>2, <1>9
  <2>2. ASSUME NEW b \in 0 .. N, b \in Good, b # N
        PROVE  b + 1 \in Good
    <3>1. b + 1 \in 1 .. N /\ b + 1 \in 0 .. N /\ (b + 1) - 1 = b
      BY <1>1, <2>2
    <3>2. f[b + 1] = Step(b + 1, f[b]) /\ f[b] \in Seq(Tokens)
      BY <1>9, <2>2, <3>1
    <3> HIDE DEF Step
    <3>3. f[b + 1] \in Seq(Tokens)
      BY <1>4, <3>1, <3>2
    <3>4. QED
      BY <3>1, <3>3
  <2>3. 0 \in Nat
    OBVIOUS
  <2> HIDE DEF Good, N
  <2>4. QED
    BY <1>1, <2>1, <2>2, <2>3, InductUpTo
<1>11. \A b \in 1 .. N : b - 1 \in 0 .. N
  BY <1>1
<1>12. QED
  BY <1>3, <1>9, <1>10, <1>11 DEF f, first

\* With the bodies it had, a text is woven to itself.
LEMMA WovenOld ==
  ASSUME NEW text, NEW spans, NEW bodies, Weaves(text, spans, bodies), NEW n \in 0 .. Len(spans),
         \A b \in 1 .. n : bodies[b] = Body(text, spans[b])
  PROVE  Woven(text, spans, bodies)[n] = SubSeq(text, 1, Start(text, spans, n + 1) - 1)
<1> DEFINE w == Woven(text, spans, bodies)
           Good == {b \in 0 .. n : w[b] = SubSeq(text, 1, Start(text, spans, b + 1) - 1)}
<1>0. /\ text \in Seq(Tokens) /\ spans \in Seq(Bullet) /\ InRow(spans, 0, Len(text) + 1)
      /\ n \in Nat /\ n <= Len(spans) /\ Len(spans) \in Nat
  BY DEF Weaves
<1>1. 0 \in Good
  <2>1. 0 \in 0 .. n /\ 0 + 1 = 1
    BY <1>0
  <2>2. w[0] = SubSeq(text, 1, Start(text, spans, 1) - 1)
    BY WovenIs
  <2> HIDE DEF w
  <2>3. QED
    BY <2>1, <2>2
<1>2. ASSUME NEW b \in 0 .. n, b \in Good, b # n
      PROVE  b + 1 \in Good
  <2> DEFINE c == b + 1
             l == Start(text, spans, c)
             m == spans[c].to
             r == Start(text, spans, c + 1)
  <2>1. c \in 1 .. n /\ c \in 1 .. Len(spans) /\ c \in 0 .. Len(spans) /\ c \in 0 .. n /\ c - 1 = b
    BY <1>0, <1>2
  <2>2. w[c] = (w[b] \o bodies[c]) \o Gap(text, spans, c)
    BY <2>1, WovenIs
  <2>3. w[b] = SubSeq(text, 1, l - 1)
    BY <1>2
  <2>4. /\ l \in Nat /\ m \in Nat /\ r \in Nat /\ 1 \in Nat /\ 1 <= l /\ l <= m /\ m <= r
        /\ r <= Len(text) + 1 /\ l = spans[c].from
    <3> HIDE DEF c
    <3>1. QED
      BY <1>0, <2>1, StartIs
  <2>5. bodies[c] = SubSeq(text, l, m - 1)
    BY <2>1, <2>4 DEF Body
  <2>6. Gap(text, spans, c) = SubSeq(text, m, r - 1)
    BY DEF Gap
  <2> HIDE DEF c, l, m, r, w
  <2>7. 1 <= m
    BY <2>4
  <2>8. /\ SubSeq(text, 1, l - 1) \o SubSeq(text, l, m - 1) = SubSeq(text, 1, m - 1)
        /\ SubSeq(text, 1, m - 1) \o SubSeq(text, m, r - 1) = SubSeq(text, 1, r - 1)
    <3> DEFINE one == 1
    <3>1. /\ text \in Seq(Tokens) /\ one \in Nat /\ l \in Nat /\ m \in Nat /\ r \in Nat /\ 1 <= one
          /\ one <= l /\ one <= m /\ l <= m /\ m <= r /\ m <= Len(text) + 1 /\ r <= Len(text) + 1
      <4>1. Len(text) \in Nat
        BY <1>0
      <4>2. QED
        BY <1>0, <2>4, <4>1
    <3> HIDE DEF one
    <3>2. SubSeq(text, one, l - 1) \o SubSeq(text, l, m - 1) = SubSeq(text, one, m - 1)
      BY <3>1, PartsJoin
    <3>3. SubSeq(text, one, m - 1) \o SubSeq(text, m, r - 1) = SubSeq(text, one, r - 1)
      BY <3>1, PartsJoin
    <3>4. QED
      BY <3>2, <3>3 DEF one
  <2>9. w[c] = SubSeq(text, 1, r - 1)
    BY <2>2, <2>3, <2>5, <2>6, <2>8
  <2>10. c \in Good
    BY <2>1, <2>9 DEF r
  <2>11. QED
    BY <2>10 DEF c
<1>3. \A b \in 0 .. n : b \in Good
  <2>1. 0 \in Nat
    OBVIOUS
  <2> HIDE DEF Good
  <2>2. QED
    BY <1>0, <1>1, <1>2, <2>1, InductUpTo
<1>4. n \in Good
  <2>1. n \in 0 .. n
    BY <1>0
  <2> HIDE DEF Good
  <2>2. QED
    BY <1>3, <2>1
<1>5. QED
  BY <1>4

SameBehind(spans, old, new, n) == \A b \in 1 .. Len(spans) : b > n => new[b] = old[b]

SameTail(v, w, n, m) == \E tail \in Seq(Tokens) : v[m] = v[n] \o tail /\ w[m] = w[n] \o tail

\* What comes behind bullet n depends on the bodies behind it.
LEMMA WovenTail ==
  ASSUME NEW text, NEW spans, NEW old, NEW new, Weaves(text, spans, old),
         Weaves(text, spans, new), NEW n \in 0 .. Len(spans),
         SameBehind(spans, old, new, n)
  PROVE  SameTail(Woven(text, spans, old), Woven(text, spans, new), n, Len(spans))
<1> DEFINE N == Len(spans)
           v == Woven(text, spans, old)
           w == Woven(text, spans, new)
           Good == {b \in n .. N : \E tail \in Seq(Tokens) : v[b] = v[n] \o tail /\ w[b] = w[n] \o tail}
<1>0. n \in Nat /\ N \in Nat /\ n <= N /\ \A b \in 1 .. N : old[b] \in Seq(Tokens)
  BY DEF Weaves
<1>1. /\ \A b \in 1 .. N : /\ Gap(text, spans, b) \in Seq(Tokens)
                           /\ v[b] = (v[b - 1] \o old[b]) \o Gap(text, spans, b)
                           /\ w[b] = (w[b - 1] \o new[b]) \o Gap(text, spans, b)
      /\ v[n] \in Seq(Tokens) /\ w[n] \in Seq(Tokens)
  BY WovenIs
<1> HIDE DEF v, w, N
<1>2. n \in Good
  <2>1. n \in n .. N /\ <<>> \in Seq(Tokens)
    BY <1>0
  <2>2. v[n] = v[n] \o <<>> /\ w[n] = w[n] \o <<>>
    BY <1>1, ConcatEmptySeq
  <2>3. QED
    BY <2>1, <2>2
<1>3. ASSUME NEW b \in n .. N, b \in Good, b # N
      PROVE  b + 1 \in Good
  <2> DEFINE c == b + 1
  <2>1. c \in n .. N /\ c \in 1 .. N /\ c > n /\ c - 1 = b
    BY <1>0, <1>3
  <2>2. PICK tail \in Seq(Tokens) : v[b] = v[n] \o tail /\ w[b] = w[n] \o tail
    BY <1>3
  <2> DEFINE more == (tail \o old[c]) \o Gap(text, spans, c)
  <2>3. new[c] = old[c] /\ old[c] \in Seq(Tokens) /\ Gap(text, spans, c) \in Seq(Tokens)
    BY <1>0, <1>1, <2>1 DEF N, SameBehind
  <2>4. v[c] = (v[b] \o old[c]) \o Gap(text, spans, c) /\ w[c] = (w[b] \o old[c]) \o Gap(text, spans, c)
    BY <1>1, <2>1, <2>3
  <2> DEFINE o == old[c]
             gap == Gap(text, spans, c)
  <2> HIDE DEF c
  <2>5. ASSUME NEW s \in Seq(Tokens)
        PROVE  ((s \o tail) \o o) \o gap = s \o ((tail \o o) \o gap)
    <3>1. o \in Seq(Tokens) /\ gap \in Seq(Tokens) /\ tail \in Seq(Tokens)
      BY <2>3
    <3> HIDE DEF o, gap
    <3>2. Glue(Glue(Glue(s, tail), o), gap) = Glue(s, Glue(Glue(tail, o), gap))
      BY <3>1, GlueIs
    <3>3. QED
      BY <3>2 DEF Glue
  <2>6. v[c] = v[n] \o more /\ w[c] = w[n] \o more
    BY <1>1, <2>2, <2>4, <2>5
  <2>7. more \in Seq(Tokens)
    BY <2>3
  <2> HIDE DEF more
  <2>8. c \in Good
    BY <2>1, <2>6, <2>7
  <2>9. QED
    BY <2>8 DEF c
<1>4. \A b \in n .. N : b \in Good
  <2> HIDE DEF Good
  <2>1. QED
    BY <1>0, <1>2, <1>3, InductUpTo
<1>5. N \in Good
  <2>1. N \in n .. N
    BY <1>0
  <2> HIDE DEF Good
  <2>2. QED
    BY <1>4, <2>1
<1>6. QED
  BY <1>5 DEF v, w, N, SameTail


LEMMA SanitizedIs ==
  ASSUME NEW text \in Seq(Tokens)
  PROVE  Sanitized(text) \in Seq(Tokens)
<1> DEFINE dollars == Cardinality({k \in DOMAIN text : text[k] = "$"})
           safe(t) == IF t = "&" THEN "\\&" ELSE IF t = "$" /\ dollars % 2 = 1 THEN "\\$" ELSE t
<1>1. Sanitized(text) = [k \in 1 .. Len(text) |-> safe(text[k])]
  BY DEF Sanitized
<1>2. \A t \in Tokens : safe(t) \in Tokens
  BY DEF Tokens
<1>3. Len(text) \in Nat /\ \A k \in 1 .. Len(text) : text[k] \in Tokens
  OBVIOUS
<1> HIDE DEF safe
<1>4. \A k \in 1 .. Len(text) : safe(text[k]) \in Tokens
  BY <1>2, <1>3
<1>5. QED
  BY <1>1, <1>3, <1>4

\* patch rewrites bullet b, and no bullet up to it has been rewritten.
OneMore(text, spans, old, new, b, patch) ==
  /\ Weaves(text, spans, old) /\ Weaves(text, spans, new)
  /\ \A c \in 1 .. b : old[c] = Body(text, spans[c])
  /\ \A c \in 1 .. Len(spans) : c # b => new[c] = old[c]
  /\ patch.span = spans[b] /\ new[b] = Sanitized(patch.text)

LEMMA SpliceWoven ==
  ASSUME NEW text, NEW spans, NEW old, NEW new, NEW b \in 1 .. Len(spans), NEW patch,
         OneMore(text, spans, old, new, b, patch)
  PROVE  Splice(Woven(text, spans, old)[Len(spans)], patch) = Woven(text, spans, new)[Len(spans)]
<1> DEFINE N == Len(spans)
           v == Woven(text, spans, old)
           w == Woven(text, spans, new)
           from == spans[b].from
           to == spans[b].to
           front == SubSeq(text, 1, from - 1)
           body == Body(text, spans[b])
           rewrite == new[b]
           gap == Gap(text, spans, b)
<1> USE DEF OneMore
<1>0. /\ text \in Seq(Tokens) /\ spans \in Seq(Bullet) /\ InRow(spans, 0, Len(text) + 1)
      /\ N \in Nat /\ Len(text) \in Nat
  BY DEF Weaves
<1>1. /\ from \in Nat /\ to \in Nat /\ 1 <= from /\ from <= to /\ to <= Len(text) + 1
      /\ from <= Len(text) + 1
      /\ Start(text, spans, b) = from
  <2>1. /\ from \in Nat /\ to \in Nat /\ Start(text, spans, b) = from /\ 1 <= from /\ from <= to
        /\ to <= Start(text, spans, b + 1)
    BY <1>0, StartIs
  <2>2. Start(text, spans, b + 1) \in Nat /\ Start(text, spans, b + 1) <= Len(text) + 1
    BY <1>0, StartIs
  <2> HIDE DEF from, to
  <2>3. QED
    BY <1>0, <2>1, <2>2
<1>2. b - 1 \in 0 .. N /\ b \in 0 .. N /\ (b - 1) + 1 = b
  BY <1>0
<1>3. v[b - 1] = front /\ w[b - 1] = front
  <2>1. \A c \in 1 .. b - 1 : c \in 1 .. b /\ c \in 1 .. N /\ c # b
    BY <1>0
  <2>2. /\ \A c \in 1 .. b - 1 : old[c] = Body(text, spans[c])
        /\ \A c \in 1 .. b - 1 : new[c] = Body(text, spans[c])
    BY <2>1
  <2> DEFINE a == b - 1
  <2>3. a \in 0 .. N /\ a + 1 = b
    BY <1>2
  <2> HIDE DEF a, v, w, from
  <2>4. /\ v[a] = SubSeq(text, 1, Start(text, spans, a + 1) - 1)
        /\ w[a] = SubSeq(text, 1, Start(text, spans, a + 1) - 1)
    BY <2>2, <2>3, WovenOld DEF a, v, w
  <2>5. QED
    BY <1>1, <2>3, <2>4 DEF a
<1>4. /\ gap \in Seq(Tokens)
      /\ v[b] = (front \o body) \o gap /\ w[b] = (front \o rewrite) \o gap
  <2>1. b \in 1 .. b
    BY <1>0
  <2>2. old[b] = body
    BY <2>1
  <2>3. /\ gap \in Seq(Tokens)
        /\ v[b] = (v[b - 1] \o old[b]) \o gap /\ w[b] = (w[b - 1] \o new[b]) \o gap
    BY WovenIs
  <2> HIDE DEF v, w, front, body, gap
  <2>4. QED
    BY <1>3, <2>2, <2>3
<1>5. PICK tail \in Seq(Tokens) : v[N] = v[b] \o tail /\ w[N] = w[b] \o tail
  <2>1. SameBehind(spans, old, new, b)
    BY <1>0 DEF SameBehind
  <2>2. SameTail(Woven(text, spans, old), Woven(text, spans, new), b, Len(spans))
    <3>1. b \in 0 .. Len(spans)
      BY <1>2
    <3> HIDE DEF N, v, w, from, to
    <3>2. QED
      BY <2>1, <3>1, WovenTail
  <2>3. QED
    BY <2>2 DEF SameTail
<1>6. /\ front \in Seq(Tokens) /\ Len(front) = from - 1
      /\ body \in Seq(Tokens) /\ rewrite \in Seq(Tokens)
      /\ front \o body = SubSeq(text, 1, to - 1) /\ Len(front \o body) = to - 1
  <2> DEFINE one == 1
  <2>1. one \in Nat /\ one = 1 /\ one <= from /\ one <= to
    BY <1>1
  <2>2. body = SubSeq(text, from, to - 1)
    BY DEF Body
  <2>3. rewrite \in Seq(Tokens)
    BY DEF Weaves
  <2> HIDE DEF one, from, to, body, rewrite
  <2>4. SubSeq(text, one, from - 1) \in Seq(Tokens) /\ Len(SubSeq(text, one, from - 1)) = from - one
    BY <1>0, <1>1, <2>1, PartIs
  <2>5. SubSeq(text, one, to - 1) \in Seq(Tokens) /\ Len(SubSeq(text, one, to - 1)) = to - one
    BY <1>0, <1>1, <2>1, PartIs
  <2>6. SubSeq(text, from, to - 1) \in Seq(Tokens)
    BY <1>0, <1>1, PartIs
  <2>7. SubSeq(text, one, from - 1) \o SubSeq(text, from, to - 1) = SubSeq(text, one, to - 1)
    BY <1>0, <1>1, <2>1, PartsJoin
  <2>8. QED
    BY <2>1, <2>2, <2>3, <2>4, <2>5, <2>6, <2>7
<1> HIDE DEF front, body, rewrite, gap, v, w, from, to
<1> DEFINE rest == gap \o tail
<1>7. rest \in Seq(Tokens) /\ front \o body \in Seq(Tokens) /\ body \o rest \in Seq(Tokens)
  <2>1. rest \in Seq(Tokens)
    BY <1>4, ConcatIs
  <2> HIDE DEF rest
  <2>2. QED
    BY <1>6, <2>1, ConcatIs
<1>8. v[N] = front \o (body \o rest) /\ v[N] = (front \o body) \o rest
      /\ w[N] = (front \o rewrite) \o rest
  <2>1. /\ Glue(Glue(Glue(front, body), gap), tail) = Glue(Glue(front, body), Glue(gap, tail))
        /\ Glue(Glue(front, body), Glue(gap, tail)) = Glue(front, Glue(body, Glue(gap, tail)))
        /\ Glue(Glue(Glue(front, rewrite), gap), tail) = Glue(Glue(front, rewrite), Glue(gap, tail))
    <3>1. Glue(front, body) \in Seq(Tokens) /\ Glue(front, rewrite) \in Seq(Tokens)
          /\ Glue(gap, tail) \in Seq(Tokens)
      BY <1>4, <1>6, GlueIs
    <3>2. QED
      BY <1>4, <1>6, <3>1, GlueIs
  <2>2. QED
    BY <1>4, <1>5, <2>1 DEF Glue
<1> HIDE DEF rest
<1>9. SubSeq(v[N], 1, from - 1) = front
  <2>1. SubSeq(front \o (body \o rest), 1, Len(front)) = front
    BY <1>6, <1>7, PartsAre
  <2>2. QED
    BY <1>6, <1>8, <2>1
<1>10. SubSeq(v[N], to, Len(v[N])) = rest
  <2> DEFINE s == front \o body
  <2>1. (to - 1) + 1 = to
    BY <1>1
  <2>2. s \in Seq(Tokens) /\ Len(s) = to - 1 /\ v[N] = s \o rest
    BY <1>6, <1>7, <1>8
  <2> HIDE DEF s
  <2>3. SubSeq(s \o rest, Len(s) + 1, Len(s \o rest)) = rest
    BY <1>7, <2>2, PartsAre
  <2>4. QED
    BY <2>1, <2>2, <2>3
<1>11. Splice(v[N], patch) =
         SubSeq(v[N], 1, from - 1) \o Sanitized(patch.text) \o SubSeq(v[N], to, Len(v[N]))
  BY DEF Splice, from, to
<1>12. Splice(v[N], patch) = (front \o rewrite) \o rest
  BY <1>9, <1>10, <1>11 DEF rewrite
<1>13. QED
  BY <1>8, <1>12 DEF v, w, N

-----------------------------------------------------------------------------
(* What a list of patches makes of a text. *)

Patch == [span : Bullet, text : Seq(Tokens)]
Answer == [bullet : Nat, text : Seq(Tokens)]

LEMMA IndexedIs ==
  ASSUME NEW spans \in Seq(Bullet), NEW b \in 1 .. Len(spans)
  PROVE  Indexed(spans, b) \in 1 .. Len(spans)
<1> DEFINE N == Len(spans)
           S == {c \in 1 .. N : spans[c].id = spans[b].id}
           T == {N - c : c \in S}
<1>1. N \in Nat /\ b \in S /\ S \subseteq 1 .. N /\ DOMAIN spans = 1 .. N
  OBVIOUS
<1> HIDE DEF S
<1>2. T \in SUBSET Nat /\ T # {}
  BY <1>1
<1>3. PICK t \in T : \A u \in T : t <= u
  <2> HIDE DEF T
  <2>1. QED
    BY <1>2, LeastNat
<1>4. PICK m \in S : t = N - m
  BY <1>3
<1>5. \A c \in S : m >= c
  <2>1. ASSUME NEW c \in S
        PROVE  m >= c
    <3>1. N - c \in T
      OBVIOUS
    <3>2. N - m <= N - c
      BY <1>3, <1>4, <3>1
    <3>3. QED
      BY <1>1, <3>2
  <2>2. QED
    BY <2>1
<1>6. Max(S) \in S
  BY <1>5 DEF Max
<1>7. Indexed(spans, b) = Max(S)
  BY <1>1 DEF Indexed, S
<1>8. QED
  BY <1>1, <1>6, <1>7

\* The patches are the rewrites of a known bullet, in the order they came:
\* patch k is rewrite of[k].
Resolves(patches, of, spans, out) ==
  /\ of \in [1 .. Len(patches) -> 1 .. Len(out)]
  /\ \A j, k \in 1 .. Len(patches) : j < k => of[j] < of[k]
  /\ \A k \in 1 .. Len(patches) : \E c \in 1 .. Len(spans) :
       /\ of[k] \in Rewrites(spans, out, c)
       /\ patches[k].span = spans[c] /\ patches[k].text = out[of[k]].text
  /\ \A c \in 1 .. Len(spans) : \A m \in Rewrites(spans, out, c) :
       \E k \in 1 .. Len(patches) : of[k] = m

LEMMA PatchesAre ==
  ASSUME NEW spans \in Seq(Bullet), NEW out \in Seq(Answer)
  PROVE  /\ Patches(spans, out) \in Seq(Patch)
         /\ \E of : Resolves(Patches(spans, out), of, spans, out)
<1> DEFINE I == {k \in DOMAIN out : out[k].bullet \in DOMAIN spans}
           known == Kept(out, I)
           P == Patches(spans, out)
           c(k) == Indexed(spans, known[k].bullet)
<1>0. DOMAIN spans = 1 .. Len(spans) /\ DOMAIN out = 1 .. Len(out) /\ Len(out) \in Nat
  OBVIOUS
<1>1. known \in Seq(Answer) /\ \E at : Selects(known, at, out, Len(out), I)
  <2> HIDE DEF I
  <2>1. QED
    BY KeptIs
<1>2. PICK at : Selects(known, at, out, Len(out), I)
  BY <1>1
<1>3. P = [k \in DOMAIN known |-> [span |-> spans[c(k)], text |-> known[k].text]]
  BY DEF Patches
<1>4. I = {k \in 1 .. Len(out) : out[k].bullet \in 1 .. Len(spans)}
  BY <1>0
<1> HIDE DEF known, P, I
<1>5. DOMAIN known = 1 .. Len(known) /\ Len(known) \in Nat
  BY <1>1
<1>6. ASSUME NEW k \in 1 .. Len(known)
      PROVE  /\ at[k] \in 1 .. Len(out) /\ known[k] = out[at[k]] /\ known[k] \in Answer
             /\ known[k].bullet \in 1 .. Len(spans)
             /\ c(k) \in 1 .. Len(spans)
             /\ at[k] \in Rewrites(spans, out, c(k))
  <2>1. at[k] \in 1 .. Len(out) /\ at[k] \in I /\ known[k] = out[at[k]]
    BY <1>2 DEF Selects
  <2>2. known[k] \in Answer
    BY <1>1
  <2>3. known[k].bullet \in 1 .. Len(spans)
    BY <1>4, <2>1
  <2>4. c(k) \in 1 .. Len(spans)
    BY <2>3, IndexedIs
  <2>5. at[k] \in Rewrites(spans, out, c(k))
    BY <1>0, <2>1, <2>3 DEF Rewrites
  <2>6. QED
    BY <2>1, <2>2, <2>3, <2>4, <2>5
<1>7. ASSUME NEW k \in 1 .. Len(known)
      PROVE  P[k] \in Patch /\ P[k].span = spans[c(k)] /\ P[k].text = known[k].text
  <2> DEFINE span == spans[c(k)]
             text == known[k].text
  <2>1. P[k] = [span |-> span, text |-> text]
    BY <1>3, <1>5
  <2>2. span \in Bullet
    <3>1. \A d \in 1 .. Len(spans) : spans[d] \in Bullet
      OBVIOUS
    <3>2. QED
      BY <1>6, <3>1
  <2>3. text \in Seq(Tokens)
    BY <1>6 DEF Answer
  <2> HIDE DEF span, text
  <2>4. P[k] \in Patch /\ P[k].span = span /\ P[k].text = text
    BY <2>1, <2>2, <2>3 DEF Patch
  <2>5. QED
    BY <2>4 DEF span, text
<1>8. P \in Seq(Patch) /\ Len(P) = Len(known)
  <2>1. P = [k \in 1 .. Len(known) |-> P[k]]
    BY <1>3, <1>5
  <2>2. QED
    BY <1>5, <1>7, <2>1
<1> HIDE DEF c
<1>9. Resolves(P, at, spans, out)
  <2>1. at \in [1 .. Len(P) -> 1 .. Len(out)]
    BY <1>2, <1>8 DEF Selects
  <2>2. \A j, k \in 1 .. Len(P) : j < k => at[j] < at[k]
    BY <1>2, <1>8 DEF Selects
  <2>3. ASSUME NEW k \in 1 .. Len(P)
        PROVE  \E d \in 1 .. Len(spans) :
                 /\ at[k] \in Rewrites(spans, out, d)
                 /\ P[k].span = spans[d] /\ P[k].text = out[at[k]].text
    <3>1. /\ c(k) \in 1 .. Len(spans) /\ at[k] \in Rewrites(spans, out, c(k))
          /\ P[k].span = spans[c(k)] /\ P[k].text = known[k].text /\ known[k] = out[at[k]]
      BY <1>6, <1>7, <1>8
    <3>2. QED
      BY <3>1
  <2>4. ASSUME NEW d \in 1 .. Len(spans), NEW m \in Rewrites(spans, out, d)
        PROVE  \E k \in 1 .. Len(P) : at[k] = m
    <3>1. m \in 1 .. Len(out) /\ m \in I
      BY <1>0, <1>4 DEF Rewrites
    <3>2. QED
      BY <1>2, <1>8, <3>1 DEF Selects
  <2>5. QED
    BY <2>1, <2>2, <2>3, <2>4 DEF Resolves
<1>10. QED
  BY <1>8, <1>9 DEF P

LEMMA SpliceIs ==
  ASSUME NEW text \in Seq(Tokens), NEW patch \in Patch, 1 <= patch.span.from,
         patch.span.from <= patch.span.to, patch.span.to <= Len(text) + 1
  PROVE  Splice(text, patch) \in Seq(Tokens) /\ patch.span.from <= Len(Splice(text, patch)) + 1
<1> DEFINE from == patch.span.from
           to == patch.span.to
           end == Len(text) + 1
           one == 1
           a == SubSeq(text, one, from - 1)
           b == Sanitized(patch.text)
           c == SubSeq(text, to, end - 1)
<1>1. /\ from \in Nat /\ to \in Nat /\ end \in Nat /\ one \in Nat /\ one <= one
      /\ patch.text \in Seq(Tokens) /\ one = 1 /\ end = Len(text) + 1 /\ end - 1 = Len(text)
  <2>1. patch.span \in Bullet /\ patch.text \in Seq(Tokens)
    BY DEF Patch
  <2>2. from \in Nat /\ to \in Nat
    BY <2>1 DEF Bullet
  <2>3. Len(text) \in Nat
    OBVIOUS
  <2>4. QED
    BY <2>1, <2>2, <2>3
<1>2. Splice(text, patch) = a \o b \o c
  BY <1>1 DEF Splice
<1>3. 1 <= from /\ from <= to /\ to <= Len(text) + 1
  OBVIOUS
<1> HIDE DEF from, to, end, one
<1>4. a \in Seq(Tokens) /\ Len(a) = from - one
  BY <1>1, <1>3, PartIs
<1>5. c \in Seq(Tokens)
  BY <1>1, <1>3, PartIs
<1>6. b \in Seq(Tokens)
  BY <1>1, SanitizedIs
<1> HIDE DEF a, b, c
<1>7. a \o b \in Seq(Tokens) /\ Len(a \o b) = Len(a) + Len(b)
  BY <1>4, <1>6, ConcatIs
<1> DEFINE d == a \o b
<1> HIDE DEF d
<1>8. d \o c \in Seq(Tokens) /\ Len(d \o c) = Len(d) + Len(c)
  BY <1>5, <1>7, ConcatIs DEF d
<1>9. Len(b) \in Nat /\ Len(c) \in Nat /\ Len(a) \in Nat
  BY <1>4, <1>5, <1>6
<1>10. Splice(text, patch) \in Seq(Tokens) /\ from <= Len(Splice(text, patch)) + 1
  BY <1>1, <1>2, <1>4, <1>7, <1>8, <1>9 DEF d
<1>11. QED
  BY <1>10 DEF from

\* Patches that lie within a text of n tokens, each in front of the ones before it.
FromTheBack(patches, n) ==
  /\ patches \in Seq(Patch)
  /\ \A k \in 1 .. Len(patches) :
       /\ 1 <= patches[k].span.from /\ patches[k].span.from <= patches[k].span.to
       /\ patches[k].span.to <= n + 1
  /\ \A j, k \in 1 .. Len(patches) : j < k => patches[k].span.to <= patches[j].span.from

\* A text that the patches behind the k-th one fit into.
Fits(text, patches, k) ==
  /\ text \in Seq(Tokens)
  /\ \A j \in 1 .. Len(patches) : j > k => patches[j].span.to <= Len(text) + 1

\* A patch leaves the text in front of it as long as it was.
LEMMA SplicesFit ==
  ASSUME NEW text \in Seq(Tokens), NEW patches, FromTheBack(patches, Len(text)),
         NEW f, f[0] = text,
         \A k \in 1 .. Len(patches) :
           Fits(f[k - 1], patches, k - 1) => f[k] = Splice(f[k - 1], patches[k])
  PROVE  \A k \in 0 .. Len(patches) : Fits(f[k], patches, k)
<1> DEFINE M == Len(patches)
           Good == {k \in 0 .. M : Fits(f[k], patches, k)}
<1>0. patches \in Seq(Patch) /\ M \in Nat
  BY DEF FromTheBack
<1>1. 0 \in Good
  BY <1>0 DEF FromTheBack, Fits
<1>2. ASSUME NEW k \in 0 .. M, k \in Good, k # M
      PROVE  k + 1 \in Good
  <2> DEFINE p == patches[k + 1]
             t == f[k]
             u == Splice(t, p)
  <2>1. k + 1 \in 1 .. M /\ k + 1 \in 0 .. M /\ (k + 1) - 1 = k /\ k + 1 > k
    BY <1>0, <1>2
  <2>2. p \in Patch /\ t \in Seq(Tokens)
    BY <1>0, <1>2, <2>1 DEF Fits
  <2>3. 1 <= p.span.from /\ p.span.from <= p.span.to /\ p.span.to <= Len(t) + 1
    BY <1>2, <2>1 DEF FromTheBack, Fits
  <2>4. f[k + 1] = u
    BY <1>2, <2>1
  <2>5. u \in Seq(Tokens) /\ p.span.from <= Len(u) + 1
    <3> HIDE DEF p, t
    <3>1. QED
      BY <2>2, <2>3, SpliceIs
  <2>6. ASSUME NEW j \in 1 .. M, j > k + 1
        PROVE  patches[j].span.to <= Len(u) + 1
    <3>1. patches[j].span.to <= p.span.from
      BY <2>1, <2>6 DEF FromTheBack
    <3>2. p.span.from \in Nat /\ patches[j].span.to \in Nat
      <4>1. patches[j] \in Patch
        BY <1>0
      <4>2. QED
        BY <2>2, <4>1 DEF Patch, Bullet
    <3>3. Len(u) \in Nat
      BY <2>5
    <3> HIDE DEF u, p
    <3>4. QED
      BY <2>5, <3>1, <3>2, <3>3
  <2> HIDE DEF u
  <2>7. Fits(f[k + 1], patches, k + 1)
    BY <2>4, <2>5, <2>6 DEF Fits
  <2>8. QED
    BY <2>1, <2>7
<1>3. \A k \in 0 .. M : k \in Good
  <2>1. 0 \in Nat
    OBVIOUS
  <2> HIDE DEF Good, M
  <2>2. QED
    BY <1>0, <1>1, <1>2, <2>1, InductUpTo
<1>4. QED
  BY <1>3

\* f goes from a text to what the patches make of it.
Splices(f, text, patches) ==
  /\ f[0] = text
  /\ \A k \in 0 .. Len(patches) : f[k] \in Seq(Tokens)
  /\ \A k \in 1 .. Len(patches) : f[k] = Splice(f[k - 1], patches[k])

LEMMA AppliedIs ==
  ASSUME NEW text \in Seq(Tokens), NEW patches, FromTheBack(InSpliceOrder(patches), Len(text))
  PROVE  \E f : /\ Splices(f, text, InSpliceOrder(patches))
                /\ ApplyPatches(text, patches) = f[Len(InSpliceOrder(patches))]
<1> DEFINE sorted == InSpliceOrder(patches)
           M == Len(sorted)
           IsSpliced(f) == f = [k \in 0 .. Len(sorted) |->
                                  IF k = 0 THEN text ELSE Splice(f[k - 1], sorted[k])]
           Step(k, t) == IF Splice(t, sorted[k]) \in Seq(Tokens) THEN Splice(t, sorted[k]) ELSE t
           step == [k \in 1 .. M |-> [t \in Seq(Tokens) |-> Step(k, t)]]
<1>0. sorted \in Seq(Patch) /\ M \in Nat /\ FromTheBack(sorted, Len(text))
  BY DEF FromTheBack
<1> HIDE DEF sorted
<1>1. step \in [1 .. M -> [Seq(Tokens) -> Seq(Tokens)]]
  <2>1. \A k \in 1 .. M, t \in Seq(Tokens) : Step(k, t) \in Seq(Tokens)
    OBVIOUS
  <2> HIDE DEF Step
  <2>2. QED
    BY <2>1
<1>2. PICK g \in [0 .. M -> Seq(Tokens)] : Recurs(g, 0, M, text, step)
  <2>1. 0 \in Nat /\ 0 <= M /\ \A k \in 0 .. M : k # 0 => k \in 1 .. M
    BY <1>0
  <2> HIDE DEF step, M
  <2>2. QED
    BY <1>0, <1>1, <2>1, Recursion
<1>3. g[0] = text /\ \A k \in 1 .. M : g[k] = Step(k, g[k - 1])
  <2>1. g[0] = text
    <3> HIDE DEF step
    <3>1. 0 \in 0 .. M
      BY <1>0
    <3>2. QED
      BY <1>2, <3>1 DEF Recurs
  <2>2. ASSUME NEW k \in 1 .. M
        PROVE  g[k] = Step(k, g[k - 1])
    <3>1. k \in 0 .. M /\ k # 0 /\ k - 1 \in 0 .. M
      BY <1>0
    <3>2. g[k] = step[k][g[k - 1]]
      <4> HIDE DEF step
      <4>1. QED
        BY <1>2, <3>1 DEF Recurs
    <3>3. g[k - 1] \in Seq(Tokens)
      BY <3>1
    <3> HIDE DEF Step
    <3>4. QED
      BY <3>2, <3>3
  <2>3. QED
    BY <2>1, <2>2
<1>4. ASSUME NEW k \in 1 .. M, Fits(g[k - 1], sorted, k - 1)
      PROVE  g[k] = Splice(g[k - 1], sorted[k])
  <2> DEFINE t == g[k - 1]
             p == sorted[k]
  <2>1. t \in Seq(Tokens) /\ p \in Patch /\ k > k - 1
    BY <1>0, <1>4 DEF Fits
  <2>2. 1 <= p.span.from /\ p.span.from <= p.span.to /\ p.span.to <= Len(t) + 1
    BY <1>0, <1>4, <2>1 DEF FromTheBack, Fits
  <2> HIDE DEF t, p
  <2>3. Splice(t, p) \in Seq(Tokens)
    BY <2>1, <2>2, SpliceIs
  <2>4. QED
    BY <1>3, <2>3 DEF t, p
<1>5. \A k \in 0 .. M : Fits(g[k], sorted, k)
  <2> HIDE DEF Step
  <2>1. QED
    BY <1>0, <1>3, <1>4, SplicesFit
<1>6. IsSpliced(g)
  <2>1. ASSUME NEW k \in 0 .. M
        PROVE  g[k] = IF k = 0 THEN text ELSE Splice(g[k - 1], sorted[k])
    <3>1. CASE k = 0
      BY <1>3, <3>1
    <3>2. CASE k # 0
      <4>1. k \in 1 .. M /\ k - 1 \in 0 .. M
        BY <1>0, <3>2
      <4>2. Fits(g[k - 1], sorted, k - 1)
        BY <1>5, <4>1
      <4>3. QED
        BY <1>4, <3>2, <4>1, <4>2
    <3>3. QED
      BY <3>1, <3>2
  <2>2. g = [k \in 0 .. M |-> g[k]]
    OBVIOUS
  <2>3. QED
    BY <2>1, <2>2
<1> DEFINE f == CHOOSE h : IsSpliced(h)
<1>7. IsSpliced(f) /\ ApplyPatches(text, patches) = f[M]
  BY <1>6 DEF ApplyPatches, sorted
<1> HIDE DEF f
<1>8. f[0] = text /\ \A k \in 1 .. M : f[k] = Splice(f[k - 1], sorted[k])
  <2>1. 0 \in 0 .. M
    BY <1>0
  <2>2. f[0] = text
    BY <1>7, <2>1
  <2>3. ASSUME NEW k \in 1 .. M
        PROVE  f[k] = Splice(f[k - 1], sorted[k])
    <3>1. k \in 0 .. M /\ k # 0
      OBVIOUS
    <3>2. QED
      BY <1>7, <3>1
  <2>4. QED
    BY <2>2, <2>3
<1>9. \A k \in 0 .. M : f[k] \in Seq(Tokens)
  <2>1. \A k \in 0 .. M : Fits(f[k], sorted, k)
    BY <1>0, <1>8, SplicesFit
  <2>2. QED
    BY <2>1 DEF Fits
<1>10. Splices(f, text, sorted)
  BY <1>8, <1>9 DEF Splices
<1>11. QED
  BY <1>7, <1>10 DEF sorted

-----------------------------------------------------------------------------
(* The rewrites of a model call. *)

Apart(p, q) == ~(p.span.from <= q.span.from /\ q.span.from < p.span.to)

\* Two bullets do not have one span.
LEMMA SpansDiffer ==
  ASSUME NEW spans \in Seq(Bullet), NEW n, InRow(spans, 0, n)
  PROVE  /\ \A c \in 1 .. Len(spans) :
              /\ spans[c].from \in Nat /\ spans[c].to \in Nat
              /\ 1 <= spans[c].from /\ spans[c].from <= spans[c].to /\ spans[c].to <= n
         /\ \A c, d \in 1 .. Len(spans) : spans[c] = spans[d] => c = d
         /\ \A c, d \in 1 .. Len(spans) :
              c # d /\ spans[d].from <= spans[c].from => d < c
<1>0. Len(spans) \in Nat
  OBVIOUS
<1>1. ASSUME NEW c \in 1 .. Len(spans)
      PROVE  /\ spans[c].from \in Nat /\ spans[c].to \in Nat
             /\ 1 <= spans[c].from /\ spans[c].from <= spans[c].to /\ spans[c].to <= n
  <2>1. spans[c] \in Bullet
    OBVIOUS
  <2>2. spans[c].from \in Nat /\ spans[c].to \in Nat
    BY <2>1 DEF Bullet
  <2>3. 0 < spans[c].from /\ spans[c].from <= spans[c].to /\ spans[c].to <= n
    BY DEF InRow
  <2>4. QED
    BY <2>2, <2>3
<1>2. ASSUME NEW c \in 1 .. Len(spans), NEW d \in 1 .. Len(spans), c < d
      PROVE  spans[c].from < spans[d].from
  <2>1. spans[c].to < spans[d].from
    BY <1>2 DEF InRow
  <2>2. QED
    BY <1>1, <2>1
<1>3. ASSUME NEW c \in 1 .. Len(spans), NEW d \in 1 .. Len(spans)
      PROVE  /\ spans[c] = spans[d] => c = d
             /\ c # d /\ spans[d].from <= spans[c].from => d < c
  <2>1. CASE c = d
    BY <2>1
  <2>2. CASE c < d
    <3>1. spans[c].from < spans[d].from /\ spans[c].from \in Nat /\ spans[d].from \in Nat
      BY <1>1, <1>2, <2>2
    <3>2. QED
      BY <3>1
  <2>3. CASE d < c
    <3>1. spans[d].from < spans[c].from /\ spans[c].from \in Nat /\ spans[d].from \in Nat
      BY <1>1, <1>2, <2>3
    <3>2. QED
      BY <2>3, <3>1
  <2>4. QED
    BY <2>1, <2>2, <2>3
<1>4. QED
  BY <1>1, <1>3

\* Two patches of one bullet overlap, unless they pile up.
LEMMA PatchesDiffer ==
  ASSUME NEW spans \in Seq(Bullet), NEW n, InRow(spans, 0, n), NEW out \in Seq(Answer),
         NEW patches, NEW of, Resolves(patches, of, spans, out), patches \in Seq(Patch),
         ~Overlap(patches)
  PROVE  /\ \A i, j \in 1 .. Len(patches) : i # j =>
              /\ Apart(patches[i], patches[j])
              /\ patches[i].span = patches[j].span => PilesUp(spans, out)
         /\ ~PilesUp(spans, out) =>
              \A c \in 1 .. Len(spans) : \A l, m \in Rewrites(spans, out, c) : l = m
<1>0. DOMAIN patches = 1 .. Len(patches) /\ DOMAIN spans = 1 .. Len(spans) /\ Len(patches) \in Nat
      /\ Len(out) \in Nat
  OBVIOUS
<1>1. \A i, j \in 1 .. Len(patches) : i # j => Apart(patches[i], patches[j])
  BY <1>0 DEF Overlap, Apart
<1>2. ASSUME NEW i \in 1 .. Len(patches), NEW j \in 1 .. Len(patches), i # j,
             patches[i].span = patches[j].span
      PROVE  PilesUp(spans, out)
  <2>1. PICK c \in 1 .. Len(spans) : of[i] \in Rewrites(spans, out, c) /\ patches[i].span = spans[c]
    BY DEF Resolves
  <2>2. PICK d \in 1 .. Len(spans) : of[j] \in Rewrites(spans, out, d) /\ patches[j].span = spans[d]
    BY DEF Resolves
  <2>3. c = d
    <3>1. spans[c] = spans[d]
      BY <1>2, <2>1, <2>2
    <3>2. QED
      BY <3>1, SpansDiffer
  <2>4. of[i] # of[j]
    <3>1. of[i] \in 1 .. Len(out) /\ of[j] \in 1 .. Len(out)
      BY DEF Resolves
    <3>2. i < j => of[i] < of[j]
      BY DEF Resolves
    <3>3. j < i => of[j] < of[i]
      BY DEF Resolves
    <3>4. i < j \/ j < i
      BY <1>0, <1>2
    <3>5. QED
      BY <3>1, <3>2, <3>3, <3>4
  <2>5. spans[c].from \in Nat /\ spans[c].to \in Nat /\ spans[c].from <= spans[c].to
    BY SpansDiffer
  <2>6. ~(spans[c].from <= spans[c].from /\ spans[c].from < spans[c].to)
    BY <1>1, <1>2, <2>1, <2>2, <2>3 DEF Apart
  <2>7. spans[c].from = spans[c].to
    BY <2>5, <2>6
  <2>8. QED
    BY <1>0, <2>1, <2>2, <2>3, <2>4, <2>7 DEF PilesUp
<1>3. ASSUME ~PilesUp(spans, out), NEW c \in 1 .. Len(spans),
             NEW l \in Rewrites(spans, out, c), NEW m \in Rewrites(spans, out, c), l # m
      PROVE  FALSE
  <2>1. PICK i \in 1 .. Len(patches), j \in 1 .. Len(patches) : of[i] = l /\ of[j] = m
    BY DEF Resolves
  <2>2. PICK a \in 1 .. Len(spans) : of[i] \in Rewrites(spans, out, a) /\ patches[i].span = spans[a]
    BY DEF Resolves
  <2>3. PICK b \in 1 .. Len(spans) : of[j] \in Rewrites(spans, out, b) /\ patches[j].span = spans[b]
    BY DEF Resolves
  <2>4. a = c /\ b = c
    BY <2>1, <2>2, <2>3 DEF Rewrites
  <2>5. i # j /\ patches[i].span = patches[j].span
    BY <1>3, <2>1, <2>2, <2>3, <2>4
  <2>6. QED
    BY <1>2, <1>3, <2>5
<1>4. QED
  BY <1>1, <1>2, <1>3

\* at has the bullet of each patch, and bodies what the patches make of the bullets.
Places(patches, at, text, spans, bodies) ==
  /\ at \in [1 .. Len(patches) -> 1 .. Len(spans)]
  /\ \A k \in 1 .. Len(patches) :
       patches[k].span = spans[at[k]] /\ bodies[at[k]] = Sanitized(patches[k].text)
  /\ \A j, k \in 1 .. Len(patches) : j < k => at[k] < at[j]
  /\ \A c \in 1 .. Len(spans) :
       (\E k \in 1 .. Len(patches) : at[k] = c) \/ bodies[c] = Body(text, spans[c])

LEMMA SortedIs ==
  ASSUME NEW text \in Seq(Tokens), NEW spans \in Seq(Bullet), InRow(spans, 0, Len(text) + 1),
         NEW out \in Seq(Answer), ~Overlap(Patches(spans, out))
  PROVE  /\ FromTheBack(InSpliceOrder(Patches(spans, out)), Len(text))
         /\ ~PilesUp(spans, out) =>
              \E at : Places(InSpliceOrder(Patches(spans, out)), at, text, spans,
                             Bodies(text, spans, out))
<1> DEFINE P == Patches(spans, out)
           s == InSpliceOrder(P)
           bodies == Bodies(text, spans, out)
           R == {q \in Patch \X Patch : /\ Apart(q[1], q[2])
                                        /\ q[1].span = q[2].span => PilesUp(spans, out)}
<1>1. P \in Seq(Patch) /\ \E of : Resolves(P, of, spans, out)
  BY PatchesAre
<1>2. PICK of : Resolves(P, of, spans, out)
  BY <1>1
<1> HIDE DEF P
<1>3. /\ \A i, j \in 1 .. Len(P) : i # j =>
           /\ Apart(P[i], P[j])
           /\ P[i].span = P[j].span => PilesUp(spans, out)
      /\ ~PilesUp(spans, out) =>
           \A c \in 1 .. Len(spans) : \A l, m \in Rewrites(spans, out, c) : l = m
  BY <1>1, <1>2, PatchesDiffer DEF P
<1>4. \A p \in Patch : p.span \in Bullet /\ p.span.from \in Nat /\ p.span.to \in Nat
  BY DEF Patch, Bullet
<1>5. \A i, j \in 1 .. Len(P) : i # j => <<P[i], P[j]>> \in R
  <2>1. \A i \in 1 .. Len(P) : P[i] \in Patch
    BY <1>1
  <2>2. QED
    BY <1>3, <2>1
<1>6. /\ s \in Seq(Patch)
      /\ \A k \in 1 .. Len(s) : \E m \in 1 .. Len(P) : s[k] = P[m]
      /\ \A m \in 1 .. Len(P) : \E k \in 1 .. Len(s) : s[k] = P[m]
      /\ \A i, j \in 1 .. Len(s) : i < j =>
           s[j].span.from <= s[i].span.from /\ <<s[i], s[j]>> \in R /\ <<s[j], s[i]>> \in R
  <2> HIDE DEF R
  <2>1. QED
    BY <1>1, <1>4, <1>5, SpliceOrder
<1> HIDE DEF s
<1>7. \A k \in 1 .. Len(s) : s[k] \in Patch
  BY <1>6
<1>8. ASSUME NEW k \in 1 .. Len(s)
      PROVE  \E c \in 1 .. Len(spans) : \E m \in Rewrites(spans, out, c) :
               s[k].span = spans[c] /\ s[k].text = out[m].text
  <2>1. PICK i \in 1 .. Len(P) : s[k] = P[i]
    BY <1>6
  <2>2. PICK c \in 1 .. Len(spans) :
          /\ of[i] \in Rewrites(spans, out, c)
          /\ P[i].span = spans[c] /\ P[i].text = out[of[i]].text
    BY <1>2 DEF Resolves
  <2>3. QED
    BY <2>1, <2>2
<1>9. FromTheBack(s, Len(text))
  <2>1. ASSUME NEW k \in 1 .. Len(s)
        PROVE  1 <= s[k].span.from /\ s[k].span.from <= s[k].span.to /\ s[k].span.to <= Len(text) + 1
    <3>1. PICK c \in 1 .. Len(spans) : s[k].span = spans[c]
      BY <1>8
    <3>2. QED
      BY <3>1, SpansDiffer
  <2>2. ASSUME NEW j \in 1 .. Len(s), NEW k \in 1 .. Len(s), j < k
        PROVE  s[k].span.to <= s[j].span.from
    <3>1. s[k].span.from <= s[j].span.from
      BY <1>6, <2>2
    <3>2. <<s[k], s[j]>> \in R
      BY <1>6, <2>2
    <3>3. ~(s[k].span.from <= s[j].span.from /\ s[j].span.from < s[k].span.to)
      BY <3>2 DEF Apart
    <3>4. s[k].span.to \in Nat /\ s[j].span.from \in Nat
      BY <1>4, <1>7
    <3>5. QED
      BY <3>1, <3>3, <3>4
  <2>3. QED
    BY <1>6, <2>1, <2>2 DEF FromTheBack
<1>10. ASSUME ~PilesUp(spans, out)
       PROVE  \E at : Places(s, at, text, spans, bodies)
  <2>1. ASSUME NEW c \in 1 .. Len(spans), NEW m \in Rewrites(spans, out, c)
        PROVE  bodies[c] = Sanitized(out[m].text)
    <3>1. DOMAIN spans = 1 .. Len(spans)
      OBVIOUS
    <3>2. bodies[c] = IF Rewrites(spans, out, c) = {} THEN Body(text, spans[c])
                      ELSE Sanitized(out[CHOOSE k \in Rewrites(spans, out, c) : TRUE].text)
      BY <3>1 DEF Bodies
    <3>3. (CHOOSE k \in Rewrites(spans, out, c) : TRUE) = m
      BY <1>3, <1>10
    <3>4. QED
      BY <3>2, <3>3
  <2>2. ASSUME NEW c \in 1 .. Len(spans), Rewrites(spans, out, c) = {}
        PROVE  bodies[c] = Body(text, spans[c])
    <3>1. DOMAIN spans = 1 .. Len(spans)
      OBVIOUS
    <3>2. QED
      BY <2>2, <3>1 DEF Bodies
  <2> HIDE DEF bodies
  <2> DEFINE at == [k \in 1 .. Len(s) |-> CHOOSE c \in 1 .. Len(spans) : s[k].span = spans[c]]
  <2>3. ASSUME NEW k \in 1 .. Len(s)
        PROVE  at[k] \in 1 .. Len(spans) /\ s[k].span = spans[at[k]]
    <3>1. \E c \in 1 .. Len(spans) : s[k].span = spans[c]
      BY <1>8
    <3>2. at[k] = CHOOSE c \in 1 .. Len(spans) : s[k].span = spans[c]
      OBVIOUS
    <3> HIDE DEF at
    <3>3. QED
      BY <3>1, <3>2
  <2>4. at \in [1 .. Len(s) -> 1 .. Len(spans)]
    BY <2>3
  <2> HIDE DEF at
  <2>5. ASSUME NEW k \in 1 .. Len(s)
        PROVE  bodies[at[k]] = Sanitized(s[k].text)
    <3>0. PICK c \in 1 .. Len(spans) : \E m \in Rewrites(spans, out, c) :
            s[k].span = spans[c] /\ s[k].text = out[m].text
      BY <1>8
    <3>1. PICK m \in Rewrites(spans, out, c) : s[k].span = spans[c] /\ s[k].text = out[m].text
      BY <3>0
    <3>2. at[k] = c
      BY <2>3, <3>1, SpansDiffer
    <3>3. QED
      BY <2>1, <3>1, <3>2
  <2>6. ASSUME NEW j \in 1 .. Len(s), NEW k \in 1 .. Len(s), j < k
        PROVE  at[k] < at[j]
    <3>1. s[k].span.from <= s[j].span.from /\ <<s[k], s[j]>> \in R
      BY <1>6, <2>6
    <3>2. s[k].span # s[j].span
      BY <1>10, <3>1
    <3>3. at[k] # at[j] /\ spans[at[k]].from <= spans[at[j]].from
      BY <2>3, <3>1, <3>2
    <3>4. QED
      BY <2>3, <3>3, SpansDiffer
  <2>7. ASSUME NEW c \in 1 .. Len(spans)
        PROVE  (\E k \in 1 .. Len(s) : at[k] = c) \/ bodies[c] = Body(text, spans[c])
    <3>1. CASE Rewrites(spans, out, c) = {}
      BY <2>2, <3>1
    <3>2. ASSUME NEW m \in Rewrites(spans, out, c)
          PROVE  \E k \in 1 .. Len(s) : at[k] = c
      <4>1. PICK i \in 1 .. Len(P) : of[i] = m
        BY <1>2 DEF Resolves
      <4>2. PICK d \in 1 .. Len(spans) : of[i] \in Rewrites(spans, out, d) /\ P[i].span = spans[d]
        BY <1>2 DEF Resolves
      <4>3. d = c
        BY <4>1, <4>2 DEF Rewrites
      <4>4. PICK k \in 1 .. Len(s) : s[k] = P[i]
        BY <1>6
      <4>5. at[k] = c
        BY <2>3, <4>2, <4>3, <4>4, SpansDiffer
      <4>6. QED
        BY <4>5
    <3>3. QED
      BY <3>1, <3>2
  <2>8. QED
    BY <2>3, <2>4, <2>5, <2>6, <2>7 DEF Places
<1>11. QED
  BY <1>9, <1>10 DEF s, P

LEMMA BodyIs ==
  ASSUME NEW text \in Seq(Tokens), NEW spans \in Seq(Bullet), InRow(spans, 0, Len(text) + 1),
         NEW c \in 1 .. Len(spans)
  PROVE  Body(text, spans[c]) \in Seq(Tokens)
<1> DEFINE from == spans[c].from
           to == spans[c].to
<1>1. /\ from \in Nat /\ to \in Nat /\ 1 <= from /\ from <= to /\ to <= Len(text) + 1
  BY SpansDiffer
<1>2. Body(text, spans[c]) = SubSeq(text, from, to - 1)
  BY DEF Body
<1> HIDE DEF from, to
<1>3. QED
  BY <1>1, <1>2, PartIs

LEMMA BodiesAre ==
  ASSUME NEW text \in Seq(Tokens), NEW spans \in Seq(Bullet), InRow(spans, 0, Len(text) + 1),
         NEW out \in Seq(Answer)
  PROVE  Bodies(text, spans, out) \in [1 .. Len(spans) -> Seq(Tokens)]
<1> DEFINE body(c) == IF Rewrites(spans, out, c) = {} THEN Body(text, spans[c])
                      ELSE Sanitized(out[CHOOSE k \in Rewrites(spans, out, c) : TRUE].text)
<1>1. ASSUME NEW c \in 1 .. Len(spans)
      PROVE  body(c) \in Seq(Tokens)
  <2>1. CASE Rewrites(spans, out, c) = {}
    BY <2>1, BodyIs
  <2>2. CASE Rewrites(spans, out, c) # {}
    <3> DEFINE k == CHOOSE k \in Rewrites(spans, out, c) : TRUE
    <3>1. k \in Rewrites(spans, out, c)
      BY <2>2
    <3>2. body(c) = Sanitized(out[k].text)
      BY <2>2
    <3> HIDE DEF k
    <3>3. k \in 1 .. Len(out)
      BY <3>1 DEF Rewrites
    <3>4. out[k] \in Answer
      BY <3>3
    <3>5. Sanitized(out[k].text) \in Seq(Tokens)
      BY <3>4, SanitizedIs DEF Answer
    <3>6. QED
      BY <3>2, <3>5
  <2>3. QED
    BY <2>1, <2>2
<1>2. Bodies(text, spans, out) = [c \in 1 .. Len(spans) |-> body(c)]
  <2>1. DOMAIN spans = 1 .. Len(spans)
    OBVIOUS
  <2>2. QED
    BY <2>1 DEF Bodies
<1> HIDE DEF body
<1>3. QED
  BY <1>1, <1>2

\* From the last bullet to the first, each patch weaves a bullet into the text.
LEMMA SplicesWeave ==
  ASSUME NEW text \in Seq(Tokens), NEW spans \in Seq(Bullet), InRow(spans, 0, Len(text) + 1),
         NEW bodies \in [1 .. Len(spans) -> Seq(Tokens)], NEW patches \in Seq(Patch), NEW at,
         Places(patches, at, text, spans, bodies), NEW f, Splices(f, text, patches)
  PROVE  f[Len(patches)] = Woven(text, spans, bodies)[Len(spans)]
<1> DEFINE N == Len(spans)
           M == Len(patches)
           upto(k) == [c \in 1 .. N |-> IF \E j \in 1 .. k : at[j] = c THEN bodies[c]
                                        ELSE Body(text, spans[c])]
           Good == {k \in 0 .. M : f[k] = Woven(text, spans, upto(k))[N]}
<1>0. N \in Nat /\ M \in Nat /\ Len(text) \in Nat
  OBVIOUS
<1>1. ASSUME NEW k \in 0 .. M
      PROVE  Weaves(text, spans, upto(k))
  <2>1. \A c \in 1 .. N : upto(k)[c] \in Seq(Tokens)
    BY BodyIs
  <2> HIDE DEF upto
  <2>2. QED
    BY <2>1 DEF Weaves
<1>2. 0 \in Good
  <2>1. 0 \in 0 .. M /\ N \in 0 .. N
    BY <1>0
  <2>2. \A c \in 1 .. N : upto(0)[c] = Body(text, spans[c])
    OBVIOUS
  <2> HIDE DEF upto
  <2>3. Woven(text, spans, upto(0))[N] = SubSeq(text, 1, Start(text, spans, N + 1) - 1)
    BY <1>1, <2>1, <2>2, WovenOld
  <2>4. Start(text, spans, N + 1) - 1 = Len(text)
    BY <1>0 DEF Start
  <2>5. SubSeq(text, 1, Len(text)) = text
    OBVIOUS
  <2>6. f[0] = text
    BY DEF Splices
  <2>7. QED
    BY <2>1, <2>3, <2>4, <2>5, <2>6
<1>3. ASSUME NEW k \in 0 .. M, k \in Good, k # M
      PROVE  k + 1 \in Good
  <2> DEFINE n == k + 1
             b == at[n]
             p == patches[n]
             old == upto(k)
             new == upto(n)
  <2>1. n \in 1 .. M /\ n \in 0 .. M /\ n - 1 = k /\ n \in 1 .. n
    BY <1>0, <1>3
  <2>2. b \in 1 .. N /\ p.span = spans[b] /\ bodies[b] = Sanitized(p.text)
    BY <2>1 DEF Places
  <2>3. \A j \in 1 .. k : j \in 1 .. M /\ j < n /\ j \in 1 .. n
    BY <1>0
  <2>4. \A j \in 1 .. n : j = n \/ j \in 1 .. k
    BY <1>0
  <2>5. \A j \in 1 .. k : at[j] \in 1 .. N /\ b < at[j]
    BY <2>1, <2>3 DEF Places
  <2>6. ASSUME NEW c \in 1 .. b
        PROVE  old[c] = Body(text, spans[c])
    <3>1. c \in 1 .. N
      BY <1>0, <2>2
    <3>2. \A j \in 1 .. k : at[j] # c
      BY <1>0, <2>2, <2>5
    <3>3. QED
      BY <3>1, <3>2
  <2>7. ASSUME NEW c \in 1 .. N, c # b
        PROVE  new[c] = old[c]
    <3>1. (\E j \in 1 .. n : at[j] = c) <=> (\E j \in 1 .. k : at[j] = c)
      <4> HIDE DEF n
      <4>1. QED
        BY <2>3, <2>4, <2>7 DEF b
    <3>2. QED
      BY <3>1
  <2>8. new[b] = Sanitized(p.text)
    <3>1. \E j \in 1 .. n : at[j] = b
      <4> HIDE DEF n
      <4>1. QED
        BY <2>1 DEF b
    <3>2. QED
      BY <2>2, <3>1
  <2>9. Weaves(text, spans, old) /\ Weaves(text, spans, new)
    BY <1>1, <2>1
  <2>10. f[k] = Woven(text, spans, old)[N]
    BY <1>3
  <2>11. f[n] = Splice(f[k], p)
    <3> HIDE DEF n
    <3>1. f[n] = Splice(f[n - 1], p)
      BY <2>1 DEF Splices
    <3>2. QED
      BY <2>1, <3>1
  <2>12. new = upto(n)
    OBVIOUS
  <2> HIDE DEF n, b, p, old, new, upto
  <2>13. Splice(Woven(text, spans, old)[N], p) = Woven(text, spans, new)[N]
    <3>1. OneMore(text, spans, old, new, b, p)
      BY <2>2, <2>6, <2>7, <2>8, <2>9 DEF OneMore
    <3>2. QED
      BY <2>2, <3>1, SpliceWoven
  <2>14. f[n] = Woven(text, spans, upto(n))[N]
    BY <2>10, <2>11, <2>12, <2>13
  <2>15. n \in Good
    BY <2>1, <2>14
  <2>16. QED
    BY <2>15 DEF n
<1>4. M \in Good
  <2>1. \A k \in 0 .. M : k \in Good
    <3>1. 0 \in Nat
      OBVIOUS
    <3> HIDE DEF Good, M
    <3>2. QED
      BY <1>0, <1>2, <1>3, <3>1, InductUpTo
  <2>2. M \in 0 .. M
    BY <1>0
  <2> HIDE DEF Good
  <2>3. QED
    BY <2>1, <2>2
<1>5. upto(M) = bodies
  <2>1. ASSUME NEW c \in 1 .. N
        PROVE  upto(M)[c] = bodies[c]
    BY DEF Places
  <2>2. upto(M) = [c \in 1 .. N |-> upto(M)[c]] /\ bodies = [c \in 1 .. N |-> bodies[c]]
    OBVIOUS
  <2> HIDE DEF upto
  <2>3. QED
    BY <2>1, <2>2
<1>6. QED
  BY <1>4, <1>5

\* What a model call asked for is what the patcher makes of the text.
LEMMA PatchedIs ==
  ASSUME NEW text \in Seq(Tokens), NEW out \in Seq(Answer),
         ~Overlap(Patches(Manifest(text), out))
  PROVE  /\ ApplyPatches(text, Patches(Manifest(text), out)) \in Seq(Tokens)
         /\ ~PilesUp(Manifest(text), out) =>
              ApplyPatches(text, Patches(Manifest(text), out)) =
                Woven(text, Manifest(text), Bodies(text, Manifest(text), out))[Len(Manifest(text))]
<1> DEFINE spans == Manifest(text)
           P == Patches(spans, out)
           s == InSpliceOrder(P)
           bodies == Bodies(text, spans, out)
<1>1. spans \in Seq(Bullet) /\ InRow(spans, 0, Len(text) + 1)
  BY ManifestIs
<1> HIDE DEF spans
<1>2. /\ FromTheBack(s, Len(text))
      /\ ~PilesUp(spans, out) => \E at : Places(s, at, text, spans, bodies)
  BY <1>1, SortedIs DEF spans
<1>3. PICK f : Splices(f, text, s) /\ ApplyPatches(text, P) = f[Len(s)]
  <2>1. FromTheBack(InSpliceOrder(P), Len(text))
    BY <1>2
  <2> HIDE DEF P
  <2>2. QED
    BY <2>1, AppliedIs
<1>4. s \in Seq(Patch)
  BY <1>2 DEF FromTheBack
<1>5. bodies \in [1 .. Len(spans) -> Seq(Tokens)]
  BY <1>1, BodiesAre
<1> HIDE DEF s, bodies, P
<1>6. f[Len(s)] \in Seq(Tokens)
  <2>1. Len(s) \in 0 .. Len(s)
    BY <1>4
  <2>2. QED
    BY <1>3, <2>1 DEF Splices
<1>7. ASSUME ~PilesUp(spans, out)
      PROVE  f[Len(s)] = Woven(text, spans, bodies)[Len(spans)]
  <2>1. PICK at : Places(s, at, text, spans, bodies)
    BY <1>2, <1>7
  <2>2. QED
    BY <1>1, <1>3, <1>4, <1>5, <2>1, SplicesWeave
<1>8. QED
  BY <1>3, <1>6, <1>7 DEF spans, P, bodies

-----------------------------------------------------------------------------
(***************************************************************************)
(* The artifact directory.  What a run chose is in the directory as long   *)
(* as the run is the last one to have written it, since the run writes     *)
(* each variant before it chooses, and none afterwards; others can only    *)
(* compile the file once more.  This holds whatever the patcher makes of a *)
(* text, so IInv gives texts no type.                                      *)
(***************************************************************************)

-----------------------------------------------------------------------------
(* Pages. *)

\* A text no longer than the page has one.
LEMMA ShortTextFits ==
  ASSUME NEW text, text \in Seq(STRING), Len(text) <= PageSize
  PROVE  Pages(text) <= PageLimit
<1> DEFINE n == Len(text)
<1>1. n \in Nat /\ PageSize \in Nat /\ PageSize >= 1 /\ n <= PageSize
  BY PipelineAssumption
<1>2. (n + PageSize - 1) \div PageSize <= 1
  <2> HIDE DEF n
  <2>1. \A m, k \in Nat : k >= 1 /\ m < 2 * k => m \div k <= 1
    OBVIOUS
  <2>2. n + PageSize - 1 \in Nat /\ n + PageSize - 1 < 2 * PageSize
    BY <1>1
  <2>3. QED
    BY <2>1, <2>2, <1>1
<1>3. QED
  BY <1>2 DEF Pages, PageLimit

-----------------------------------------------------------------------------
(* Sequences whose members have no type. *)

MembersOf(s) == {s[k] : k \in DOMAIN s}
IsSequence(s) == s \in Seq(MembersOf(s))

LEMMA AppendToSequence ==
  ASSUME NEW s, IsSequence(s), NEW e
  PROVE  /\ IsSequence(Append(s, e))
         /\ \A k \in DOMAIN Append(s, e) :
              \/ k \in DOMAIN s /\ Append(s, e)[k] = s[k]
              \/ Append(s, e)[k] = e
<1> DEFINE S == MembersOf(s) \cup {e}
           a == Append(s, e)
<1>1. s \in Seq(S)
  BY DEF IsSequence
<1>2. a \in Seq(S) /\ Len(a) = Len(s) + 1 /\ a[Len(s) + 1] = e
      /\ \A k \in 1 .. Len(s) : a[k] = s[k]
  BY <1>1
<1>3. DOMAIN a = 1 .. Len(s) + 1 /\ DOMAIN s = 1 .. Len(s) /\ Len(s) \in Nat
  BY <1>1, <1>2
<1>4. a \in Seq(MembersOf(a))
  <2>1. \A k \in 1 .. Len(a) : a[k] \in MembersOf(a)
    BY <1>2, <1>3 DEF MembersOf
  <2>2. QED
    BY <1>2, <2>1
<1>5. \A k \in DOMAIN a : k \in DOMAIN s \/ k = Len(s) + 1
  BY <1>3
<1>6. QED
  BY <1>2, <1>3, <1>4, <1>5 DEF IsSequence

-----------------------------------------------------------------------------
(* The invariant. *)

\* Texts have no type: all that is said of a variable is where it is defined.
Shapes ==
  /\ resume \in Resumes \cup {Base}
  /\ DOMAIN rows = RunIds
  /\ \A r \in RunIds : DOMAIN rows[r] = {"status", "deleted", "artifact"}
  /\ DOMAIN task = RunIds
  /\ \A r \in RunIds : DOMAIN task[r] = DOMAIN Idle
  /\ DOMAIN disk = Variants
  /\ \A v \in Variants : DOMAIN disk[v] = {"tex", "pdf"}
  /\ DOMAIN writer = Variants
  /\ IsSequence(reviews)
  /\ \A r \in RunIds : rows[r].status # "SUCCESS" => rows[r].artifact = "none"
  /\ removing \subseteq {r \in RunIds : rows[r].deleted}

\* A file has the text, or a run was deleted that took it along.
Holds(found, text, v) == found = text \/ (found = NoText /\ Removed(v))

\* As long as r is the last one to have written the variant ...
Written(r, v, text) == writer[v] = r => Holds(disk[v].tex, text, v)
Shippable(r, v, text) ==
  writer[v] = r => /\ Holds(disk[v].tex, text, v) /\ Holds(disk[v].pdf, text, v)
                   /\ Pages(text) <= PageLimit

\* What run r has put into the directory by the step it is at.
BaseIsThere(r) ==
  /\ task[r].pc = "base" => Written(r, "base", task[r].base)
                            /\ Pages(task[r].base) <= PageLimit
  /\ task[r].pc \in {"tailor", "v1", "v1_trimmed", "trim", "review", "retailor",
                     "v2", "three_way"} => Shippable(r, "base", task[r].base)

V1IsThere(r) ==
  /\ task[r].pc \in {"v1", "v1_trimmed"} => Written(r, "tailored_v1", task[r].v1)
  /\ task[r].pc = "review" => Shippable(r, "tailored_v1", task[r].v1)

V2IsThere(r) ==
  /\ task[r].pc \notin {"v2", "three_way"} => task[r].v2 = NoText
  /\ task[r].pc \in {"v2", "three_way"} => task[r].v1 = NoText
  /\ task[r].pc = "v2" => Written(r, "tailored_v2", task[r].v2)
  /\ task[r].pc = "three_way" => Shippable(r, "tailored_v2", task[r].v2)

ChoiceIsThere(r) ==
  task[r].pc = "publish" => /\ task[r].selected \in Variants
                            /\ Shippable(r, task[r].selected, task[r].better)

Progress(r) ==
  /\ task[r].pc # "idle" => rows[r].status # "NONE"
  /\ BaseIsThere(r)
  /\ V1IsThere(r)
  /\ V2IsThere(r)
  /\ ChoiceIsThere(r)

\* A review is of a run that writes no more.
ReviewedIsThere ==
  \A k \in DOMAIN reviews :
    /\ reviews[k].run \in RunIds /\ reviews[k].selected \in Variants
    /\ task[reviews[k].run].pc \in {"record", "idle"}
    /\ rows[reviews[k].run].status # "NONE"
    /\ Shippable(reviews[k].run, reviews[k].selected, reviews[k].better)

IInv == Shapes /\ (\A r \in RunIds : Progress(r)) /\ ReviewedIsThere

-----------------------------------------------------------------------------
(* Steps. *)

Act(r) ==
  StartRun(r) \/ DeleteRun(r) \/ SweepRun(r) \/ PipelineStep(r) \/ RecordFailure(r)

\* What a deleted run takes along.
Removal == \E q \in RunIds : \E kind \in {"tex", "pdf"} : RemoveArtifact(q, kind)

\* A step of another run than r, or the removal of anybody's files.
Elsewhere(r) == Removal \/ \E q \in RunIds \ {r} : Act(q)

\* What a step of run r does to the directory: nothing, write a variant or
\* compile one.
LEMMA FileKinds ==
  ASSUME NEW r \in RunIds, Act(r)
  PROVE  \/ UNCHANGED <<disk, writer>>
         \/ \E v \in Variants : \E text : WriteTex(r, v, text)
         \/ \E v \in Variants : CompileVariant(v) /\ UNCHANGED writer
<1>0. "base" \in Variants /\ "tailored_v1" \in Variants /\ "tailored_v2" \in Variants
  BY DEF Variants
<1>1. CASE StartRun(r) \/ DeleteRun(r) \/ SweepRun(r) \/ RecordFailure(r)
  BY <1>1 DEF StartRun, DeleteRun, SweepRun, RecordFailure
<1>2. CASE EnrichJobDescription(r) \/ InsertReviewRun(r) \/ RecordSuccess(r)
  BY <1>2 DEF EnrichJobDescription, InsertReviewRun, RecordSuccess
<1>3. CASE WriteBase(r)
  BY <1>0, <1>3 DEF WriteBase
<1>4. CASE CompileBase(r) \/ CompileV1(r) \/ CompileV2(r)
  BY <1>0, <1>4 DEF CompileBase, CompileV1, CompileV2
<1>5. ASSUME NEW out \in Outputs, AnswerTailor(r, out)
      PROVE  UNCHANGED <<disk, writer>> \/ \E text : WriteTex(r, "tailored_v1", text)
  BY <1>5 DEF AnswerTailor, ShipBase
<1>6. ASSUME NEW out \in Outputs, AnswerTrim(r, out)
      PROVE  UNCHANGED <<disk, writer>> \/ \E text : WriteTex(r, "tailored_v1", text)
  BY <1>6 DEF AnswerTrim
<1>7. ASSUME NEW out \in Outputs, AnswerRetailor(r, out)
      PROVE  UNCHANGED <<disk, writer>> \/ \E text : WriteTex(r, "tailored_v2", text)
  BY <1>7 DEF AnswerRetailor
<1>8. ASSUME NEW verdict, AnswerReview(r, verdict) \/ AnswerThreeWay(r, verdict)
      PROVE  UNCHANGED <<disk, writer>>
  BY <1>8 DEF AnswerReview, AnswerThreeWay
<1>9. CASE Answered(r)
  BY <1>0, <1>5, <1>6, <1>7, <1>8, <1>9 DEF Answered
<1>10. QED
  BY <1>1, <1>2, <1>3, <1>4, <1>9 DEF Act, PipelineStep

\* A deleted run stays deleted, and its row goes on naming its variant.
LEMMA RowsStay ==
  ASSUME NEW r \in RunIds, Shapes, Act(r)
  PROVE  /\ \A v \in Variants : Removed(v) => Removed(v)'
         /\ \A q \in RunIds : rows'[q].status # "SUCCESS" => rows'[q].artifact = "none"
         /\ removing' \subseteq {q \in RunIds : rows'[q].deleted}
<1> DEFINE Stay == /\ \A v \in Variants : Removed(v) => Removed(v)'
                   /\ \A q \in RunIds : rows'[q].status # "SUCCESS" => rows'[q].artifact = "none"
                   /\ removing' \subseteq {q \in RunIds : rows'[q].deleted}
<1>1. CASE UNCHANGED <<rows, removing>>
  BY <1>1 DEF Shapes, Removed
<1>2. ASSUME NEW status \in {"RUNNING", "FAILED"}, rows[r].status # "SUCCESS",
             rows' = [rows EXCEPT ![r].status = status], UNCHANGED removing
      PROVE  Stay
  BY <1>2 DEF Shapes, Removed
<1>3. ASSUME NEW artifact, rows[r].status # "SUCCESS", UNCHANGED removing,
             rows' = [rows EXCEPT ![r].status = "SUCCESS", ![r].artifact = artifact]
      PROVE  Stay
  <2>1. /\ DOMAIN rows = RunIds /\ rows'[r].status = "SUCCESS"
        /\ rows'[r].deleted = rows[r].deleted /\ rows[r].artifact = "none"
        /\ \A q \in RunIds \ {r} : rows'[q] = rows[q]
    BY <1>3 DEF Shapes
  <2>2. ASSUME NEW v \in Variants, Removed(v)
        PROVE  Removed(v)'
    <3>1. PICK q \in RunIds : rows[q].deleted /\ rows[q].artifact = v
      BY <2>2 DEF Removed
    <3>2. q # r
      BY <2>1, <3>1 DEF Variants
    <3>3. QED
      BY <2>1, <3>1, <3>2 DEF Removed
  <2>3. QED
    BY <1>3, <2>1, <2>2 DEF Shapes
<1>4. CASE DeleteRun(r)
  <2>1. /\ \A q \in RunIds : /\ rows'[q].status = rows[q].status
                             /\ rows'[q].artifact = rows[q].artifact
                             /\ rows[q].deleted => rows'[q].deleted
        /\ rows'[r].deleted /\ removing' \subseteq removing \cup {r}
    BY <1>4 DEF DeleteRun, Shapes
  <2>2. QED
    BY <2>1 DEF Shapes, Removed
<1>5. CASE StartRun(r) \/ SweepRun(r) \/ RecordFailure(r) \/ RecordSuccess(r)
  BY <1>1, <1>2, <1>3, <1>5 DEF StartRun, SweepRun, RecordFailure, RecordSuccess
<1>6. ASSUME NEW out \in Outputs,
             AnswerTailor(r, out) \/ AnswerTrim(r, out) \/ AnswerRetailor(r, out)
      PROVE  UNCHANGED <<rows, removing>>
  BY <1>6 DEF AnswerTailor, AnswerTrim, AnswerRetailor, ShipBase
<1>7. QED
  BY <1>1, <1>4, <1>5, <1>6 DEF Act, PipelineStep, Answered, EnrichJobDescription, WriteBase,
       CompileBase, CompileV1, CompileV2, InsertReviewRun, AnswerReview, AnswerThreeWay

\* A removal takes one file of the variant that a deleted run's row names.
LEMMA RemovalIs ==
  ASSUME Shapes, Removal
  PROVE  /\ UNCHANGED <<rows, task, writer, reviews, resume>>
         /\ DOMAIN disk' = Variants
         /\ \A v \in Variants :
              /\ DOMAIN disk'[v] = {"tex", "pdf"}
              /\ disk'[v].tex = disk[v].tex \/ (disk'[v].tex = NoText /\ Removed(v))
              /\ disk'[v].pdf = disk[v].pdf \/ (disk'[v].pdf = NoText /\ Removed(v))
         /\ removing' \subseteq removing
<1>1. PICK q \in RunIds, kind \in {"tex", "pdf"} : RemoveArtifact(q, kind)
  BY DEF Removal
<1>2. /\ disk' = [disk EXCEPT ![rows[q].artifact][kind] = NoText]
      /\ rows[q].deleted /\ Removed(rows[q].artifact)
  BY <1>1 DEF RemoveArtifact, Shapes, Removed
<1>3. /\ UNCHANGED <<rows, task, writer, reviews, resume>> /\ removing' \subseteq removing
  BY <1>1 DEF RemoveArtifact, settings
<1>4. ASSUME NEW v \in Variants
      PROVE  /\ DOMAIN disk'[v] = {"tex", "pdf"}
             /\ disk'[v].tex = disk[v].tex \/ (disk'[v].tex = NoText /\ Removed(v))
             /\ disk'[v].pdf = disk[v].pdf \/ (disk'[v].pdf = NoText /\ Removed(v))
  <2>1. CASE v = rows[q].artifact
    <3>1. disk'[v] = [disk[v] EXCEPT ![kind] = NoText] /\ Removed(v)
      BY <1>2, <2>1 DEF Shapes
    <3>2. QED
      BY <3>1 DEF Shapes
  <2>2. CASE v # rows[q].artifact
    BY <1>2, <2>2 DEF Shapes
  <2>3. QED
    BY <2>1, <2>2
<1>5. DOMAIN disk' = Variants
  BY <1>2 DEF Shapes
<1>6. QED
  BY <1>3, <1>4, <1>5

\* A file that is r's after a step of somebody else was r's before, and is gone
\* only with a deleted run.
LEMMA FilesStay ==
  ASSUME Shapes, NEW r \in RunIds, Elsewhere(r), NEW v \in Variants, writer'[v] = r
  PROVE  /\ writer[v] = r
         /\ Removed(v) => Removed(v)'
         /\ disk'[v].tex = disk[v].tex \/ (disk'[v].tex = NoText /\ Removed(v)')
         /\ \/ disk'[v].pdf \in {disk[v].pdf, disk[v].tex}
            \/ disk'[v].pdf = NoText /\ Removed(v)'
<1>1. CASE Removal
  <2>1. Removed(v) => Removed(v)'
    BY <1>1, RemovalIs DEF Removed
  <2>2. QED
    BY <1>1, <2>1, RemovalIs
<1>2. ASSUME NEW q \in RunIds \ {r}, Act(q)
      PROVE  /\ writer[v] = r /\ disk'[v].tex = disk[v].tex
             /\ disk'[v].pdf \in {disk[v].pdf, disk[v].tex}
             /\ Removed(v) => Removed(v)'
  <2>1. CASE UNCHANGED <<disk, writer>>
    BY <1>2, <2>1, RowsStay
  <2>2. ASSUME NEW w \in Variants, NEW text, WriteTex(q, w, text)
        PROVE  v # w /\ writer[v] = writer'[v] /\ disk'[v] = disk[v]
    BY <1>2, <2>2 DEF WriteTex, Shapes
  <2>3. ASSUME NEW w \in Variants, CompileVariant(w), UNCHANGED writer
        PROVE  disk'[v].tex = disk[v].tex /\ disk'[v].pdf \in {disk[v].pdf, disk[v].tex}
    BY <2>3 DEF CompileVariant, Shapes
  <2>4. QED
    BY <1>2, <2>1, <2>2, <2>3, FileKinds, RowsStay
<1>3. QED
  BY <1>1, <1>2 DEF Elsewhere

\* Steps of run q leave the rows and coroutines of the others alone.
LEMMA TasksStay ==
  ASSUME Shapes, NEW r \in RunIds, NEW q \in RunIds \ {r}, Act(q)
  PROVE  task'[r] = task[r] /\ rows'[r] = rows[r]
<1>1. CASE StartRun(q) \/ DeleteRun(q) \/ SweepRun(q) \/ RecordFailure(q)
  BY <1>1 DEF StartRun, DeleteRun, SweepRun, RecordFailure, Go, Shapes
<1>2. CASE EnrichJobDescription(q) \/ WriteBase(q) \/ CompileBase(q)
           \/ InsertReviewRun(q) \/ RecordSuccess(q)
  BY <1>2 DEF EnrichJobDescription, WriteBase, CompileBase, InsertReviewRun,
              RecordSuccess, Go, Shapes
<1>3. CASE CompileV1(q) \/ CompileV2(q)
  BY <1>3 DEF CompileV1, CompileV2, Measured, PageFitFails, Select, Publish, Go, Shapes
<1>4. ASSUME NEW out \in Outputs,
             AnswerTailor(q, out) \/ AnswerTrim(q, out) \/ AnswerRetailor(q, out)
      PROVE  task'[r] = task[r] /\ rows'[r] = rows[r]
  BY <1>4 DEF AnswerTailor, AnswerTrim, AnswerRetailor, Tailored, Retailored, ShipBase,
              PageFitFails, Select, Publish, Shapes
<1>5. ASSUME NEW verdict, AnswerReview(q, verdict) \/ AnswerThreeWay(q, verdict)
      PROVE  task'[r] = task[r] /\ rows'[r] = rows[r]
  BY <1>5 DEF AnswerReview, AnswerThreeWay, Select, Publish, Go, Shapes
<1>6. QED
  BY <1>1, <1>2, <1>3, <1>4, <1>5 DEF Act, PipelineStep, Answered

LEMMA OthersStep ==
  ASSUME Shapes, NEW r \in RunIds, Elsewhere(r), Progress(r)
  PROVE  Progress(r)'
<1>1. task'[r] = task[r] /\ rows'[r] = rows[r]
  BY TasksStay, RemovalIs DEF Elsewhere
<1>2. \A v \in Variants : writer'[v] = r =>
        /\ writer[v] = r
        /\ Removed(v) => Removed(v)'
        /\ disk'[v].tex = disk[v].tex \/ (disk'[v].tex = NoText /\ Removed(v)')
        /\ \/ disk'[v].pdf \in {disk[v].pdf, disk[v].tex}
           \/ disk'[v].pdf = NoText /\ Removed(v)'
  BY FilesStay
<1>3. ASSUME NEW v \in Variants, NEW text
      PROVE  /\ Written(r, v, text) => Written(r, v, text)'
             /\ Shippable(r, v, text) => Shippable(r, v, text)'
  BY <1>2 DEF Written, Shippable, Holds
<1>4. BaseIsThere(r)'
  BY <1>1, <1>3 DEF Progress, BaseIsThere, Written, Shippable, Holds, Removed, Variants
<1>5. V1IsThere(r)'
  BY <1>1, <1>3 DEF Progress, V1IsThere, Written, Shippable, Holds, Removed, Variants
<1>6. V2IsThere(r)'
  BY <1>1, <1>3 DEF Progress, V2IsThere, Written, Shippable, Holds, Removed, Variants
<1>7. ChoiceIsThere(r)'
  BY <1>1, <1>3 DEF Progress, ChoiceIsThere, Shippable, Holds, Removed
<1>8. QED
  BY <1>1, <1>4, <1>5, <1>6, <1>7 DEF Progress

-----------------------------------------------------------------------------
(* Types. *)

LEMMA TaskShape ==
  ASSUME NEW r \in RunIds, Shapes, Act(r)
  PROVE  DOMAIN task' = RunIds /\ \A q \in RunIds : DOMAIN task'[q] = DOMAIN Idle
<1> DEFINE Shape == DOMAIN task' = RunIds /\ \A q \in RunIds : DOMAIN task'[q] = DOMAIN Idle
<1>1. ASSUME NEW pc, Go(r, pc)
      PROVE  Shape
  BY <1>1 DEF Go, Shapes
<1>2. CASE task' = [task EXCEPT ![r] = Idle]
  BY <1>2 DEF Shapes
<1>3. ASSUME NEW verdict, NEW selected, NEW artifact,
             Publish(r, verdict, selected, artifact)
      PROVE  Shape
  BY <1>3 DEF Publish, Shapes
<1>4. ASSUME NEW pc, NEW text, NEW from, NEW out,
             Tailored(r, text, from, out, pc) \/ Measured(r, pc)
      PROVE  Shape
  BY <1>4 DEF Tailored, Measured, Shapes
<1>5. CASE UNCHANGED task
  BY <1>5 DEF Shapes
<1>6. CASE StartRun(r) \/ DeleteRun(r) \/ SweepRun(r) \/ RecordFailure(r)
  BY <1>1, <1>2, <1>5, <1>6 DEF StartRun, DeleteRun, SweepRun, RecordFailure
<1>7. CASE WriteBase(r)
  BY <1>7 DEF WriteBase, Shapes
<1>8. CASE EnrichJobDescription(r) \/ CompileBase(r) \/ InsertReviewRun(r) \/ RecordSuccess(r)
  <2>1. CASE InsertReviewRun(r)
    BY <2>1 DEF InsertReviewRun, Shapes
  <2>2. QED
    BY <1>1, <1>2, <1>8, <2>1 DEF EnrichJobDescription, CompileBase, RecordSuccess
<1>9. CASE CompileV1(r) \/ CompileV2(r)
  BY <1>1, <1>3, <1>4, <1>9 DEF CompileV1, CompileV2, PageFitFails, Select
<1>10. ASSUME NEW out \in Outputs,
              AnswerTailor(r, out) \/ AnswerTrim(r, out)
       PROVE  Shape
  BY <1>3, <1>4, <1>10 DEF AnswerTailor, AnswerTrim, ShipBase, PageFitFails
<1>11. ASSUME NEW out \in Outputs, AnswerRetailor(r, out)
       PROVE  Shape
  <2>1. ASSUME NEW text, Retailored(r, text, out)
        PROVE  Shape
    BY <2>1 DEF Retailored, Shapes
  <2>2. QED
    BY <1>3, <1>11, <2>1 DEF AnswerRetailor, Select
<1>12. ASSUME NEW verdict, AnswerReview(r, verdict) \/ AnswerThreeWay(r, verdict)
       PROVE  Shape
  BY <1>1, <1>3, <1>12 DEF AnswerReview, AnswerThreeWay, Select
<1>13. QED
  BY <1>6, <1>7, <1>8, <1>9, <1>10, <1>11, <1>12 DEF Act, PipelineStep, Answered

LEMMA RowShape ==
  ASSUME NEW r \in RunIds, Shapes, Act(r)
  PROVE  /\ DOMAIN rows' = RunIds
         /\ \A q \in RunIds : DOMAIN rows'[q] = {"status", "deleted", "artifact"}
         /\ \A q \in RunIds : rows[q].status # "NONE" => rows'[q].status # "NONE"
<1>1. CASE UNCHANGED rows
  BY <1>1 DEF Shapes
<1>2. ASSUME NEW status \in {"RUNNING", "SUCCESS", "FAILED"},
             rows' = [rows EXCEPT ![r].status = status]
      PROVE  /\ DOMAIN rows' = RunIds
             /\ \A q \in RunIds : DOMAIN rows'[q] = {"status", "deleted", "artifact"}
             /\ \A q \in RunIds : rows[q].status # "NONE" => rows'[q].status # "NONE"
  BY <1>2 DEF Shapes
<1>3. CASE \/ rows' = [rows EXCEPT ![r].deleted = TRUE]
           \/ rows' = [rows EXCEPT ![r].status = "SUCCESS", ![r].artifact = task[r].artifact]
  BY <1>3 DEF Shapes
<1>4. ASSUME NEW out \in Outputs,
             AnswerTailor(r, out) \/ AnswerTrim(r, out) \/ AnswerRetailor(r, out)
      PROVE  UNCHANGED rows
  BY <1>4 DEF AnswerTailor, AnswerTrim, AnswerRetailor, ShipBase
<1>5. CASE StartRun(r) \/ DeleteRun(r) \/ SweepRun(r) \/ RecordFailure(r) \/ RecordSuccess(r)
  BY <1>1, <1>2, <1>3, <1>5 DEF StartRun, DeleteRun, SweepRun, RecordFailure, RecordSuccess
<1>6. QED
  BY <1>1, <1>4, <1>5 DEF Act, PipelineStep, Answered, EnrichJobDescription, WriteBase,
       CompileBase, CompileV1, CompileV2, InsertReviewRun, AnswerReview, AnswerThreeWay

LEMMA FileShape ==
  ASSUME NEW r \in RunIds, Shapes, Act(r)
  PROVE  /\ DOMAIN disk' = Variants /\ DOMAIN writer' = Variants
         /\ \A v \in Variants : DOMAIN disk'[v] = {"tex", "pdf"}
<1>1. CASE UNCHANGED <<disk, writer>>
  BY <1>1 DEF Shapes
<1>2. ASSUME NEW v \in Variants, NEW text, WriteTex(r, v, text)
      PROVE  /\ DOMAIN disk' = Variants /\ DOMAIN writer' = Variants
             /\ \A w \in Variants : DOMAIN disk'[w] = {"tex", "pdf"}
  BY <1>2 DEF WriteTex, Shapes
<1>3. ASSUME NEW v \in Variants, CompileVariant(v), UNCHANGED writer
      PROVE  /\ DOMAIN disk' = Variants /\ DOMAIN writer' = Variants
             /\ \A w \in Variants : DOMAIN disk'[w] = {"tex", "pdf"}
  BY <1>3 DEF CompileVariant, Shapes
<1>4. QED
  BY <1>1, <1>2, <1>3, FileKinds

\* Only InsertReviewRun touches the reviews, and nobody but the uploads the resume.
LEMMA ReviewKinds ==
  ASSUME NEW r \in RunIds, Act(r)
  PROVE  resume' = resume /\ (reviews' = reviews \/ InsertReviewRun(r))
<1>1. ASSUME NEW out \in Outputs,
             AnswerTailor(r, out) \/ AnswerTrim(r, out) \/ AnswerRetailor(r, out)
      PROVE  UNCHANGED <<resume, reviews>>
  BY <1>1 DEF AnswerTailor, AnswerTrim, AnswerRetailor, ShipBase, settings
<1>2. QED
  BY <1>1 DEF Act, PipelineStep, Answered, StartRun, DeleteRun, SweepRun, RecordFailure,
       RecordSuccess, EnrichJobDescription, WriteBase, CompileBase, CompileV1, CompileV2,
       InsertReviewRun, AnswerReview, AnswerThreeWay, settings

LEMMA StepShapes ==
  ASSUME Shapes, [Next]_vars
  PROVE  Shapes'
<1>1. ASSUME NEW r \in RunIds, Act(r)
      PROVE  Shapes'
  <2>1. IsSequence(reviews)'
    <3>1. CASE reviews' = reviews
      BY <3>1 DEF Shapes, IsSequence, MembersOf
    <3>2. CASE InsertReviewRun(r)
      <4> DEFINE e == [run |-> r, selected |-> task[r].selected, better |-> task[r].better]
      <4>1. reviews' = Append(reviews, e) /\ IsSequence(reviews)
        BY <3>2 DEF InsertReviewRun, Shapes
      <4>2. IsSequence(Append(reviews, e))
        BY <4>1, AppendToSequence
      <4>3. QED
        BY <4>1, <4>2 DEF IsSequence, MembersOf
    <3>3. QED
      BY <1>1, <3>1, <3>2, ReviewKinds
  <2>2. resume' \in Resumes \cup {Base}
    BY <1>1, ReviewKinds DEF Shapes
  <2>3. QED
    BY <1>1, <2>1, <2>2, TaskShape, RowShape, RowsStay, FileShape DEF Shapes
<1>2. ASSUME NEW text \in Resumes, UploadResume(text)
      PROVE  Shapes'
  BY <1>2 DEF UploadResume, Shapes, IsSequence, MembersOf
<1>3. CASE UNCHANGED vars
  BY <1>3 DEF vars, settings, Shapes, IsSequence, MembersOf
<1>4. CASE Removal
  BY <1>4, RemovalIs DEF Shapes, IsSequence, MembersOf
<1>5. QED
  BY <1>1, <1>2, <1>3, <1>4 DEF Next, Act, Removal

-----------------------------------------------------------------------------
(* A step of the run itself. *)

LEMMA WriteIs ==
  ASSUME NEW r \in RunIds, Shapes, NEW v \in Variants, NEW text, WriteTex(r, v, text)
  PROVE  /\ writer'[v] = r /\ disk'[v].tex = text
         /\ \A w \in Variants \ {v} : writer'[w] = writer[w] /\ disk'[w] = disk[w]
BY DEF WriteTex, Shapes

LEMMA CompileIs ==
  ASSUME Shapes, NEW v \in Variants, CompileVariant(v)
  PROVE  /\ disk'[v].tex = disk[v].tex /\ disk'[v].pdf = disk[v].tex
         /\ disk[v].tex # NoText
         /\ \A w \in Variants \ {v} : disk'[w] = disk[w]
BY DEF CompileVariant, Shapes

\* What is chosen is in the directory.
LEMMA PublishIs ==
  ASSUME NEW r \in RunIds, Shapes, NEW verdict, NEW selected, NEW artifact,
         Publish(r, verdict, selected, artifact)
  PROVE  /\ task'[r].pc = "publish" /\ task'[r].selected = selected
         /\ task'[r].v2 = NoText
         /\ task'[r].better = IF verdict # "TAILORED" THEN task[r].base
                              ELSE IF task[r].v2 # NoText THEN task[r].v2 ELSE task[r].v1
BY DEF Publish, Shapes, Idle

LEMMA Publishes ==
  ASSUME NEW r \in RunIds, Shapes, NEW verdict, NEW selected \in Variants, NEW artifact,
         Publish(r, verdict, selected, artifact), rows[r].status # "NONE",
         UNCHANGED <<rows, writer>>,
         Shippable(r, selected, IF verdict # "TAILORED" THEN task[r].base
                                ELSE IF task[r].v2 # NoText THEN task[r].v2 ELSE task[r].v1),
         disk'[selected] = disk[selected]
  PROVE  Progress(r)'
<1>1. /\ task'[r].pc = "publish" /\ task'[r].selected = selected
      /\ task'[r].v2 = NoText
      /\ task'[r].better = IF verdict # "TAILORED" THEN task[r].base
                           ELSE IF task[r].v2 # NoText THEN task[r].v2 ELSE task[r].v1
  BY PublishIs
<1>2. ChoiceIsThere(r)'
  BY <1>1 DEF ChoiceIsThere, Shippable, Holds, Removed
<1>3. BaseIsThere(r)' /\ V1IsThere(r)' /\ V2IsThere(r)'
  BY <1>1 DEF BaseIsThere, V1IsThere, V2IsThere
<1>4. QED
  BY <1>1, <1>2, <1>3 DEF Progress

\* The base resume is chosen, whoever judged what.
LEMMA PublishesBase ==
  ASSUME NEW r \in RunIds, Shapes, Progress(r), NEW verdict, verdict # "TAILORED",
         NEW artifact, Publish(r, verdict, "base", artifact),
         UNCHANGED <<rows, writer>>, disk'["base"] = disk["base"],
         task[r].pc \in {"tailor", "v1", "v1_trimmed", "trim", "review", "retailor",
                         "v2", "three_way"}
  PROVE  Progress(r)'
<1>1. Shippable(r, "base", task[r].base) /\ rows[r].status # "NONE"
  BY DEF Progress, BaseIsThere
<1>2. QED
  BY <1>1, Publishes DEF Variants

LEMMA OwnStart ==
  ASSUME NEW r \in RunIds, Shapes, Progress(r),
         StartRun(r) \/ DeleteRun(r) \/ SweepRun(r) \/ EnrichJobDescription(r)
  PROVE  Progress(r)'
<1>1. CASE StartRun(r)
  <2>1. task[r].pc = "idle" /\ task[r].v2 = NoText
    BY <1>1 DEF StartRun, Progress, V2IsThere
  <2>2. task'[r].pc = "start" /\ task'[r].v2 = NoText /\ rows'[r].status = "RUNNING"
    BY <1>1, <2>1 DEF StartRun, Go, Shapes, Idle
  <2>3. QED
    BY <2>2 DEF Progress, BaseIsThere, V1IsThere, V2IsThere, ChoiceIsThere
<1>2. CASE DeleteRun(r) \/ SweepRun(r)
  <2>1. UNCHANGED <<task, disk, writer>>
    BY <1>2 DEF DeleteRun, SweepRun
  <2>2. rows[r].status # "NONE" /\ rows'[r].status # "NONE"
    BY <1>2 DEF DeleteRun, SweepRun, Shapes
  <2>3. \A v \in Variants : Removed(v) => Removed(v)'
    BY <1>2, RowsStay DEF Act
  <2>4. ASSUME NEW v \in Variants, NEW text
        PROVE  /\ Written(r, v, text) => Written(r, v, text)'
               /\ Shippable(r, v, text) => Shippable(r, v, text)'
    BY <2>1, <2>3 DEF Written, Shippable, Holds
  <2>5. BaseIsThere(r)' /\ V1IsThere(r)' /\ V2IsThere(r)'
    <3>1. task' = task
      BY <2>1
    <3>2. BaseIsThere(r)'
      BY <2>4, <3>1 DEF Progress, BaseIsThere, Written, Shippable, Holds, Removed, Variants
    <3>3. V1IsThere(r)'
      BY <2>4, <3>1 DEF Progress, V1IsThere, Written, Shippable, Holds, Removed, Variants
    <3>4. V2IsThere(r)'
      BY <2>4, <3>1 DEF Progress, V2IsThere, Written, Shippable, Holds, Removed, Variants
    <3>5. QED
      BY <3>2, <3>3, <3>4
  <2>6. ChoiceIsThere(r)'
    BY <2>1, <2>4 DEF Progress, ChoiceIsThere, Shippable, Holds, Removed
  <2>7. QED
    BY <2>2, <2>5, <2>6 DEF Progress
<1>3. CASE EnrichJobDescription(r)
  <2>1. task'[r].pc = "load" /\ task'[r].v2 = NoText /\ rows' = rows
        /\ rows[r].status # "NONE"
    BY <1>3 DEF EnrichJobDescription, Go, Shapes, Idle, Progress, V2IsThere
  <2>2. QED
    BY <2>1 DEF Progress, BaseIsThere, V1IsThere, V2IsThere, ChoiceIsThere
<1>4. QED
  BY <1>1, <1>2, <1>3

LEMMA OwnBase ==
  ASSUME NEW r \in RunIds, Shapes, Progress(r), WriteBase(r) \/ CompileBase(r)
  PROVE  Progress(r)'
<1>0. "base" \in Variants
  BY DEF Variants
<1>1. CASE WriteBase(r)
  <2>1. /\ task'[r].pc = "base" /\ task'[r].base = resume /\ task'[r].v2 = NoText
        /\ rows' = rows /\ rows[r].status # "NONE"
    BY <1>1 DEF WriteBase, Shapes, Idle, Progress, V2IsThere
  <2>2. disk'["base"].tex = resume
    BY <1>0, <1>1, WriteIs DEF WriteBase
  <2>3. Pages(resume) <= PageLimit
    BY ShortTextFits, PipelineAssumption DEF Shapes
  <2>4. QED
    BY <2>1, <2>2, <2>3
       DEF Progress, BaseIsThere, V1IsThere, V2IsThere, ChoiceIsThere, Written, Holds, Removed
<1>2. CASE CompileBase(r)
  <2>1. /\ task[r].pc = "base" /\ task'[r].pc = "tailor" /\ task'[r].base = task[r].base
        /\ task'[r].v2 = NoText /\ rows' = rows /\ writer' = writer
        /\ rows[r].status # "NONE"
    BY <1>2 DEF CompileBase, Go, Shapes, Idle, Progress, V2IsThere
  <2>2. disk'["base"].tex = disk["base"].tex /\ disk'["base"].pdf = disk["base"].tex
    BY <1>0, <1>2, CompileIs DEF CompileBase
  <2>3. Written(r, "base", task[r].base) /\ Pages(task[r].base) <= PageLimit
    BY <2>1 DEF Progress, BaseIsThere
  <2>4. QED
    BY <2>1, <2>2, <2>3
       DEF Progress, BaseIsThere, V1IsThere, V2IsThere, ChoiceIsThere, Written, Shippable, Holds, Removed
<1>3. QED
  BY <1>1, <1>2

\* A text from the tailor or the trim call.
LEMMA Tailors ==
  ASSUME NEW r \in RunIds, Shapes, Progress(r), task[r].pc \in {"tailor", "trim"},
         NEW text, NEW from, NEW out, NEW pc \in {"v1", "v1_trimmed"},
         Tailored(r, text, from, out, pc), WriteTex(r, "tailored_v1", text), UNCHANGED rows
  PROVE  Progress(r)'
<1>1. /\ task'[r].pc = pc /\ task'[r].base = task[r].base /\ task'[r].v1 = text
      /\ task'[r].v2 = NoText /\ rows[r].status # "NONE"
  BY DEF Tailored, Shapes, Idle, Progress, V2IsThere
<1>2. /\ disk'["tailored_v1"].tex = text
      /\ writer'["base"] = writer["base"] /\ disk'["base"] = disk["base"]
  BY WriteIs DEF Variants
<1>3. Shippable(r, "base", task[r].base)
  BY DEF Progress, BaseIsThere
<1>4. QED
  BY <1>1, <1>2, <1>3
     DEF Progress, BaseIsThere, V1IsThere, V2IsThere, ChoiceIsThere, Written, Shippable, Holds, Removed

LEMMA OwnTailor ==
  ASSUME NEW r \in RunIds, Shapes, Progress(r), NEW out \in Outputs,
         AnswerTailor(r, out) \/ AnswerTrim(r, out)
  PROVE  Progress(r)'
<1>1. CASE AnswerTailor(r, out)
  <2>1. CASE ShipBase(r)
    BY <1>1, <2>1, PublishesBase DEF AnswerTailor, ShipBase
  <2>2. CASE ~ShipBase(r)
    <3>1. PICK text : /\ Tailored(r, text, task[r].base, out, "v1")
                      /\ WriteTex(r, "tailored_v1", text) /\ UNCHANGED rows
      BY <1>1, <2>2 DEF AnswerTailor
    <3>2. task[r].pc = "tailor"
      BY <1>1 DEF AnswerTailor
    <3>3. QED
      BY <3>1, <3>2, Tailors
  <2>3. QED
    BY <2>1, <2>2
<1>2. CASE AnswerTrim(r, out)
  <2>1. task[r].pc = "trim" /\ UNCHANGED rows
    BY <1>2 DEF AnswerTrim
  <2>2. CASE PageFitFails(r) /\ UNCHANGED <<disk, writer>>
    BY <2>1, <2>2, PublishesBase DEF PageFitFails
  <2>3. CASE ~(PageFitFails(r) /\ UNCHANGED <<disk, writer>>)
    <3>1. PICK text : /\ Tailored(r, text, task[r].v1, out, "v1_trimmed")
                      /\ WriteTex(r, "tailored_v1", text)
      BY <1>2, <2>3 DEF AnswerTrim
    <3>2. QED
      BY <2>1, <3>1, Tailors
  <2>4. QED
    BY <2>2, <2>3
<1>3. QED
  BY <1>1, <1>2

\* A text that is measured is what its author wrote, or somebody else's.
LEMMA OwnV1 ==
  ASSUME NEW r \in RunIds, Shapes, Progress(r), CompileV1(r)
  PROVE  Progress(r)'
<1> DEFINE v == "tailored_v1"
<1>1. /\ v \in Variants /\ "base" \in Variants /\ "base" # v
      /\ task[r].pc \in {"v1", "v1_trimmed"}
      /\ rows[r].status # "NONE" /\ UNCHANGED <<rows, writer>>
      /\ Shippable(r, "base", task[r].base) /\ Written(r, v, task[r].v1)
      /\ task[r].v2 = NoText
  BY DEF CompileV1, Variants, Progress, BaseIsThere, V1IsThere, V2IsThere
<1>2. /\ disk'[v].tex = disk[v].tex /\ disk'[v].pdf = disk[v].tex
      /\ disk[v].tex # NoText /\ disk'["base"] = disk["base"]
  BY <1>1, CompileIs DEF CompileV1
<1>3. ASSUME NEW pc \in {"review", "trim"}, Measured(r, pc)
      PROVE  /\ task'[r].pc = pc /\ task'[r].base = task[r].base
             /\ task'[r].v1 = task[r].v1 /\ task'[r].v2 = NoText
  BY <1>1, <1>3 DEF Measured, Shapes, Idle
<1>4. CASE Measured(r, "review") /\ PagesOf(v) <= PageLimit
  <2>1. Shippable(r, v, task[r].v1)'
    BY <1>1, <1>2, <1>3, <1>4 DEF Shippable, Written, PagesOf, Holds, Removed
  <2>2. QED
    BY <1>1, <1>2, <1>3, <1>4, <2>1
       DEF Progress, BaseIsThere, V1IsThere, V2IsThere, ChoiceIsThere, Shippable, Holds, Removed
<1>5. CASE Measured(r, "trim")
  BY <1>1, <1>2, <1>3, <1>5
     DEF Progress, BaseIsThere, V1IsThere, V2IsThere, ChoiceIsThere, Shippable, Holds, Removed
<1>6. CASE PageFitFails(r)
  BY <1>1, <1>2, <1>6, PublishesBase DEF PageFitFails
<1>7. QED
  BY <1>4, <1>5, <1>6 DEF CompileV1

LEMMA OwnReview ==
  ASSUME NEW r \in RunIds, Shapes, Progress(r), NEW verdict, AnswerReview(r, verdict)
  PROVE  Progress(r)'
<1>1. /\ task[r].pc = "review" /\ UNCHANGED <<rows, disk, writer>>
      /\ rows[r].status # "NONE" /\ task[r].v2 = NoText
      /\ Shippable(r, "base", task[r].base) /\ Shippable(r, "tailored_v1", task[r].v1)
  BY DEF AnswerReview, Progress, BaseIsThere, V1IsThere, V2IsThere
<1>2. CASE Go(r, "retailor")
  <2>1. task'[r].pc = "retailor" /\ task'[r].base = task[r].base /\ task'[r].v2 = NoText
    BY <1>1, <1>2 DEF Go, Shapes, Idle
  <2>2. QED
    BY <1>1, <2>1 DEF Progress, BaseIsThere, V1IsThere, V2IsThere, ChoiceIsThere, Shippable, Holds, Removed
<1>3. CASE Select(r, verdict, "tailored_v1") /\ verdict = "TAILORED"
  <2>1. Publish(r, verdict, "tailored_v1", "tailored_v1") /\ "tailored_v1" \in Variants
    BY <1>3 DEF Select, SelectFinal, Variants
  <2>2. QED
    BY <1>1, <1>3, <2>1, Publishes
<1>4. CASE Select(r, verdict, "tailored_v1") /\ verdict # "TAILORED"
  BY <1>1, <1>4, PublishesBase DEF Select, SelectFinal
<1>5. QED
  BY <1>2, <1>3, <1>4 DEF AnswerReview

LEMMA OwnRetailor ==
  ASSUME NEW r \in RunIds, Shapes, Progress(r), NEW out \in Outputs, AnswerRetailor(r, out)
  PROVE  Progress(r)'
<1>1. task[r].pc = "retailor" /\ UNCHANGED rows /\ rows[r].status # "NONE"
      /\ Shippable(r, "base", task[r].base)
  BY DEF AnswerRetailor, Progress, BaseIsThere
<1>2. CASE Select(r, "BASE", "tailored_v1") /\ UNCHANGED <<disk, writer>>
  BY <1>1, <1>2, PublishesBase DEF Select, SelectFinal
<1>3. CASE ~(Select(r, "BASE", "tailored_v1") /\ UNCHANGED <<disk, writer>>)
  <2>1. PICK text :
          /\ Retailored(r, text, out)
          /\ WriteTex(r, "tailored_v2", text)
    BY <1>3 DEF AnswerRetailor
  <2>2. /\ task'[r].pc = "v2" /\ task'[r].base = task[r].base
        /\ task'[r].v1 = NoText /\ task'[r].v2 = text
    BY <2>1 DEF Retailored, Shapes, Idle
  <2>3. /\ disk'["tailored_v2"].tex = text
        /\ writer'["base"] = writer["base"] /\ disk'["base"] = disk["base"]
    BY <2>1, WriteIs DEF Variants
  <2>4. QED
    BY <1>1, <2>2, <2>3
       DEF Progress, BaseIsThere, V1IsThere, V2IsThere, ChoiceIsThere, Written, Shippable, Holds, Removed
<1>4. QED
  BY <1>2, <1>3

LEMMA OwnV2 ==
  ASSUME NEW r \in RunIds, Shapes, Progress(r), CompileV2(r)
  PROVE  Progress(r)'
<1> DEFINE v == "tailored_v2"
<1>1. /\ v \in Variants /\ "base" \in Variants /\ "base" # v /\ task[r].pc = "v2"
      /\ rows[r].status # "NONE" /\ UNCHANGED <<rows, writer>>
      /\ Shippable(r, "base", task[r].base) /\ Written(r, v, task[r].v2)
      /\ task[r].v1 = NoText
  BY DEF CompileV2, Variants, Progress, BaseIsThere, V2IsThere
<1>2. /\ disk'[v].tex = disk[v].tex /\ disk'[v].pdf = disk[v].tex
      /\ disk[v].tex # NoText /\ disk'["base"] = disk["base"]
  BY <1>1, CompileIs DEF CompileV2
<1>3. CASE PagesOf(v) <= PageLimit /\ Measured(r, "three_way")
  <2>1. /\ task'[r].pc = "three_way" /\ task'[r].base = task[r].base
        /\ task'[r].v1 = NoText /\ task'[r].v2 = task[r].v2
    BY <1>1, <1>3 DEF Measured, Shapes, Idle
  <2>2. Shippable(r, v, task[r].v2)'
    BY <1>1, <1>2, <1>3, <2>1 DEF Shippable, Written, PagesOf, Holds, Removed
  <2>3. QED
    BY <1>1, <1>2, <2>1, <2>2
       DEF Progress, BaseIsThere, V1IsThere, V2IsThere, ChoiceIsThere, Shippable, Holds, Removed
<1>4. CASE Select(r, "BASE", "tailored_v1")
  BY <1>1, <1>2, <1>4, PublishesBase DEF Select, SelectFinal
<1>5. QED
  BY <1>3, <1>4 DEF CompileV2

\* What a better base has made of the first text is gone when the second wins.
LEMMA OwnThreeWay ==
  ASSUME NEW r \in RunIds, Shapes, Progress(r), NEW verdict, AnswerThreeWay(r, verdict)
  PROVE  Progress(r)'
<1>1. /\ task[r].pc = "three_way" /\ UNCHANGED <<rows, disk, writer>>
      /\ rows[r].status # "NONE" /\ task[r].v1 = NoText
      /\ Shippable(r, "tailored_v2", task[r].v2)
      /\ Select(r, verdict, "tailored_v2")
  BY DEF AnswerThreeWay, Progress, BaseIsThere, V2IsThere
<1>2. CASE verdict = "TAILORED"
  <2>1. Publish(r, verdict, "tailored_v2", "tailored_v2") /\ "tailored_v2" \in Variants
    BY <1>1, <1>2 DEF Select, SelectFinal, Variants
  <2>2. Shippable(r, "tailored_v2", IF verdict # "TAILORED" THEN task[r].base
                                    ELSE IF task[r].v2 # NoText THEN task[r].v2 ELSE task[r].v1)
    BY <1>1, <1>2
  <2>3. QED
    BY <1>1, <2>1, <2>2, Publishes
<1>3. CASE verdict # "TAILORED"
  BY <1>1, <1>3, PublishesBase DEF Select, SelectFinal
<1>4. QED
  BY <1>2, <1>3

LEMMA OwnEnd ==
  ASSUME NEW r \in RunIds, Shapes, Progress(r),
         InsertReviewRun(r) \/ RecordSuccess(r) \/ RecordFailure(r)
  PROVE  Progress(r)' /\ task'[r].pc \in {"record", "idle"}
<1>1. task'[r].pc \in {"record", "idle"} /\ task'[r].v2 = NoText
  <2>1. CASE InsertReviewRun(r)
    BY <2>1 DEF InsertReviewRun, Shapes, Idle
  <2>2. CASE RecordSuccess(r) \/ RecordFailure(r)
    BY <2>2 DEF RecordSuccess, RecordFailure, Shapes, Idle
  <2>3. QED
    BY <2>1, <2>2
<1>2. rows[r].status # "NONE"
  BY DEF InsertReviewRun, RecordSuccess, RecordFailure, Progress
<1>3. rows'[r].status # "NONE"
  BY <1>2 DEF InsertReviewRun, RecordSuccess, RecordFailure, Shapes
<1>4. QED
  BY <1>1, <1>3 DEF Progress, BaseIsThere, V1IsThere, V2IsThere, ChoiceIsThere

LEMMA OwnStep ==
  ASSUME NEW r \in RunIds, Shapes, Progress(r), Act(r)
  PROVE  Progress(r)'
BY OwnStart, OwnBase, OwnTailor, OwnV1, OwnReview, OwnRetailor, OwnV2, OwnThreeWay, OwnEnd
   DEF Act, PipelineStep, Answered

-----------------------------------------------------------------------------
(* What has been reviewed. *)

\* A run that has been reviewed writes no more.
LEMMA ReviewedRests ==
  ASSUME NEW r \in RunIds, Shapes, Act(r),
         task[r].pc \in {"record", "idle"}, rows[r].status # "NONE"
  PROVE  /\ UNCHANGED <<disk, writer, reviews>>
         /\ task'[r].pc \in {"record", "idle"}
<1>1. DeleteRun(r) \/ SweepRun(r) \/ RecordSuccess(r) \/ RecordFailure(r)
  <2>1. ~StartRun(r) /\ ~EnrichJobDescription(r) /\ ~WriteBase(r) /\ ~CompileBase(r)
        /\ ~CompileV1(r) /\ ~CompileV2(r) /\ ~InsertReviewRun(r)
    BY DEF StartRun, EnrichJobDescription, WriteBase, CompileBase, CompileV1, CompileV2,
           InsertReviewRun
  <2>2. ~Answered(r)
    <3>1. \A out : ~AnswerTailor(r, out) /\ ~AnswerTrim(r, out) /\ ~AnswerRetailor(r, out)
      BY DEF AnswerTailor, AnswerTrim, AnswerRetailor
    <3>2. \A verdict : ~AnswerReview(r, verdict) /\ ~AnswerThreeWay(r, verdict)
      BY DEF AnswerReview, AnswerThreeWay
    <3>3. QED
      BY <3>1, <3>2 DEF Answered
  <2>3. QED
    BY <2>1, <2>2 DEF Act, PipelineStep
<1>2. CASE DeleteRun(r) \/ SweepRun(r)
  BY <1>2 DEF DeleteRun, SweepRun
<1>3. CASE RecordSuccess(r) \/ RecordFailure(r)
  BY <1>3 DEF RecordSuccess, RecordFailure, Shapes, Idle
<1>4. QED
  BY <1>1, <1>2, <1>3

\* A review and its files, whoever takes the step.
LEMMA ReviewStays ==
  ASSUME NEW r \in RunIds, Shapes, Act(r) \/ Elsewhere(r), NEW v \in Variants, NEW text,
         task[r].pc \in {"record", "idle"}, rows[r].status # "NONE", Shippable(r, v, text)
  PROVE  /\ task'[r].pc \in {"record", "idle"} /\ rows'[r].status # "NONE"
         /\ Shippable(r, v, text)'
<1>1. CASE Act(r)
  <2>1. UNCHANGED <<disk, writer>> /\ (Removed(v) => Removed(v)')
    BY <1>1, ReviewedRests, RowsStay
  <2>2. QED
    BY <1>1, <2>1, ReviewedRests, RowShape DEF Shippable, Holds
<1>2. CASE Elsewhere(r)
  <2>1. task'[r] = task[r] /\ rows'[r] = rows[r]
    BY <1>2, TasksStay, RemovalIs DEF Elsewhere
  <2>2. writer'[v] = r =>
          /\ writer[v] = r
          /\ Removed(v) => Removed(v)'
          /\ disk'[v].tex = disk[v].tex \/ (disk'[v].tex = NoText /\ Removed(v)')
          /\ \/ disk'[v].pdf \in {disk[v].pdf, disk[v].tex}
             \/ disk'[v].pdf = NoText /\ Removed(v)'
    BY <1>2, FilesStay
  <2>3. QED
    BY <2>1, <2>2 DEF Shippable, Holds
<1>3. QED
  BY <1>1, <1>2

\* What is required of the k-th review.
ReviewIsThere(k) ==
  /\ reviews[k].run \in RunIds /\ reviews[k].selected \in Variants
  /\ task[reviews[k].run].pc \in {"record", "idle"}
  /\ rows[reviews[k].run].status # "NONE"
  /\ Shippable(reviews[k].run, reviews[k].selected, reviews[k].better)

\* A review that was there before the step.
LEMMA OldReview ==
  ASSUME IInv, NEW k \in DOMAIN reviews, reviews'[k] = reviews[k],
         Removal \/ \E q \in RunIds : Act(q)
  PROVE  ReviewIsThere(k)'
<1>1. PICK r \in RunIds, v \in Variants : r = reviews[k].run /\ v = reviews[k].selected
  BY DEF IInv, ReviewedIsThere
<1>2. PICK text : text = reviews[k].better
  OBVIOUS
<1>3. /\ task[r].pc \in {"record", "idle"} /\ rows[r].status # "NONE"
      /\ Shippable(r, v, text) /\ Shapes
  BY <1>1, <1>2 DEF IInv, ReviewedIsThere, Shippable, Holds, Removed
<1>4. Act(r) \/ Elsewhere(r)
  BY DEF Elsewhere
<1>5. /\ task'[r].pc \in {"record", "idle"} /\ rows'[r].status # "NONE"
      /\ Shippable(r, v, text)'
  BY <1>3, <1>4, ReviewStays
<1>6. r = reviews'[k].run /\ v = reviews'[k].selected /\ text = reviews'[k].better
  BY <1>1, <1>2
<1>7. QED
  BY <1>5, <1>6 DEF ReviewIsThere, Shippable, Holds, Removed

LEMMA StepReviewed ==
  ASSUME IInv, [Next]_vars
  PROVE  ReviewedIsThere'
<1>1. ASSUME NEW q \in RunIds, Act(q), NEW k \in DOMAIN reviews'
      PROVE  ReviewIsThere(k)'
  <2>1. CASE k \in DOMAIN reviews /\ reviews'[k] = reviews[k]
    BY <1>1, <2>1, OldReview
  <2>2. CASE ~(k \in DOMAIN reviews /\ reviews'[k] = reviews[k])
    <3> DEFINE e == [run |-> q, selected |-> task[q].selected, better |-> task[q].better]
    <3>1. InsertReviewRun(q)
      BY <1>1, <2>2, ReviewKinds
    <3>2. reviews' = Append(reviews, e) /\ IsSequence(reviews)
      BY <3>1 DEF InsertReviewRun, IInv, Shapes
    <3>3. reviews'[k] = e
      BY <1>1, <2>2, <3>2, AppendToSequence
    <3>4. Progress(q) /\ Shapes
      BY DEF IInv
    <3>5. task[q].pc = "publish" /\ UNCHANGED <<rows, disk, writer>>
          /\ task'[q].pc = "record"
      BY <3>1, <3>4 DEF InsertReviewRun, Shapes, Idle
    <3>6. task[q].selected \in Variants /\ rows[q].status # "NONE"
          /\ Shippable(q, task[q].selected, task[q].better)
      BY <3>4, <3>5 DEF Progress, ChoiceIsThere
    <3>7. QED
      BY <3>3, <3>5, <3>6 DEF ReviewIsThere, Shippable, Holds, Removed
  <2>3. QED
    BY <2>1, <2>2
<1>2. CASE UNCHANGED <<reviews, task, rows, disk, writer>>
  BY <1>2 DEF IInv, ReviewedIsThere, ReviewIsThere, Shippable, Holds, Removed
<1>3. ASSUME Removal, NEW k \in DOMAIN reviews'
      PROVE  ReviewIsThere(k)'
  <2>1. reviews' = reviews
    BY <1>3, RemovalIs DEF IInv
  <2>2. QED
    BY <1>3, <2>1, OldReview
<1>4. \/ Removal \/ \E q \in RunIds : Act(q)
      \/ UNCHANGED <<reviews, task, rows, disk, writer>>
  BY DEF Next, Act, Removal, UploadResume, vars
<1>5. CASE \A k \in DOMAIN reviews' : ReviewIsThere(k)'
  BY <1>5 DEF ReviewedIsThere, ReviewIsThere
<1>6. QED
  BY <1>1, <1>2, <1>3, <1>4, <1>5 DEF ReviewedIsThere

-----------------------------------------------------------------------------
(* The theorems. *)

LEMMA InitIInv == Init => IInv
<1> SUFFICES ASSUME Init PROVE IInv
  OBVIOUS
<1>1. \A r \in RunIds : task[r] = Idle /\ Idle.pc = "idle" /\ Idle.v2 = NoText
  BY DEF Init, Idle
<1>2. Shapes
  BY <1>1 DEF Init, Shapes, NoRow, IsSequence
<1>3. \A r \in RunIds : Progress(r)
  BY <1>1 DEF Progress, BaseIsThere, V1IsThere, V2IsThere, ChoiceIsThere
<1>4. ReviewedIsThere
  BY DEF Init, ReviewedIsThere
<1>5. QED
  BY <1>2, <1>3, <1>4 DEF IInv

LEMMA StepIInv == IInv /\ [Next]_vars => IInv'
<1> SUFFICES ASSUME IInv, [Next]_vars PROVE IInv'
  OBVIOUS
<1>1. Shapes' /\ ReviewedIsThere'
  BY StepShapes, StepReviewed DEF IInv
<1>2. ASSUME NEW r \in RunIds
      PROVE  Progress(r)'
  <2>1. Shapes /\ Progress(r)
    BY DEF IInv
  <2>2. ASSUME NEW q \in RunIds, Act(q)
        PROVE  Progress(r)'
    BY <2>1, <2>2, OwnStep, OthersStep DEF Elsewhere
  <2>3. CASE UNCHANGED <<task, rows, disk, writer>>
    BY <2>1, <2>3
       DEF Progress, BaseIsThere, V1IsThere, V2IsThere, ChoiceIsThere, Written, Shippable,
           Holds, Removed
  <2>4. CASE Removal
    BY <2>1, <2>4, OthersStep DEF Elsewhere
  <2>5. QED
    BY <2>2, <2>3, <2>4 DEF Next, Act, Removal, UploadResume, vars
<1>3. RunIds' = RunIds
  BY DEF RunIds
<1>4. QED
  BY <1>1, <1>2, <1>3 DEF IInv

\* The inductive invariant: what a run last wrote and still holds in memory is
\* in the directory, compiled and measured where it has got that far, and what
\* it chose stays there until another run writes the variant.
THEOREM Invariance == Spec => []IInv
BY InitIInv, StepIInv, PTL DEF Spec

\* What apply uploads for a review is the text its last verdict preferred,
\* whatever the model answered and the patcher made of it, however many runs
\* of the job interleave, unless another run has written the variant; and it is
\* there, unless a run was deleted whose row names the variant.
THEOREM PreferredIsShipped == Spec => []ShippedWasPreferred
<1>1. IInv => ShippedWasPreferred
  BY DEF IInv, ReviewedIsThere, Shippable, Holds, ShippedWasPreferred, Undisturbed
<1>2. QED
  BY <1>1, Invariance, PTL

\* ... and that text has one page, trimmed, second or base.
THEOREM ShippedFits == Spec => []ShippedFitsPage
<1>1. IInv => ShippedFitsPage
  BY DEF IInv, ReviewedIsThere, Shippable, Holds, ShippedFitsPage, Undisturbed
<1>2. QED
  BY <1>1, Invariance, PTL

-----------------------------------------------------------------------------
(* What the patcher makes of a text.  The texts a run works on are sequences *)
(* of tokens, so that the lemmas about patches apply to each answer.         *)

WithBase == {"base", "tailor", "v1", "v1_trimmed", "trim", "review", "retailor", "v2", "three_way"}
WithV1 == {"v1", "v1_trimmed", "trim"}

HasTexts(t) ==
  /\ t.pc \in WithBase => t.base \in Seq(Tokens)
  /\ t.pc \in WithV1 => t.v1 \in Seq(Tokens)

\* RewritesLand, of the state of one coroutine.
Landed(t) ==
  t.pc \in {"v1", "v1_trimmed", "v2"} /\ ~PilesUp(Manifest(t.source), t.asked) =>
    (IF t.pc = "v2" THEN t.v2 ELSE t.v1) =
      Woven(t.source, Manifest(t.source),
            Bodies(t.source, Manifest(t.source), t.asked))[Len(Manifest(t.source))]

Landing == Shapes /\ \A r \in RunIds : HasTexts(task[r]) /\ Landed(task[r])

LEMMA LandedIs == RewritesLand <=> \A r \in RunIds : Landed(task[r])
BY DEF RewritesLand, Landed, JustPatched, Patched

LEMMA OutputsAre ==
  ASSUME NEW out \in Outputs
  PROVE  out \in Seq(Answer)
<1>1. out \in Seq([bullet : Nat, text : Seq(STRING)])
  BY PipelineAssumption
<1>2. Len(out) \in Nat /\ out = [k \in 1 .. Len(out) |-> out[k]]
      /\ \A k \in 1 .. Len(out) : out[k] \in [bullet : Nat, text : Seq(STRING)]
  <2> DEFINE A == [bullet : Nat, text : Seq(STRING)]
  <2> HIDE DEF A
  <2>1. out \in Seq(A)
    BY <1>1 DEF A
  <2>2. Len(out) \in Nat /\ out = [k \in 1 .. Len(out) |-> out[k]]
        /\ \A k \in 1 .. Len(out) : out[k] \in A
    BY <2>1
  <2>3. QED
    BY <2>2 DEF A
<1>3. ASSUME NEW k \in 1 .. Len(out)
      PROVE  out[k] \in Answer
  <2>1. /\ out[k] = [bullet |-> out[k].bullet, text |-> out[k].text]
        /\ out[k].bullet \in Nat /\ out[k].text \in Seq(STRING)
    BY <1>2
  <2>2. out[k].text \in Seq(Tokens)
    BY <2>1, TextIs
  <2>3. QED
    BY <2>1, <2>2 DEF Answer
<1>4. [k \in 1 .. Len(out) |-> out[k]] \in Seq(Answer)
  BY <1>2, <1>3
<1>5. QED
  BY <1>2, <1>4

\* A call that is answered with patches which do not overlap.
LEMMA AnswerLands ==
  ASSUME NEW t, NEW source \in Seq(Tokens), NEW out \in Outputs,
         NEW text, text = ApplyPatches(source, Patches(Manifest(source), out)),
         ~Overlap(Patches(Manifest(source), out)),
         t.source = source, t.asked = out, (IF t.pc = "v2" THEN t.v2 ELSE t.v1) = text
  PROVE  text \in Seq(Tokens) /\ Landed(t)
<1>1. out \in Seq(Answer)
  BY OutputsAre
<1>2. /\ text \in Seq(Tokens)
      /\ ~PilesUp(Manifest(source), out) =>
           text = Woven(source, Manifest(source),
                        Bodies(source, Manifest(source), out))[Len(Manifest(source))]
  BY <1>1, PatchedIs
<1>3. QED
  BY <1>2 DEF Landed

\* Elsewhere a run has nothing to show yet, or no more.
LEMMA NothingToShow ==
  ASSUME NEW t
  PROVE  /\ t.pc \notin WithBase => HasTexts(t) /\ Landed(t)
         /\ t.pc \notin {"v1", "v1_trimmed", "v2"} => Landed(t)
BY DEF WithBase, WithV1, HasTexts, Landed

LEMMA LandsAtStart ==
  ASSUME NEW r \in RunIds, Landing,
         StartRun(r) \/ DeleteRun(r) \/ SweepRun(r) \/ EnrichJobDescription(r)
           \/ InsertReviewRun(r) \/ RecordSuccess(r) \/ RecordFailure(r)
  PROVE  HasTexts(task'[r]) /\ Landed(task'[r])
<1>1. CASE DeleteRun(r) \/ SweepRun(r)
  BY <1>1 DEF DeleteRun, SweepRun, Landing
<1>2. CASE ~(DeleteRun(r) \/ SweepRun(r))
  <2>1. task'[r].pc \in {"start", "load", "record", "idle"}
    <3>1. CASE InsertReviewRun(r)
      BY <3>1 DEF InsertReviewRun, Landing, Shapes, Idle
    <3>2. QED
      BY <1>2, <3>1 DEF StartRun, EnrichJobDescription, RecordSuccess, RecordFailure,
                        Go, Landing, Shapes, Idle
  <2>2. task'[r].pc \notin WithBase
    BY <2>1 DEF WithBase
  <2>3. QED
    BY <2>2, NothingToShow
<1>3. QED
  BY <1>1, <1>2

\* Steps that leave the texts alone, and those that publish a choice.
LEMMA LandsOnTheWay ==
  ASSUME NEW r \in RunIds, Landing, NEW pc,
         \/ Go(r, pc) \/ Measured(r, pc)
         \/ \E verdict, selected, artifact : Publish(r, verdict, selected, artifact),
         /\ pc \in {"tailor", "trim", "review", "retailor", "three_way"}
         /\ task[r].pc \in WithBase
         /\ pc = "trim" => task[r].pc \in WithV1
  PROVE  HasTexts(task'[r]) /\ Landed(task'[r])
<1>1. CASE Go(r, pc) \/ Measured(r, pc)
  <2>1. task'[r].pc = pc /\ task'[r].base = task[r].base /\ task'[r].v1 = task[r].v1
    <3>1. DOMAIN task = RunIds /\ DOMAIN task[r] = DOMAIN Idle
      BY DEF Landing, Shapes
    <3>2. QED
      BY <1>1, <3>1 DEF Go, Measured, Idle
  <2>2. task[r].base \in Seq(Tokens) /\ (pc = "trim" => task[r].v1 \in Seq(Tokens))
    BY DEF Landing, HasTexts
  <2>3. HasTexts(task'[r])
    BY <2>1, <2>2 DEF HasTexts, WithV1
  <2>4. QED
    BY <2>1, <2>3, NothingToShow
<1>2. ASSUME NEW verdict, NEW selected, NEW artifact,
             Publish(r, verdict, selected, artifact)
      PROVE  HasTexts(task'[r]) /\ Landed(task'[r])
  <2>1. task'[r].pc = "publish"
    BY <1>2, PublishIs DEF Landing
  <2>2. task'[r].pc \notin WithBase
    BY <2>1 DEF WithBase
  <2>3. QED
    BY <2>2, NothingToShow
<1>3. QED
  BY <1>1, <1>2

LEMMA LandsAtBase ==
  ASSUME NEW r \in RunIds, Landing, WriteBase(r) \/ CompileBase(r)
  PROVE  HasTexts(task'[r]) /\ Landed(task'[r])
<1>1. CASE WriteBase(r)
  <2>1. task'[r].pc = "base" /\ task'[r].base = resume
    BY <1>1 DEF WriteBase, Landing, Shapes, Idle
  <2>2. resume \in Seq(STRING)
    BY PipelineAssumption DEF Landing, Shapes
  <2>3. task'[r].base \in Seq(Tokens)
    BY <2>1, <2>2, TextIs
  <2>4. HasTexts(task'[r])
    BY <2>1, <2>3 DEF HasTexts, WithV1
  <2>5. QED
    BY <2>1, <2>4, NothingToShow
<1>2. CASE CompileBase(r)
  <2>1. Go(r, "tailor") /\ task[r].pc \in WithBase
    BY <1>2 DEF CompileBase, WithBase
  <2>2. QED
    BY <2>1, LandsOnTheWay
<1>3. QED
  BY <1>1, <1>2

LEMMA LandsOnCompiling ==
  ASSUME NEW r \in RunIds, Landing, CompileV1(r) \/ CompileV2(r)
  PROVE  HasTexts(task'[r]) /\ Landed(task'[r])
<1>1. task[r].pc \in WithBase
  BY DEF CompileV1, CompileV2, WithBase
<1>2. CASE CompileV1(r)
  <2>1. task[r].pc \in WithV1
    BY <1>2 DEF CompileV1, WithV1
  <2>2. \/ Measured(r, "review") \/ Measured(r, "trim")
        \/ \E verdict, selected, artifact : Publish(r, verdict, selected, artifact)
    BY <1>2 DEF CompileV1, PageFitFails
  <2>3. QED
    BY <1>1, <2>1, <2>2, LandsOnTheWay
<1>3. CASE CompileV2(r)
  <2>1. Measured(r, "three_way") \/ \E verdict, selected, artifact : Publish(r, verdict, selected, artifact)
    BY <1>3 DEF CompileV2, Select
  <2>2. QED
    BY <1>1, <2>1, LandsOnTheWay
<1>4. QED
  BY <1>2, <1>3

LEMMA LandsOnVerdicts ==
  ASSUME NEW r \in RunIds, Landing, NEW verdict,
         AnswerReview(r, verdict) \/ AnswerThreeWay(r, verdict)
  PROVE  HasTexts(task'[r]) /\ Landed(task'[r])
<1>1. task[r].pc \in WithBase
  BY DEF AnswerReview, AnswerThreeWay, WithBase
<1>2. Go(r, "retailor") \/ \E choice, selected, artifact : Publish(r, choice, selected, artifact)
  BY DEF AnswerReview, AnswerThreeWay, Select
<1>3. QED
  BY <1>1, <1>2, LandsOnTheWay

\* The tailor and the trim call.
LEMMA LandsOnTailoring ==
  ASSUME NEW r \in RunIds, Landing, NEW source \in Seq(Tokens), NEW out \in Outputs,
         NEW pc \in {"v1", "v1_trimmed"}, NEW text,
         text = ApplyPatches(source, Patches(Manifest(source), out)),
         ~Overlap(Patches(Manifest(source), out)),
         task[r].pc \in WithBase, Tailored(r, text, source, out, pc)
  PROVE  HasTexts(task'[r]) /\ Landed(task'[r])
<1> DEFINE t == task'[r]
<1>1. /\ t.pc = pc /\ t.base = task[r].base /\ t.v1 = text /\ t.source = source /\ t.asked = out
  BY DEF Tailored, Landing, Shapes, Idle
<1>2. task[r].base \in Seq(Tokens)
  BY DEF Landing, HasTexts
<1> HIDE DEF t
<1>3. text \in Seq(Tokens) /\ Landed(t)
  BY <1>1, AnswerLands
<1>4. HasTexts(t)
  BY <1>1, <1>2, <1>3 DEF HasTexts
<1>5. QED
  BY <1>3, <1>4 DEF t

LEMMA LandsOnAnswers ==
  ASSUME NEW r \in RunIds, Landing, NEW out \in Outputs,
         AnswerTailor(r, out) \/ AnswerTrim(r, out) \/ AnswerRetailor(r, out)
  PROVE  HasTexts(task'[r]) /\ Landed(task'[r])
<1>1. task[r].pc \in WithBase /\ task[r].base \in Seq(Tokens)
  BY DEF AnswerTailor, AnswerTrim, AnswerRetailor, WithBase, Landing, HasTexts
<1>2. ASSUME NEW verdict, NEW selected, NEW artifact,
             Publish(r, verdict, selected, artifact)
      PROVE  HasTexts(task'[r]) /\ Landed(task'[r])
  BY <1>1, <1>2, LandsOnTheWay
<1>3. CASE AnswerTailor(r, out)
  <2> DEFINE source == task[r].base
             patches == Patches(Manifest(source), out)
             text == ApplyPatches(source, patches)
  <2>1. ~Overlap(patches) /\ (ShipBase(r) \/ Tailored(r, text, source, out, "v1"))
    BY <1>3 DEF AnswerTailor
  <2>2. QED
    BY <1>1, <1>2, <2>1, LandsOnTailoring DEF ShipBase
<1>4. CASE AnswerTrim(r, out)
  <2> DEFINE source == task[r].v1
             patches == Patches(Manifest(source), out)
             text == ApplyPatches(source, patches)
  <2>1. ~Overlap(patches) /\ (PageFitFails(r) \/ Tailored(r, text, source, out, "v1_trimmed"))
    BY <1>4 DEF AnswerTrim, TrimManifest
  <2>2. source \in Seq(Tokens)
    BY <1>4 DEF AnswerTrim, Landing, HasTexts, WithV1
  <2>3. QED
    BY <1>1, <1>2, <2>1, <2>2, LandsOnTailoring DEF PageFitFails
<1>5. CASE AnswerRetailor(r, out)
  <2> DEFINE source == task[r].base
             patches == Patches(Manifest(source), out)
             text == ApplyPatches(source, patches)
             t == task'[r]
  <2>1. ~Overlap(patches) /\ (Select(r, "BASE", "tailored_v1") \/ Retailored(r, text, out))
    BY <1>5 DEF AnswerRetailor
  <2>2. CASE Retailored(r, text, out)
    <3> HIDE DEF text
    <3>1. t.pc = "v2" /\ t.base = source /\ t.v2 = text /\ t.source = source /\ t.asked = out
      BY <2>2 DEF Retailored, Landing, Shapes, Idle
    <3>2. HasTexts(t)
      BY <1>1, <3>1 DEF HasTexts, WithV1
    <3> HIDE DEF t
    <3>3. Landed(t)
      BY <1>1, <2>1, <3>1, AnswerLands DEF text
    <3>4. QED
      BY <3>2, <3>3 DEF t
  <2>3. CASE Select(r, "BASE", "tailored_v1")
    BY <1>2, <2>3 DEF Select
  <2>4. QED
    BY <2>1, <2>2, <2>3
<1>6. QED
  BY <1>3, <1>4, <1>5

LEMMA StepLanding == Landing /\ [Next]_vars => Landing'
<1> SUFFICES ASSUME Landing, [Next]_vars PROVE Landing'
  OBVIOUS
<1>1. Shapes /\ Shapes' /\ RunIds' = RunIds
  BY StepShapes DEF Landing, RunIds
<1>2. ASSUME NEW r \in RunIds
      PROVE  HasTexts(task'[r]) /\ Landed(task'[r])
  <2>1. ASSUME Act(r)
        PROVE  HasTexts(task'[r]) /\ Landed(task'[r])
    BY <2>1, LandsAtStart, LandsAtBase, LandsOnCompiling, LandsOnVerdicts, LandsOnAnswers
       DEF Act, PipelineStep, Answered
  <2>2. ASSUME NEW q \in RunIds, q # r, Act(q)
        PROVE  HasTexts(task'[r]) /\ Landed(task'[r])
    <3>1. task'[r] = task[r]
      BY <1>1, <2>2, TasksStay
    <3>2. QED
      BY <3>1 DEF Landing
  <2>3. CASE UNCHANGED task
    BY <2>3 DEF Landing
  <2>4. CASE Removal
    BY <1>1, <2>3, <2>4, RemovalIs
  <2>5. QED
    BY <2>1, <2>2, <2>3, <2>4 DEF Next, Act, Removal, UploadResume, vars
<1>3. QED
  BY <1>1, <1>2 DEF Landing

\* Whatever the calls answered, and on a text that has been patched before: the
\* bullets that were rewritten hold their rewrites and the others what they
\* held, and nothing else in the text has changed or moved.
THEOREM RewritesAreWhereTheyBelong == Spec => []RewritesLand
<1>1. Init => Landing
  <2> SUFFICES ASSUME Init PROVE Landing
    OBVIOUS
  <2>1. Shapes
    BY InitIInv DEF IInv
  <2>2. ASSUME NEW r \in RunIds
        PROVE  HasTexts(task[r]) /\ Landed(task[r])
    <3>1. task[r].pc \notin WithBase
      BY DEF Init, Idle, WithBase
    <3>2. QED
      BY <3>1, NothingToShow
  <2>3. QED
    BY <2>1, <2>2 DEF Landing
<1>2. Landing => RewritesLand
  BY LandedIs DEF Landing
<1>3. QED
  BY <1>1, <1>2, StepLanding, PTL DEF Spec

-----------------------------------------------------------------------------
(***************************************************************************)
(* The answer cache.  The file only grows at its end until a run wipes it, *)
(* and a lookup prefers the first exact entry: what was found stays found, *)
(* whoever saves what and wherever the writing breaks off.                 *)
(***************************************************************************)

-----------------------------------------------------------------------------
(* Looking up. *)

Filing == Companies \cup {Anyone}

\* The score of two questions.
LEMMA Scores ==
  ASSUME NEW q \in Questions, NEW p \in Questions
  PROVE  Ratio[q][p] \in 0 .. 100 /\ Ratio[q][q] = 100
BY CacheConstants

\* The nearest entries are entries; an exact one is as near as can be.
LEMMA NearIs ==
  ASSUME NEW cache \in Seq(Entry), NEW q \in Questions, NEW c
  PROVE  /\ Near(cache, q, c) \subseteq 1 .. Len(cache)
         /\ Exact(cache, q, c) \subseteq Near(cache, q, c)
         /\ \A i \in Near(cache, q, c) :
              /\ cache[i] \in Entry /\ cache[i].company = c
              /\ Ratio[q][cache[i].question] \in Threshold .. 100
         /\ \A i \in Exact(cache, q, c) : Ratio[q][cache[i].question] = 100
<1>1. DOMAIN cache = 1 .. Len(cache) /\ \A i \in DOMAIN cache : cache[i] \in Entry
  OBVIOUS
<1>2. ASSUME NEW i \in DOMAIN cache
      PROVE  Ratio[q][cache[i].question] \in 0 .. 100
  <2>1. cache[i].question \in Questions
    BY <1>1 DEF Entry
  <2>2. \A p \in Questions : Ratio[q][p] \in 0 .. 100
    BY Scores
  <2>3. QED
    BY <2>1, <2>2
<1>3. ASSUME NEW i \in Near(cache, q, c)
      PROVE  /\ i \in DOMAIN cache /\ cache[i].company = c
             /\ Ratio[q][cache[i].question] \in Threshold .. 100
  <2>1. i \in DOMAIN cache /\ cache[i].company = c
        /\ Ratio[q][cache[i].question] >= Threshold
    BY DEF Near, Filed
  <2>2. \A n \in 0 .. 100 : n >= Threshold => n \in Threshold .. 100
    BY DEF Threshold
  <2>3. QED
    BY <1>2, <2>1, <2>2
<1>4. ASSUME NEW i \in Exact(cache, q, c)
      PROVE  i \in Near(cache, q, c) /\ Ratio[q][cache[i].question] = 100
  <2>1. i \in Filed(cache, c) /\ cache[i].question = q
    BY DEF Exact
  <2>2. Ratio[q][cache[i].question] = 100
    BY <2>1, Scores
  <2>3. QED
    BY <2>1, <2>2 DEF Near, Threshold
<1>5. QED
  BY <1>1, <1>3, <1>4

\* Of scores, the higher one is closer to the whole.
LEMMA Closer ==
  ASSUME NEW a \in 0 .. 100, NEW b \in 0 .. 100, 100 - a <= 100 - b
  PROVE  b <= a /\ (b # a => b < a)
OBVIOUS

\* Among entries there is a first one of the highest score.
LEMMA NearestExists ==
  ASSUME NEW cache \in Seq(Entry), NEW q \in Questions, NEW c,
         Near(cache, q, c) # {}
  PROVE  \E i \in Near(cache, q, c) : \A k \in Near(cache, q, c) :
           \/ Ratio[q][cache[k].question] < Ratio[q][cache[i].question]
           \/ Ratio[q][cache[k].question] = Ratio[q][cache[i].question] /\ i <= k
<1> DEFINE near == Near(cache, q, c)
           short(i) == 100 - Ratio[q][cache[i].question]
           shorts == {short(i) : i \in near}
<1>1. /\ near \subseteq Nat
      /\ \A i \in near : Ratio[q][cache[i].question] \in 0 .. 100
  BY NearIs DEF Threshold
<1>2. shorts \in SUBSET Nat /\ shorts # {}
  <2>1. ASSUME NEW i \in near
        PROVE  short(i) \in Nat
    <3>1. Ratio[q][cache[i].question] \in 0 .. 100
      BY <1>1
    <3>2. \A n \in 0 .. 100 : 100 - n \in Nat
      OBVIOUS
    <3>3. QED
      BY <3>1, <3>2
  <2>2. QED
    BY <2>1
<1> HIDE DEF near
<1>3. PICK n \in shorts : \A m \in shorts : n <= m
  <2> HIDE DEF shorts
  <2>1. QED
    BY <1>2, LeastNat
<1> DEFINE top == {i \in near : short(i) = n}
<1>4. top \in SUBSET Nat /\ top # {}
  BY <1>1, <1>3
<1>5. PICK i \in top : \A k \in top : i <= k
  <2> HIDE DEF top
  <2>1. QED
    BY <1>4, LeastNat
<1>6. ASSUME NEW k \in near
      PROVE  \/ Ratio[q][cache[k].question] < Ratio[q][cache[i].question]
             \/ Ratio[q][cache[k].question] = Ratio[q][cache[i].question] /\ i <= k
  <2>1. n = short(i) /\ n <= short(k) /\ i \in near
    BY <1>3, <1>5, <1>6
  <2>2. short(k) = n => i <= k
    BY <1>5, <1>6
  <2>3. /\ Ratio[q][cache[k].question] \in 0 .. 100
        /\ Ratio[q][cache[i].question] \in 0 .. 100
        /\ 100 - Ratio[q][cache[i].question] <= 100 - Ratio[q][cache[k].question]
    BY <1>1, <1>6, <2>1
  <2>4. CASE Ratio[q][cache[k].question] = Ratio[q][cache[i].question]
    BY <2>1, <2>2, <2>4
  <2>5. CASE Ratio[q][cache[k].question] # Ratio[q][cache[i].question]
    BY <2>3, <2>5, Closer
  <2>6. QED
    BY <2>4, <2>5
<1>7. QED
  BY <1>5, <1>6 DEF near

\* What is picked is near, and is the first exact entry if there is one.
LEMMA BestIs ==
  ASSUME NEW cache \in Seq(Entry), NEW q \in Questions, NEW c,
         Near(cache, q, c) # {}
  PROVE  /\ Best(cache, q, c) \in Near(cache, q, c)
         /\ Exact(cache, q, c) # {} =>
              /\ Best(cache, q, c) \in Exact(cache, q, c)
              /\ \A k \in Exact(cache, q, c) : Best(cache, q, c) <= k
<1> DEFINE exact == Exact(cache, q, c)
<1>1. exact \in SUBSET Nat /\ exact \subseteq Near(cache, q, c)
  BY NearIs
<1>2. CASE exact # {}
  <2>1. \E i \in exact : \A k \in exact : i <= k
    <3> HIDE DEF exact
    <3>1. QED
      BY <1>1, <1>2, LeastNat
  <2>2. Best(cache, q, c) = CHOOSE i \in exact : \A k \in exact : i <= k
    BY <1>2 DEF Best
  <2>3. Best(cache, q, c) \in exact /\ \A k \in exact : Best(cache, q, c) <= k
    BY <2>1, <2>2
  <2>4. QED
    BY <1>1, <2>3
<1>3. CASE exact = {}
  BY <1>3, NearestExists DEF Best
<1>4. QED
  BY <1>2, <1>3

\* A hit is an entry, and an exact hit is the first exact entry.
LEMMA BestHitIs ==
  ASSUME NEW cache \in Seq(Entry), NEW q \in Questions, NEW c
  PROVE  /\ Near(cache, q, c) = {} => BestHit(cache, q, c) = Miss
         /\ Near(cache, q, c) # {} =>
              /\ BestHit(cache, q, c).score \in Threshold .. 100
              /\ \E i \in Near(cache, q, c) : BestHit(cache, q, c).answer = cache[i].answer
         /\ \A i \in Exact(cache, q, c) :
              (\A k \in Exact(cache, q, c) : i <= k) =>
                 BestHit(cache, q, c) = [score |-> 100, answer |-> cache[i].answer]
<1>1. CASE Near(cache, q, c) = {}
  <2>1. Exact(cache, q, c) = {}
    BY <1>1, NearIs
  <2>2. QED
    BY <1>1, <2>1 DEF BestHit
<1>2. CASE Near(cache, q, c) # {}
  <2> DEFINE i == Best(cache, q, c)
  <2>1. BestHit(cache, q, c) = [score |-> Ratio[q][cache[i].question],
                                answer |-> cache[i].answer]
    BY <1>2 DEF BestHit
  <2>2. i \in Near(cache, q, c)
    BY <1>2, BestIs
  <2>3. Ratio[q][cache[i].question] \in Threshold .. 100
    BY <2>2, NearIs
  <2>4. ASSUME NEW j \in Exact(cache, q, c), \A k \in Exact(cache, q, c) : j <= k
        PROVE  BestHit(cache, q, c) = [score |-> 100, answer |-> cache[j].answer]
    <3>1. i \in Exact(cache, q, c) /\ \A k \in Exact(cache, q, c) : i <= k
      BY <1>2, <2>4, BestIs
    <3>2. i = j
      <4>1. i <= j /\ j <= i /\ i \in Nat /\ j \in Nat
        BY <2>4, <3>1, NearIs
      <4>2. QED
        BY <4>1
    <3>3. Ratio[q][cache[j].question] = 100
      BY <2>4, NearIs
    <3>4. QED
      BY <2>1, <3>2, <3>3
  <2> HIDE DEF i
  <2>5. QED
    BY <1>2, <2>1, <2>2, <2>3, <2>4
<1>3. QED
  BY <1>1, <1>2

\* What a lookup for c gives.
Findable(cache, q, c) == Near(cache, q, c) \cup Near(cache, q, Anyone)

\* A lookup finds something when there is something near, and gives the answer
\* of such an entry.
LEMMA LookupIs ==
  ASSUME NEW cache \in Seq(Entry), NEW q \in Questions, NEW c
  PROVE  /\ Findable(cache, q, c) # {} =>
              Lookup(cache, q, c).score >= Threshold
         /\ Lookup(cache, q, c).score > 0 =>
              \E i \in Findable(cache, q, c) : Lookup(cache, q, c).answer = cache[i].answer
<1> DEFINE own == BestHit(cache, q, c)
           anonymized == BestHit(cache, q, Anyone)
<1>1. /\ own = Miss \/ own.score \in Threshold .. 100
      /\ anonymized = Miss \/ anonymized.score \in Threshold .. 100
  BY BestHitIs
<1>2. Miss.score = 0 /\ Threshold = 85
  BY DEF Miss, Threshold
<1>3. Lookup(cache, q, c) = IF c # Anyone /\ own.score >= anonymized.score THEN own ELSE anonymized
  BY DEF Lookup
<1>4. ASSUME Findable(cache, q, c) # {}
      PROVE  Lookup(cache, q, c).score >= Threshold
  <2>1. Near(cache, q, c) # {} => own.score \in Threshold .. 100
    BY BestHitIs
  <2>2. Near(cache, q, Anyone) # {} => anonymized.score \in Threshold .. 100
    BY BestHitIs
  <2> HIDE DEF own, anonymized
  <2>3. c = Anyone => own = anonymized
    BY DEF own, anonymized
  <2>4. own.score \in Nat /\ anonymized.score \in Nat
    BY <1>1, <1>2
  <2>5. own.score >= Threshold \/ anonymized.score >= Threshold
    BY <1>2, <1>4, <2>1, <2>2 DEF Findable
  <2>6. CASE c # Anyone /\ own.score >= anonymized.score
    BY <1>2, <1>3, <2>4, <2>5, <2>6
  <2>7. CASE ~(c # Anyone /\ own.score >= anonymized.score)
    <3>1. anonymized.score >= own.score
      BY <2>3, <2>4, <2>7
    <3>2. QED
      BY <1>2, <1>3, <2>4, <2>5, <2>7, <3>1
  <2>8. QED
    BY <2>6, <2>7
<1>5. ASSUME Lookup(cache, q, c).score > 0
      PROVE  \E i \in Findable(cache, q, c) : Lookup(cache, q, c).answer = cache[i].answer
  <2>1. own.score > 0 => \E i \in Near(cache, q, c) : own.answer = cache[i].answer
    BY <1>2, BestHitIs
  <2>2. anonymized.score > 0 =>
          \E i \in Near(cache, q, Anyone) : anonymized.answer = cache[i].answer
    BY <1>2, BestHitIs
  <2> HIDE DEF own, anonymized
  <2>3. QED
    BY <1>3, <1>5, <2>1, <2>2 DEF Findable
<1>6. QED
  BY <1>4, <1>5

-----------------------------------------------------------------------------
(* Seeding. *)

\* new is old with entries appended.
Extends(new, old) ==
  /\ new \in Seq(Entry) /\ Len(old) <= Len(new)
  /\ \A i \in 1 .. Len(old) : new[i] = old[i]

\* No entry gives one company's answer to another one.
EntriesOwn(cache) ==
  \A i \in DOMAIN cache : NamedIn[cache[i].answer] \in {cache[i].company, Anyone}

\* What can be found in a file can be found in a longer one; an exact entry
\* that is new stands behind the old ones.
LEMMA FindableGrows ==
  ASSUME NEW old \in Seq(Entry), NEW new, Extends(new, old), NEW q \in Questions, NEW c
  PROVE  /\ Near(old, q, c) \subseteq Near(new, q, c)
         /\ Findable(old, q, c) \subseteq Findable(new, q, c)
         /\ Exact(old, q, c) \subseteq Exact(new, q, c)
         /\ \A i \in Exact(new, q, c) : i \in Exact(old, q, c) \/ i > Len(old)
<1>1. /\ DOMAIN old = 1 .. Len(old) /\ DOMAIN new = 1 .. Len(new)
      /\ DOMAIN old \subseteq DOMAIN new
      /\ \A i \in DOMAIN old : new[i] = old[i]
  BY DEF Extends
<1>2. \A d : Near(old, q, d) \subseteq Near(new, q, d)
  BY <1>1 DEF Near, Filed
<1>3. Exact(old, q, c) \subseteq Exact(new, q, c)
  BY <1>1 DEF Exact, Filed
<1>4. ASSUME NEW i \in Exact(new, q, c), ~(i > Len(old))
      PROVE  i \in Exact(old, q, c)
  <2>1. i \in DOMAIN new /\ new[i].company = c /\ new[i].question = q
    BY <1>4 DEF Exact, Filed
  <2>2. i \in DOMAIN old
    BY <1>1, <1>4, <2>1
  <2>3. QED
    BY <1>1, <2>1, <2>2 DEF Exact, Filed
<1>5. QED
  BY <1>2, <1>3, <1>4 DEF Findable

\* Nothing is lost on the way from one file to a longer one.
LEMMA ExtendsTransits ==
  ASSUME NEW a \in Seq(Entry), NEW b, NEW c, Extends(b, a), Extends(c, b)
  PROVE  Extends(c, a)
BY DEF Extends

\* A field id stands for one question at most.
LEMMA QuestionOfIs ==
  ASSUME NEW deferred \in Seq(Deferred), NEW ref
  PROVE  /\ QuestionOf(deferred, ref) \subseteq Questions
         /\ \A p, q \in QuestionOf(deferred, ref) : p = q
<1> DEFINE found == {i \in DOMAIN deferred : deferred[i].ref = ref}
           last == {k \in found : \A l \in found : l <= k}
<1>1. QuestionOf(deferred, ref) = {deferred[i].question : i \in last}
  BY DEF QuestionOf
<1>2. \A i \in last : deferred[i].question \in Questions
  <2>1. \A i \in DOMAIN deferred : deferred[i] \in Deferred
    OBVIOUS
  <2>2. QED
    BY <2>1 DEF Deferred
<1>3. \A i, k \in last : i = k
  <2>1. found \subseteq Nat
    OBVIOUS
  <2> HIDE DEF found
  <2>2. QED
    BY <2>1
<1>4. QED
  BY <1>1, <1>2, <1>3

\* One answer: the file grows, stays free of foreign answers, and has
\* something for the question answered.
LEMMA AppendAnswerIs ==
  ASSUME NEW cache \in Seq(Entry), NEW c \in Companies,
         NEW deferred \in Seq(Deferred), NEW typed \in Typed
  PROVE  /\ Extends(AppendAnswer(cache, c, deferred, typed), cache)
         /\ EntriesOwn(cache) /\ NamedIn[typed.answer] \in {c, Anyone} =>
              EntriesOwn(AppendAnswer(cache, c, deferred, typed))
         /\ typed.answer # Blank =>
              \A q \in QuestionOf(deferred, typed.ref) \ Unlabelled :
                Findable(AppendAnswer(cache, c, deferred, typed), q, c) # {}
<1> DEFINE found == QuestionOf(deferred, typed.ref) \ Unlabelled
           q == CHOOSE x \in found : TRUE
           under == IF IsCompanySpecific(c, q, typed.answer) THEN c ELSE Anyone
           entry == [question |-> q, answer |-> typed.answer, company |-> under]
           new == AppendAnswer(cache, c, deferred, typed)
<1>1. new = IF \/ typed.answer = Blank
               \/ found = {}
               \/ AlreadyCached(cache, q, typed.answer, under)
            THEN cache ELSE Append(cache, entry)
  BY DEF AppendAnswer
<1>2. found \subseteq Questions /\ \A x \in found : x = q
  BY QuestionOfIs
<1>3. typed.answer \in Answers /\ under \in {c, Anyone}
  BY DEF Typed
<1> HIDE DEF new
<1>4. CASE typed.answer = Blank \/ found = {}
  <2>1. new = cache
    BY <1>1, <1>4
  <2>2. QED
    BY <1>4, <2>1 DEF Extends, new
<1>5. CASE typed.answer # Blank /\ found # {} /\ AlreadyCached(cache, q, typed.answer, under)
  <2>1. new = cache
    BY <1>1, <1>5
  <2>2. q \in Questions
    BY <1>2, <1>5
  <2>3. Lookup(cache, q, under).score = 100
    BY <1>5 DEF AlreadyCached
  <2>4. Findable(cache, q, under) # {}
    <3>1. Lookup(cache, q, under).score > 0
      BY <2>3
    <3> HIDE DEF under
    <3>2. QED
      BY <2>2, <3>1, LookupIs
  <2>5. Findable(cache, q, c) # {}
    BY <1>3, <2>4 DEF Findable
  <2>6. QED
    BY <1>2, <2>1, <2>5 DEF Extends, new
<1>6. CASE typed.answer # Blank /\ found # {} /\ ~AlreadyCached(cache, q, typed.answer, under)
  <2>1. q \in Questions /\ new = Append(cache, entry)
    BY <1>1, <1>2, <1>6
  <2>2. entry \in Entry
    BY <1>3, <2>1 DEF Entry
  <2> HIDE DEF entry
  <2>3. /\ new \in Seq(Entry) /\ Len(new) = Len(cache) + 1 /\ DOMAIN new = 1 .. (Len(cache) + 1)
        /\ \A i \in 1 .. Len(cache) : new[i] = cache[i]
        /\ new[Len(cache) + 1] = entry
    BY <2>1, <2>2
  <2>4. Extends(new, cache)
    BY <2>3 DEF Extends
  <2>5. ASSUME EntriesOwn(cache), NamedIn[typed.answer] \in {c, Anyone}
        PROVE  EntriesOwn(new)
    <3>1. NamedIn[entry.answer] \in {entry.company, Anyone}
      BY <2>5 DEF entry, IsCompanySpecific
    <3>2. ASSUME NEW i \in DOMAIN new
          PROVE  NamedIn[new[i].answer] \in {new[i].company, Anyone}
      <4>1. CASE i = Len(cache) + 1
        BY <2>3, <3>1, <4>1
      <4>2. CASE i # Len(cache) + 1
        <5>1. i \in DOMAIN cache
          BY <2>3, <3>2, <4>2
        <5>2. new[i] = cache[i]
          BY <2>3, <5>1
        <5>3. QED
          BY <2>5, <5>1, <5>2 DEF EntriesOwn
      <4>3. QED
        BY <4>1, <4>2
    <3>3. QED
      BY <3>2 DEF EntriesOwn
  <2>6. Findable(new, q, c) # {}
    <3>1. new[Len(cache) + 1].question = q /\ new[Len(cache) + 1].company = under
      BY <2>3 DEF entry
    <3>2. Len(cache) + 1 \in DOMAIN new
      BY <2>3
    <3>3. Ratio[q][q] >= Threshold
      BY <2>1, Scores DEF Threshold
    <3>4. Len(cache) + 1 \in Near(new, q, under)
      BY <3>1, <3>2, <3>3 DEF Near, Filed
    <3>5. QED
      BY <1>3, <3>4 DEF Findable
  <2>7. QED
    BY <1>2, <2>4, <2>5, <2>6 DEF new
<1>7. QED
  BY <1>4, <1>5, <1>6

\* The file before and after each of the answers.
IsSeeding(seeding, cache, c, deferred, answers) ==
  seeding = [n \in 0 .. Len(answers) |->
               IF n = 0 THEN cache
               ELSE AppendAnswer(seeding[n - 1], c, deferred, answers[n])]

\* The recursive function of SeedAnswers exists.
LEMMA SeedingIsBuilt ==
  ASSUME NEW cache, NEW c, NEW deferred, NEW answers, Len(answers) \in Nat
  PROVE  \E seeding :
           /\ IsSeeding(seeding, cache, c, deferred, answers)
           /\ SeedAnswers(cache, c, deferred, answers) = seeding[Len(answers)]
<1> DEFINE Step(f, n) == IF n = 0 THEN cache
                         ELSE AppendAnswer(f[n - 1], c, deferred, answers[n])
           Builds(f, m) == f = [n \in 0 .. m |-> Step(f, n)]
           Built == {m \in Nat : \E f : Builds(f, m)}
<1>1. 0 \in Built
  <2>1. Builds([n \in 0 .. 0 |-> cache], 0)
    OBVIOUS
  <2>2. QED
    BY <2>1
<1>2. ASSUME NEW m \in Built
      PROVE  m + 1 \in Built
  <2>1. PICK f : Builds(f, m)
    BY <1>2
  <2> DEFINE g == [n \in 0 .. (m + 1) |-> IF n = m + 1 THEN Step(f, m + 1) ELSE f[n]]
  <2>2. ASSUME NEW n \in 0 .. (m + 1)
        PROVE  g[n] = Step(g, n)
    <3>1. CASE n = m + 1
      BY <3>1
    <3>2. CASE n # m + 1
      <4>1. g[n] = f[n] /\ n \in 0 .. m
        BY <3>2
      <4>2. f[n] = Step(f, n)
        BY <2>1, <4>1
      <4>3. n # 0 => g[n - 1] = f[n - 1]
        BY <3>2
      <4>4. QED
        BY <4>1, <4>2, <4>3
    <3>3. QED
      BY <3>1, <3>2
  <2>3. Builds(g, m + 1)
    BY <2>2
  <2>4. m + 1 \in Nat
    OBVIOUS
  <2> HIDE DEF g, Builds
  <2>5. QED
    BY <2>3, <2>4
<1>3. Built = Nat
  <2> HIDE DEF Built
  <2>1. Built \in SUBSET Nat
    BY DEF Built
  <2>2. QED
    BY <1>1, <1>2, <2>1, Induct
<1>4. PICK f : Builds(f, Len(answers))
  <2>1. Len(answers) \in Built
    <3> HIDE DEF Built
    <3>1. QED
      BY <1>3
  <2> HIDE DEF Builds
  <2>2. QED
    BY <2>1
<1>5. QED
  BY <1>4 DEF SeedAnswers, IsSeeding

\* All the answers: what holds of one of them holds of all.
LEMMA SeedAnswersIs ==
  ASSUME NEW cache \in Seq(Entry), NEW c \in Companies,
         NEW deferred \in Seq(Deferred), NEW answers \in Seq(Typed)
  PROVE  /\ Extends(SeedAnswers(cache, c, deferred, answers), cache)
         /\ /\ EntriesOwn(cache)
            /\ \A k \in DOMAIN answers : NamedIn[answers[k].answer] \in {c, Anyone}
            => EntriesOwn(SeedAnswers(cache, c, deferred, answers))
         /\ \A q \in Labels(deferred, answers) :
              Findable(SeedAnswers(cache, c, deferred, answers), q, c) # {}
<1> DEFINE own == /\ EntriesOwn(cache)
                  /\ \A k \in DOMAIN answers : NamedIn[answers[k].answer] \in {c, Anyone}
           Found(file1, k) ==
             answers[k].answer # Blank =>
               \A q \in QuestionOf(deferred, answers[k].ref) \ Unlabelled :
                 Findable(file1, q, c) # {}
           Done(file1, n) == /\ Extends(file1, cache)
                             /\ own => EntriesOwn(file1)
                             /\ \A k \in 1 .. n : Found(file1, k)
<1>0. /\ Len(answers) \in Nat /\ DOMAIN answers = 1 .. Len(answers)
      /\ \A k \in DOMAIN answers : answers[k] \in Typed
  OBVIOUS
<1>1. PICK seeding :
        /\ IsSeeding(seeding, cache, c, deferred, answers)
        /\ SeedAnswers(cache, c, deferred, answers) = seeding[Len(answers)]
  BY <1>0, SeedingIsBuilt
<1> DEFINE Reached == {n \in Nat : n <= Len(answers) => Done(seeding[n], n)}
<1>2. 0 \in Reached
  <2>1. seeding[0] = cache
    BY <1>0, <1>1 DEF IsSeeding
  <2>2. Done(cache, 0)
    BY DEF Extends
  <2> HIDE DEF Done
  <2>3. QED
    BY <2>1, <2>2
<1>3. ASSUME NEW n \in Reached
      PROVE  n + 1 \in Reached
  <2> SUFFICES ASSUME n + 1 <= Len(answers)
               PROVE  Done(seeding[n + 1], n + 1)
    BY <1>3
  <2> DEFINE before == seeding[n]
             after == seeding[n + 1]
  <2>1. n \in Nat /\ n + 1 \in DOMAIN answers /\ answers[n + 1] \in Typed
    BY <1>0, <1>3
  <2>2. Done(before, n)
    BY <1>0, <1>3
  <2>3. after = AppendAnswer(before, c, deferred, answers[n + 1])
    <3>1. n + 1 \in 0 .. Len(answers) /\ n + 1 # 0 /\ (n + 1) - 1 = n
      BY <1>0, <2>1
    <3>2. QED
      BY <1>1, <3>1 DEF IsSeeding
  <2> HIDE DEF before, after
  <2>4. before \in Seq(Entry)
    BY <2>2 DEF Extends
  <2>5. /\ Extends(after, before)
        /\ EntriesOwn(before) /\ NamedIn[answers[n + 1].answer] \in {c, Anyone} =>
             EntriesOwn(after)
        /\ Found(after, n + 1)
    BY <2>1, <2>3, <2>4, AppendAnswerIs
  <2>6. Extends(after, cache)
    BY <2>2, <2>4, <2>5, ExtendsTransits
  <2>7. own => EntriesOwn(after)
    BY <2>1, <2>2, <2>5
  <2>8. ASSUME NEW k \in 1 .. n
        PROVE  Found(after, k)
    <3>1. Found(before, k)
      BY <2>2
    <3>2. \A q \in Questions : Findable(before, q, c) \subseteq Findable(after, q, c)
      BY <2>4, <2>5, FindableGrows
    <3>3. QuestionOf(deferred, answers[k].ref) \subseteq Questions
      BY QuestionOfIs
    <3>4. QED
      BY <3>1, <3>2, <3>3
  <2>9. \A k \in 1 .. (n + 1) : k \in 1 .. n \/ k = n + 1
    BY <2>1
  <2> HIDE DEF own, Found
  <2>10. Done(after, n + 1)
    BY <2>5, <2>6, <2>7, <2>8, <2>9
  <2>11. QED
    BY <2>10 DEF after
<1>4. Reached = Nat
  <2> HIDE DEF Reached
  <2>1. Reached \in SUBSET Nat
    BY DEF Reached
  <2>2. QED
    BY <1>2, <1>3, <2>1, Induct
<1>5. Done(seeding[Len(answers)], Len(answers))
  <2>1. Len(answers) \in Reached
    <3> HIDE DEF Reached
    <3>1. QED
      BY <1>0, <1>4
  <2> HIDE DEF Done
  <2>2. QED
    BY <1>0, <2>1
<1>6. ASSUME NEW q \in Labels(deferred, answers)
      PROVE  Findable(seeding[Len(answers)], q, c) # {}
  <2>1. PICK k \in DOMAIN answers :
          answers[k].answer # Blank /\ q \in QuestionOf(deferred, answers[k].ref) \ Unlabelled
    BY <1>6 DEF Labels
  <2>2. k \in 1 .. Len(answers)
    BY <1>0
  <2>3. QED
    BY <1>5, <2>1, <2>2
<1>7. QED
  BY <1>1, <1>5, <1>6

\* Once there is an exact entry, a longer file gives the same answer.
LEMMA HitStands ==
  ASSUME NEW old \in Seq(Entry), NEW new, Extends(new, old), NEW q \in Questions, NEW c,
         Exact(old, q, c) # {}
  PROVE  BestHit(new, q, c) = BestHit(old, q, c) /\ BestHit(old, q, c).score = 100
<1>0. new \in Seq(Entry)
  BY DEF Extends
<1>1. Exact(old, q, c) \in SUBSET (1 .. Len(old))
  BY NearIs
<1>2. PICK i \in Exact(old, q, c) : \A k \in Exact(old, q, c) : i <= k
  <2>1. Exact(old, q, c) \in SUBSET Nat
    BY <1>1
  <2>2. QED
    BY <2>1, LeastNat
<1>3. BestHit(old, q, c) = [score |-> 100, answer |-> old[i].answer]
  BY <1>2, BestHitIs
<1>4. i \in Exact(new, q, c)
  BY <1>2, FindableGrows
<1>5. ASSUME NEW k \in Exact(new, q, c)
      PROVE  i <= k
  <2>1. k \in Exact(old, q, c) \/ k > Len(old)
    BY FindableGrows
  <2>2. k \in Nat /\ i \in 1 .. Len(old) /\ Len(old) \in Nat
    BY <1>0, <1>1, <1>2, NearIs
  <2>3. QED
    BY <1>2, <2>1, <2>2
<1>6. BestHit(new, q, c) = [score |-> 100, answer |-> new[i].answer]
  BY <1>0, <1>4, <1>5, BestHitIs
<1>7. new[i] = old[i]
  BY <1>1, <1>2 DEF Extends
<1>8. QED
  BY <1>3, <1>6, <1>7

-----------------------------------------------------------------------------
(* The invariant. *)

\* An attempt and a request are for a company, and the reviewer names no other.
CompaniesKnown ==
  /\ \A w \in Attempts : attempt[w].pc # "idle" => attempt[w].company \in Companies
  /\ \A r \in Requests : request[r].pc = "saved" =>
       /\ request[r].company \in Companies
       /\ \A k \in DOMAIN request[r].answers :
            NamedIn[request[r].answers[k].answer] \in {request[r].company, Anyone}

\* Neither the file nor a copy of it has a foreign answer.
NothingForeign ==
  /\ EntriesOwn(file)
  /\ \A w \in Attempts : EntriesOwn(attempt[w].cache)

\* What has been cached for a company can be found in its entries or in those
\* filed under none.
SeededIsFindable ==
  ~wiped => \A s \in seeded : Findable(file, s[2], s[1]) # {}

CacheIInv ==
  /\ CacheTypeOK
  /\ CompaniesKnown
  /\ NothingForeign
  /\ SeededIsFindable

\* IdleAttempt attempts have read nothing, and idle requests saved nothing.
LEMMA IdleIs ==
  /\ IdleAttempt.pc = "idle" /\ IdleAttempt.cache = <<>> /\ EntriesOwn(IdleAttempt.cache)
  /\ IdleAttempt \in [pc : {"idle", "bootstrapping", "filling"}, company : Filing, cache : Seq(Entry)]
  /\ NoRequest.pc = "idle"
  /\ NoRequest \in [pc : {"idle", "saved"}, company : Filing,
                    deferred : Seq(Deferred), answers : Seq(Typed)]
<1>1. <<>> \in Seq(Entry) /\ <<>> \in Seq(Deferred) /\ <<>> \in Seq(Typed)
  OBVIOUS
<1>2. EntriesOwn(<<>>)
  BY DEF EntriesOwn
<1>3. QED
  BY <1>1, <1>2 DEF IdleAttempt, NoRequest, Filing

LEMMA InitInv == CacheInit => CacheIInv
<1> SUFFICES ASSUME CacheInit PROVE CacheIInv
  OBVIOUS
<1>1. CacheTypeOK
  <2>1. <<>> \in Seq(Entry) /\ <<>> \in Seq(Deferred)
    OBVIOUS
  <2>2. 0 \in 0 .. MaxSaves
    BY CacheConstants
  <2>3. QED
    BY <2>1, <2>2, IdleIs DEF CacheInit, CacheTypeOK, Filing
<1>2. CompaniesKnown
  BY IdleIs DEF CacheInit, CompaniesKnown
<1>3. NothingForeign
  <2>1. EntriesOwn(<<>>)
    BY DEF EntriesOwn
  <2>2. QED
    BY <2>1, IdleIs DEF CacheInit, NothingForeign
<1>4. SeededIsFindable
  BY DEF CacheInit, SeededIsFindable
<1>5. QED
  BY <1>1, <1>2, <1>3, <1>4 DEF CacheIInv

\* An attempt reads the file: its copy is as free of foreign answers.
LEMMA LoadStep ==
  ASSUME CacheIInv, NEW w \in Attempts, NEW c \in Companies, LoadAnswerCache(w, c)
  PROVE  CacheIInv'
<1> DEFINE a == [IdleAttempt EXCEPT !.pc = IF missing THEN "bootstrapping" ELSE "filling",
                             !.company = c, !.cache = file]
<1>1. /\ a \in [pc : {"idle", "bootstrapping", "filling"}, company : Filing, cache : Seq(Entry)]
      /\ a.company = c /\ a.cache = file
  BY DEF IdleAttempt, Filing, CacheIInv, CacheTypeOK
<1>2. /\ attempt' = [attempt EXCEPT ![w] = a]
      /\ UNCHANGED <<missing, file, handoff, request, saves, seeded, wiped>>
  BY DEF LoadAnswerCache
<1> HIDE DEF a
<1>3. \A v \in Attempts : attempt'[v] = IF v = w THEN a ELSE attempt[v]
  BY <1>2 DEF CacheIInv, CacheTypeOK
<1>4. CacheTypeOK'
  BY <1>1, <1>2 DEF CacheIInv, CacheTypeOK, Filing
<1>5. CompaniesKnown'
  BY <1>1, <1>2, <1>3 DEF CacheIInv, CompaniesKnown
<1>6. NothingForeign'
  BY <1>1, <1>2, <1>3 DEF CacheIInv, NothingForeign
<1>7. SeededIsFindable'
  BY <1>2 DEF CacheIInv, SeededIsFindable, Findable, Near, Filed
<1>8. QED
  BY <1>4, <1>5, <1>6, <1>7 DEF CacheIInv

\* An empty file is written over what there is: nothing was lost if there was
\* nothing.
LEMMA BootstrapStep ==
  ASSUME CacheIInv, NEW w \in Attempts, Bootstrap(w)
  PROVE  CacheIInv' /\ (~wiped' => Extends(file', file))
<1>1. /\ file' = <<>> /\ missing' = FALSE /\ wiped' = (wiped \/ file # <<>>)
      /\ attempt' = [attempt EXCEPT ![w].pc = "filling"]
      /\ UNCHANGED <<handoff, request, saves, seeded>>
      /\ attempt[w].pc = "bootstrapping"
  BY DEF Bootstrap
<1>2. \A v \in Attempts : /\ attempt'[v].company = attempt[v].company
                          /\ attempt'[v].cache = attempt[v].cache
                          /\ attempt'[v].pc # "idle" => attempt[v].pc # "idle"
  BY <1>1 DEF CacheIInv, CacheTypeOK
<1>3. <<>> \in Seq(Entry)
  OBVIOUS
<1>4. CacheTypeOK'
  <2>1. attempt' \in [Attempts -> [pc : {"idle", "bootstrapping", "filling"},
                                  company : Companies \cup {Anyone}, cache : Seq(Entry)]]
    <3> DEFINE Attempt == [pc : {"idle", "bootstrapping", "filling"},
                           company : Companies \cup {Anyone}, cache : Seq(Entry)]
               a == [attempt[w] EXCEPT !.pc = "filling"]
    <3>1. attempt \in [Attempts -> Attempt]
      BY DEF CacheIInv, CacheTypeOK
    <3>2. a \in Attempt
      BY <3>1
    <3>3. attempt' = [attempt EXCEPT ![w] = a]
      BY <1>1
    <3> HIDE DEF Attempt, a
    <3>4. attempt' \in [Attempts -> Attempt]
      BY <3>1, <3>2, <3>3
    <3>5. QED
      BY <3>4 DEF Attempt
  <2>2. missing' \in BOOLEAN /\ wiped' \in BOOLEAN
    BY <1>1
  <2>3. file' \in Seq(Entry)
    BY <1>1, <1>3
  <2>4. QED
    BY <1>1, <2>1, <2>2, <2>3 DEF CacheIInv, CacheTypeOK
<1>5. CompaniesKnown'
  BY <1>1, <1>2 DEF CacheIInv, CompaniesKnown
<1>6. NothingForeign'
  <2>1. EntriesOwn(<<>>)
    BY DEF EntriesOwn
  <2>2. QED
    BY <1>1, <1>2, <2>1 DEF CacheIInv, NothingForeign, EntriesOwn
<1>7. ~wiped' => ~wiped /\ file' = file
  BY <1>1
<1>8. SeededIsFindable'
  <2> SUFFICES ASSUME ~wiped'
               PROVE  \A s \in seeded' : Findable(file, s[2], s[1])' # {}
    BY DEF SeededIsFindable
  <2>1. ~wiped /\ file' = file /\ seeded' = seeded
    BY <1>1, <1>7
  <2>2. QED
    BY <2>1 DEF CacheIInv, SeededIsFindable, Findable, Near, Filed
<1>9. ~wiped' => Extends(file', file)
  <2>1. file \in Seq(Entry)
    BY DEF CacheIInv, CacheTypeOK
  <2>2. Extends(file, file)
    BY <2>1 DEF Extends
  <2>3. QED
    BY <1>7, <2>2
<1>10. QED
  BY <1>4, <1>5, <1>6, <1>8, <1>9 DEF CacheIInv

LEMMA RecordHandoffStep ==
  ASSUME CacheIInv, NEW w \in Attempts, NEW deferred \in DeferredFor(attempt[w].company),
         RecordHandoff(w, deferred)
  PROVE  CacheIInv'
<1>1. deferred \in Seq(Deferred)
  BY DEF DeferredFor, BoundedSeq, SeqOf
<1>2. /\ handoff' = [handoff EXCEPT ![attempt[w].company] = deferred]
      /\ attempt' = [attempt EXCEPT ![w] = IdleAttempt]
      /\ UNCHANGED <<missing, file, request, saves, seeded, wiped>>
  BY DEF RecordHandoff
<1>3. \A v \in Attempts : attempt'[v] = IF v = w THEN IdleAttempt ELSE attempt[v]
  BY <1>2 DEF CacheIInv, CacheTypeOK
<1>4. CacheTypeOK'
  BY <1>1, <1>2, IdleIs DEF CacheIInv, CacheTypeOK, Filing
<1>5. CompaniesKnown'
  BY <1>2, <1>3, IdleIs DEF CacheIInv, CompaniesKnown
<1>6. NothingForeign'
  BY <1>2, <1>3, IdleIs DEF CacheIInv, NothingForeign
<1>7. SeededIsFindable'
  BY <1>2 DEF CacheIInv, SeededIsFindable, Findable, Near, Filed
<1>8. QED
  BY <1>4, <1>5, <1>6, <1>7 DEF CacheIInv

\* What the dashboard posts names the application's company, or none.
LEMMA DraftsAre ==
  ASSUME CacheTypeOK, NEW c \in Companies, NEW answers \in Drafts(c)
  PROVE  /\ answers \in Seq(Typed)
         /\ \A k \in DOMAIN answers : NamedIn[answers[k].answer] \in {c, Anyone}
<1> DEFINE fields == handoff[c]
           refs == {fields[i].ref : i \in DOMAIN fields}
           ownAnswers == {a \in Answers : NamedIn[a] \in {c, Anyone}}
<1>1. /\ fields \in Seq(Deferred) /\ DOMAIN fields = 1 .. Len(fields) /\ Len(fields) \in Nat
      /\ \A i \in DOMAIN fields : fields[i] \in Deferred
  BY DEF CacheTypeOK
<1>2. PICK typed \in [refs -> ownAnswers] :
        answers = [i \in DOMAIN fields |-> [ref |-> fields[i].ref,
                                            answer |-> typed[fields[i].ref]]]
  BY DEF Drafts
<1>3. ASSUME NEW i \in DOMAIN fields
      PROVE  answers[i] \in Typed /\ NamedIn[answers[i].answer] \in {c, Anyone}
  <2>1. fields[i].ref \in Refs /\ fields[i].ref \in refs
    BY <1>1 DEF Deferred
  <2>2. typed[fields[i].ref] \in ownAnswers
    BY <1>2, <2>1
  <2>3. answers[i] = [ref |-> fields[i].ref, answer |-> typed[fields[i].ref]]
    BY <1>2
  <2> HIDE DEF fields, refs
  <2>4. QED
    BY <2>1, <2>2, <2>3 DEF Typed
<1>4. DOMAIN answers = 1 .. Len(fields)
  BY <1>1, <1>2
<1> HIDE DEF fields
<1>5. answers \in [1 .. Len(fields) -> Typed]
  <2>1. answers = [i \in DOMAIN answers |-> answers[i]]
    BY <1>2
  <2>2. QED
    BY <1>1, <1>3, <1>4, <2>1
<1>6. answers \in Seq(Typed)
  BY <1>1, <1>5
<1>7. QED
  BY <1>1, <1>3, <1>4, <1>6

LEMMA SaveAnswersStep ==
  ASSUME CacheIInv, NEW r \in Requests, NEW c \in Companies, NEW answers \in Drafts(c),
         SaveAnswers(r, c, answers)
  PROVE  CacheIInv'
<1> DEFINE q == [pc |-> "saved", company |-> c, deferred |-> handoff[c], answers |-> answers]
<1>1. answers \in Seq(Typed) /\ handoff[c] \in Seq(Deferred)
      /\ \A k \in DOMAIN answers : NamedIn[answers[k].answer] \in {c, Anyone}
  BY DraftsAre DEF CacheIInv, CacheTypeOK
<1>2. /\ request' = [request EXCEPT ![r] = q] /\ saves' = saves + 1 /\ saves < MaxSaves
      /\ UNCHANGED <<missing, file, attempt, handoff, seeded, wiped>>
  BY DEF SaveAnswers
<1>3. /\ q \in [pc : {"idle", "saved"}, company : Filing,
                deferred : Seq(Deferred), answers : Seq(Typed)]
      /\ q.company = c /\ q.answers = answers
  BY <1>1 DEF Filing
<1> HIDE DEF q
<1>4. \A k \in Requests : request'[k] = IF k = r THEN q ELSE request[k]
  BY <1>2 DEF CacheIInv, CacheTypeOK
<1>5. saves' \in 0 .. MaxSaves
  BY <1>2, CacheConstants DEF CacheIInv, CacheTypeOK
<1>6. CacheTypeOK'
  BY <1>2, <1>3, <1>5 DEF CacheIInv, CacheTypeOK, Filing
<1>7. CompaniesKnown'
  BY <1>1, <1>2, <1>3, <1>4 DEF CacheIInv, CompaniesKnown
<1>8. NothingForeign'
  BY <1>2 DEF CacheIInv, NothingForeign
<1>9. SeededIsFindable'
  BY <1>2 DEF CacheIInv, SeededIsFindable, Findable, Near, Filed
<1>10. QED
  BY <1>6, <1>7, <1>8, <1>9 DEF CacheIInv

\* Some of the answers of a request, or all of them, are appended.
LEMMA SeededStep ==
  ASSUME CacheIInv, NEW r \in Requests, request[r].pc = "saved", NEW answers \in Seq(Typed),
         \A k \in DOMAIN answers :
           NamedIn[answers[k].answer] \in {request[r].company, Anyone},
         Seeded(r, answers)
  PROVE  CacheIInv' /\ Extends(file', file)
<1> DEFINE c == request[r].company
           deferred == request[r].deferred
<1>1. file \in Seq(Entry) /\ c \in Companies /\ deferred \in Seq(Deferred)
      /\ EntriesOwn(file)
  BY DEF CacheIInv, CacheTypeOK, CompaniesKnown, NothingForeign
<1>2. /\ file' = SeedAnswers(file, c, deferred, answers) /\ missing' = FALSE
      /\ seeded' = seeded \cup {<<c, q>> : q \in Labels(deferred, answers)}
      /\ request' = [request EXCEPT ![r] = NoRequest]
      /\ UNCHANGED <<attempt, handoff, saves, wiped>>
  BY DEF Seeded
<1> HIDE DEF c, deferred
<1>3. /\ Extends(file', file) /\ EntriesOwn(file')
      /\ \A q \in Labels(deferred, answers) : Findable(file', q, c) # {}
  BY <1>1, <1>2, SeedAnswersIs DEF c
<1>4. Labels(deferred, answers) \subseteq Questions
  BY <1>1, QuestionOfIs DEF Labels
<1>5. \A k \in Requests : request'[k] = IF k = r THEN NoRequest ELSE request[k]
  BY <1>2 DEF CacheIInv, CacheTypeOK
<1>6. CacheTypeOK'
  <2>1. file' \in Seq(Entry) /\ seeded' \subseteq Companies \X Questions
    BY <1>1, <1>2, <1>3, <1>4 DEF CacheIInv, CacheTypeOK, Extends
  <2>2. QED
    BY <1>2, <2>1, IdleIs DEF CacheIInv, CacheTypeOK, Filing
<1>7. CompaniesKnown'
  BY <1>2, <1>5, IdleIs DEF CacheIInv, CompaniesKnown
<1>8. NothingForeign'
  BY <1>2, <1>3 DEF CacheIInv, NothingForeign
<1>9. SeededIsFindable'
  <2>1. ASSUME ~wiped, NEW s \in seeded
        PROVE  Findable(file', s[2], s[1]) # {}
    <3>1. s[2] \in Questions
      BY DEF CacheIInv, CacheTypeOK
    <3>2. Findable(file, s[2], s[1]) # {}
      BY <2>1 DEF CacheIInv, SeededIsFindable
    <3>3. QED
      BY <1>1, <1>3, <3>1, <3>2, FindableGrows
  <2>2. ASSUME NEW s \in {<<c, q>> : q \in Labels(deferred, answers)}
        PROVE  Findable(file', s[2], s[1]) # {}
    BY <1>3
  <2>3. QED
    BY <1>2, <2>1, <2>2 DEF SeededIsFindable, Findable, Near, Filed
<1>10. QED
  BY <1>3, <1>6, <1>7, <1>8, <1>9 DEF CacheIInv

\* Every step keeps the invariant, and the file grows unless it is wiped.
LEMMA StepInv ==
  ASSUME CacheIInv, [CacheNext]_cacheVars
  PROVE  CacheIInv' /\ (~wiped' => Extends(file', file))
<1>0. file \in Seq(Entry)
  BY DEF CacheIInv, CacheTypeOK
<1>1. file' = file => Extends(file', file)
  BY <1>0 DEF Extends
<1>2. CASE UNCHANGED cacheVars
  <2>1. CacheTypeOK' /\ CompaniesKnown' /\ NothingForeign'
    BY <1>2 DEF cacheVars, CacheIInv, CacheTypeOK, CompaniesKnown, NothingForeign
  <2>2. SeededIsFindable'
    BY <1>2 DEF cacheVars, CacheIInv, SeededIsFindable, Findable, Near, Filed
  <2>3. QED
    BY <1>1, <1>2, <2>1, <2>2 DEF cacheVars, CacheIInv
<1>3. ASSUME NEW w \in Attempts, Bootstrap(w)
      PROVE  CacheIInv' /\ (~wiped' => Extends(file', file))
  BY <1>3, BootstrapStep
<1>4. ASSUME NEW w \in Attempts, NEW c \in Companies, LoadAnswerCache(w, c)
      PROVE  CacheIInv' /\ (~wiped' => Extends(file', file))
  BY <1>1, <1>4, LoadStep DEF LoadAnswerCache
<1>5. ASSUME NEW w \in Attempts, NEW deferred \in DeferredFor(attempt[w].company),
             RecordHandoff(w, deferred)
      PROVE  CacheIInv' /\ (~wiped' => Extends(file', file))
  BY <1>1, <1>5, RecordHandoffStep DEF RecordHandoff
<1>6. ASSUME NEW r \in Requests, NEW c \in Companies, NEW answers \in Drafts(c),
             SaveAnswers(r, c, answers)
      PROVE  CacheIInv' /\ (~wiped' => Extends(file', file))
  BY <1>1, <1>6, SaveAnswersStep DEF SaveAnswers
<1>7. ASSUME NEW r \in Requests, SeedFromHandoff(r)
      PROVE  CacheIInv' /\ (~wiped' => Extends(file', file))
  <2>1. /\ request[r].pc = "saved" /\ request[r].answers \in Seq(Typed)
        /\ Seeded(r, request[r].answers)
        /\ \A k \in DOMAIN request[r].answers :
             NamedIn[request[r].answers[k].answer] \in {request[r].company, Anyone}
    BY <1>7 DEF SeedFromHandoff, CacheIInv, CacheTypeOK, CompaniesKnown
  <2>2. QED
    BY <2>1, SeededStep
<1>8. ASSUME NEW r \in Requests, SeedingFails(r)
      PROVE  CacheIInv' /\ (~wiped' => Extends(file', file))
  <2> DEFINE all == request[r].answers
  <2>1. PICK n \in 0 .. Len(all) - 1 : Seeded(r, SubSeq(all, 1, n))
    BY <1>8 DEF SeedingFails
  <2>2. /\ request[r].pc = "saved" /\ all \in Seq(Typed) /\ Len(all) \in Nat
        /\ \A k \in DOMAIN all : NamedIn[all[k].answer] \in {request[r].company, Anyone}
    BY <1>8 DEF SeedingFails, CacheIInv, CacheTypeOK, CompaniesKnown
  <2> DEFINE some == SubSeq(all, 1, n)
  <2>3. /\ some \in Seq(Typed) /\ DOMAIN some = 1 .. n
        /\ \A k \in 1 .. n : some[k] = all[k] /\ k \in DOMAIN all
    <3> HIDE DEF all
    <3>1. QED
      BY <2>1, <2>2
  <2> HIDE DEF some, all
  <2>4. \A k \in DOMAIN some : NamedIn[some[k].answer] \in {request[r].company, Anyone}
    BY <2>2, <2>3
  <2>5. Seeded(r, some)
    BY <2>1 DEF some
  <2>6. QED
    BY <2>2, <2>3, <2>4, <2>5, SeededStep
<1>9. QED
  BY <1>2, <1>3, <1>4, <1>5, <1>6, <1>7, <1>8 DEF CacheNext

\* The inductive invariant: no foreign answer is in the file or in a copy, and
\* what has been answered can be found until the file is wiped.
THEOREM CacheInvariance == CacheSpec => []CacheIInv
<1>1. CacheIInv /\ [CacheNext]_cacheVars => CacheIInv'
  BY StepInv
<1>2. QED
  BY <1>1, InitInv, PTL DEF CacheSpec

\* Files, copies, handoffs and requests keep their types.
THEOREM CacheTypeCorrect == CacheSpec => []CacheTypeOK
<1>1. CacheIInv => CacheTypeOK
  BY DEF CacheIInv
<1>2. QED
  BY <1>1, CacheInvariance, PTL

\* Whatever has been answered and cached for a company is found by the next
\* lookup, as long as no run has wiped the file: appended or cached before,
\* whole or broken off, under the company or under none.
THEOREM AnsweredOnce == CacheSpec => []AnsweredIsFound
<1>1. CacheIInv => AnsweredIsFound
  <2> SUFFICES ASSUME CacheIInv, ~wiped, NEW s \in seeded
               PROVE  Lookup(file, s[2], s[1]).score >= Threshold
    BY DEF AnsweredIsFound
  <2>1. s[2] \in Questions /\ file \in Seq(Entry)
    BY DEF CacheIInv, CacheTypeOK
  <2>2. Findable(file, s[2], s[1]) # {}
    BY DEF CacheIInv, SeededIsFindable
  <2>3. QED
    BY <2>1, <2>2, LookupIs
<1>2. QED
  BY <1>1, CacheInvariance, PTL

\* No form is filled in with an answer that names another company.
THEOREM FormsAreOwn == CacheSpec => []NoForeignAnswer
<1>1. CacheIInv => NoForeignAnswer
  <2> SUFFICES ASSUME CacheIInv, NEW w \in Attempts, attempt[w].pc = "filling",
                      NEW q \in Questions,
                      Lookup(attempt[w].cache, q, attempt[w].company).score > 0
               PROVE  NamedIn[Lookup(attempt[w].cache, q, attempt[w].company).answer]
                        \in {attempt[w].company, Anyone}
    BY DEF NoForeignAnswer
  <2> DEFINE cache == attempt[w].cache
             c == attempt[w].company
  <2>1. cache \in Seq(Entry) /\ EntriesOwn(cache)
    BY DEF CacheIInv, CacheTypeOK, NothingForeign
  <2> HIDE DEF cache, c
  <2>2. PICK i \in Findable(cache, q, c) : Lookup(cache, q, c).answer = cache[i].answer
    BY <2>1, LookupIs DEF cache, c
  <2>3. i \in DOMAIN cache /\ cache[i].company \in {c, Anyone}
    BY <2>2 DEF Findable, Near, Filed
  <2>4. NamedIn[cache[i].answer] \in {c, Anyone}
    BY <2>1, <2>3 DEF EntriesOwn
  <2>5. QED
    BY <2>2, <2>4 DEF cache, c
<1>2. QED
  BY <1>1, CacheInvariance, PTL

\* An answer to the question itself stays the one that is found, whoever saves
\* what, until the company's own entries have one that is near.
THEOREM AnswersStand == CacheSpec => AnswerStands
<1>1. CacheIInv /\ [CacheNext]_cacheVars =>
        \A c \in Companies, q \in Questions :
          /\ ~wiped'
          /\ \/ Exact(file, q, c) # {}
             \/ Exact(file, q, Anyone) # {} /\ Near(file', q, c) = {}
          => Lookup(file', q, c).answer = Lookup(file, q, c).answer
  <2> SUFFICES ASSUME CacheIInv, [CacheNext]_cacheVars, NEW c \in Companies, NEW q \in Questions, ~wiped',
                      \/ Exact(file, q, c) # {}
                      \/ Exact(file, q, Anyone) # {} /\ Near(file', q, c) = {}
               PROVE  Lookup(file', q, c).answer = Lookup(file, q, c).answer
    OBVIOUS
  <2>1. file \in Seq(Entry) /\ file' \in Seq(Entry) /\ Extends(file', file)
    BY StepInv DEF CacheIInv, CacheTypeOK
  <2>2. c # Anyone
    BY CacheConstants
  <2>3. CASE Exact(file, q, c) # {}
    <3>1. BestHit(file', q, c) = BestHit(file, q, c) /\ BestHit(file, q, c).score = 100
      BY <2>1, <2>3, HitStands
    <3>2. ASSUME NEW cache \in {file, file'}
          PROVE  100 >= BestHit(cache, q, Anyone).score
      <4>1. \/ BestHit(cache, q, Anyone) = Miss
            \/ BestHit(cache, q, Anyone).score \in Threshold .. 100
        BY <2>1, <3>2, BestHitIs
      <4>2. QED
        BY <4>1 DEF Miss, Threshold
    <3>3. /\ Lookup(file, q, c) = BestHit(file, q, c)
          /\ Lookup(file', q, c) = BestHit(file', q, c)
      BY <2>2, <3>1, <3>2 DEF Lookup
    <3>4. QED
      BY <3>1, <3>3
  <2>4. CASE Exact(file, q, Anyone) # {} /\ Near(file', q, c) = {}
    <3>1. /\ BestHit(file', q, Anyone) = BestHit(file, q, Anyone)
          /\ BestHit(file, q, Anyone).score = 100
      BY <2>1, <2>4, HitStands
    <3>2. Near(file, q, c) = {}
      BY <2>1, <2>4, FindableGrows
    <3>3. BestHit(file, q, c).score = 0 /\ BestHit(file', q, c).score = 0
      BY <2>1, <2>4, <3>2, BestHitIs DEF Miss
    <3>4. /\ Lookup(file, q, c) = BestHit(file, q, Anyone)
          /\ Lookup(file', q, c) = BestHit(file', q, Anyone)
      BY <3>1, <3>3 DEF Lookup
    <3>5. QED
      BY <3>1, <3>4
  <2>5. QED
    BY <2>3, <2>4
<1>2. QED
  BY <1>1, CacheInvariance, PTL DEF CacheSpec, AnswerStands

=============================================================================
