---------------------------- MODULE Digest_proofs -----------------------------
(***************************************************************************)
(* Proofs about Digest, for every number of subscribers, postings and      *)
(* requests side by side, and every bound.                                 *)
(*                                                                         *)
(* A copy of a posting that a subscriber has is recorded in digest_sends,  *)
(* about to be recorded by a request that has sent it, or lost.  Once it   *)
(* is recorded only the requests that had made up their mails before can   *)
(* send another, one each.                                                 *)
(***************************************************************************)
EXTENDS Digest, FiniteSetTheorems, TLAPS

-----------------------------------------------------------------------------
(* Type correctness. *)

Sender == [pc : {"idle", "listed", "sending", "sent"}, todo : [Ids -> Row],
           id : Ids \cup {0}, jobs : SUBSET Jobs, at : 0 .. MaxTime]

\* A request with a mail has the row it is for, and the losses are faults.
Mails ==
  /\ \A p \in Senders : sender[p].pc \in {"sending", "sent"} => sender[p].id \in Ids
  /\ losses <= faults

LEMMA RowTypes ==
  /\ NoRow \in Row
  /\ Idle \in Sender /\ Idle.pc = "idle" /\ Idle.todo \in [Ids -> Row]
  /\ NoHide \in [id : Ids \cup {0}, list : SUBSET Companies, company : Companies]
  /\ NoHide.id = 0
  /\ Closed \in [open : BOOLEAN, list : SUBSET Companies]
<1>1. NoRow \in Row
  BY ConstantsAssumption DEF NoRow, Row
<1>2. Idle \in Sender /\ Idle.pc = "idle" /\ Idle.todo \in [Ids -> Row]
  BY <1>1, ConstantsAssumption DEF Idle, Sender
<1>3. (CHOOSE c \in Companies : TRUE) \in Companies
  BY ConstantsAssumption
<1>4. QED
  BY <1>1, <1>2, <1>3 DEF NoHide, Closed

\* What a row may become.
LEMMA RowEdits ==
  ASSUME NEW rows \in [Ids -> Row], NEW i
  PROVE  /\ [rows EXCEPT ![i].confirmed = TRUE] \in [Ids -> Row]
         /\ \A t \in 0 .. MaxTime : [rows EXCEPT ![i].last = t] \in [Ids -> Row]
         /\ \A list \in SUBSET Companies :
              /\ [rows EXCEPT ![i].hidden = list] \in [Ids -> Row]
              /\ \A wants \in SUBSET Kinds :
                   [rows EXCEPT ![i].wants = wants, ![i].hidden = list] \in [Ids -> Row]
<1>1. CASE i \notin Ids
  BY <1>1
<1>2. CASE i \in Ids
  <2>1. rows[i] \in Row
    BY <1>2
  <2>2. [rows[i] EXCEPT !.confirmed = TRUE] \in Row
    BY <2>1 DEF Row
  <2>3. \A t \in 0 .. MaxTime : [rows[i] EXCEPT !.last = t] \in Row
    BY <2>1 DEF Row
  <2>4. \A list \in SUBSET Companies : [rows[i] EXCEPT !.hidden = list] \in Row
    BY <2>1 DEF Row
  <2>5. \A list \in SUBSET Companies, wants \in SUBSET Kinds :
          [rows[i] EXCEPT !.wants = wants, !.hidden = list] \in Row
    BY <2>1 DEF Row
  <2>6. QED
    BY <1>2, <2>2, <2>3, <2>4, <2>5
<1>3. QED
  BY <1>1, <1>2

LEMMA AfterType ==
  ASSUME NEW p \in Senders, NEW i \in Ids, sender[p] \in Sender
  PROVE  After(p, i) \in Sender /\ After(p, i).pc \in {"idle", "listed"}
<1>1. NoRow \in Row /\ Idle \in Sender /\ Idle.pc = "idle"
  BY RowTypes
<1>2. [sender[p].todo EXCEPT ![i] = NoRow] \in [Ids -> Row]
  BY <1>1 DEF Sender
<1>3. \A todo \in [Ids -> Row] :
        /\ [Idle EXCEPT !.pc = "listed", !.todo = todo] \in Sender
        /\ [Idle EXCEPT !.pc = "listed", !.todo = todo].pc = "listed"
  BY <1>1 DEF Sender
<1>4. QED
  BY <1>1, <1>2, <1>3 DEF After

LEMMA ArriveType ==
  ASSUME NEW p \in Senders, sender[p] \in Sender, inbox \in [Ids -> [Jobs -> Nat]],
         sender[p].id \in Ids, Arrive(p)
  PROVE  /\ inbox' \in [Ids -> [Jobs -> Nat]]
         /\ \A i \in Ids, j \in Jobs :
              inbox'[i][j] = IF i = sender[p].id /\ j \in sender[p].jobs
                             THEN inbox[i][j] + 1 ELSE inbox[i][j]
BY DEF Arrive

LEMMA InitTyped == Init => TypeOK /\ Mails
<1> SUFFICES ASSUME Init
             PROVE  TypeOK /\ Mails
  OBVIOUS
<1>1. 1 \in Times /\ 1 \in 1 .. MaxIds + 1 /\ 0 \in 0 .. MaxTime
      /\ 0 \in 0 .. MaxFaults /\ 0 \in 0 .. MaxVisits
  BY ConstantsAssumption DEF Times
<1>2. sender \in [Senders -> Sender]
  BY RowTypes DEF Init
<1>3. TypeOK
  BY <1>1, <1>2, RowTypes DEF Init, TypeOK, Sender
<1>4. Mails
  BY RowTypes DEF Init, Mails
<1>5. QED
  BY <1>3, <1>4

\* Steps that leave the requests to /send alone.
LEMMA PostingsTyped ==
  ASSUME TypeOK, Mails,
         \/ Tick
         \/ \E j \in Jobs : InsertJob(j) \/ GateSkips(j)
  PROVE  TypeOK' /\ Mails'
<1>1. CASE Tick
  <2>1. now' \in Times
    BY <1>1, ConstantsAssumption DEF Tick, TypeOK, Times
  <2>2. QED
    BY <1>1, <2>1 DEF Tick, TypeOK, Mails
<1>2. ASSUME NEW j \in Jobs, InsertJob(j)
      PROVE  TypeOK' /\ Mails'
  <2>1. now \in 0 .. MaxTime
    BY ConstantsAssumption DEF TypeOK, Times
  <2>2. QED
    BY <1>2, <2>1 DEF InsertJob, TypeOK, Mails
<1>3. ASSUME NEW j \in Jobs, GateSkips(j)
      PROVE  TypeOK' /\ Mails'
  BY <1>3 DEF GateSkips, TypeOK, Mails
<1>4. QED
  BY <1>1, <1>2, <1>3

\* Steps of subscribers: they leave the requests to /send alone too.
LEMMA ReaderTyped ==
  ASSUME TypeOK, Mails, Reader
  PROVE  TypeOK' /\ Mails'
<1> USE ConstantsAssumption
<1> USE DEF TypeOK, Mails
<1>1. NoRow \in Row /\ Closed \in [open : BOOLEAN, list : SUBSET Companies]
  BY RowTypes
<1>2. ASSUME NEW e \in Emails, NEW wants \in Wishes, Subscribe(e, wants)
      PROVE  TypeOK' /\ Mails'
  <2>1. [NoRow EXCEPT !.email = e, !.wants = wants] \in Row
    BY <1>1 DEF Row
  <2>2. sub' \in [Ids -> Row]
    BY <1>2, <2>1 DEF Subscribe
  <2>3. nextId' \in 1 .. MaxIds + 1
    BY <1>2 DEF Subscribe, Ids
  <2>4. linked' \subseteq Ids /\ faults' \in 0 .. MaxFaults /\ losses' <= faults'
    BY <1>2 DEF Subscribe, Fault
  <2>5. QED
    BY <1>2, <2>2, <2>3, <2>4 DEF Subscribe
<1>3. ASSUME NEW i \in Ids, Confirm(i)
      PROVE  TypeOK' /\ Mails'
  <2>1. sub' \in [Ids -> Row]
    BY <1>3, RowEdits DEF Confirm
  <2>2. QED
    BY <1>3, <2>1 DEF Confirm
<1>4. ASSUME NEW i \in Ids, OpenManagePage(i)
      PROVE  TypeOK' /\ Mails'
  <2>1. sub[i].hidden \in SUBSET Companies
    BY DEF Row
  <2>2. page' \in [Ids -> [open : BOOLEAN, list : SUBSET Companies]]
    BY <1>4, <2>1 DEF OpenManagePage
  <2>3. visits' \in 0 .. MaxVisits
    BY <1>4 DEF OpenManagePage
  <2>4. QED
    BY <1>4, <2>2, <2>3 DEF OpenManagePage
<1>5. ASSUME NEW i \in Ids, Unsubscribe(i)
      PROVE  TypeOK' /\ Mails'
  BY <1>1, <1>5 DEF Unsubscribe
<1>6. ASSUME NEW i \in Ids, NEW c \in Companies, HideRead(i, c)
      PROVE  TypeOK' /\ Mails'
  <2>1. sub[i].hidden \in SUBSET Companies
    BY DEF Row
  <2>2. hide' \in [id : Ids \cup {0}, list : SUBSET Companies, company : Companies]
    BY <1>6, <2>1 DEF HideRead
  <2>3. visits' \in 0 .. MaxVisits
    BY <1>6 DEF HideRead
  <2>4. QED
    BY <1>6, <2>2, <2>3 DEF HideRead
<1>7. ASSUME HideWrite
      PROVE  TypeOK' /\ Mails'
  <2>1. hide.list \cup {hide.company} \in SUBSET Companies
    OBVIOUS
  <2>2. sub' \in [Ids -> Row]
    BY <1>7, <2>1, RowEdits DEF HideWrite
  <2>3. hide' \in [id : Ids \cup {0}, list : SUBSET Companies, company : Companies]
    BY <1>7, RowTypes DEF HideWrite
  <2>4. QED
    BY <1>7, <2>2, <2>3 DEF HideWrite
<1>8. ASSUME NEW i \in Ids, NEW wants \in Wishes, NEW hidden \in Edits(i),
             UpdatePreferences(i, wants, hidden)
      PROVE  TypeOK' /\ Mails'
  <2>1. page[i].list \in SUBSET Companies
    OBVIOUS
  <2>2. hidden \in SUBSET Companies
    BY <2>1 DEF Edits
  <2>3. page' \in [Ids -> [open : BOOLEAN, list : SUBSET Companies]]
    BY <1>8, <2>2 DEF UpdatePreferences
  <2>4. sub' \in [Ids -> Row]
    BY <1>8, <2>2, RowEdits DEF UpdatePreferences
  <2>5. QED
    BY <1>8, <2>3, <2>4 DEF UpdatePreferences
<1>9. QED
  BY <1>2, <1>3, <1>4, <1>5, <1>6, <1>7, <1>8 DEF Reader

\* A request that starts, or is done with a subscriber who gets no mail.
LEMMA ListTyped ==
  ASSUME TypeOK, Mails, NEW p \in Senders,
         \/ FetchSubscribers(p)
         \/ \E i \in Ids : NothingToSend(p, i)
  PROVE  TypeOK' /\ Mails' /\ sender'[p].pc \in {"idle", "listed"}
<1> USE DEF TypeOK, Mails
<1>0. sender \in [Senders -> Sender]
  BY DEF Sender
<1>1. CASE FetchSubscribers(p)
  <2> DEFINE listed == [i \in Ids |-> IF sub[i].confirmed THEN sub[i] ELSE NoRow]
  <2>1. listed \in [Ids -> Row] /\ Idle \in Sender
    BY RowTypes
  <2> HIDE DEF listed
  <2>2. /\ [Idle EXCEPT !.pc = "listed", !.todo = listed] \in Sender
        /\ [Idle EXCEPT !.pc = "listed", !.todo = listed].pc = "listed"
    BY <2>1 DEF Sender
  <2>3. sender' = [sender EXCEPT ![p] = [Idle EXCEPT !.pc = "listed", !.todo = listed]]
    BY <1>1 DEF FetchSubscribers, listed
  <2>4. sender' \in [Senders -> Sender] /\ sender'[p].pc = "listed"
    BY <1>0, <2>2, <2>3
  <2>5. \A q \in Senders : sender'[q].pc \in {"sending", "sent"} => sender'[q].id \in Ids
    BY <1>0, <2>3, <2>4
  <2>6. QED
    BY <1>1, <2>4, <2>5 DEF FetchSubscribers, Sender
<1>2. ASSUME NEW i \in Ids, NothingToSend(p, i)
      PROVE  TypeOK' /\ Mails' /\ sender'[p].pc \in {"idle", "listed"}
  <2>1. After(p, i) \in Sender /\ After(p, i).pc \in {"idle", "listed"}
    BY <1>0, AfterType
  <2>2. sender' = [sender EXCEPT ![p] = After(p, i)]
    BY <1>2 DEF NothingToSend
  <2>3. sender' \in [Senders -> Sender] /\ sender'[p].pc \in {"idle", "listed"}
    BY <1>0, <2>1, <2>2
  <2>4. \A q \in Senders : sender'[q].pc \in {"sending", "sent"} => sender'[q].id \in Ids
    BY <1>0, <2>2, <2>3
  <2>5. QED
    BY <1>2, <2>3, <2>4 DEF NothingToSend, Sender
<1>3. QED
  BY <1>1, <1>2

LEMMA ProcessTyped ==
  ASSUME TypeOK, Mails, NEW p \in Senders, NEW i \in Ids, ProcessSubscriber(p, i)
  PROVE  /\ TypeOK' /\ Mails'
         /\ sender'[p].pc = "sending" /\ sender'[p].id = i
         /\ \A j \in sender'[p].jobs : <<i, j>> \notin sends
<1> USE DEF TypeOK, Mails
<1> DEFINE row == sender[p].todo[i]
           wanted == {j \in NewJobs(i, row) : Passes(row, j)}
<1>0. sender \in [Senders -> Sender]
  BY DEF Sender
<1>1. PICK picked \in Deduped(wanted) :
         sender' = [sender EXCEPT ![p].pc = "sending", ![p].id = i,
                                  ![p].jobs = picked, ![p].at = now]
  BY DEF ProcessSubscriber
<1>2. picked \subseteq Jobs /\ \A j \in picked : <<i, j>> \notin sends
  BY DEF Deduped, NewJobs
<1>3. now \in 0 .. MaxTime
  BY ConstantsAssumption DEF Times
<1>4. sender' \in [Senders -> Sender]
  <2>1. sender[p] \in Sender
    BY <1>0
  <2>2. [sender[p] EXCEPT !.pc = "sending", !.id = i, !.jobs = picked, !.at = now] \in Sender
    BY <1>2, <1>3, <2>1 DEF Sender
  <2>3. QED
    BY <1>0, <1>1, <2>2
<1>5. sender'[p].pc = "sending" /\ sender'[p].id = i /\ sender'[p].jobs = picked
  BY <1>0, <1>1 DEF Sender
<1>6. \A q \in Senders : sender'[q].pc \in {"sending", "sent"} => sender'[q].id \in Ids
  BY <1>0, <1>1, <1>5
<1>7. UNCHANGED <<now, fetched, filtered, sub, nextId, linked, sends, hide, page,
                  inbox, losses, visits, faults>>
  BY DEF ProcessSubscriber
<1>8. QED
  BY <1>2, <1>4, <1>5, <1>6, <1>7 DEF Sender

\* A request whose mail has gone out, has failed, or is recorded.
LEMMA MailTyped ==
  ASSUME TypeOK, Mails, NEW p \in Senders,
         \/ SendViaResend(p)
         \/ SendFails(p)
         \/ AnswerLost(p)
         \/ RecordDigestSends(p)
         \/ SenderDies(p)
  PROVE  TypeOK' /\ Mails'
<1> USE DEF TypeOK, Mails
<1>0. sender \in [Senders -> Sender]
  BY DEF Sender
<1>1. CASE SendViaResend(p)
  <2>1. [sender[p] EXCEPT !.pc = "sent"] \in Sender
    <3>1. sender[p] \in Sender
      BY <1>0
    <3>2. QED
      BY <3>1 DEF Sender
  <2>2. sender' \in [Senders -> Sender]
    BY <1>0, <1>1, <2>1 DEF SendViaResend
  <2>3. \A q \in Senders : sender'[q].pc \in {"sending", "sent"} => sender'[q].id \in Ids
    BY <1>0, <1>1 DEF SendViaResend, Sender
  <2>4. inbox' \in [Ids -> [Jobs -> Nat]]
    BY <1>0, <1>1, ArriveType DEF SendViaResend
  <2>5. QED
    BY <1>1, <2>2, <2>3, <2>4 DEF SendViaResend, Sender
<1>2. ASSUME \/ SendFails(p) \/ AnswerLost(p) \/ RecordDigestSends(p) \/ SenderDies(p)
      PROVE  /\ sender' \in [Senders -> Sender]
             /\ \A q \in Senders : sender'[q].pc \in {"sending", "sent"} => sender'[q].id \in Ids
  <2>1. PICK s \in Sender : /\ s.pc \in {"idle", "listed"}
                            /\ sender' = [sender EXCEPT ![p] = s]
    <3>1. CASE SenderDies(p)
      BY <3>1, RowTypes DEF SenderDies
    <3>2. CASE ~SenderDies(p)
      <4>1. sender[p].id \in Ids /\ sender[p] \in Sender
        BY <1>0, <1>2, <3>2 DEF SendFails, AnswerLost, RecordDigestSends
      <4>2. /\ After(p, sender[p].id) \in Sender
            /\ After(p, sender[p].id).pc \in {"idle", "listed"}
        BY <4>1, AfterType
      <4>3. QED
        BY <1>2, <3>2, <4>2 DEF SendFails, AnswerLost, RecordDigestSends
    <3>3. QED
      BY <3>1, <3>2
  <2>2. QED
    BY <1>0, <2>1
<1>3. CASE SendFails(p)
  <2>1. faults' \in 0 .. MaxFaults /\ losses <= faults'
    BY <1>3, ConstantsAssumption DEF SendFails, Fault
  <2>2. QED
    BY <1>2, <1>3, <2>1 DEF SendFails, Sender
<1>4. CASE AnswerLost(p)
  <2>1. faults' \in 0 .. MaxFaults /\ losses' \in 0 .. MaxFaults /\ losses' <= faults'
    BY <1>4, ConstantsAssumption DEF AnswerLost, Fault
  <2>2. inbox' \in [Ids -> [Jobs -> Nat]]
    BY <1>0, <1>4, ArriveType DEF AnswerLost
  <2>3. QED
    BY <1>2, <1>4, <2>1, <2>2 DEF AnswerLost, Sender
<1>5. CASE RecordDigestSends(p)
  <2>1. sender[p].id \in Ids /\ sender[p].jobs \subseteq Jobs /\ sender[p].at \in 0 .. MaxTime
    BY <1>5 DEF RecordDigestSends
  <2>2. sends' \subseteq Ids \X Jobs
    BY <1>5, <2>1 DEF RecordDigestSends
  <2>3. sub' \in [Ids -> Row]
    BY <1>5, <2>1, RowEdits DEF RecordDigestSends
  <2>4. QED
    BY <1>2, <1>5, <2>2, <2>3 DEF RecordDigestSends, Sender
<1>6. CASE SenderDies(p)
  <2>1. faults' \in 0 .. MaxFaults /\ losses' \in 0 .. MaxFaults /\ losses' <= faults'
    BY <1>6, ConstantsAssumption DEF SenderDies, Fault
  <2>2. QED
    BY <1>2, <1>6, <2>1 DEF SenderDies, Sender
<1>7. QED
  BY <1>1, <1>3, <1>4, <1>5, <1>6

LEMMA StepTyped ==
  ASSUME TypeOK, Mails, [Next]_vars
  PROVE  TypeOK' /\ Mails'
<1>1. CASE UNCHANGED vars
  BY <1>1 DEF vars, TypeOK, Mails
<1>2. ASSUME NEW p \in Senders, Sending(p)
      PROVE  TypeOK' /\ Mails'
  <2>1. ASSUME NEW i \in Ids, ProcessSubscriber(p, i)
        PROVE  TypeOK' /\ Mails'
    BY <2>1, ProcessTyped
  <2>2. QED
    BY <1>2, <2>1, ListTyped, MailTyped DEF Sending
<1>3. CASE Next
  BY <1>2, <1>3, PostingsTyped, ReaderTyped, MailTyped DEF Next
<1>4. QED
  BY <1>1, <1>3

\* The model keeps to its types, whatever its constants.
THEOREM TypeCorrect == Spec => []TypeOK
<1>1. TypeOK /\ Mails /\ [Next]_vars => (TypeOK /\ Mails)'
  BY StepTyped
<1>2. QED
  BY <1>1, InitTyped, PTL DEF Spec

-----------------------------------------------------------------------------
(* Copies. *)

\* The requests with a mail to row i that has job j: gone out, and not yet.
Sent(i, j) == {p \in Senders : /\ sender[p].pc = "sent" /\ sender[p].id = i
                               /\ j \in sender[p].jobs}
Unsent(i, j) == {p \in Senders : /\ sender[p].pc = "sending" /\ sender[p].id = i
                                 /\ j \in sender[p].jobs}

Explained(i, j) ==
  IF <<i, j>> \in sends
  THEN inbox[i][j] + Cardinality(Unsent(i, j)) <= Cardinality(Senders) + losses
  ELSE inbox[i][j] <= Cardinality(Sent(i, j)) + losses

IInv ==
  /\ TypeOK /\ Mails
  /\ \A i \in Ids, j \in Jobs : Explained(i, j)

\* Sets of requests, counted.
LEMMA Counted ==
  ASSUME NEW A \in SUBSET Senders, NEW B \in SUBSET Senders
  PROVE  /\ Cardinality(A) \in Nat /\ Cardinality(Senders) \in Nat
         /\ A \subseteq B => Cardinality(A) <= Cardinality(B)
         /\ A \cap B = {} => Cardinality(A) + Cardinality(B) <= Cardinality(Senders)
         /\ \A p \in B : A = B \ {p} => Cardinality(A) = Cardinality(B) - 1
<1>1. IsFiniteSet(Senders) /\ IsFiniteSet(A) /\ IsFiniteSet(B)
  BY ConstantsAssumption, FS_Subset
<1>2. Cardinality(A) \in Nat /\ Cardinality(B) \in Nat /\ Cardinality(Senders) \in Nat
  BY <1>1, FS_CardinalityType
<1>3. ASSUME A \subseteq B
      PROVE  Cardinality(A) <= Cardinality(B)
  BY <1>1, <1>3, FS_Subset
<1>4. ASSUME A \cap B = {}
      PROVE  Cardinality(A) + Cardinality(B) <= Cardinality(Senders)
  <2>1. Cardinality(A \cup B) = Cardinality(A) + Cardinality(B) - Cardinality(A \cap B)
    BY <1>1, FS_Union
  <2>2. Cardinality(A \cap B) = 0
    BY <1>4, FS_EmptySet
  <2>3. Cardinality(A \cup B) <= Cardinality(Senders)
    BY <1>1, FS_Subset
  <2>4. QED
    BY <1>2, <2>1, <2>2, <2>3
<1>5. ASSUME NEW p \in B, A = B \ {p}
      PROVE  Cardinality(A) = Cardinality(B) - 1
  BY <1>1, <1>5, FS_RemoveElement
<1>6. QED
  BY <1>2, <1>3, <1>4, <1>5

LEMMA InitExplained == Init => IInv
<1> SUFFICES ASSUME Init
             PROVE  IInv
  OBVIOUS
<1>1. TypeOK /\ Mails
  BY InitTyped
<1>2. ASSUME NEW i \in Ids, NEW j \in Jobs
      PROVE  Explained(i, j)
  <2>1. Cardinality(Sent(i, j)) \in Nat
    BY Counted DEF Sent
  <2>2. <<i, j>> \notin sends /\ inbox[i][j] = 0 /\ losses = 0
    BY DEF Init
  <2>3. QED
    BY <2>1, <2>2 DEF Explained
<1>3. QED
  BY <1>1, <1>2 DEF IInv

\* Steps that neither mail nor record anything, nor drop a mail that is out.
LEMMA QuietExplained ==
  ASSUME IInv, UNCHANGED <<inbox, sends, losses>>, NEW i \in Ids, NEW j \in Jobs,
         \A q \in Senders :
           \/ sender'[q] = sender[q]
           \/ /\ sender[q].pc # "sent" /\ sender'[q].pc # "sent"
              /\ q \in Unsent(i, j)' => <<i, j>> \notin sends
  PROVE  Explained(i, j)'
<1>1. Sent(i, j)' = Sent(i, j)
  BY DEF Sent
<1>2. Explained(i, j) /\ inbox[i][j] \in Nat /\ losses \in Nat
  BY DEF IInv, TypeOK
<1>3. CASE <<i, j>> \in sends
  <2>1. Unsent(i, j)' \subseteq Unsent(i, j)
    BY <1>3 DEF Unsent
  <2>2. /\ Unsent(i, j) \in SUBSET Senders /\ Unsent(i, j)' \in SUBSET Senders
    BY DEF Unsent
  <2> DEFINE U == Unsent(i, j)
             V == Unsent(i, j)'
  <2>3. /\ Cardinality(V) <= Cardinality(U)
        /\ Cardinality(V) \in Nat /\ Cardinality(U) \in Nat /\ Cardinality(Senders) \in Nat
    <3> HIDE DEF U, V
    <3> QED
      BY <2>1, <2>2, Counted DEF U, V
  <2>4. QED
    BY <1>2, <1>3, <2>3 DEF Explained
<1>4. CASE <<i, j>> \notin sends
  BY <1>1, <1>2, <1>4 DEF Explained
<1>5. QED
  BY <1>3, <1>4

\* The mail goes out: the request counts as sent, and there is one copy more.
LEMMA SendExplained ==
  ASSUME IInv, NEW p \in Senders, SendViaResend(p), NEW i \in Ids, NEW j \in Jobs
  PROVE  Explained(i, j)'
<1> DEFINE S == Sent(i, j)
           T == Sent(i, j)'
           U == Unsent(i, j)
           V == Unsent(i, j)'
<1>1. sender \in [Senders -> Sender] /\ inbox \in [Ids -> [Jobs -> Nat]] /\ losses \in Nat
  BY DEF IInv, TypeOK, Sender
<1>2. /\ sender[p] \in Sender /\ sender[p].id \in Ids /\ sender[p].pc = "sending"
      /\ Arrive(p) /\ UNCHANGED <<sends, losses>>
      /\ sender' = [sender EXCEPT ![p].pc = "sent"]
  BY <1>1 DEF SendViaResend, IInv, Mails
<1>3. Explained(i, j)
  BY DEF IInv
<1>4. /\ sender'[p].pc = "sent" /\ sender'[p].id = sender[p].id
      /\ sender'[p].jobs = sender[p].jobs
      /\ \A q \in Senders \ {p} : sender'[q] = sender[q]
  BY <1>1, <1>2 DEF Sender
<1>5. /\ S \in SUBSET Senders /\ T \in SUBSET Senders
      /\ U \in SUBSET Senders /\ V \in SUBSET Senders
  BY DEF Sent, Unsent
<1>6. CASE sender[p].id = i /\ j \in sender[p].jobs
  <2>1. inbox'[i][j] = inbox[i][j] + 1
    BY <1>1, <1>2, <1>6, ArriveType
  <2>2. p \in T /\ S = T \ {p} /\ p \in U /\ V = U \ {p}
    BY <1>2, <1>4, <1>6 DEF Sent, Unsent
  <2>3. /\ Cardinality(S) = Cardinality(T) - 1 /\ Cardinality(V) = Cardinality(U) - 1
        /\ Cardinality(S) \in Nat /\ Cardinality(T) \in Nat
        /\ Cardinality(U) \in Nat /\ Cardinality(V) \in Nat /\ Cardinality(Senders) \in Nat
    <3> HIDE DEF S, T, U, V
    <3> QED
      BY <1>5, <2>2, Counted
  <2>4. QED
    BY <1>1, <1>2, <1>3, <2>1, <2>3 DEF Explained
<1>7. CASE ~(sender[p].id = i /\ j \in sender[p].jobs)
  <2>1. inbox'[i][j] = inbox[i][j]
    BY <1>1, <1>2, <1>7, ArriveType
  <2>2. T = S /\ V = U
    BY <1>4, <1>7 DEF Sent, Unsent
  <2>3. QED
    BY <1>2, <1>3, <2>1, <2>2 DEF Explained
<1>8. QED
  BY <1>6, <1>7

\* The mail goes out and is not known to: one copy more, and one loss.
LEMMA LostExplained ==
  ASSUME IInv, NEW p \in Senders, AnswerLost(p), NEW i \in Ids, NEW j \in Jobs
  PROVE  Explained(i, j)'
<1> DEFINE S == Sent(i, j)
           T == Sent(i, j)'
           U == Unsent(i, j)
           V == Unsent(i, j)'
<1>1. sender \in [Senders -> Sender] /\ inbox \in [Ids -> [Jobs -> Nat]] /\ losses \in Nat
  BY DEF IInv, TypeOK, Sender
<1>2. /\ sender[p] \in Sender /\ sender[p].id \in Ids /\ sender[p].pc = "sending"
      /\ Arrive(p) /\ UNCHANGED sends /\ losses' = losses + 1
      /\ sender' = [sender EXCEPT ![p] = After(p, sender[p].id)]
  BY <1>1 DEF AnswerLost, IInv, Mails
<1>3. After(p, sender[p].id).pc \in {"idle", "listed"}
  BY <1>2, AfterType
<1>4. /\ sender'[p].pc \in {"idle", "listed"}
      /\ \A q \in Senders \ {p} : sender'[q] = sender[q]
  BY <1>1, <1>2, <1>3
<1>5. T = S /\ V \subseteq U
  BY <1>2, <1>4 DEF Sent, Unsent
<1>6. S \in SUBSET Senders /\ U \in SUBSET Senders /\ V \in SUBSET Senders
  BY DEF Sent, Unsent
<1>7. /\ Cardinality(V) <= Cardinality(U) /\ Cardinality(S) \in Nat
      /\ Cardinality(U) \in Nat /\ Cardinality(V) \in Nat /\ Cardinality(Senders) \in Nat
  <2> HIDE DEF S, U, V
  <2> QED
    BY <1>5, <1>6, Counted
<1>8. inbox'[i][j] \in {inbox[i][j], inbox[i][j] + 1} /\ inbox[i][j] \in Nat
  BY <1>1, <1>2, ArriveType
<1>9. Explained(i, j)
  BY DEF IInv
<1>10. QED
  BY <1>1, <1>2, <1>5, <1>7, <1>8, <1>9 DEF Explained

\* The mail is recorded: who has not sent by now is not among those who have.
LEMMA RecordExplained ==
  ASSUME IInv, NEW p \in Senders, RecordDigestSends(p), NEW i \in Ids, NEW j \in Jobs
  PROVE  Explained(i, j)'
<1> DEFINE S == Sent(i, j)
           T == Sent(i, j)'
           U == Unsent(i, j)
           V == Unsent(i, j)'
<1>1. sender \in [Senders -> Sender] /\ inbox \in [Ids -> [Jobs -> Nat]] /\ losses \in Nat
  BY DEF IInv, TypeOK, Sender
<1>2. /\ sender[p] \in Sender /\ sender[p].id \in Ids /\ sender[p].pc = "sent"
      /\ UNCHANGED <<inbox, losses>>
      /\ sends' = sends \cup {<<sender[p].id, k>> : k \in sender[p].jobs}
      /\ sender' = [sender EXCEPT ![p] = After(p, sender[p].id)]
  BY <1>1 DEF RecordDigestSends, IInv, Mails
<1>3. After(p, sender[p].id).pc \in {"idle", "listed"}
  BY <1>2, AfterType
<1>4. /\ sender'[p].pc \in {"idle", "listed"}
      /\ \A q \in Senders \ {p} : sender'[q] = sender[q]
  BY <1>1, <1>2, <1>3
<1>5. V = U
  BY <1>2, <1>4 DEF Unsent
<1>6. S \in SUBSET Senders /\ U \in SUBSET Senders /\ S \cap U = {}
  BY DEF Sent, Unsent
<1>7. /\ Cardinality(S) + Cardinality(U) <= Cardinality(Senders)
      /\ Cardinality(S) \in Nat /\ Cardinality(U) \in Nat /\ Cardinality(Senders) \in Nat
  <2> HIDE DEF S, U
  <2> QED
    BY <1>6, Counted
<1>8. Explained(i, j) /\ inbox[i][j] \in Nat
  BY <1>1 DEF IInv
<1>9. CASE <<i, j>> \in sends
  BY <1>2, <1>5, <1>8, <1>9 DEF Explained
<1>10. CASE <<i, j>> \in sends' /\ <<i, j>> \notin sends
  BY <1>1, <1>2, <1>5, <1>7, <1>8, <1>10 DEF Explained
<1>11. CASE <<i, j>> \notin sends'
  <2>1. ~(sender[p].id = i /\ j \in sender[p].jobs) /\ <<i, j>> \notin sends
    BY <1>2, <1>11
  <2>2. T = S
    BY <1>4, <2>1 DEF Sent
  <2>3. QED
    BY <1>2, <1>8, <1>11, <2>1, <2>2 DEF Explained
<1>12. QED
  BY <1>2, <1>9, <1>10, <1>11

\* A request that dies with a mail out is one loss.
LEMMA DeathExplained ==
  ASSUME IInv, NEW p \in Senders, SenderDies(p), NEW i \in Ids, NEW j \in Jobs
  PROVE  Explained(i, j)'
<1> DEFINE S == Sent(i, j)
           T == Sent(i, j)'
           U == Unsent(i, j)
           V == Unsent(i, j)'
<1>1. sender \in [Senders -> Sender] /\ inbox \in [Ids -> [Jobs -> Nat]] /\ losses \in Nat
  BY DEF IInv, TypeOK, Sender
<1>2. /\ UNCHANGED <<inbox, sends>> /\ losses' \in Nat /\ losses' >= losses
      /\ sender[p].pc = "sent" => losses' = losses + 1
      /\ sender' = [sender EXCEPT ![p] = Idle]
  BY <1>1 DEF SenderDies
<1>3. sender'[p].pc = "idle" /\ \A q \in Senders \ {p} : sender'[q] = sender[q]
  BY <1>1, <1>2, RowTypes
<1>4. T = S \ {p} /\ (p \in S => sender[p].pc = "sent") /\ V \subseteq U
  BY <1>3 DEF Sent, Unsent
<1>5. /\ S \in SUBSET Senders /\ T \in SUBSET Senders
      /\ U \in SUBSET Senders /\ V \in SUBSET Senders
  BY DEF Sent, Unsent
<1>6. /\ Cardinality(V) <= Cardinality(U)
      /\ p \in S => Cardinality(T) = Cardinality(S) - 1
      /\ p \notin S => Cardinality(T) = Cardinality(S)
      /\ Cardinality(S) \in Nat /\ Cardinality(T) \in Nat
      /\ Cardinality(U) \in Nat /\ Cardinality(V) \in Nat /\ Cardinality(Senders) \in Nat
  <2> HIDE DEF S, T, U, V
  <2>1. p \notin S => T = S
    BY <1>4
  <2>2. QED
    BY <1>4, <1>5, <2>1, Counted
<1>7. Explained(i, j) /\ inbox[i][j] \in Nat
  BY <1>1 DEF IInv
<1>8. Cardinality(S) + losses <= Cardinality(T) + losses'
  BY <1>1, <1>2, <1>4, <1>6
<1>9. QED
  <2> HIDE DEF S, T, U, V
  <2>1. /\ <<i, j>> \in sends => inbox[i][j] + Cardinality(U) <= Cardinality(Senders) + losses
        /\ <<i, j>> \notin sends => inbox[i][j] <= Cardinality(S) + losses
    BY <1>7 DEF Explained, S, U
  <2>2. /\ <<i, j>> \in sends => inbox[i][j] + Cardinality(V) <= Cardinality(Senders) + losses'
        /\ <<i, j>> \notin sends => inbox[i][j] <= Cardinality(T) + losses'
    BY <1>1, <1>2, <1>6, <1>7, <1>8, <2>1
  <2>3. QED
    BY <1>2, <2>2 DEF Explained, T, V

LEMMA StepExplained ==
  ASSUME IInv, [Next]_vars
  PROVE  IInv'
<1>1. TypeOK' /\ Mails' /\ TypeOK /\ Mails
  BY StepTyped DEF IInv
<1>2. sender \in [Senders -> Sender]
  BY <1>1 DEF TypeOK, Sender
<1>3. ASSUME NEW i \in Ids, NEW j \in Jobs
      PROVE  Explained(i, j)'
  <2>1. CASE UNCHANGED <<sender, inbox, sends, losses>>
    BY <2>1, QuietExplained
  <2>2. ASSUME Reader \/ Tick \/ (\E k \in Jobs : InsertJob(k) \/ GateSkips(k)) \/ UNCHANGED vars
        PROVE  UNCHANGED <<sender, inbox, sends, losses>>
    BY <2>2 DEF Reader, Subscribe, HideWrite, Confirm, OpenManagePage, Unsubscribe, HideRead,
                UpdatePreferences, Tick, InsertJob, GateSkips, vars
  <2>3. ASSUME NEW p \in Senders,
               FetchSubscribers(p) \/ (\E k \in Ids : NothingToSend(p, k)) \/ SendFails(p)
        PROVE  Explained(i, j)'
    <3>1. /\ sender[p].pc # "sent" /\ UNCHANGED <<inbox, sends, losses>>
          /\ \A q \in Senders \ {p} : sender'[q] = sender[q]
      BY <1>2, <2>3 DEF FetchSubscribers, NothingToSend, SendFails
    <3>2. sender'[p].pc \in {"idle", "listed"}
      <4>1. CASE SendFails(p)
        <5>1. sender[p].id \in Ids /\ sender[p] \in Sender
          BY <1>1, <1>2, <4>1 DEF SendFails, Mails
        <5>2. QED
          BY <1>2, <4>1, <5>1, AfterType DEF SendFails
      <4>2. QED
        BY <1>1, <2>3, <4>1, ListTyped
    <3>3. p \notin Unsent(i, j)'
      BY <3>2 DEF Unsent
    <3>4. QED
      BY <3>1, <3>2, <3>3, QuietExplained
  <2>4. ASSUME NEW p \in Senders, NEW k \in Ids, ProcessSubscriber(p, k)
        PROVE  Explained(i, j)'
    <3>1. /\ sender[p].pc # "sent" /\ UNCHANGED <<inbox, sends, losses>>
          /\ \A q \in Senders \ {p} : sender'[q] = sender[q]
      BY <1>2, <2>4 DEF ProcessSubscriber
    <3>2. /\ sender'[p].pc = "sending"
          /\ p \in Unsent(i, j)' => <<i, j>> \notin sends
      BY <1>1, <2>4, ProcessTyped DEF Unsent
    <3>3. QED
      BY <3>1, <3>2, QuietExplained
  <2>5. QED
    BY <2>1, <2>2, <2>3, <2>4, SendExplained, LostExplained, RecordExplained, DeathExplained
    DEF Next, Sending
<1>4. QED
  BY <1>1, <1>3 DEF IInv

\* Every copy of a posting is recorded by a request, about to be, or lost.
THEOREM Invariance == Spec => []IInv
<1>1. IInv /\ [Next]_vars => IInv'
  BY StepExplained
<1>2. QED
  BY <1>1, InitExplained, PTL DEF Spec

\* Nobody is mailed a posting more often than requests ran side by side, plus
\* once for every mail that went out and was not recorded: the look at
\* digest_sends bounds the copies, however send_daily_digest is interleaved
\* with itself, fails or dies.
THEOREM CopiesAreBounded == Spec => []CopiesAreExplained
<1>1. IInv => CopiesAreExplained
  <2> SUFFICES ASSUME IInv, NEW i \in Ids, NEW j \in Jobs
               PROVE  inbox[i][j] <= Cardinality(Senders) + losses
    BY DEF CopiesAreExplained
  <2> DEFINE S == Sent(i, j)
             U == Unsent(i, j)
  <2>1. Explained(i, j) /\ inbox[i][j] \in Nat /\ losses \in Nat
    BY DEF IInv, TypeOK
  <2>2. S \in SUBSET Senders /\ U \in SUBSET Senders /\ Senders \in SUBSET Senders
    BY DEF Sent, Unsent
  <2>3. /\ Cardinality(S) <= Cardinality(Senders)
        /\ Cardinality(S) \in Nat /\ Cardinality(U) \in Nat /\ Cardinality(Senders) \in Nat
    <3> HIDE DEF S, U
    <3> QED
      BY <2>2, Counted
  <2>4. QED
    BY <2>1, <2>3 DEF Explained
<1>2. QED
  BY <1>1, Invariance, PTL
=============================================================================
