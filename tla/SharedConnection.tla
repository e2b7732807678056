-------------------------- MODULE SharedConnection ---------------------------
(***************************************************************************)
(* Coroutines that write through DatabaseManager connections.  The loops   *)
(* of the supervisor share one connection, a request has its own.  A       *)
(* connection has one transaction at a time, whoever opened it: a commit   *)
(* or rollback ends it for every coroutine that shares the connection.     *)
(*                                                                         *)
(* An action is one call of the driver, and others call it between two of  *)
(* a coroutine's.  A data statement opens a transaction when none is open; *)
(* SQLite lets one connection write at a time, and a statement that waits  *)
(* too long for its turn fails.                                            *)
(*                                                                         *)
(* The names a specification usually has begin with Conn here, so that a   *)
(* module can extend this one and the supervisor of the same process.      *)
(***************************************************************************)
EXTENDS Naturals, FiniteSets

CONSTANTS
  Coroutines,
  Conns,         \* connections
  ConnOf,        \* of each coroutine: its connection
  Nobody,        \* no connection writes
  MaxCancels     \* bound on loops cancelled

ASSUME ConnConstants ==
  /\ ConnOf \in [Coroutines -> Conns]
  /\ Nobody \notin Conns
  /\ MaxCancels \in Nat

Sharers(c) == {k \in Coroutines : ConnOf[k] = c}
Private == {k \in Coroutines : Sharers(ConnOf[k]) = {k}}

\* plain: one statement and a commit; block: BEGIN IMMEDIATE, two statements
\* and a commit, rolled back by an exception or when there is nothing to do;
\* guarded: one statement that may be refused, by the token or by a duplicate
\* key, without a rollback.
Kinds == {"plain", "block", "guarded"}

\* The statements of an operation.
Last(kind) == IF kind = "block" THEN 2 ELSE 1
Writes(k, kind) == {k} \X (1 .. Last(kind))

VARIABLES
  pc,        \* where each coroutine is
  kind,      \* the operation it is in
  open,      \* connections with an open transaction
  pending,   \* of each connection: writes of its open transaction
  writer,    \* the connection that holds the write lock
  disk,      \* committed writes
  crossed,   \* history: coroutines whose writes another committed or undid
  cancels    \* loops cancelled so far

connVars == <<pc, kind, open, pending, writer, disk, crossed, cancels>>

ConnTypeOK ==
  /\ pc \in [Coroutines -> {"idle", "called", "begun", "half", "written",
                            "raising", "told", "failed", "gone"}]
  /\ kind \in [Coroutines -> Kinds]
  /\ open \subseteq Conns
  /\ pending \in [Conns -> SUBSET (Coroutines \X {1, 2})]
  /\ writer \in Conns \cup {Nobody}
  /\ disk \subseteq Coroutines \X {1, 2}
  /\ crossed \subseteq Coroutines
  /\ cancels \in 0 .. MaxCancels

ConnInit ==
  /\ pc = [k \in Coroutines |-> "idle"]
  /\ kind = [k \in Coroutines |-> "plain"]
  /\ open = {}
  /\ pending = [c \in Conns |-> {}]
  /\ writer = Nobody
  /\ disk = {}
  /\ crossed = {}
  /\ cancels = 0

-----------------------------------------------------------------------------
(* The driver. *)

MyTurn(c) == writer \in {c, Nobody}

\* The connection takes the write lock, in the transaction that is open or in
\* one the driver opens for the statement.
WriteBy(c, done) ==
  /\ MyTurn(c)
  /\ writer' = c
  /\ open' = open \cup {c}
  /\ pending' = [pending EXCEPT ![c] = @ \cup done]

\* k ends the transaction of its connection, with whatever is in it.
EndTransaction(k) ==
  /\ open' = open \ {ConnOf[k]}
  /\ pending' = [pending EXCEPT ![ConnOf[k]] = {}]
  /\ writer' = IF writer = ConnOf[k] THEN Nobody ELSE writer
  /\ crossed' = crossed \cup ({w[1] : w \in pending[ConnOf[k]]} \ {k})

Goto(k, where) == pc' = [pc EXCEPT ![k] = where]

-----------------------------------------------------------------------------
(* The coroutines. *)

\* A method of the manager is called; what an earlier call wrote is forgotten.
Call(k) ==
  /\ pc[k] = "idle"
  /\ \E what \in Kinds :
       /\ kind' = [kind EXCEPT ![k] = what]
       /\ Goto(k, "called")
  /\ disk' = {w \in disk : w[1] # k}
  /\ pending' = [pending EXCEPT ![ConnOf[k]] = {w \in @ : w[1] # k}]
  /\ crossed' = crossed \ {k}
  /\ UNCHANGED <<open, writer, cancels>>

\* BEGIN IMMEDIATE takes the write lock before anything is read.
Begin(k) ==
  /\ pc[k] = "called" /\ kind[k] = "block"
  /\ ConnOf[k] \notin open
  /\ WriteBy(ConnOf[k], {})
  /\ Goto(k, "begun")
  /\ UNCHANGED <<kind, disk, crossed, cancels>>

\* "cannot start a transaction within a transaction", or "database is locked".
BeginRefused(k) ==
  /\ pc[k] = "called" /\ kind[k] = "block"
  /\ ConnOf[k] \in open \/ ~MyTurn(ConnOf[k])
  /\ Goto(k, "raising")
  /\ UNCHANGED <<kind, open, pending, writer, disk, crossed, cancels>>

\* Nothing to claim, or a row that is not as expected: rolled back, too.
FindNothing(k) ==
  /\ pc[k] = "begun"
  /\ Goto(k, "raising")
  /\ UNCHANGED <<kind, open, pending, writer, disk, crossed, cancels>>

\* The first statement of a block, in a transaction of its own if the one it
\* began was ended in between.
ExecuteFirst(k) ==
  /\ pc[k] = "begun"
  /\ WriteBy(ConnOf[k], {<<k, 1>>})
  /\ Goto(k, "half")
  /\ UNCHANGED <<kind, disk, crossed, cancels>>

\* The last statement of an operation.
Execute(k) ==
  /\ \/ pc[k] = "half"
     \/ pc[k] = "called" /\ kind[k] # "block"
  /\ WriteBy(ConnOf[k], {<<k, Last(kind[k])>>})
  /\ Goto(k, "written")
  /\ UNCHANGED <<kind, disk, crossed, cancels>>

\* ClaimOwnershipError, or the False of a duplicate insert: the statement
\* changed no row, but its transaction is open and nobody rolls it back.
ExecuteRefused(k) ==
  /\ pc[k] = "called" /\ kind[k] = "guarded"
  /\ WriteBy(ConnOf[k], {})
  /\ Goto(k, "failed")
  /\ UNCHANGED <<kind, disk, crossed, cancels>>

\* "database is locked": another connection wrote for longer than the timeout.
\* The transaction the driver opened for the statement stays open, without
\* the lock.
Busy(k) ==
  /\ \/ pc[k] \in {"begun", "half"}
     \/ pc[k] = "called" /\ kind[k] # "block"
  /\ ~MyTurn(ConnOf[k])
  /\ open' = open \cup {ConnOf[k]}
  /\ Goto(k, IF kind[k] = "block" THEN "raising" ELSE "failed")
  /\ UNCHANGED <<kind, pending, writer, disk, crossed, cancels>>

\* Mutant of Commit: the commit is left out.
CommitNothing(k) ==
  /\ pc[k] = "written"
  /\ Goto(k, "told")
  /\ UNCHANGED <<kind, open, pending, writer, disk, crossed, cancels>>

\* The commit of whatever transaction is open, if any; the caller is told.
Commit(k) ==
  /\ pc[k] = "written"
  /\ disk' = disk \cup pending[ConnOf[k]]
  /\ EndTransaction(k)
  /\ Goto(k, "told")
  /\ UNCHANGED <<kind, cancels>>

\* Mutant of Rollback: the exception passes without one.
RaiseOnly(k) ==
  /\ pc[k] = "raising"
  /\ Goto(k, "failed")
  /\ UNCHANGED <<kind, open, pending, writer, disk, crossed, cancels>>

\* except Exception: rollback, of whatever transaction is open, then raise.
Rollback(k) ==
  /\ pc[k] = "raising"
  /\ EndTransaction(k)
  /\ Goto(k, "failed")
  /\ UNCHANGED <<kind, disk, cancels>>

\* The caller is done; a request closes its connection, which ends an open
\* transaction.
Return(k) ==
  /\ pc[k] \in {"told", "failed"}
  /\ Goto(k, "idle")
  /\ IF k \in Private THEN EndTransaction(k)
     ELSE UNCHANGED <<open, pending, writer, crossed>>
  /\ UNCHANGED <<kind, disk, cancels>>

\* A loop whose mode goes off is cancelled wherever it is: CancelledError is
\* not an Exception, so nothing is rolled back.
Cancel(k) ==
  /\ cancels < MaxCancels
  /\ k \notin Private
  /\ pc[k] # "gone"
  /\ Goto(k, "gone")
  /\ cancels' = cancels + 1
  /\ UNCHANGED <<kind, open, pending, writer, disk, crossed>>

\* The mode goes on again, if ever.
Respawn(k) ==
  /\ pc[k] = "gone"
  /\ Goto(k, "idle")
  /\ UNCHANGED <<kind, open, pending, writer, disk, crossed, cancels>>

-----------------------------------------------------------------------------

Step(k) ==
  \/ Begin(k) \/ BeginRefused(k) \/ FindNothing(k) \/ ExecuteFirst(k)
  \/ Execute(k) \/ ExecuteRefused(k) \/ Busy(k)
  \/ Commit(k) \/ Rollback(k) \/ Return(k)

ConnNext == \E k \in Coroutines : Call(k) \/ Step(k) \/ Cancel(k) \/ Respawn(k)

ConnSpec == ConnInit /\ [][ConnNext]_connVars

\* Statements return; whether a loop calls again is for its mode to say.
ConnFairSpec == ConnSpec /\ \A k \in Coroutines : WF_connVars(Step(k))

-----------------------------------------------------------------------------
(* Properties. *)

Committed(k) == Writes(k, kind[k]) \subseteq disk

\* Unless another coroutine of its connection committed or rolled back its
\* writes, as none can on a connection of its own: an operation reported done
\* is on disk, one that is not has left nothing there, and none is half there.
UncrossedWritesAreAtomic ==
  \A k \in Coroutines \ crossed :
    /\ pc[k] = "told" => Committed(k)
    /\ pc[k] \in {"called", "begun", "half", "written", "raising", "failed"} =>
         \A w \in disk : w[1] # k
    /\ (\E w \in disk : w[1] = k) => Committed(k)

\* Whatever is refused on it or cancelled in a transaction, a connection gives
\* the write lock back: a request's when it ends, a shared one as long as any
\* loop that shares it begins a claim again and again, since the BEGIN is
\* refused and its handler rolls back what another left open.
WriteLockIsReleased ==
  \A k \in Coroutines :
    k \in Private \/ []<><<Call(k) /\ kind'[k] = "block">>_connVars =>
      (writer = ConnOf[k] ~> writer # ConnOf[k])

=============================================================================
