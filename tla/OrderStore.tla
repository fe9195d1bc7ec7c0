----------------------------- MODULE OrderStore ------------------------------
(***************************************************************************)
(* PostgresOrderStore (internal/order/store.go): Create, and the statement *)
(* by statement execution of ExecuteOrder by several database sessions.    *)
(*                                                                         *)
(* A session is a database connection used by one call at a time.  The     *)
(* caller's view (pc, reply) and the server's view (txn, staged, lock) are *)
(* separate: a caller may time out, lose its connection or die while the   *)
(* server still holds the transaction, and a COMMIT may take effect        *)
(* although the caller gets an error.                                      *)
(*                                                                         *)
(* PostgreSQL is used at its default level, Read Committed: UPDATE waits   *)
(* for the row lock and then evaluates its WHERE clause on the newest      *)
(* committed row; each statement sees what is committed when it starts.    *)
(***************************************************************************)
EXTENDS OrderLedger

CONSTANTS Sessions,    \* database sessions that may call ExecuteOrder
          NoSession,   \* the owner of a row nobody has locked
          Ghosts       \* identifiers that appear in events but never get a row

ASSUME StoreAssumption ==
  /\ NoSession \notin Sessions
  /\ Ghosts \subseteq Orders

VARIABLES lock,    \* session that holds the row lock of each order
          pc,      \* statement the caller of each session runs next
          target,  \* order of the call in progress, or of the last one
          txn,     \* transaction of each session, as the server sees it
          staged,  \* uncommitted writes of that transaction
          reply    \* what ExecuteOrder returned to its caller

storeVars == <<status, executions, lock, pc, target, txn, staged, reply>>

Step == {"idle", "update", "insert", "commit", "committing", "exists", "done"}
Txn == {"none", "active", "commitSent", "committed"}
Write == {"status", "execution"}
Reply == {"none", "executed", "skipped", "notFound", "error"}

TypeOK ==
  /\ LedgerTypeOK
  /\ lock \in [Orders -> Sessions \cup {NoSession}]
  /\ pc \in [Sessions -> Step]
  /\ target \in [Sessions -> Orders]
  /\ txn \in [Sessions -> Txn]
  /\ staged \in [Sessions -> SUBSET Write]
  /\ reply \in [Sessions -> Reply]

Init ==
  /\ LedgerInit
  /\ lock = [o \in Orders |-> NoSession]
  /\ pc = [s \in Sessions |-> "idle"]
  /\ target \in [Sessions -> Orders]
  /\ txn = [s \in Sessions |-> "none"]
  /\ staged = [s \in Sessions |-> {}]
  /\ reply = [s \in Sessions |-> "none"]

-----------------------------------------------------------------------------
(* The calls. *)

Unlocked(s) ==
  [o \in Orders |-> IF lock[o] = s THEN NoSession ELSE lock[o]]

Calling(s) == pc[s] \notin {"idle", "done"}

(* Create: a single INSERT, committed on its own.  An error reported after
   the INSERT took effect is the caller's concern (see OrderApi). *)
Create(o) ==
  /\ o \notin Ghosts
  /\ InsertOrder(o)
  /\ UNCHANGED <<lock, pc, target, txn, staged, reply>>

(* BeginTx.  An event is published only after its order was inserted, so a
   call names an order that has a row, or one that never will. *)
BeginTx(s, o) ==
  /\ pc[s] = "idle" /\ txn[s] = "none"
  /\ o \in Ghosts \/ status[o] # "ABSENT"
  /\ pc' = [pc EXCEPT ![s] = "update"]
  /\ target' = [target EXCEPT ![s] = o]
  /\ txn' = [txn EXCEPT ![s] = "active"]
  /\ reply' = [reply EXCEPT ![s] = "none"]
  /\ UNCHANGED <<status, executions, lock, staged>>

(* Faulty: the WHERE clause names the id only. *)
MutClaimableAnyStatus(o) == status[o] # "ABSENT"

(* The WHERE clause of the UPDATE: id = o AND status = PENDING. *)
Claimable(o) == status[o] = "PENDING"

(* UPDATE orders SET status = EXECUTED WHERE ...: waits while another
   transaction has the row locked. *)
UpdateStatus(s) ==
  LET o == target[s] IN
  /\ pc[s] = "update" /\ txn[s] = "active"
  /\ lock[o] = NoSession
  /\ \/ /\ Claimable(o)
        /\ lock' = [lock EXCEPT ![o] = s]
        /\ staged' = [staged EXCEPT ![s] = @ \cup {"status"}]
        /\ pc' = [pc EXCEPT ![s] = "insert"]
     \/ /\ ~Claimable(o)
        /\ pc' = [pc EXCEPT ![s] = "exists"]
        /\ UNCHANGED <<lock, staged>>
  /\ UNCHANGED <<status, executions, target, txn, reply>>

(* Faulty: the row is inserted through the pool, not through tx. *)
MutInsertOutsideTx(s) ==
  /\ pc[s] = "insert" /\ txn[s] = "active"
  /\ executions' = [executions EXCEPT ![target[s]] = @ + 1]
  /\ pc' = [pc EXCEPT ![s] = "commit"]
  /\ UNCHANGED <<status, lock, target, txn, staged, reply>>

(* INSERT INTO executions, in the same transaction. *)
InsertExecution(s) ==
  /\ pc[s] = "insert" /\ txn[s] = "active"
  /\ staged' = [staged EXCEPT ![s] = @ \cup {"execution"}]
  /\ pc' = [pc EXCEPT ![s] = "commit"]
  /\ UNCHANGED <<status, executions, lock, target, txn, reply>>

(* tx.Commit sends COMMIT and waits. *)
SendCommit(s) ==
  /\ pc[s] = "commit" /\ txn[s] = "active"
  /\ pc' = [pc EXCEPT ![s] = "committing"]
  /\ txn' = [txn EXCEPT ![s] = "commitSent"]
  /\ UNCHANGED <<status, executions, lock, target, staged, reply>>

(* tx.Commit returned nil: ExecuteOrder returns (true, nil). *)
CommitReturns(s) ==
  /\ pc[s] = "committing" /\ txn[s] = "committed"
  /\ pc' = [pc EXCEPT ![s] = "done"]
  /\ reply' = [reply EXCEPT ![s] = "executed"]
  /\ txn' = [txn EXCEPT ![s] = "none"]
  /\ UNCHANGED <<status, executions, lock, target, staged>>

(* Faulty: the answer is the status that was read, or always "skipped". *)
MutReplyStatus(o) == status[o]
MutReplyNoExists(o) == "skipped"

(* SELECT EXISTS tells (false, nil) from (false, ErrOrderNotFound). *)
NothingUpdated(o) == IF status[o] = "ABSENT" THEN "notFound" ELSE "skipped"

(* No row was updated; the deferred Rollback ends the transaction. *)
CheckExists(s) ==
  /\ pc[s] = "exists" /\ txn[s] = "active"
  /\ reply' = [reply EXCEPT ![s] = NothingUpdated(target[s])]
  /\ pc' = [pc EXCEPT ![s] = "done"]
  /\ txn' = [txn EXCEPT ![s] = "none"]
  /\ UNCHANGED <<status, executions, lock, target, staged>>

(* Faulty: the context has no deadline, only a lost transaction is an error. *)
MutFailsOnLossOnly(s) ==
  /\ Calling(s) /\ txn[s] = "none"
  /\ pc' = [pc EXCEPT ![s] = "done"]
  /\ reply' = [reply EXCEPT ![s] = "error"]
  /\ UNCHANGED <<status, executions, lock, target, txn, staged>>

(* A statement fails, or the 8s context of the delivery expires: the call
   returns an error.  The server ends the transaction on its own time. *)
CallFails(s) ==
  /\ Calling(s)
  /\ pc' = [pc EXCEPT ![s] = "done"]
  /\ reply' = [reply EXCEPT ![s] = "error"]
  /\ UNCHANGED <<status, executions, lock, target, txn, staged>>

(* The caller consumes the result, or its process dies during the call. *)
CallerLeaves(s) ==
  /\ pc[s] # "idle"
  /\ pc' = [pc EXCEPT ![s] = "idle"]
  /\ reply' = [reply EXCEPT ![s] = "none"]
  /\ UNCHANGED <<status, executions, lock, target, txn, staged>>

-----------------------------------------------------------------------------
(* The server. *)

(* The server commits: both writes become visible and the lock is released. *)
ServerCommits(s) ==
  LET o == target[s] IN
  /\ txn[s] = "commitSent"
  /\ status' = IF "status" \in staged[s]
               THEN [status EXCEPT ![o] = "EXECUTED"] ELSE status
  /\ executions' = IF "execution" \in staged[s]
                   THEN [executions EXCEPT ![o] = @ + 1] ELSE executions
  /\ lock' = Unlocked(s)
  /\ staged' = [staged EXCEPT ![s] = {}]
  /\ txn' = [txn EXCEPT ![s] = "committed"]
  /\ UNCHANGED <<pc, target, reply>>

(* Faulty: the error returns of ExecuteOrder leave the transaction open
   (no deferred Rollback); the server ends only one being committed. *)
MutNoRollback(s) ==
  /\ txn[s] = "commitSent"
  /\ lock' = Unlocked(s)
  /\ staged' = [staged EXCEPT ![s] = {}]
  /\ txn' = [txn EXCEPT ![s] = "none"]
  /\ UNCHANGED <<status, executions, pc, target, reply>>

(* The transaction rolls back: the deferred Rollback of ExecuteOrder, which runs
   at every error return, or the server itself once the connection is gone. *)
ServerAborts(s) ==
  /\ txn[s] \in {"active", "commitSent"}
  /\ lock' = Unlocked(s)
  /\ staged' = [staged EXCEPT ![s] = {}]
  /\ txn' = [txn EXCEPT ![s] = "none"]
  /\ UNCHANGED <<status, executions, pc, target, reply>>

(* Nobody waits for the answer to a COMMIT any more. *)
ServerForgets(s) ==
  /\ txn[s] = "committed" /\ pc[s] # "committing"
  /\ txn' = [txn EXCEPT ![s] = "none"]
  /\ UNCHANGED <<status, executions, lock, pc, target, staged, reply>>

Next ==
  \/ \E o \in Orders : Create(o)
  \/ \E s \in Sessions :
       \/ \E o \in Orders : BeginTx(s, o)
       \/ UpdateStatus(s)
       \/ InsertExecution(s)
       \/ SendCommit(s)
       \/ CommitReturns(s)
       \/ CheckExists(s)
       \/ CallFails(s)
       \/ CallerLeaves(s)
       \/ ServerCommits(s)
       \/ ServerAborts(s)
       \/ ServerForgets(s)

Spec == Init /\ [][Next]_storeVars

(* The caller runs the statements one after the other and is never stuck: the
   context of the delivery expires after handleTimeout. *)
CallStep(s) ==
  \/ UpdateStatus(s)
  \/ InsertExecution(s)
  \/ SendCommit(s)
  \/ CommitReturns(s)
  \/ CheckExists(s)
  \/ CallFails(s)

(* A transaction nobody drives any more: the deferred Rollback arrives, or
   the server notices that the connection is gone. *)
AbandonedEnds(s) == ~Calling(s) /\ ServerAborts(s)

Fairness ==
  \A s \in Sessions :
    /\ WF_storeVars(CallStep(s))
    /\ WF_storeVars(ServerCommits(s))
    /\ WF_storeVars(AbandonedEnds(s))

FairSpec == Spec /\ Fairness

-----------------------------------------------------------------------------
(* Properties. *)

(* However the calls, failures, timeouts and late commits of ExecuteOrder
   interleave, an order is EXECUTED exactly when one executions row exists. *)
ExecutedOnce ==
  \A o \in Orders :
    executions[o] = IF status[o] = "EXECUTED" THEN 1 ELSE 0

(* The answers ExecuteOrder documents are true of the database: (true, nil)
   only of an executed order, (false, nil) only of one that exists and is no
   longer PENDING, ErrOrderNotFound only of one without a row.  An error
   promises nothing: the COMMIT may have taken effect. *)
ReplySound ==
  \A s \in Sessions :
    /\ reply[s] = "executed" => status[target[s]] = "EXECUTED"
    /\ reply[s] = "skipped" => status[target[s]] \notin {"ABSENT", "PENDING"}
    /\ reply[s] = "notFound" => status[target[s]] = "ABSENT"

Won(s) == txn[s] = "committed" \/ reply[s] = "executed"

(* "This call, and only this call, records the effect": of the concurrent
   calls for an order, at most one commits or is told that it executed it. *)
OneWinner ==
  \A s, t \in Sessions :
    Won(s) /\ Won(t) /\ target[s] = target[t] => s = t

(* What the rest of the system sees are the two atomic changes of
   OrderLedger: no reader finds an EXECUTED order without its executions row,
   nor an executions row of a transaction that was rolled back. *)
ImplementsLedger == LedgerSpec

(* No row stays locked for ever, whatever happens to the caller that locked
   it: the deferred Rollback, or the loss of its connection, frees it. *)
LockReleased == \A o \in Orders : []<>(lock[o] = NoSession)

(* Every call of ExecuteOrder ends, even one queued behind a row lock that
   other callers keep taking: the delivery's deadline ends the wait. *)
CallReturns == \A s \in Sessions : Calling(s) ~> ~Calling(s)
=============================================================================
