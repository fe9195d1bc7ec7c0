-------------------------- MODULE OrderStoreProofs ---------------------------
(***************************************************************************)
(* Theorems about OrderStore, for any number of orders and sessions: the   *)
(* invariants that MCOrderStore checks on a small instance, and that the   *)
(* transactions implement OrderLedger.                                     *)
(*                                                                         *)
(* ExecutedOnce is not inductive: that a commit finds the order PENDING    *)
(* follows from the row lock it holds (StagedUnderLock), and that both of  *)
(* its writes are there from the statement it has reached (StagedByStep).  *)
(***************************************************************************)
EXTENDS OrderStore, TLAPS

(* Uncommitted writes belong to an open transaction that has the row of a
   PENDING order locked. *)
StagedUnderLock ==
  \A s \in Sessions :
    staged[s] # {} =>
      /\ txn[s] \in {"active", "commitSent"}
      /\ lock[target[s]] = s
      /\ status[target[s]] = "PENDING"

(* Which writes are staged follows from the last statement that was sent. *)
StagedByStep ==
  \A s \in Sessions :
    /\ txn[s] = "active" /\ pc[s] = "update" => staged[s] = {}
    /\ txn[s] = "active" /\ pc[s] = "insert" => staged[s] = {"status"}
    /\ txn[s] = "active" /\ pc[s] = "commit" => staged[s] = Write
    /\ txn[s] = "commitSent" => staged[s] = Write

(* A call names an order with a row or one that never gets one, and finds no
   row to update only if that row is not PENDING. *)
CalledAfterInsert ==
  /\ \A o \in Ghosts : status[o] = "ABSENT"
  /\ \A s \in Sessions :
       /\ pc[s] # "idle" => target[s] \in Ghosts \/ status[target[s]] # "ABSENT"
       /\ pc[s] = "exists" => status[target[s]] # "PENDING"
       /\ pc[s] = "idle" => reply[s] = "none"

(* A committed transaction executed its order. *)
CommittedExecuted ==
  \A s \in Sessions : txn[s] = "committed" => status[target[s]] = "EXECUTED"

StoreInv ==
  /\ TypeOK
  /\ StagedUnderLock
  /\ StagedByStep
  /\ CalledAfterInsert
  /\ CommittedExecuted
  /\ ExecutedOnce
  /\ ReplySound
  /\ OneWinner

-----------------------------------------------------------------------------
(* The row locks a transaction does not hold survive its end. *)
LEMMA UnlockedOthers ==
  ASSUME TypeOK, NEW s \in Sessions, NEW o \in Orders
  PROVE  /\ Unlocked(s) \in [Orders -> Sessions \cup {NoSession}]
         /\ lock[o] # s => Unlocked(s)[o] = lock[o]
BY DEF Unlocked, TypeOK

(* The empty database and idle sessions are well typed. *)
LEMMA TypeInit == Init => TypeOK
BY DEF Init, TypeOK, LedgerInit, LedgerTypeOK, OrderStatus, Step, Txn, Reply

(* Every step keeps every variable within its type. *)
LEMMA TypeStep == TypeOK /\ [Next]_storeVars => TypeOK'
<1> SUFFICES ASSUME TypeOK, [Next]_storeVars
             PROVE  TypeOK'
  OBVIOUS
<1> USE DEF TypeOK, LedgerTypeOK, OrderStatus, Step, Txn, Write, Reply
<1>1. ASSUME NEW o \in Orders, Create(o)
      PROVE  TypeOK'
  BY <1>1 DEF Create, InsertOrder
<1>2. ASSUME NEW s \in Sessions, NEW o \in Orders, BeginTx(s, o)
      PROVE  TypeOK'
  BY <1>2 DEF BeginTx
<1>3. ASSUME NEW s \in Sessions, UpdateStatus(s)
      PROVE  TypeOK'
  BY <1>3 DEF UpdateStatus
<1>4. ASSUME NEW s \in Sessions, InsertExecution(s)
      PROVE  TypeOK'
  BY <1>4 DEF InsertExecution
<1>5. ASSUME NEW s \in Sessions, SendCommit(s)
      PROVE  TypeOK'
  BY <1>5 DEF SendCommit
<1>6. ASSUME NEW s \in Sessions, CommitReturns(s)
      PROVE  TypeOK'
  BY <1>6 DEF CommitReturns
<1>7. ASSUME NEW s \in Sessions, CheckExists(s)
      PROVE  TypeOK'
  BY <1>7 DEF CheckExists, NothingUpdated
<1>8. ASSUME NEW s \in Sessions, CallFails(s)
      PROVE  TypeOK'
  BY <1>8 DEF CallFails
<1>9. ASSUME NEW s \in Sessions, CallerLeaves(s)
      PROVE  TypeOK'
  BY <1>9 DEF CallerLeaves
<1>10. ASSUME NEW s \in Sessions, ServerCommits(s)
       PROVE  TypeOK'
  BY <1>10, UnlockedOthers DEF ServerCommits
<1>11. ASSUME NEW s \in Sessions, ServerAborts(s)
       PROVE  TypeOK'
  BY <1>11, UnlockedOthers DEF ServerAborts
<1>12. ASSUME NEW s \in Sessions, ServerForgets(s)
       PROVE  TypeOK'
  BY <1>12 DEF ServerForgets
<1>13. CASE UNCHANGED storeVars
  BY <1>13 DEF storeVars
<1> QED
  BY <1>1, <1>2, <1>3, <1>4, <1>5, <1>6, <1>7, <1>8, <1>9, <1>10, <1>11,
     <1>12, <1>13 DEF Next

(* Type correctness of the store. *)
THEOREM TypeCorrect == Spec => []TypeOK
BY TypeInit, TypeStep, PTL DEF Spec

-----------------------------------------------------------------------------
(* The invariant holds before the first call of ExecuteOrder. *)
LEMMA StoreInvInit == Init => StoreInv
<1> SUFFICES ASSUME Init
             PROVE  StoreInv
  OBVIOUS
<1>1. TypeOK
  BY TypeInit
<1>2. StagedUnderLock /\ StagedByStep /\ CalledAfterInsert /\ CommittedExecuted
  BY StoreAssumption
  DEF Init, LedgerInit, StagedUnderLock, StagedByStep, CalledAfterInsert,
      CommittedExecuted
<1>3. ExecutedOnce /\ ReplySound /\ OneWinner
  BY DEF Init, LedgerInit, ExecutedOnce, ReplySound, OneWinner, Won
<1> QED
  BY <1>1, <1>2, <1>3 DEF StoreInv

(* A session that commits has both writes staged, holds the lock of its
   PENDING order, and is the only session with anything staged for it. *)
LEMMA CommitFindsPending ==
  ASSUME StoreInv, NEW s \in Sessions, txn[s] = "commitSent"
  PROVE  /\ staged[s] = Write
         /\ status[target[s]] = "PENDING"
         /\ executions[target[s]] = 0
         /\ \A t \in Sessions \ {s} :
              target[t] = target[s] => staged[t] = {} /\ ~Won(t)
<1>1. staged[s] = Write
  BY DEF StoreInv, StagedByStep
<1>2. staged[s] # {}
  BY <1>1 DEF Write
<1>3. lock[target[s]] = s /\ status[target[s]] = "PENDING"
  BY <1>2 DEF StoreInv, StagedUnderLock
<1>4. target[s] \in Orders
  BY DEF StoreInv, TypeOK
<1>5. executions[target[s]] = 0
  BY <1>3, <1>4 DEF StoreInv, ExecutedOnce
<1>6. ASSUME NEW t \in Sessions \ {s}, target[t] = target[s]
      PROVE  staged[t] = {} /\ ~Won(t)
  BY <1>3, <1>6
  DEF StoreInv, StagedUnderLock, CommittedExecuted, ReplySound, Won
<1> QED
  BY <1>1, <1>3, <1>5, <1>6

(* Every step preserves the invariant. *)
LEMMA StoreInvStep == StoreInv /\ [Next]_storeVars => StoreInv'
<1> SUFFICES ASSUME StoreInv, [Next]_storeVars
             PROVE  StoreInv'
  OBVIOUS
<1>t. TypeOK'
  BY TypeStep DEF StoreInv
<1> USE <1>t DEF StoreInv, Won
<1> DEFINE Parts == /\ StagedUnderLock /\ StagedByStep /\ CalledAfterInsert
                    /\ CommittedExecuted /\ ExecutedOnce /\ ReplySound
                    /\ OneWinner
<1>1. ASSUME NEW o \in Orders, Create(o)
      PROVE  Parts'
  BY <1>1
  DEF Create, InsertOrder, TypeOK, LedgerTypeOK, StagedUnderLock, StagedByStep,
      CalledAfterInsert, CommittedExecuted, ExecutedOnce, ReplySound, OneWinner
<1>2. ASSUME NEW s \in Sessions, NEW o \in Orders, BeginTx(s, o)
      PROVE  Parts'
  BY <1>2
  DEF BeginTx, TypeOK, LedgerTypeOK, StagedUnderLock, StagedByStep,
      CalledAfterInsert, CommittedExecuted, ExecutedOnce, ReplySound, OneWinner
<1>3. ASSUME NEW s \in Sessions, UpdateStatus(s)
      PROVE  Parts'
  BY <1>3, StoreAssumption
  DEF UpdateStatus, Claimable, TypeOK, LedgerTypeOK, StagedUnderLock,
      StagedByStep, CalledAfterInsert, CommittedExecuted, ExecutedOnce,
      ReplySound, OneWinner
<1>4. ASSUME NEW s \in Sessions, InsertExecution(s)
      PROVE  Parts'
  <2>1. staged[s] = {"status"}
    BY <1>4 DEF InsertExecution, StagedByStep
  <2>2. staged'[s] = Write
    BY <1>4, <2>1 DEF InsertExecution, Write, TypeOK
  <2>3. \A t \in Sessions \ {s} : staged'[t] = staged[t] /\ pc'[t] = pc[t]
    BY <1>4 DEF InsertExecution, TypeOK
  <2>4. pc'[s] = "commit"
    BY <1>4 DEF InsertExecution, TypeOK
  <2>5. UNCHANGED <<status, executions, lock, target, txn, reply>>
    BY <1>4 DEF InsertExecution
  <2>6. StagedUnderLock'
    BY <2>1, <2>3, <2>5 DEF StagedUnderLock
  <2>7. StagedByStep'
    BY <1>4, <2>2, <2>3, <2>4, <2>5 DEF InsertExecution, StagedByStep
  <2>8. CalledAfterInsert'
    BY <1>4, <2>3, <2>4, <2>5 DEF InsertExecution, CalledAfterInsert
  <2>9. CommittedExecuted' /\ ExecutedOnce' /\ ReplySound' /\ OneWinner'
    BY <2>5 DEF CommittedExecuted, ExecutedOnce, ReplySound, OneWinner
  <2> QED
    BY <2>6, <2>7, <2>8, <2>9
<1>5. ASSUME NEW s \in Sessions, SendCommit(s)
      PROVE  Parts'
  BY <1>5
  DEF SendCommit, TypeOK, LedgerTypeOK, StagedUnderLock, StagedByStep,
      CalledAfterInsert, CommittedExecuted, ExecutedOnce, ReplySound, OneWinner
<1>6. ASSUME NEW s \in Sessions, CommitReturns(s)
      PROVE  Parts'
  BY <1>6
  DEF CommitReturns, TypeOK, LedgerTypeOK, StagedUnderLock, StagedByStep,
      CalledAfterInsert, CommittedExecuted, ExecutedOnce, ReplySound, OneWinner
<1>7. ASSUME NEW s \in Sessions, CheckExists(s)
      PROVE  Parts'
  BY <1>7
  DEF CheckExists, NothingUpdated, TypeOK, LedgerTypeOK, OrderStatus,
      StagedUnderLock, StagedByStep, CalledAfterInsert, CommittedExecuted,
      ExecutedOnce, ReplySound, OneWinner
<1>8. ASSUME NEW s \in Sessions, CallFails(s)
      PROVE  Parts'
  BY <1>8
  DEF CallFails, Calling, TypeOK, LedgerTypeOK, StagedUnderLock, StagedByStep,
      CalledAfterInsert, CommittedExecuted, ExecutedOnce, ReplySound, OneWinner
<1>9. ASSUME NEW s \in Sessions, CallerLeaves(s)
      PROVE  Parts'
  BY <1>9
  DEF CallerLeaves, TypeOK, LedgerTypeOK, StagedUnderLock, StagedByStep,
      CalledAfterInsert, CommittedExecuted, ExecutedOnce, ReplySound, OneWinner
<1>10. ASSUME NEW s \in Sessions, ServerCommits(s)
       PROVE  Parts'
  <2>1. txn[s] = "commitSent"
    BY <1>10 DEF ServerCommits
  <2>2. /\ staged[s] = Write
        /\ status[target[s]] = "PENDING" /\ executions[target[s]] = 0
        /\ \A t \in Sessions \ {s} :
             target[t] = target[s] => staged[t] = {} /\ ~Won(t)
    BY <2>1, CommitFindsPending
  <2>3. /\ status' = [status EXCEPT ![target[s]] = "EXECUTED"]
        /\ executions' = [executions EXCEPT ![target[s]] = @ + 1]
    BY <1>10, <2>2 DEF ServerCommits, Write
  <2>4. StagedUnderLock' /\ StagedByStep'
    BY <1>10, <2>2, <2>3, UnlockedOthers
    DEF ServerCommits, TypeOK, LedgerTypeOK, StagedUnderLock, StagedByStep
  <2>5. CalledAfterInsert'
    BY <1>10, <2>2, <2>3
    DEF ServerCommits, TypeOK, LedgerTypeOK, CalledAfterInsert
  <2>6. CommittedExecuted' /\ ReplySound'
    BY <1>10, <2>2, <2>3
    DEF ServerCommits, TypeOK, LedgerTypeOK, CommittedExecuted, ReplySound
  <2>7. ExecutedOnce'
    BY <2>2, <2>3 DEF TypeOK, LedgerTypeOK, ExecutedOnce
  <2>8. OneWinner'
    BY <1>10, <2>2 DEF ServerCommits, TypeOK, OneWinner
  <2> QED
    BY <2>4, <2>5, <2>6, <2>7, <2>8
<1>11. ASSUME NEW s \in Sessions, ServerAborts(s)
       PROVE  Parts'
  BY <1>11, UnlockedOthers
  DEF ServerAborts, TypeOK, LedgerTypeOK, StagedUnderLock, StagedByStep,
      CalledAfterInsert, CommittedExecuted, ExecutedOnce, ReplySound, OneWinner
<1>12. ASSUME NEW s \in Sessions, ServerForgets(s)
       PROVE  Parts'
  BY <1>12
  DEF ServerForgets, TypeOK, LedgerTypeOK, StagedUnderLock, StagedByStep,
      CalledAfterInsert, CommittedExecuted, ExecutedOnce, ReplySound, OneWinner
<1>13. CASE UNCHANGED storeVars
  BY <1>13
  DEF storeVars, StagedUnderLock, StagedByStep, CalledAfterInsert,
      CommittedExecuted, ExecutedOnce, ReplySound, OneWinner
<1> QED
  BY <1>1, <1>2, <1>3, <1>4, <1>5, <1>6, <1>7, <1>8, <1>9, <1>10, <1>11,
     <1>12, <1>13 DEF Next

(* Row locks, staged writes and committed rows stay consistent for ever. *)
LEMMA StoreInvariant == Spec => []StoreInv
BY StoreInvInit, StoreInvStep, PTL DEF Spec

(* An order is EXECUTED exactly when one executions row exists, whatever the
   callers and the server do. *)
THEOREM ExecutesOnce == Spec => []ExecutedOnce
BY StoreInvariant, PTL DEF StoreInv

(* What ExecuteOrder answers is true of the database, and stays true. *)
THEOREM RepliesSound == Spec => []ReplySound
BY StoreInvariant, PTL DEF StoreInv

(* No two calls of ExecuteOrder for one order both execute it. *)
THEOREM AtMostOneWinner == Spec => []OneWinner
BY StoreInvariant, PTL DEF StoreInv

-----------------------------------------------------------------------------
(* Implementation of OrderLedger. *)

(* The store starts with the empty tables of the ledger. *)
LEMMA InitImplements == Init => LedgerInit
BY DEF Init

(* Create and the server's commit are the steps of OrderLedger; every other
   step leaves the committed rows alone. *)
LEMMA StepImplements ==
  StoreInv /\ [Next]_storeVars => [LedgerNext]_ledgerVars
<1> SUFFICES ASSUME StoreInv, [Next]_storeVars
             PROVE  [LedgerNext]_ledgerVars
  OBVIOUS
<1>1. ASSUME NEW o \in Orders, Create(o)
      PROVE  LedgerNext
  BY <1>1 DEF Create, LedgerNext
<1>2. ASSUME NEW s \in Sessions, ServerCommits(s)
      PROVE  LedgerNext
  <2>1. staged[s] = Write /\ status[target[s]] = "PENDING"
    BY <1>2, CommitFindsPending DEF ServerCommits
  <2>2. ClaimOrder(target[s])
    BY <1>2, <2>1 DEF ServerCommits, ClaimOrder, Write
  <2>3. target[s] \in Orders
    BY DEF StoreInv, TypeOK
  <2> QED
    BY <2>2, <2>3 DEF LedgerNext
<1>3. ASSUME NEW s \in Sessions,
             \/ \E o \in Orders : BeginTx(s, o)
             \/ UpdateStatus(s) \/ InsertExecution(s) \/ SendCommit(s)
             \/ CommitReturns(s) \/ CheckExists(s) \/ CallFails(s)
             \/ CallerLeaves(s) \/ ServerAborts(s) \/ ServerForgets(s)
      PROVE  UNCHANGED ledgerVars
  BY <1>3
  DEF BeginTx, UpdateStatus, InsertExecution, SendCommit, CommitReturns,
      CheckExists, CallFails, CallerLeaves, ServerAborts, ServerForgets,
      ledgerVars
<1>4. CASE UNCHANGED storeVars
  BY <1>4 DEF storeVars, ledgerVars
<1> QED
  BY <1>1, <1>2, <1>3, <1>4 DEF Next

(* Transactions, row locks, rollbacks and late commits amount to the two
   atomic changes of OrderLedger. *)
THEOREM StoreImplementsLedger == Spec => ImplementsLedger
BY StoreInvariant, InitImplements, StepImplements, PTL
DEF Spec, ImplementsLedger, LedgerSpec
=============================================================================
