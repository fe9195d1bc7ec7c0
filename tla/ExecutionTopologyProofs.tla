----------------------- MODULE ExecutionTopologyProofs ------------------------
(***************************************************************************)
(* Theorems about ExecutionTopology, for any number of consumers, orders,  *)
(* deletions and crashes: what the order of the declarations in            *)
(* SetupTopology gives, whoever else declares, dies or deletes meanwhile.  *)
(*                                                                         *)
(* A consumer relies on the declarations it has passed, which it may find  *)
(* made by others (SetupProgress); a delivery is with a consumer that      *)
(* passed them all (Holders); a message is only where the work queue has   *)
(* been (WorkStays); a delivery that will be acked for its retry copy has  *)
(* a later message of its order behind it (CopyBehind); and what is stored *)
(* was taken before (StoredTaken).                                         *)
(***************************************************************************)
EXTENDS ExecutionTopology, TLAPS

-----------------------------------------------------------------------------
(* What is in place once consumer c has got past a declaration, unless the
   operator has deleted it since. *)
SetupProgress ==
  \A c \in Consumers :
    /\ place[c] > 2 => "dlx" \in exchanges
    /\ place[c] > 4 /\ "dlq" \notin deleted => "dlq" \in bindings
    /\ place[c] > 5 => queue["work"] # "legacy"
    /\ place[c] > 6 /\ "retry" \notin deleted => queue["retry"] # "none"
    /\ place[c] > 7 /\ "work" \notin deleted => "work" \in bindings

(* Only a consumer that was set up has deliveries, and it is cancelled only
   with the work queue. *)
Holders ==
  \A c \in Consumers :
    /\ holding[c] # {} => place[c] = Len(Setup) + 1
    /\ c \in cancelled => "work" \in deleted

(* A message that can still come back to the work queue. *)
Live == {"work", "held", "copied", "retry"}

(* What is bound exists, and what an event went through is still there unless
   it was deleted. *)
WorkStays ==
  /\ "work" \in bindings => queue["work"] # "none"
  /\ "work" \notin deleted =>
       \A m \in Message : event[m] \in Live => queue["work"] # "none"

(* A copy may have been copied and acked in turn, so what is behind a delivery
   is any later message of its order. *)
CopyBehind ==
  deleted = {} =>
    \A m \in Message : event[m] = "copied" =>
      \E n \in Message : n.order = m.order /\ n.copy > m.copy /\ event[n] \in Remaining

(* The broker writes only what it has taken. *)
StoredTaken == \A m \in stored : event[m] \notin {"none", "wire"}

TopologyInv ==
  /\ TypeOK /\ SetupProgress /\ TopologyReady /\ Holders /\ WorkStays
  /\ CopyBehind /\ StoredTaken

-----------------------------------------------------------------------------
(* The calls, one by one. *)
LEMMA SetupCalls ==
  /\ Len(Setup) = 8 /\ DOMAIN Setup = 1 .. 8
  /\ Setup[1] = Call("exchange", "events") /\ Setup[2] = Call("exchange", "dlx")
  /\ Setup[3] = Call("queue", "dlq") /\ Setup[4] = Call("bind", "dlq")
  /\ Setup[5] = Call("queue", "work") /\ Setup[6] = Call("queue", "retry")
  /\ Setup[7] = Call("bind", "work") /\ Setup[8] = Call("consume", "work")
BY DEF Setup

(* What each of them does when the broker accepts it. *)
LEMMA DeclareCases ==
  ASSUME TypeOK, NEW c \in Consumers, Declare(c)
  PROVE  /\ place' = [place EXCEPT ![c] = place[c] + 1]
         /\ UNCHANGED <<cancelled, holding, api, event, stored, deleted, crashes>>
         /\ \/ /\ place[c] = 1 /\ exchanges' = exchanges \cup {"events"}
               /\ UNCHANGED <<queue, bindings>>
            \/ /\ place[c] = 2 /\ exchanges' = exchanges \cup {"dlx"}
               /\ UNCHANGED <<queue, bindings>>
            \/ /\ place[c] = 3 /\ queue' = [queue EXCEPT !["dlq"] = "declared"]
               /\ UNCHANGED <<exchanges, bindings>>
            \/ /\ place[c] = 4 /\ bindings' = bindings \cup {"dlq"}
               /\ UNCHANGED <<exchanges, queue>>
            \/ /\ place[c] = 5 /\ queue' = [queue EXCEPT !["work"] = "declared"]
               /\ UNCHANGED <<exchanges, bindings>>
            \/ /\ place[c] = 6 /\ queue' = [queue EXCEPT !["retry"] = "declared"]
               /\ UNCHANGED <<exchanges, bindings>>
            \/ /\ place[c] = 7 /\ bindings' = bindings \cup {"work"}
               /\ queue["work"] # "none"
               /\ UNCHANGED <<exchanges, queue>>
            \/ /\ place[c] = 8 /\ queue["work"] # "none"
               /\ UNCHANGED <<exchanges, queue, bindings>>
<1>0. queue \in [Queues -> Arguments]
  BY DEF TypeOK
<1>1. PICK call : /\ call = Setup[place[c]] /\ Accepted(call)
                  /\ exchanges' = exchanges \cup {x \in {call.name} : call.op = "exchange"}
                  /\ queue' = [q \in Queues |->
                                 IF call = Call("queue", q) THEN "declared" ELSE queue[q]]
                  /\ bindings' = bindings \cup {q \in {call.name} : call.op = "bind"}
  BY DEF Declare
<1>2. place[c] \in 1 .. 8
  BY SetupCalls DEF Declare
<1>3. place' = [place EXCEPT ![c] = place[c] + 1]
  BY DEF Declare
<1>4. UNCHANGED <<cancelled, holding, api, event, stored, deleted, crashes>>
  BY DEF Declare
<1>5. ASSUME NEW x, call = Call("exchange", x)
      PROVE  exchanges' = exchanges \cup {x} /\ UNCHANGED <<queue, bindings>>
  <2>1. \A q : call # Call("queue", q)
    BY <1>5 DEF Call
  <2>2. call.op = "exchange" /\ call.name = x
    BY <1>5 DEF Call
  <2> QED
    BY <1>0, <1>1, <2>1, <2>2
<1>6. ASSUME NEW q \in Queues, call = Call("queue", q)
      PROVE  queue' = [queue EXCEPT ![q] = "declared"] /\ UNCHANGED <<exchanges, bindings>>
  <2>1. \A p : call = Call("queue", p) <=> p = q
    BY <1>6 DEF Call
  <2>2. call.op = "queue"
    BY <1>6 DEF Call
  <2> QED
    BY <1>0, <1>1, <2>1, <2>2
<1>7. ASSUME NEW q \in Queues, call = Call("bind", q)
      PROVE  /\ bindings' = bindings \cup {q} /\ queue[q] # "none"
             /\ UNCHANGED <<exchanges, queue>>
  <2>1. \A p : call # Call("queue", p)
    BY <1>7 DEF Call
  <2>2. call.op = "bind" /\ call.name = q
    BY <1>7 DEF Call
  <2> QED
    BY <1>0, <1>1, <2>1, <2>2 DEF Accepted
<1>8. ASSUME call = Call("consume", "work")
      PROVE  queue["work"] # "none" /\ UNCHANGED <<exchanges, queue, bindings>>
  <2>1. \A p : call # Call("queue", p)
    BY <1>8 DEF Call
  <2>2. call.op = "consume" /\ call.name = "work"
    BY <1>8 DEF Call
  <2> QED
    BY <1>0, <1>1, <2>1, <2>2 DEF Accepted
<1>9. {"dlq", "work", "retry"} = Queues
  BY DEF Queues
<1>10. /\ place[c] = 1 => exchanges' = exchanges \cup {"events"} /\ UNCHANGED <<queue, bindings>>
       /\ place[c] = 2 => exchanges' = exchanges \cup {"dlx"} /\ UNCHANGED <<queue, bindings>>
  BY <1>1, <1>5, SetupCalls
<1>11. /\ place[c] = 3 => /\ queue' = [queue EXCEPT !["dlq"] = "declared"]
                          /\ UNCHANGED <<exchanges, bindings>>
       /\ place[c] = 5 => /\ queue' = [queue EXCEPT !["work"] = "declared"]
                          /\ UNCHANGED <<exchanges, bindings>>
       /\ place[c] = 6 => /\ queue' = [queue EXCEPT !["retry"] = "declared"]
                          /\ UNCHANGED <<exchanges, bindings>>
  BY <1>1, <1>6, <1>9, SetupCalls
<1>12. /\ place[c] = 4 => bindings' = bindings \cup {"dlq"} /\ UNCHANGED <<exchanges, queue>>
       /\ place[c] = 7 => /\ bindings' = bindings \cup {"work"} /\ queue["work"] # "none"
                          /\ UNCHANGED <<exchanges, queue>>
  BY <1>1, <1>7, <1>9, SetupCalls
<1>13. place[c] = 8 => queue["work"] # "none" /\ UNCHANGED <<exchanges, queue, bindings>>
  BY <1>1, <1>8, SetupCalls
<1>14. \/ place[c] = 1 \/ place[c] = 2 \/ place[c] = 3 \/ place[c] = 4
       \/ place[c] = 5 \/ place[c] = 6 \/ place[c] = 7 \/ place[c] = 8
  BY ONLY <1>2
<1> QED
  BY ONLY <1>3, <1>4, <1>10, <1>11, <1>12, <1>13, <1>14

(* The handler settles its delivery, or publishes a copy of it. *)
LEMMA SettlementKinds ==
  ASSUME NEW c \in Consumers, NEW m \in Message, HandlerStep(c, m)
  PROVE  \/ Settle(c, m, {"held"}, "executed")
         \/ Settle(c, m, {"held"}, "dlq") /\ DeadLetters(c)
         \/ Settle(c, m, {"held"}, "dropped") /\ ~DeadLetters(c)
         \/ Settle(c, m, {"held"}, "work")
         \/ Settle(c, m, {"held"}, "deleted") /\ c \in cancelled
         \/ Settle(c, m, {"copied"}, "acked")
         \/ \E n \in Message : CopiesForRetry(c, m, n)
BY DEF HandlerStep, Executes, Rejects, RequeuesUncopied, AcksCopied, Requeued

(* Whatever it does, the topology and the processes stay as they are, but for
   what the consumer has in hand. *)
LEMMA HandlerLeaves ==
  ASSUME NEW c \in Consumers, NEW m \in Message, HandlerStep(c, m)
  PROVE  /\ m \in holding[c]
         /\ holding' = [holding EXCEPT ![c] = {}] \/ UNCHANGED holding
         /\ UNCHANGED <<topology, place, cancelled, api, stored, deleted, crashes>>
BY SettlementKinds DEF Settle, CopiesForRetry, topology, processes

(* The types hold after every step. *)
LEMMA TopologyTypes == TypeOK /\ [Next]_topologyVars => TypeOK'
<1> SUFFICES ASSUME TypeOK, [Next]_topologyVars
             PROVE  TypeOK'
  OBVIOUS
<1> USE DEF topology, processes
<1>0. /\ place \in [Consumers -> 0 .. 9] /\ crashes \in 0 .. MaxCrashes
      /\ holding \in [Consumers -> SUBSET Message] /\ event \in [Message -> Spots]
      /\ queue \in [Queues -> Arguments]
      /\ exchanges \subseteq {"events", "dlx"} /\ bindings \subseteq {"dlq", "work"}
      /\ cancelled \subseteq Consumers /\ api \in BOOLEAN /\ deleted \subseteq Queues
      /\ stored \subseteq Message
      /\ TypeOK' <=> /\ exchanges' \subseteq {"events", "dlx"}
                     /\ queue' \in [Queues -> Arguments]
                     /\ bindings' \subseteq {"dlq", "work"}
                     /\ place' \in [Consumers -> 0 .. 9]
                     /\ cancelled' \subseteq Consumers
                     /\ holding' \in [Consumers -> SUBSET Message]
                     /\ api' \in BOOLEAN
                     /\ event' \in [Message -> Spots]
                     /\ stored' \subseteq Message
                     /\ deleted' \subseteq Queues
                     /\ crashes' \in 0 .. MaxCrashes
  BY SetupCalls DEF TypeOK
<1>1. ASSUME Crash
      PROVE  crashes' \in 0 .. MaxCrashes
  <2>1. /\ crashes \in Nat /\ MaxCrashes \in Nat
        /\ crashes < MaxCrashes /\ crashes' = crashes + 1
    BY <1>0, <1>1, TopologyAssumption DEF Crash
  <2> QED
    BY ONLY <2>1
<1>2. ASSUME NEW m \in Message, NEW to \in Spots, Moves(m, to)
      PROVE  event' \in [Message -> Spots]
  BY <1>0, <1>2 DEF Moves
<1>3. {"work", "retry", "dlq", "executed", "dropped", "returned", "wire", "held", "deleted",
       "lost", "copied", "acked"} \subseteq Spots
  BY DEF Spots, Queues
<1>4. ASSUME NEW c \in Consumers, Start(c) \/ DeclareFails(c) \/ CancelledExits(c)
      PROVE  TypeOK'
  <2>1. place' = [place EXCEPT ![c] = 0] \/ place' = [place EXCEPT ![c] = 1]
    BY <1>4 DEF Start, DeclareFails, CancelledExits
  <2>2. place' \in [Consumers -> 0 .. 9]
    BY <1>0, <2>1
  <2>3. /\ cancelled' \subseteq cancelled
        /\ UNCHANGED <<exchanges, queue, bindings, holding, api, event, stored, deleted, crashes>>
    BY <1>4 DEF Start, DeclareFails, CancelledExits
  <2> QED
    BY <1>0, <2>2, <2>3
<1>5. ASSUME NEW c \in Consumers, Declare(c)
      PROVE  TypeOK'
  <2>1. UNCHANGED <<cancelled, holding, api, event, stored, deleted, crashes>>
    BY <1>5, DeclareCases
  <2>2. place' \in [Consumers -> 0 .. 9]
    <3>1. place[c] \in 1 .. 8 /\ place' = [place EXCEPT ![c] = place[c] + 1]
      BY <1>5, DeclareCases
    <3> QED
      BY <1>0, <3>1
  <2>3. exchanges' \subseteq {"events", "dlx"} /\ bindings' \subseteq {"dlq", "work"}
    BY <1>0, <1>5, DeclareCases
  <2>4. queue' \in [Queues -> Arguments]
    BY <1>0, <1>5, DeclareCases DEF Arguments
  <2> QED
    BY <1>0, <2>1, <2>2, <2>3, <2>4
<1>6. CASE ApiStarts
  BY <1>0, <1>6 DEF ApiStarts
<1>7. ASSUME NEW m \in Message, Publish(m) \/ Route(m) \/ Expire(m)
      PROVE  TypeOK'
  <2>1. PICK to \in Spots : Moves(m, to)
    BY <1>3, <1>7 DEF Publish, Route, Expire
  <2>2. event' \in [Message -> Spots]
    BY <1>2, <2>1
  <2>3. UNCHANGED <<topology, processes, stored, deleted, crashes>>
    BY <1>7 DEF Publish, Route, Expire
  <2> QED
    BY ONLY <1>0, <2>2, <2>3 DEF topology, processes
<1>8. ASSUME NEW c \in Consumers, NEW m \in Message, Deliver(c, m) \/ HandlerStep(c, m)
      PROVE  TypeOK'
  <2>1. CASE Deliver(c, m)
    <3>1. event' \in [Message -> Spots]
      BY <1>2, <1>3, <2>1 DEF Deliver
    <3> QED
      BY <1>0, <2>1, <3>1 DEF Deliver
  <2>2. ASSUME NEW from, NEW to \in Spots, Settle(c, m, from, to)
        PROVE  TypeOK'
    <3>1. event' \in [Message -> Spots]
      BY <1>2, <2>2 DEF Settle
    <3>2. /\ holding' = [holding EXCEPT ![c] = {}]
          /\ UNCHANGED <<exchanges, queue, bindings, place, cancelled, api, stored, deleted, crashes>>
      BY <2>2 DEF Settle
    <3> QED
      BY ONLY <1>0, <3>1, <3>2
  <2>3. ASSUME NEW n \in Message, CopiesForRetry(c, m, n)
        PROVE  TypeOK'
    <3>1. event' \in [Message -> Spots]
      BY <1>0, <1>3, <2>3 DEF CopiesForRetry
    <3>2. UNCHANGED <<topology, processes, stored, deleted, crashes>>
      BY <2>3 DEF CopiesForRetry
    <3> QED
      BY ONLY <1>0, <3>1, <3>2 DEF topology, processes
  <2>4. \/ \E from : \E to \in Spots : Settle(c, m, from, to)
        \/ Deliver(c, m)
        \/ \E n \in Message : CopiesForRetry(c, m, n)
    BY <1>3, <1>8, SettlementKinds
  <2> QED
    BY <2>1, <2>2, <2>3, <2>4
<1>9. ASSUME NEW q \in Queues, DeleteQueue(q)
      PROVE  TypeOK'
  <2>1. event' \in [Message -> Spots]
    BY <1>0, <1>3, <1>9 DEF DeleteQueue
  <2>2. queue' \in [Queues -> Arguments]
    BY <1>0, <1>9 DEF DeleteQueue, Arguments
  <2> QED
    BY <1>0, <1>9, <2>1, <2>2 DEF DeleteQueue
<1>10. ASSUME NEW c \in Consumers, ConsumerDies(c)
       PROVE  TypeOK'
  <2>1. event' \in [Message -> Spots]
    BY <1>0, <1>3, <1>10 DEF ConsumerDies, Requeued
  <2> QED
    BY <1>0, <1>1, <1>10, <2>1 DEF ConsumerDies
<1>11. CASE ApiDies
  <2>1. event' \in [Message -> Spots]
    BY <1>0, <1>3, <1>11 DEF ApiDies
  <2> QED
    BY <1>0, <1>1, <1>11, <2>1 DEF ApiDies
<1>12. CASE BrokerRestarts
  <2>1. event' \in [Message -> Spots]
    <3>1. \A m \in Message : Requeued(CHOOSE c \in Consumers : m \in holding[c]) \in Spots
      BY <1>3 DEF Requeued
    <3> QED
      BY <1>0, <1>3, <1>12, <3>1 DEF BrokerRestarts
  <2>2. queue' \in [Queues -> Arguments]
    BY <1>0, <1>12 DEF BrokerRestarts, Arguments
  <2>3. /\ place' \in [Consumers -> 0 .. 9] /\ cancelled' = {} /\ api' = FALSE
        /\ holding' \in [Consumers -> SUBSET Message]
        /\ bindings' \subseteq bindings /\ UNCHANGED <<exchanges, stored, deleted>> /\ Crash
    BY <1>12 DEF BrokerRestarts
  <2> QED
    BY <1>0, <1>1, <2>1, <2>2, <2>3
<1>13. CASE UNCHANGED topologyVars
  BY <1>0, <1>13 DEF topologyVars
<1>14. ASSUME NEW m \in Message, Store(m)
       PROVE  TypeOK'
  BY <1>0, <1>14 DEF Store
<1> QED
  BY <1>4, <1>5, <1>6, <1>7, <1>8, <1>9, <1>10, <1>11, <1>12, <1>13, <1>14
  DEF Next, RunStep, Idle

-----------------------------------------------------------------------------
(* Every step but a declaration leaves the topology as it is, but for a queue
   that is deleted, and sets no consumer up. *)
Keeps ==
  /\ exchanges \subseteq exchanges' /\ deleted \subseteq deleted'
  /\ \A q \in Queues :
       /\ q \notin deleted' => /\ queue'[q] = queue[q]
                               /\ q \in bindings => q \in bindings'
       /\ queue'[q] # "none" => queue'[q] = queue[q]
       /\ q \in bindings' => q \in bindings /\ queue'[q] = queue[q]
  /\ \A c \in Consumers :
       /\ place'[c] = place[c] \/ place'[c] \in {0, 1}
       /\ Consuming(c)' => Consuming(c) /\ queue'["work"] = queue["work"]

(* Every step but a declaration keeps what the consumers rely on. *)
LEMMA OthersKeep ==
  ASSUME TypeOK, [Next]_topologyVars
  PROVE  Keeps \/ \E c \in Consumers : Declare(c)
<1> USE DEF topology, processes
<1>0. /\ place \in [Consumers -> 0 .. 9] /\ queue \in [Queues -> Arguments]
      /\ cancelled \subseteq Consumers
      /\ \A c \in Consumers :
           /\ Consuming(c) <=> place[c] = 9 /\ c \notin cancelled
           /\ Consuming(c)' <=> place'[c] = 9 /\ c \notin cancelled'
  BY SetupCalls DEF TypeOK, Consuming
<1>1. ASSUME UNCHANGED <<topology, deleted>>,
             \A c \in Consumers :
               \/ place'[c] \in {0, 1}
               \/ place'[c] = place[c] /\ (c \in cancelled' <=> c \in cancelled)
      PROVE  Keeps
  BY <1>0, <1>1 DEF Keeps
<1>2. ASSUME NEW c \in Consumers,
             Start(c) \/ DeclareFails(c) \/ CancelledExits(c) \/ ConsumerDies(c)
      PROVE  Keeps
  <2>1. /\ UNCHANGED <<topology, deleted>>
        /\ place' = [place EXCEPT ![c] = 0] \/ place' = [place EXCEPT ![c] = 1]
        /\ cancelled' = cancelled \/ cancelled' = cancelled \ {c}
    BY <1>2 DEF Start, DeclareFails, CancelledExits, ConsumerDies
  <2>2. ASSUME NEW d \in Consumers
        PROVE  \/ place'[d] \in {0, 1}
               \/ place'[d] = place[d] /\ (d \in cancelled' <=> d \in cancelled)
    BY <1>0, <2>1
  <2> QED
    BY <1>1, <2>1, <2>2
<1>3. CASE ApiStarts
  BY <1>0, <1>3 DEF ApiStarts, Keeps
<1>4. ASSUME NEW m \in Message, Publish(m) \/ Route(m) \/ Store(m) \/ Expire(m)
      PROVE  Keeps
  BY <1>1, <1>4 DEF Publish, Route, Store, Expire
<1>5. ASSUME NEW c \in Consumers, NEW m \in Message, Deliver(c, m) \/ HandlerStep(c, m)
      PROVE  Keeps
  BY <1>1, <1>5, HandlerLeaves DEF Deliver
<1>6. ASSUME NEW q \in Queues, DeleteQueue(q)
      PROVE  Keeps
  <2>1. /\ queue' = [queue EXCEPT ![q] = "none"] /\ bindings' = bindings \ {q}
        /\ deleted' = deleted \cup {q} /\ UNCHANGED <<exchanges, place>>
        /\ cancelled' = cancelled \cup {c \in Consumers : q = "work" /\ Consuming(c)}
    BY <1>6 DEF DeleteQueue
  <2>2. \A p \in Queues \ {q} : queue'[p] = queue[p]
    BY <1>0, <2>1
  <2>3. queue'[q] = "none"
    BY <1>0, <2>1
  <2>4. "work" \in Queues
    BY DEF Queues
  <2>5. \A c \in Consumers : Consuming(c)' => Consuming(c) /\ q # "work"
    BY <1>0, <2>1
  <2> QED
    BY <2>1, <2>2, <2>3, <2>4, <2>5 DEF Keeps
<1>7. CASE ApiDies
  BY <1>1, <1>7 DEF ApiDies
<1>8. CASE BrokerRestarts
  <2>1. /\ UNCHANGED <<exchanges, deleted>> /\ bindings' = bindings \cap Queues
        /\ queue' = [q \in Queues |-> queue[q]]
        /\ place' = [c \in Consumers |-> 0]
    BY <1>8 DEF BrokerRestarts, DurableQueues
  <2> QED
    BY <1>0, <2>1 DEF Keeps
<1>9. CASE UNCHANGED topologyVars
  BY <1>1, <1>9 DEF topologyVars
<1> QED
  BY <1>2, <1>3, <1>4, <1>5, <1>6, <1>7, <1>8, <1>9 DEF Next, RunStep, Idle

-----------------------------------------------------------------------------
(* The inductive invariant. *)
LEMMA TopologyInitially == Init => TopologyInv
<1> SUFFICES ASSUME Init
             PROVE  TopologyInv
  OBVIOUS
<1>1. /\ exchanges \subseteq {"events", "dlx"} /\ bindings \subseteq {"dlq", "work"}
      /\ queue \in [Queues -> Arguments] /\ queue["work"] # "declared"
      /\ "work" \in bindings => queue["work"] # "none"
  BY DEF Init, Queues, Arguments
<1>2. /\ place = [c \in Consumers |-> 0] /\ cancelled = {} /\ api = FALSE /\ deleted = {}
      /\ holding = [c \in Consumers |-> {}] /\ event = [m \in Message |-> "none"]
      /\ crashes = 0 /\ stored = {}
  BY DEF Init
<1>3. TypeOK
  <2>1. crashes \in 0 .. MaxCrashes
    BY <1>2, TopologyAssumption
  <2>2. place \in [Consumers -> 0 .. Len(Setup) + 1]
    BY <1>2, SetupCalls
  <2>3. /\ cancelled \subseteq Consumers /\ deleted \subseteq Queues /\ api \in BOOLEAN
        /\ holding \in [Consumers -> SUBSET Message] /\ event \in [Message -> Spots]
        /\ stored \subseteq Message
    BY <1>2 DEF Spots
  <2> QED
    BY <1>1, <2>1, <2>2, <2>3 DEF TypeOK
<1>4. \A c \in Consumers : place[c] = 0 /\ ~Consuming(c)
  BY <1>2, SetupCalls DEF Consuming
<1>5. /\ SetupProgress /\ TopologyReady /\ Holders /\ WorkStays
      /\ CopyBehind /\ StoredTaken
  BY <1>1, <1>2, <1>4
  DEF SetupProgress, TopologyReady, Holders, WorkStays, Live, CopyBehind, StoredTaken
<1> QED
  BY <1>3, <1>5 DEF TopologyInv

(* What the declarations have put in place stays, whoever acts. *)
LEMMA ReadyStep ==
  ASSUME TopologyInv, [Next]_topologyVars
  PROVE  SetupProgress' /\ TopologyReady'
<1>0. /\ TypeOK /\ TypeOK' /\ SetupProgress /\ TopologyReady
      /\ place \in [Consumers -> 0 .. 9] /\ queue \in [Queues -> Arguments]
      /\ "work" \in Queues /\ "dlq" \in Queues /\ "retry" \in Queues
      /\ \A c \in Consumers :
           /\ Consuming(c) <=> place[c] = 9 /\ c \notin cancelled
           /\ Consuming(c)' <=> place'[c] = 9 /\ c \notin cancelled'
  BY TopologyTypes, SetupCalls DEF TopologyInv, TypeOK, Consuming, Queues
<1>1. CASE Keeps
  <2>1. ASSUME NEW c \in Consumers
        PROVE  /\ place'[c] > 2 => "dlx" \in exchanges'
               /\ place'[c] > 4 /\ "dlq" \notin deleted' => "dlq" \in bindings'
               /\ place'[c] > 5 => queue'["work"] # "legacy"
               /\ place'[c] > 6 /\ "retry" \notin deleted' => queue'["retry"] # "none"
               /\ place'[c] > 7 /\ "work" \notin deleted' => "work" \in bindings'
    BY <1>0, <1>1, <2>1 DEF Keeps, SetupProgress
  <2>2. SetupProgress'
    BY <2>1 DEF SetupProgress
  <2>3. queue'["work"] = "declared" /\ "dlq" \notin deleted' =>
          "dlx" \in exchanges' /\ "dlq" \in bindings'
    BY <1>0, <1>1 DEF Keeps, TopologyReady
  <2>4. ASSUME NEW c \in Consumers, Consuming(c)'
        PROVE  /\ "retry" \notin deleted' => queue'["retry"] # "none"
               /\ "work" \notin deleted' => "work" \in bindings'
               /\ queue'["work"] = "declared"
    <3>1. Consuming(c) /\ queue'["work"] = queue["work"]
      BY <1>1, <2>4 DEF Keeps
    <3>2. "retry" \notin deleted' => queue'["retry"] = queue["retry"] /\ "retry" \notin deleted
      BY <1>0, <1>1 DEF Keeps
    <3>3. "work" \notin deleted' /\ "work" \in bindings => "work" \in bindings'
      BY <1>0, <1>1 DEF Keeps
    <3>4. "work" \notin deleted' => "work" \notin deleted
      BY <1>1 DEF Keeps
    <3> QED
      BY <1>0, <3>1, <3>2, <3>3, <3>4 DEF TopologyReady
  <2>5. TopologyReady'
    BY <2>3, <2>4 DEF TopologyReady
  <2> QED
    BY <2>2, <2>5
<1>2. ASSUME NEW d \in Consumers, Declare(d)
      PROVE  SetupProgress' /\ TopologyReady'
  <2>1. /\ place' = [place EXCEPT ![d] = place[d] + 1] /\ place[d] \in 1 .. 8
        /\ UNCHANGED <<cancelled, deleted>>
        /\ exchanges \subseteq exchanges' /\ bindings \subseteq bindings'
        /\ \A q \in Queues : queue'[q] = queue[q] \/ queue'[q] = "declared"
    BY <1>0, <1>2, DeclareCases
  <2>2. /\ place[d] = 2 => "dlx" \in exchanges'
        /\ place[d] = 4 => "dlq" \in bindings'
        /\ place[d] = 5 => queue'["work"] = "declared"
        /\ place[d] = 6 => queue'["retry"] = "declared"
        /\ place[d] = 7 => "work" \in bindings'
        /\ place[d] = 8 => queue["work"] # "none"
        /\ place[d] # 5 => queue'["work"] = queue["work"]
    BY <1>0, <1>2, DeclareCases
  <2>3. ASSUME NEW c \in Consumers, place'[c] = place[c]
        PROVE  /\ place'[c] > 2 => "dlx" \in exchanges'
               /\ place'[c] > 4 /\ "dlq" \notin deleted' => "dlq" \in bindings'
               /\ place'[c] > 5 => queue'["work"] # "legacy"
               /\ place'[c] > 6 /\ "retry" \notin deleted' => queue'["retry"] # "none"
               /\ place'[c] > 7 /\ "work" \notin deleted' => "work" \in bindings'
    BY <1>0, <2>1, <2>3 DEF SetupProgress
  <2>4. /\ place[d] > 1 => place[d] = 2 \/ place[d] > 2
        /\ place[d] > 3 => place[d] = 4 \/ place[d] > 4
        /\ place[d] > 4 => place[d] = 5 \/ place[d] > 5
        /\ place[d] > 5 => place[d] = 6 \/ place[d] > 6
        /\ place[d] > 6 => place[d] = 7 \/ place[d] > 7
        /\ place'[d] = place[d] + 1 /\ place[d] > 4 => place[d] > 2
        /\ place[d] > 7 => place[d] = 8
        /\ place[d] > 5 => place[d] # 5
    BY <1>0, <2>1
  <2>5. /\ place'[d] > 2 => place[d] > 1
        /\ place'[d] > 4 => place[d] > 3
        /\ place'[d] > 5 => place[d] > 4
        /\ place'[d] > 6 => place[d] > 5
        /\ place'[d] > 7 => place[d] > 6
        /\ place'[d] = 9 => place[d] = 8
    BY <1>0, <2>1
  <2>6. /\ place'[d] > 2 => "dlx" \in exchanges'
        /\ place'[d] > 4 /\ "dlq" \notin deleted' => "dlq" \in bindings'
        /\ place'[d] > 5 => queue'["work"] # "legacy"
        /\ place'[d] > 6 /\ "retry" \notin deleted' => queue'["retry"] # "none"
        /\ place'[d] > 7 /\ "work" \notin deleted' => "work" \in bindings'
    BY <1>0, <2>1, <2>2, <2>4, <2>5 DEF SetupProgress
  <2>7. \A c \in Consumers : c # d => place'[c] = place[c]
    BY <1>0, <2>1
  <2>8. SetupProgress'
    BY <2>3, <2>6, <2>7 DEF SetupProgress
  <2>9. queue'["work"] = "declared" /\ "dlq" \notin deleted' =>
          "dlx" \in exchanges' /\ "dlq" \in bindings'
    <3>1. CASE place[d] = 5
      BY <1>0, <2>1, <3>1 DEF SetupProgress
    <3>2. CASE place[d] # 5
      BY <1>0, <2>1, <2>2, <3>2 DEF TopologyReady
    <3> QED
      BY <3>1, <3>2
  <2>10. ASSUME NEW c \in Consumers, Consuming(c)'
         PROVE  /\ "retry" \notin deleted' => queue'["retry"] # "none"
                /\ "work" \notin deleted' => "work" \in bindings'
                /\ queue'["work"] = "declared"
    <3>1. CASE c = d
      <4>1. place[d] = 8
        BY <1>0, <2>5, <2>10, <3>1
      <4>2. /\ queue["work"] # "legacy"
            /\ "retry" \notin deleted => queue["retry"] # "none"
            /\ "work" \notin deleted => "work" \in bindings
        BY <1>0, <4>1 DEF SetupProgress
      <4>3. queue["work"] = "declared"
        BY <1>0, <2>2, <4>1, <4>2 DEF Arguments
      <4> QED
        BY <1>0, <2>1, <4>2, <4>3
    <3>2. CASE c # d
      <4>1. Consuming(c)
        BY <1>0, <2>1, <2>7, <2>10, <3>2
      <4> QED
        BY <1>0, <2>1, <4>1 DEF TopologyReady
    <3> QED
      BY <3>1, <3>2
  <2>11. TopologyReady'
    BY <2>9, <2>10 DEF TopologyReady
  <2> QED
    BY <2>8, <2>11
<1> QED
  BY <1>0, <1>1, <1>2, OthersKeep

(* Deliveries are with a consumer that was set up. *)
LEMMA HoldersStep ==
  ASSUME TopologyInv, [Next]_topologyVars
  PROVE  Holders'
<1> USE DEF topology, processes
<1>0. /\ TypeOK /\ TypeOK' /\ Holders
      /\ place \in [Consumers -> 0 .. 9] /\ holding \in [Consumers -> SUBSET Message]
      /\ cancelled \subseteq Consumers
      /\ \A c \in Consumers : Consuming(c) <=> place[c] = 9 /\ c \notin cancelled
      /\ \A c \in Consumers : /\ holding[c] # {} => place[c] = 9
                              /\ c \in cancelled => "work" \in deleted
      /\ Holders' <=> \A c \in Consumers :
                        /\ holding'[c] # {} => place'[c] = 9
                        /\ c \in cancelled' => "work" \in deleted'
  BY TopologyTypes, SetupCalls DEF TopologyInv, TypeOK, Consuming, Holders
<1>1. ASSUME NEW c \in Consumers, Start(c) \/ DeclareFails(c) \/ CancelledExits(c)
      PROVE  Holders'
  <2>1. /\ holding[c] = {} /\ UNCHANGED <<holding, deleted>> /\ cancelled' \subseteq cancelled
        /\ \A d \in Consumers : d # c => place'[d] = place[d]
    <3>1. place[c] # 9 \/ holding[c] = {}
      BY <1>1, SetupCalls DEF Start, DeclareFails, CancelledExits
    <3> QED
      BY <1>0, <1>1, <3>1 DEF Start, DeclareFails, CancelledExits
  <2> QED
    BY <1>0, <2>1
<1>2. ASSUME NEW c \in Consumers, Declare(c)
      PROVE  Holders'
  <2>1. /\ place' = [place EXCEPT ![c] = place[c] + 1] /\ place[c] \in 1 .. 8
        /\ UNCHANGED <<cancelled, holding, deleted>>
    BY <1>0, <1>2, DeclareCases
  <2>2. holding[c] = {}
    BY <1>0, <2>1
  <2>3. \A d \in Consumers : d # c => place'[d] = place[d]
    BY <1>0, <2>1
  <2> QED
    BY <1>0, <2>1, <2>2, <2>3
<1>3. ASSUME UNCHANGED <<place, cancelled, holding, deleted>>
      PROVE  Holders'
  BY <1>0, <1>3
<1>4. ASSUME NEW c \in Consumers, NEW m \in Message, Deliver(c, m)
      PROVE  Holders'
  <2>1. /\ place[c] = 9 /\ holding' = [holding EXCEPT ![c] = {m}]
        /\ UNCHANGED <<place, cancelled, deleted>>
    BY <1>0, <1>4 DEF Deliver
  <2> QED
    BY <1>0, <2>1
<1>5. ASSUME NEW c \in Consumers, NEW m \in Message, HandlerStep(c, m)
      PROVE  Holders'
  <2>1. /\ holding' = [holding EXCEPT ![c] = {}] \/ UNCHANGED holding
        /\ UNCHANGED <<place, cancelled, deleted>>
    BY <1>5, HandlerLeaves
  <2> QED
    BY <1>0, <2>1
<1>6. ASSUME NEW q \in Queues, DeleteQueue(q)
      PROVE  Holders'
  <2>1. /\ cancelled' = cancelled \cup {c \in Consumers : q = "work" /\ Consuming(c)}
        /\ deleted' = deleted \cup {q} /\ UNCHANGED <<place, holding>>
    BY <1>6 DEF DeleteQueue
  <2> QED
    BY <1>0, <2>1
<1>7. ASSUME NEW c \in Consumers, ConsumerDies(c)
      PROVE  Holders'
  <2>1. /\ place' = [place EXCEPT ![c] = 0] /\ holding' = [holding EXCEPT ![c] = {}]
        /\ cancelled' = cancelled \ {c} /\ UNCHANGED deleted
    BY <1>7 DEF ConsumerDies
  <2> QED
    BY <1>0, <2>1
<1>8. CASE BrokerRestarts
  <2>1. holding' = [c \in Consumers |-> {}] /\ cancelled' = {}
    BY <1>8 DEF BrokerRestarts
  <2> QED
    BY <1>0, <2>1
<1>9. CASE \/ ApiStarts \/ ApiDies \/ UNCHANGED topologyVars
           \/ \E m \in Message : Publish(m) \/ Route(m) \/ Store(m) \/ Expire(m)
  BY <1>3, <1>9 DEF ApiStarts, ApiDies, Publish, Route, Store, Expire, topologyVars
<1> QED
  BY <1>1, <1>2, <1>4, <1>5, <1>6, <1>7, <1>8, <1>9 DEF Next, RunStep, Idle

(* A message is where the work queue was, unless that was deleted. *)
LEMMA WorkSource ==
  ASSUME TopologyInv, [Next]_topologyVars, "work" \notin deleted',
         NEW m \in Message, event'[m] \in Live
  PROVE  queue["work"] # "none"
<1> USE DEF topology, processes
<1>0. /\ TypeOK /\ event \in [Message -> Spots] /\ "work" \in Queues
      /\ "work" \in bindings => queue["work"] # "none"
  BY DEF TopologyInv, TypeOK, WorkStays, Queues
<1>1. "work" \notin deleted
  <2>1. deleted \subseteq deleted'
    BY <1>0, OthersKeep, DeclareCases DEF Keeps
  <2> QED
    BY <2>1
<1>2. event[m] \in Live => queue["work"] # "none"
  BY <1>1 DEF TopologyInv, WorkStays
<1>3. ASSUME NEW c \in Consumers, holding[c] # {}
      PROVE  queue["work"] # "none"
  <2>1. Consuming(c)
    BY <1>1, <1>3 DEF TopologyInv, Holders, Consuming
  <2>2. queue["work"] = "declared"
    BY <2>1 DEF TopologyInv, TopologyReady
  <2> QED
    BY <2>2
<1>4. CASE event'[m] = event[m]
  BY <1>2, <1>4
<1>5. ASSUME NEW p \in Message, Publish(p)
      PROVE  event'[m] = event[m]
  BY <1>0, <1>5 DEF Publish, Moves, Live
<1>6. ASSUME NEW p \in Message, Route(p)
      PROVE  queue["work"] # "none"
  <2>1. event'[m] = event[m] \/ "work" \in bindings
    BY <1>0, <1>6 DEF Route, Moves, Live
  <2> QED
    BY <1>0, <1>4, <2>1
<1>7. ASSUME NEW p \in Message, Store(p) \/ Expire(p)
      PROVE  queue["work"] # "none"
  <2>1. event'[m] = event[m] \/ event[m] \in Live
    BY <1>0, <1>7 DEF Store, Expire, Moves, Live
  <2> QED
    BY <1>2, <1>4, <2>1
<1>8. ASSUME NEW c \in Consumers, NEW p \in Message, Deliver(c, p)
      PROVE  queue["work"] # "none"
  <2>1. event'[m] = event[m] \/ event[m] = "work"
    BY <1>0, <1>8 DEF Deliver, Moves
  <2> QED
    BY <1>2, <1>4, <2>1 DEF Live
<1>9. ASSUME NEW c \in Consumers, NEW p \in Message, HandlerStep(c, p)
      PROVE  queue["work"] # "none"
  BY <1>3, <1>9, HandlerLeaves
<1>10. ASSUME NEW q \in Queues, DeleteQueue(q)
       PROVE  event'[m] = event[m]
  BY <1>10 DEF DeleteQueue, Live
<1>11. ASSUME NEW c \in Consumers, ConsumerDies(c)
       PROVE  queue["work"] # "none"
  <2>1. event'[m] = event[m] \/ holding[c] # {}
    BY <1>11 DEF ConsumerDies
  <2> QED
    BY <1>3, <1>4, <2>1
<1>12. CASE ApiDies
  BY <1>4, <1>12 DEF ApiDies, Live
<1>13. CASE BrokerRestarts
  <2>1. event'[m] = event[m] \/ event[m] \in {"held", "copied"}
    BY <1>13 DEF BrokerRestarts, Live
  <2> QED
    BY <1>2, <1>4, <2>1 DEF Live
<1>14. ASSUME NEW c \in Consumers, RunStep(c)
       PROVE  event'[m] = event[m]
  BY <1>14 DEF RunStep, Start, Declare, DeclareFails, CancelledExits
<1>15. CASE ApiStarts \/ UNCHANGED topologyVars
  BY <1>4, <1>15 DEF ApiStarts, topologyVars
<1> QED
  BY <1>4, <1>5, <1>6, <1>7, <1>8, <1>9, <1>10, <1>11, <1>12, <1>13, <1>14, <1>15 DEF Next, Idle

(* What is bound, and what an event went through, goes on existing. *)
LEMMA WorkStaysStep ==
  ASSUME TopologyInv, [Next]_topologyVars
  PROVE  WorkStays'
<1>0. /\ TypeOK /\ queue \in [Queues -> Arguments] /\ WorkStays /\ "work" \in Queues
  BY DEF TopologyInv, TypeOK, Queues
<1>1. "work" \in bindings' => queue'["work"] # "none"
  <2>1. CASE Keeps
    BY <1>0, <2>1 DEF Keeps, WorkStays
  <2>2. ASSUME NEW c \in Consumers, Declare(c)
        PROVE  "work" \in bindings' => queue'["work"] # "none"
    BY <1>0, <2>2, DeclareCases DEF WorkStays
  <2> QED
    BY <1>0, <2>1, <2>2, OthersKeep
<1>2. "work" \notin deleted' /\ queue["work"] # "none" => queue'["work"] # "none"
  <2>1. CASE Keeps
    BY <1>0, <2>1 DEF Keeps
  <2>2. ASSUME NEW c \in Consumers, Declare(c)
        PROVE  queue["work"] # "none" => queue'["work"] # "none"
    BY <1>0, <2>2, DeclareCases
  <2> QED
    BY <1>0, <2>1, <2>2, OthersKeep
<1>3. ASSUME "work" \notin deleted', NEW m \in Message, event'[m] \in Live
      PROVE  queue'["work"] # "none"
  BY <1>2, <1>3, WorkSource
<1> QED
  BY <1>1, <1>3 DEF WorkStays, Live

(* While no queue is deleted, what a handler does with a delivery finds the
   queue that takes it. *)
LEMMA HandlerFinds ==
  ASSUME TopologyInv, deleted = {},
         NEW c \in Consumers, NEW m \in Message, HandlerStep(c, m)
  PROVE  DeadLetters(c) /\ c \notin cancelled /\ queue["retry"] # "none"
<1>1. holding[c] # {}
  BY HandlerLeaves
<1>2. Consuming(c) /\ c \notin cancelled
  BY <1>1 DEF TopologyInv, Holders, Consuming
<1>3. queue["work"] = "declared" /\ queue["retry"] # "none"
  BY <1>2 DEF TopologyInv, TopologyReady
<1>4. "dlx" \in exchanges /\ "dlq" \in bindings
  BY <1>3 DEF TopologyInv, TopologyReady
<1> QED
  BY <1>2, <1>3, <1>4 DEF DeadLetters

(* While no queue is deleted, a message that remains goes on remaining, but
   for an ack after its copy and for what a restarting broker has not stored. *)
LEMMA Leaving ==
  ASSUME TopologyInv, [Next]_topologyVars, deleted' = {},
         NEW m \in Message, event[m] \in Remaining, event'[m] \notin Remaining
  PROVE  \/ BrokerRestarts /\ event'[m] = "lost"
         \/ \E c \in Consumers : AcksCopied(c, m)
<1> USE DEF topology, processes
<1>0. /\ TypeOK /\ event \in [Message -> Spots] /\ deleted = {}
      /\ \A c \in Consumers : c \notin cancelled
  <2>1. TypeOK /\ deleted \subseteq deleted'
    BY OthersKeep, DeclareCases DEF Keeps, TopologyInv
  <2> QED
    BY <2>1 DEF TopologyInv, TypeOK, Holders
<1>1. {"work", "dlq", "retry", "held", "copied", "executed"} = Remaining
  BY DEF Remaining, Queues
<1>2. ASSUME NEW p \in Message, NEW to, Moves(p, to), p # m \/ to \in Remaining
      PROVE  FALSE
  BY <1>0, <1>2 DEF Moves
<1>3. ASSUME NEW p \in Message, Publish(p) \/ Route(p)
      PROVE  FALSE
  <2>1. event[p] # event[m] /\ \E to : Moves(p, to)
    BY <1>1, <1>3 DEF Publish, Route
  <2> QED
    BY <1>2, <2>1
<1>4. ASSUME NEW p \in Message, Store(p)
      PROVE  FALSE
  BY <1>4 DEF Store
<1>5. ASSUME NEW p \in Message, Expire(p)
      PROVE  FALSE
  <2>1. queue["work"] # "none"
    BY <1>0, <1>5 DEF TopologyInv, WorkStays, Live, Expire
  <2> QED
    BY <1>1, <1>2, <1>5, <2>1 DEF Expire
<1>6. ASSUME NEW c \in Consumers, NEW p \in Message, Deliver(c, p)
      PROVE  FALSE
  BY <1>1, <1>2, <1>6 DEF Deliver
<1>7. ASSUME NEW c \in Consumers, NEW p \in Message, HandlerStep(c, p)
      PROVE  AcksCopied(c, m)
  <2>1. DeadLetters(c) /\ c \notin cancelled
    BY <1>0, <1>7, HandlerFinds
  <2>2. CASE Settle(c, p, {"copied"}, "acked")
    <3>1. p = m
      BY <1>2, <2>2 DEF Settle
    <3> QED
      BY <2>2, <3>1 DEF AcksCopied
  <2>3. ASSUME NEW to \in Remaining, Settle(c, p, {"held"}, to)
        PROVE  FALSE
    BY <1>2, <2>3 DEF Settle
  <2>4. ASSUME NEW n \in Message, CopiesForRetry(c, p, n)
        PROVE  FALSE
    <3>1. event[n] = "none" /\ m # n
      BY <1>1, <2>4 DEF CopiesForRetry
    <3>2. event'[m] \in {event[m], "copied"}
      BY <1>0, <2>4, <3>1 DEF CopiesForRetry
    <3> QED
      BY <1>1, <3>2
  <2> QED
    BY <1>1, <1>7, <2>1, <2>2, <2>3, <2>4, SettlementKinds
<1>8. ASSUME NEW q \in Queues, DeleteQueue(q)
      PROVE  FALSE
  BY <1>8 DEF DeleteQueue
<1>9. ASSUME NEW c \in Consumers, RunStep(c) \/ ConsumerDies(c)
      PROVE  FALSE
  BY <1>0, <1>1, <1>9
  DEF RunStep, Start, Declare, DeclareFails, CancelledExits, ConsumerDies, Requeued
<1>10. CASE ApiDies
  BY <1>1, <1>10 DEF ApiDies
<1>11. CASE BrokerRestarts
  <2>1. /\ Volatile(m) => event'[m] = "lost"
        /\ ~Volatile(m) /\ event[m] \in {"held", "copied"} =>
             event'[m] = Requeued(CHOOSE c \in Consumers : m \in holding[c])
        /\ ~Volatile(m) /\ event[m] \notin {"held", "copied"} => event'[m] = event[m]
    BY <1>11 DEF BrokerRestarts
  <2>2. \A x : Requeued(x) = "work" \/ x \in cancelled
    BY DEF Requeued
  <2>3. cancelled = {}
    BY <1>0 DEF TypeOK
  <2> QED
    BY <1>1, <1>11, <2>1, <2>2, <2>3
<1>12. CASE ApiStarts \/ UNCHANGED topologyVars
  BY <1>12 DEF ApiStarts, topologyVars
<1> QED
  BY <1>3, <1>4, <1>5, <1>6, <1>7, <1>8, <1>9, <1>10, <1>11, <1>12 DEF Next, Idle

(* A delivery comes to be copied by a copy that a queue has taken. *)
LEMMA Copying ==
  ASSUME TopologyInv, [Next]_topologyVars, deleted' = {},
         NEW m \in Message, event'[m] = "copied", event[m] # "copied"
  PROVE  \E n \in Message : /\ n.order = m.order /\ n.copy > m.copy
                            /\ event'[n] = "retry"
<1> USE DEF topology, processes
<1>0. TypeOK /\ event \in [Message -> Spots] /\ deleted = {}
  <2>1. TypeOK /\ deleted \subseteq deleted'
    BY OthersKeep, DeclareCases DEF Keeps, TopologyInv
  <2> QED
    BY <2>1 DEF TypeOK
<1>1. ASSUME NEW p \in Message, Publish(p) \/ Route(p) \/ Store(p) \/ Expire(p)
      PROVE  FALSE
  BY <1>0, <1>1 DEF Publish, Route, Store, Expire, Moves
<1>2. ASSUME NEW c \in Consumers, NEW p \in Message, Deliver(c, p)
      PROVE  FALSE
  BY <1>0, <1>2 DEF Deliver, Moves
<1>3. ASSUME NEW c \in Consumers, NEW p \in Message, HandlerStep(c, p)
      PROVE  \E n \in Message : /\ n.order = m.order /\ n.copy > m.copy
                                /\ event'[n] = "retry"
  <2>1. queue["retry"] # "none"
    BY <1>0, <1>3, HandlerFinds
  <2>2. ASSUME NEW from, NEW to, to # "copied", Settle(c, p, from, to)
        PROVE  FALSE
    BY <1>0, <2>2 DEF Settle, Moves
  <2>3. PICK n \in Message : CopiesForRetry(c, p, n)
    BY <1>3, <2>2, SettlementKinds
  <2>4. /\ n # p /\ n.order = p.order /\ n.copy > p.copy
        /\ event' = [event EXCEPT ![p] = "copied", ![n] = "retry"]
    BY <1>0, <2>1, <2>3 DEF CopiesForRetry
  <2>5. p = m
    BY <1>0, <2>4
  <2> QED
    BY <1>0, <2>4, <2>5
<1>4. ASSUME NEW q \in Queues, DeleteQueue(q)
      PROVE  FALSE
  BY <1>4 DEF DeleteQueue
<1>5. ASSUME NEW c \in Consumers, RunStep(c) \/ ConsumerDies(c)
      PROVE  FALSE
  BY <1>5 DEF RunStep, Start, Declare, DeclareFails, CancelledExits, ConsumerDies, Requeued
<1>6. CASE ApiStarts \/ ApiDies \/ BrokerRestarts \/ UNCHANGED topologyVars
  BY <1>6 DEF ApiStarts, ApiDies, BrokerRestarts, Requeued, topologyVars
<1> QED
  BY <1>1, <1>2, <1>3, <1>4, <1>5, <1>6 DEF Next, Idle

(* What an acked message leaves behind may be acked in turn, but then it has
   a later one behind it. *)
LEMMA CopyBehindStep ==
  ASSUME TopologyInv, [Next]_topologyVars
  PROVE  CopyBehind'
<1> SUFFICES ASSUME deleted' = {}, NEW m \in Message, event'[m] = "copied"
             PROVE  \E n \in Message : /\ n.order = m.order /\ n.copy > m.copy
                                       /\ event'[n] \in Remaining
  BY DEF CopyBehind
<1>0. TypeOK /\ deleted = {}
  <2>1. TypeOK /\ deleted \subseteq deleted'
    BY OthersKeep, DeclareCases DEF Keeps, TopologyInv
  <2> QED
    BY <2>1
<1>1. CASE event[m] # "copied"
  BY <1>1, Copying DEF Remaining, Queues
<1>2. CASE event[m] = "copied"
  <2>1. PICK n \in Message : n.order = m.order /\ n.copy > m.copy /\ event[n] \in Remaining
    BY <1>0, <1>2 DEF TopologyInv, CopyBehind
  <2>2. CASE event'[n] \in Remaining
    BY <2>1, <2>2
  <2>3. ASSUME NEW c \in Consumers, AcksCopied(c, n)
        PROVE  \E k \in Message : /\ k.order = m.order /\ k.copy > m.copy
                                  /\ event'[k] \in Remaining
    <3>1. event[n] = "copied"
      BY <2>3 DEF AcksCopied, Settle
    <3>2. PICK k \in Message : k.order = n.order /\ k.copy > n.copy /\ event[k] \in Remaining
      BY <1>0, <3>1 DEF TopologyInv, CopyBehind
    <3>3. k.copy \in Nat /\ n.copy \in Nat /\ m.copy \in Nat
      BY TopologyAssumption DEF Message
    <3>4. k.copy > m.copy /\ k # n
      BY <2>1, <3>2, <3>3
    <3>5. event'[k] = event[k]
      BY <1>0, <2>3, <3>4 DEF AcksCopied, Settle, Moves, TypeOK
    <3> QED
      BY <2>1, <3>2, <3>4, <3>5
  <2>4. CASE BrokerRestarts
    BY <2>4 DEF BrokerRestarts, Requeued
  <2> QED
    BY <2>1, <2>2, <2>3, <2>4, Leaving
<1> QED
  BY <1>1, <1>2

(* A message that is stored does not come to be on its way again. *)
LEMMA StoredTakenStep ==
  ASSUME TopologyInv, [Next]_topologyVars
  PROVE  StoredTaken'
<1> USE DEF topology, processes
<1> SUFFICES ASSUME NEW m \in stored'
             PROVE  event'[m] \notin {"none", "wire"}
  BY DEF StoredTaken
<1>0. /\ event \in [Message -> Spots] /\ stored \subseteq Message
      /\ m \in stored => m \in Message /\ event[m] \notin {"none", "wire"}
  BY DEF TopologyInv, TypeOK, StoredTaken
<1>1. ASSUME NEW p \in Message, Store(p)
      PROVE  event'[m] \notin {"none", "wire"}
  BY <1>0, <1>1 DEF Store, Queues
<1>2. ASSUME stored' = stored, event' = event
      PROVE  event'[m] \notin {"none", "wire"}
  BY <1>0, <1>2
<1>3. ASSUME NEW p \in Message, Publish(p)
      PROVE  event'[m] \notin {"none", "wire"}
  <2>1. m \in stored /\ event[p] = "none" /\ Moves(p, "wire")
    BY <1>3 DEF Publish
  <2> QED
    BY <1>0, <2>1 DEF Moves
<1>4. ASSUME stored' = stored, NEW p \in Message, NEW to, Moves(p, to), to \notin {"none", "wire"}
      PROVE  event'[m] \notin {"none", "wire"}
  BY <1>0, <1>4 DEF Moves
<1>5. ASSUME NEW p \in Message, Route(p) \/ Expire(p)
      PROVE  event'[m] \notin {"none", "wire"}
  <2>1. stored' = stored /\ \E to \in {"work", "returned", "dropped"} : Moves(p, to)
    BY <1>5 DEF Route, Expire
  <2> QED
    BY <1>4, <2>1
<1>6. ASSUME NEW c \in Consumers, NEW p \in Message, Deliver(c, p)
      PROVE  event'[m] \notin {"none", "wire"}
  BY <1>4, <1>6 DEF Deliver
<1>7. ASSUME NEW c \in Consumers, NEW p \in Message, HandlerStep(c, p)
      PROVE  event'[m] \notin {"none", "wire"}
  <2>1. stored' = stored
    BY <1>7, HandlerLeaves
  <2>2. ASSUME NEW from, NEW to, Settle(c, p, from, to), to \notin {"none", "wire"}
        PROVE  event'[m] \notin {"none", "wire"}
    BY <1>4, <2>1, <2>2 DEF Settle
  <2>3. ASSUME NEW n \in Message, CopiesForRetry(c, p, n)
        PROVE  event'[m] \notin {"none", "wire"}
    BY <1>0, <2>1, <2>3 DEF CopiesForRetry
  <2> QED
    BY <1>7, <2>2, <2>3, SettlementKinds
<1>8. ASSUME NEW q \in Queues, DeleteQueue(q)
      PROVE  event'[m] \notin {"none", "wire"}
  BY <1>0, <1>8 DEF DeleteQueue
<1>9. ASSUME NEW c \in Consumers, RunStep(c) \/ ConsumerDies(c)
      PROVE  event'[m] \notin {"none", "wire"}
  BY <1>0, <1>2, <1>9
  DEF RunStep, Start, Declare, DeclareFails, CancelledExits, ConsumerDies, Requeued
<1>10. CASE ApiDies \/ BrokerRestarts
  BY <1>0, <1>10 DEF ApiDies, BrokerRestarts, Requeued
<1>11. CASE ApiStarts \/ UNCHANGED topologyVars
  BY <1>2, <1>11 DEF ApiStarts, topologyVars
<1> QED
  BY <1>1, <1>3, <1>5, <1>6, <1>7, <1>8, <1>9, <1>10, <1>11 DEF Next, Idle

(* The invariant holds throughout. *)
LEMMA TopologyInvariant == Spec => []TopologyInv
<1>1. TopologyInv /\ [Next]_topologyVars => TopologyInv'
  <2> SUFFICES ASSUME TopologyInv, [Next]_topologyVars
               PROVE  TopologyInv'
    OBVIOUS
  <2>1. TypeOK'
    BY TopologyTypes DEF TopologyInv
  <2>2. SetupProgress' /\ TopologyReady'
    BY ReadyStep
  <2>3. Holders' /\ WorkStays' /\ CopyBehind' /\ StoredTaken'
    BY HoldersStep, WorkStaysStep, CopyBehindStep, StoredTakenStep
  <2> QED
    BY <2>1, <2>2, <2>3 DEF TopologyInv
<1> QED
  BY <1>1, TopologyInitially, PTL DEF Spec

-----------------------------------------------------------------------------
(* What SetupTopology declares exists with the arguments and bindings of the
   code; an event is in one place and a delivery with one consumer's list. *)
THEOREM TopologyTypeCorrect == Spec => []TypeOK
<1>1. TopologyInv => TypeOK
  BY DEF TopologyInv
<1> QED
  BY <1>1, TopologyInvariant, PTL

(* "The dead letter destination is declared before OrderQueue": however many
   consumers declare at once or die half way, and whatever an operator
   deletes meanwhile, a work queue has its dead letter destination, and a
   consumer consumes only when all of SetupTopology is in place. *)
THEOREM DeadLetterFirst == Spec => []TopologyReady
<1>1. TopologyInv => TopologyReady
  BY DEF TopologyInv
<1> QED
  BY <1>1, TopologyInvariant, PTL

(* Rejecting, republishing and expiring find their queue unless one was
   deleted; only what the broker has not stored is lost; and an ack leaves a
   later message of its order behind, so nothing but a deletion or such a loss
   takes the last one away. *)
THEOREM NoEventDropped == Spec => EventsKept
<1> USE DEF topology, processes
<1>1. ASSUME TopologyInv, [Next]_topologyVars, NEW m \in Message,
             event'[m] = "dropped", event[m] # "dropped"
      PROVE  deleted # {}
  <2>0. event \in [Message -> Spots]
    BY <1>1 DEF TopologyInv, TypeOK
  <2> SUFFICES ASSUME deleted = {}
               PROVE  FALSE
    OBVIOUS
  <2>1. ASSUME NEW c \in Consumers, NEW p \in Message, HandlerStep(c, p)
        PROVE  FALSE
    <3>1. DeadLetters(c) /\ queue["retry"] # "none"
      BY <1>1, <2>1, HandlerFinds
    <3>2. ASSUME NEW from, NEW to, to # "dropped", Settle(c, p, from, to)
          PROVE  FALSE
      BY <1>1, <2>0, <3>2 DEF Settle, Moves
    <3>3. ASSUME NEW n \in Message, CopiesForRetry(c, p, n)
          PROVE  FALSE
      BY <1>1, <2>0, <3>1, <3>3 DEF CopiesForRetry
    <3> QED
      BY <2>1, <3>1, <3>2, <3>3, SettlementKinds
  <2>2. ASSUME NEW p \in Message, Expire(p)
        PROVE  FALSE
    <3>1. queue["work"] # "none"
      BY <1>1, <2>2 DEF TopologyInv, WorkStays, Live, Expire
    <3>2. Moves(p, "work")
      BY <2>2, <3>1 DEF Expire
    <3> QED
      BY <1>1, <2>0, <3>2 DEF Moves
  <2>3. ASSUME NEW p \in Message, Publish(p) \/ Route(p) \/ Store(p)
        PROVE  FALSE
    BY <1>1, <2>0, <2>3 DEF Publish, Route, Store, Moves
  <2>4. ASSUME NEW c \in Consumers, NEW p \in Message, Deliver(c, p)
        PROVE  FALSE
    BY <1>1, <2>0, <2>4 DEF Deliver, Moves
  <2>5. ASSUME NEW q \in Queues, DeleteQueue(q)
        PROVE  FALSE
    BY <1>1, <2>5 DEF DeleteQueue
  <2>6. ASSUME NEW c \in Consumers, RunStep(c) \/ ConsumerDies(c)
        PROVE  FALSE
    BY <1>1, <2>6
    DEF RunStep, Start, Declare, DeclareFails, CancelledExits, ConsumerDies, Requeued
  <2>7. CASE ApiStarts \/ ApiDies \/ BrokerRestarts \/ UNCHANGED topologyVars
    BY <1>1, <2>7 DEF ApiStarts, ApiDies, BrokerRestarts, Requeued, topologyVars
  <2> QED
    BY <1>1, <2>1, <2>2, <2>3, <2>4, <2>5, <2>6, <2>7 DEF Next, Idle
<1>2. ASSUME TopologyInv, [Next]_topologyVars, NEW m \in Message,
             event'[m] = "lost", event[m] # "lost"
      PROVE  m \notin stored
  <2>0. event \in [Message -> Spots]
    BY <1>2 DEF TopologyInv, TypeOK
  <2>1. CASE ApiDies
    BY <1>2, <2>1 DEF TopologyInv, StoredTaken, ApiDies
  <2>2. CASE BrokerRestarts
    BY <1>2, <2>2 DEF TopologyInv, StoredTaken, BrokerRestarts, Volatile, DurableQueues, Requeued
  <2>3. ASSUME NEW p \in Message, Publish(p) \/ Route(p) \/ Store(p) \/ Expire(p)
        PROVE  FALSE
    BY <1>2, <2>0, <2>3 DEF Publish, Route, Store, Expire, Moves
  <2>4. ASSUME NEW c \in Consumers, NEW p \in Message, Deliver(c, p) \/ HandlerStep(c, p)
        PROVE  FALSE
    BY <1>2, <2>0, <2>4, SettlementKinds DEF Deliver, Settle, CopiesForRetry, Moves
  <2>5. ASSUME NEW q \in Queues, DeleteQueue(q)
        PROVE  FALSE
    BY <1>2, <2>5 DEF DeleteQueue
  <2>6. ASSUME NEW c \in Consumers, RunStep(c) \/ ConsumerDies(c)
        PROVE  FALSE
    BY <1>2, <2>6
    DEF RunStep, Start, Declare, DeclareFails, CancelledExits, ConsumerDies, Requeued
  <2>7. CASE ApiStarts \/ UNCHANGED topologyVars
    BY <1>2, <2>7 DEF ApiStarts, topologyVars
  <2> QED
    BY <1>2, <2>1, <2>2, <2>3, <2>4, <2>5, <2>6, <2>7 DEF Next, Idle
<1>3. ASSUME TopologyInv, [Next]_topologyVars, NEW o \in Orders,
             Remains(o), ~Remains(o)', deleted' = {}
      PROVE  \E m \in Message : m.order = o /\ event'[m] = "lost" /\ event[m] # "lost"
  <2>1. PICK m \in Message : m.order = o /\ event[m] \in Remaining
    BY <1>3 DEF Remains
  <2>2. \A n \in Message : n.order = o => event'[n] \notin Remaining
    BY <1>3 DEF Remains
  <2>3. ASSUME NEW c \in Consumers, AcksCopied(c, m)
        PROVE  FALSE
    <3>1. deleted = {} /\ event[m] = "copied" /\ event \in [Message -> Spots]
      BY <1>3, <2>3 DEF AcksCopied, Settle, TopologyInv, TypeOK
    <3>2. PICK n \in Message : n.order = m.order /\ n.copy > m.copy /\ event[n] \in Remaining
      BY <1>3, <3>1 DEF TopologyInv, CopyBehind
    <3>3. n # m
      BY <3>2, TopologyAssumption DEF Message
    <3>4. event'[n] = event[n]
      BY <2>3, <3>1, <3>3 DEF AcksCopied, Settle, Moves
    <3> QED
      BY <2>1, <2>2, <3>2, <3>4
  <2> QED
    BY <1>3, <2>1, <2>2, <2>3, Leaving DEF Remaining, Queues
<1>4. TopologyInv /\ [Next]_topologyVars =>
        [/\ \A m \in Message :
              /\ event'[m] = "dropped" /\ event[m] # "dropped" => deleted # {}
              /\ event'[m] = "lost" /\ event[m] # "lost" => m \notin stored
         /\ \A o \in Orders : Remains(o) /\ ~Remains(o)' =>
              \/ deleted' # {}
              \/ \E m \in Message :
                   m.order = o /\ event'[m] = "lost" /\ event[m] # "lost"]_topologyVars
  BY <1>1, <1>2, <1>3
<1> QED
  BY <1>4, TopologyInvariant, PTL DEF Spec, EventsKept

(* The binding of the work queue outlives the consumer that made it, and the
   broker; while it stands no publishing is returned. *)
THEOREM BindingOutlivesConsumers == Spec => RoutedOnceBound
<1> USE DEF topology, processes
<1>1. ASSUME TopologyInv, [Next]_topologyVars, "work" \in bindings, "work" \notin deleted'
      PROVE  "work" \in bindings'
  <2>1. TypeOK /\ "work" \in Queues
    BY <1>1 DEF TopologyInv, Queues
  <2>2. Keeps => "work" \in bindings'
    BY <1>1, <2>1 DEF Keeps
  <2>3. ASSUME NEW c \in Consumers, Declare(c)
        PROVE  "work" \in bindings'
    BY <1>1, <2>1, <2>3, DeclareCases
  <2> QED
    BY <1>1, <2>1, <2>2, <2>3, OthersKeep
<1>2. ASSUME TopologyInv, [Next]_topologyVars, "work" \in bindings, NEW m \in Message,
             event'[m] = "returned", event[m] # "returned"
      PROVE  FALSE
  <2>0. event \in [Message -> Spots]
    BY <1>2 DEF TopologyInv, TypeOK
  <2>1. ASSUME NEW p \in Message, Publish(p) \/ Route(p) \/ Store(p) \/ Expire(p)
        PROVE  FALSE
    BY <1>2, <2>0, <2>1 DEF Publish, Route, Store, Expire, Moves
  <2>2. ASSUME NEW c \in Consumers, NEW p \in Message, Deliver(c, p) \/ HandlerStep(c, p)
        PROVE  FALSE
    BY <1>2, <2>0, <2>2, SettlementKinds DEF Deliver, Settle, CopiesForRetry, Moves
  <2>3. ASSUME NEW q \in Queues, DeleteQueue(q)
        PROVE  FALSE
    BY <1>2, <2>3 DEF DeleteQueue
  <2>4. ASSUME NEW c \in Consumers, RunStep(c) \/ ConsumerDies(c)
        PROVE  FALSE
    BY <1>2, <2>4
    DEF RunStep, Start, Declare, DeclareFails, CancelledExits, ConsumerDies, Requeued
  <2>5. CASE ApiStarts \/ ApiDies \/ BrokerRestarts \/ UNCHANGED topologyVars
    BY <1>2, <2>5 DEF ApiStarts, ApiDies, BrokerRestarts, Requeued, topologyVars
  <2> QED
    BY <1>2, <2>1, <2>2, <2>3, <2>4, <2>5 DEF Next, Idle
<1>3. TopologyInv /\ [Next]_topologyVars =>
        [\A m \in Message :
           "work" \in bindings /\ "work" \notin deleted' =>
             "work" \in bindings' /\ (event'[m] = "returned" => event[m] = "returned")]_topologyVars
  BY <1>1, <1>2
<1> QED
  BY <1>3, TopologyInvariant, PTL DEF Spec, RoutedOnceBound
=============================================================================
