--------------------------- MODULE OrderLifecycle ----------------------------
(***************************************************************************)
(* What the pipeline as a whole promises for an order, without processes,  *)
(* queues or messages.  An accepted order (its row is there) is executed,  *)
(* or parked in the dead letter queue for a person; from there it may      *)
(* still be executed by another copy of its event.  It is stranded, PENDING *)
(* for ever with no event left, only if it was exposed: by a fault of the  *)
(* API, or because no queue was bound when its event arrived.              *)
(*                                                                         *)
(* OrderPipeline implements this specification.                            *)
(***************************************************************************)
CONSTANT Orders

VARIABLES phase,    \* where each order is
          exposed   \* orders something may have happened to

lifecycleVars == <<phase, exposed>>

LifecycleInit ==
  /\ phase = [o \in Orders |-> "none"]
  /\ exposed = {}

Move(o, from, to) ==
  /\ phase[o] \in from
  /\ phase' = [phase EXCEPT ![o] = to]
  /\ UNCHANGED exposed

Accept(o) == Move(o, {"none"}, "accepted")

(* The status changes once, whatever became of the event. *)
Execute(o) == Move(o, {"accepted", "parked"}, "executed")

Park(o) == Move(o, {"accepted"}, "parked")

(* One incident may strand several orders, those not yet accepted included: an
   INSERT can take effect although the request failed. *)
Strand(hit) ==
  /\ exposed \subseteq exposed' /\ exposed' \subseteq Orders
  /\ \A o \in hit : phase[o] \in {"none", "accepted"} /\ o \in exposed'
  /\ phase' = [o \in Orders |-> IF o \in hit THEN "stranded" ELSE phase[o]]

LifecycleNext ==
  \/ \E o \in Orders : Accept(o) \/ Execute(o) \/ Park(o)
  \/ \E hit \in SUBSET Orders : Strand(hit)

(* No order is left half way. *)
Settles == \A o \in Orders : phase[o] = "accepted" ~> phase[o] # "accepted"

LifecycleSafety == LifecycleInit /\ [][LifecycleNext]_lifecycleVars

LifecycleSpec == LifecycleSafety /\ Settles
=============================================================================
