------------------------- MODULE MCExecutionConsumer -------------------------
(* ExecutionConsumer for TLC.  Consumers are interchangeable; message
   identities are not: FreshId picks one.  Room holds in every state of these
   instances, so the bound on identities never is what stops a step. *)
EXTENDS ExecutionConsumer, TLC

Symmetry == Permutations(Consumers)

(* ExecuteOrder reports no error and leaves no COMMIT behind: of the
   dependencies only the price service fails. *)
DatabaseAnswers ==
  /\ unheard' = {}
  /\ \A c \in Consumers : pc[c] = "executing" => pc'[c] # "transient"

HealthyDatabaseSpec == Init /\ [][Next /\ DatabaseAnswers]_vars
=============================================================================
