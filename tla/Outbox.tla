------------------------------- MODULE Outbox -------------------------------
(***************************************************************************)
(* What the remote journal promises.  A mutation is opened in the run      *)
(* record before the server is asked, and it leaves the record's list of   *)
(* open mutations only when its effect is recorded, or when the server was *)
(* never asked.  Deleting the run record forgets what it listed; a later   *)
(* record of the same name may adopt a mutation that was still running.    *)
(***************************************************************************)
CONSTANT Mutations

VARIABLES
  status,  \* what the run record says of each mutation
  served   \* the mutations the server carried out

vars == <<status, served>>

Statuses == {"idle", "open", "settled", "withdrawn", "forgotten"}

TypeOK == status \in [Mutations -> Statuses] /\ served \subseteq Mutations

Init == status = [m \in Mutations |-> "idle"] /\ served = {}

Becomes(m, s) == status' = [status EXCEPT ![m] = s] /\ UNCHANGED served

Begin(m) == status[m] = "idle" /\ Becomes(m, "open")

Serve(m) ==
  /\ status[m] \in {"open", "forgotten"}
  /\ served' = served \cup {m}
  /\ UNCHANGED status

Settle(m) ==
  /\ status[m] \in {"open", "forgotten"}
  /\ m \in served
  /\ Becomes(m, "settled")

Withdraw(m) ==
  /\ status[m] = "open"
  /\ m \notin served
  /\ Becomes(m, "withdrawn")

Forget ==
  /\ status' = [m \in Mutations |->
                  IF status[m] = "idle" THEN "idle" ELSE "forgotten"]
  /\ UNCHANGED served

Adopt(m) == status[m] = "forgotten" /\ Becomes(m, "open")

Next ==
  \/ \E m \in Mutations :
       Begin(m) \/ Serve(m) \/ Settle(m) \/ Withdraw(m) \/ Adopt(m)
  \/ Forget

Spec == Init /\ [][Next]_vars
=============================================================================
