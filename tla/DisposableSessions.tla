------------------------- MODULE DisposableSessions -------------------------
(***************************************************************************)
(* Sessions made for one purpose: their creation, and their deletion with  *)
(* the verification that they are gone.                                    *)
(*                                                                         *)
(* Two cleaners delete them: the command that made them when it ends, and  *)
(* the command that deletes all that bear the prefix, in another process.  *)
(***************************************************************************)
EXTENDS SessionPrompts

VARIABLES
  doc,      \* what the server has: its routes
  created,  \* the sessions made for the command
  cleaners  \* the command's cleanup and the sweep

cleanVars == <<created, cleaners>>

Cleaners == {"command", "sweep"}

\* todo: the sessions left to delete, the first of them in work.
NewCleaner == [pc |-> "idle", plan |-> DefaultPlan["session"], todo |-> <<>>,
               deleted |-> {}, failed |-> FALSE]

\* A call is sent where the plan of the one who makes it says.
RouteExists(plan) == plan \in doc

-----------------------------------------------------------------------------
(* Creation.                                                               *)

\* A session is made or not, and the answer with its id may not come.
CreateOutcomes == {"created", "no id", "api", "raised"}

CreateSession(s, plan, outcome) ==
  \E made \in BOOLEAN :
    /\ made => RouteExists(plan)
    /\ outcome \in {"created", "no id"} => made
    /\ sessions' = IF made THEN [sessions EXCEPT ![s] = "live"] ELSE sessions
    /\ created' = IF made THEN created \cup {s} ELSE created

-----------------------------------------------------------------------------
(* delete_and_verify: a session that is not found is deleted, and only one  *)
(* that is not found is.                                                    *)

Cleaner(w, changed) == cleaners' = [cleaners EXCEPT ![w] = changed]
Next1(w) == [cleaners[w] EXCEPT !.pc = "deleting", !.todo = Tail(@)]
Failed(w) == [Next1(w) EXCEPT !.failed = TRUE]
Raised(w) == [cleaners[w] EXCEPT !.pc = "raised", !.todo = <<>>, !.failed = TRUE]

NotFound(w) == ~RouteExists(cleaners[w].plan) \/ ~Live(Head(cleaners[w].todo))

\* The answer may be lost after the deletion, and come without it.
DeleteSession(w) ==
  /\ cleaners[w].pc = "deleting" /\ cleaners[w].todo # <<>>
  /\ LET s == Head(cleaners[w].todo)
         verifying == [cleaners[w] EXCEPT !.pc = "verifying"]
     IN \/ /\ NotFound(w) /\ Cleaner(w, verifying)
           /\ UNCHANGED <<sessions, turns>>
        \/ /\ ~NotFound(w)
           /\ \E gone \in BOOLEAN :
                /\ sessions' = IF gone THEN [sessions EXCEPT ![s] = "deleted"] ELSE sessions
                /\ turns' = IF gone THEN TurnsWithout(s) ELSE turns
           /\ cleaners' \in {[cleaners EXCEPT ![w] = c] : c \in {verifying, Failed(w), Raised(w)}}
        \/ /\ cleaners' \in {[cleaners EXCEPT ![w] = c] : c \in {Failed(w), Raised(w)}}
           /\ UNCHANGED <<sessions, turns>>
  /\ UNCHANGED <<call, created, doc>>

\* Whatever GET answers, the DELETE was answered.
VerifiedByDelete(answer) == TRUE

\* What GET says of the session: found, not found, or nothing.
Verified(answer) == answer = "not found"

VerifySession(w) ==
  /\ cleaners[w].pc = "verifying"
  /\ \/ \E answer \in {IF NotFound(w) THEN "not found" ELSE "found", "error"} :
          Cleaner(w, IF Verified(answer)
                       THEN [Next1(w) EXCEPT !.deleted = @ \cup {Head(cleaners[w].todo)}]
                       ELSE Failed(w))
     \/ Cleaner(w, Raised(w))
  /\ UNCHANGED <<sessions, turns, call, created, doc>>

AllDeleted(w) ==
  /\ cleaners[w].pc = "deleting" /\ cleaners[w].todo = <<>>
  /\ Cleaner(w, [cleaners[w] EXCEPT !.pc = "over"])
  /\ UNCHANGED <<sessions, turns, call, created, doc>>

CleanStep(w) == DeleteSession(w) \/ VerifySession(w) \/ AllDeleted(w)

-----------------------------------------------------------------------------
(* The sweep: cleanup --prefix.                                            *)

\* It lists the sessions, those of commands still running among them; a
\* document it cannot read leaves it with the default routes.
StartSweep(prefixed) ==
  /\ cleaners["sweep"].pc = "idle"
  /\ \E plan \in {RoutePlan(doc)["session"], DefaultPlan["session"]},
       todo \in {<<>>, <<"first">>, <<"second">>, <<"first", "second">>} :
       /\ RouteExists(plan)
       /\ {todo[i] : i \in DOMAIN todo} = {s \in created : prefixed /\ Live(s)}
       /\ todo # <<>>
       /\ Cleaner("sweep", [NewCleaner EXCEPT !.pc = "deleting", !.plan = plan, !.todo = todo])
  /\ UNCHANGED <<sessions, turns, call, created, doc>>
=============================================================================
