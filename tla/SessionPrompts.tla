--------------------------- MODULE SessionPrompts ---------------------------
(***************************************************************************)
(* Prompts given to sessions: durable admission (steer), which is answered *)
(* when the prompt is queued, and blocking execution, which is answered    *)
(* when its turn has ended.                                                *)
(*                                                                         *)
(* A blocking call that takes too long is abandoned and the session is     *)
(* aborted; the call reports whether the abort was confirmed.  A prompt    *)
(* that was sent may still be on its way when the session is aborted.      *)
(***************************************************************************)
EXTENDS ServerProfile, FiniteSets

VARIABLES
  sessions,  \* the sessions at the server
  turns,     \* the prompts and what has become of them there
  call       \* the call in progress, and its outcome

promptVars == <<sessions, turns, call>>

SessionIds == {"first", "second"}
TurnIds == {"steer", "prompt"}
TurnStates == {"none", "sent", "queued", "running", "done", "failed", "stopped", "refused"}

NoCall == [pc |-> "idle", session |-> "first", outcome |-> "none", abort_error |-> FALSE]

HasRun(t) == turns[t].state \in {"running", "done", "failed", "stopped"}
Live(s) == sessions[s] = "live"

Moved(t, state) == [turns EXCEPT ![t].state = state]

-----------------------------------------------------------------------------
(* The server.                                                             *)

PromptArrives ==
  /\ turns["prompt"].state = "sent"
  /\ turns' = Moved("prompt", IF Live(turns["prompt"].session) THEN "running" ELSE "refused")
  /\ UNCHANGED <<sessions, call>>

SteerRuns ==
  /\ turns["steer"].state = "queued"
  /\ turns' = Moved("steer", "running")
  /\ UNCHANGED <<sessions, call>>

\* Nobody is told how a steer ended.
TurnEnds ==
  /\ \E t \in TurnIds, how \in {"done", "failed"} :
       /\ turns[t].state = "running" /\ (how = "failed" => t = "prompt")
       /\ turns' = Moved(t, how)
  /\ UNCHANGED <<sessions, call>>

ServerStep == PromptArrives \/ SteerRuns \/ TurnEnds

\* What ends with a session: a deleted one, and a turn the server aborts.
TurnsWithout(s) ==
  [t \in TurnIds |->
    IF turns[t].session # s THEN turns[t]
    ELSE [turns[t] EXCEPT !.state =
            IF @ = "running" THEN "stopped" ELSE IF @ = "queued" THEN "refused" ELSE @]]

-----------------------------------------------------------------------------
(* Admission: admit_prompt.                                                *)

\* The replay of whatever prompt the server says it has.
IsReplayOfAny(answer) == answer.evidence

\* A 409 names a message, its own or another one, and may say that it has
\* been admitted before.
IsReplay(answer) == answer.id = "own" /\ answer.evidence

Answer(kind) == [kind |-> kind, id |-> "none", evidence |-> FALSE]
Conflict(id, evidence) == [kind |-> "conflict", id |-> id, evidence |-> evidence]

\* What the server may answer about a prompt it has or has not taken; it
\* calls its own duplicate only what it has.
AdmissionAnswers(s, taken) ==
  {Answer("unreachable"), Answer("lost"), Answer("dropped")}
  \cup (IF ~Live(s) THEN {Answer("unsupported")}
        ELSE {Answer("unsupported"), Answer("error"), Conflict("other", TRUE), Conflict("own", FALSE)})
  \cup (IF taken THEN {Answer("ok"), Conflict("own", TRUE)} ELSE {})

\* map_unsupported: 400, 404, 405, 415 and 422 are the server's not being able to.
AdmissionOutcome(answer, mapped) ==
  CASE answer.kind = "ok" -> "admitted"
    [] answer.kind = "dropped" -> "raised"
    [] answer.kind = "conflict" /\ IsReplay(answer) -> "admitted"
    [] answer.kind = "unsupported" /\ mapped -> "unsupported"
    [] OTHER -> "api"

Over(outcome) == [call EXCEPT !.pc = "over", !.outcome = outcome]

\* The request is taken or not, whatever becomes of its answer.
AdmitPrompt(s, mapped) ==
  LET before == turns["steer"].state # "none" IN
  /\ \E taken \in {before} \cup (IF Live(s) THEN {TRUE} ELSE {}) :
     \E answer \in AdmissionAnswers(s, taken) :
       /\ (taken /\ ~before) => answer.kind \in {"ok", "lost", "dropped"}
       /\ turns' = IF taken /\ ~before
                     THEN [turns EXCEPT !["steer"] = [session |-> s, state |-> "queued"]]
                     ELSE turns
       /\ call' = [Over(AdmissionOutcome(answer, mapped)) EXCEPT !.session = s]
  /\ UNCHANGED sessions

-----------------------------------------------------------------------------
(* Blocking execution: execute_blocking_prompt.                            *)

StartPrompt(s, strategy) ==
  /\ turns' = [turns EXCEPT !["prompt"] = [session |-> s, state |-> "sent"]]
  /\ call' = [NoCall EXCEPT !.session = s,
                            !.pc = IF strategy = "legacy_run_reply" THEN "run" ELSE "waiting"]
  /\ UNCHANGED sessions

InCall == call.pc \in {"run", "waiting"}

\* The legacy run is answered once the prompt is taken; then the reply is
\* asked for.  An answer without an id, or of no known form, ends it.
RunAnswered ==
  /\ call.pc = "run" /\ HasRun("prompt")
  /\ call' \in {[call EXCEPT !.pc = "waiting"], Over("provider")}
  /\ UNCHANGED <<sessions, turns>>

\* A turn that is done is answered by a message that is complete or not.
ReplyOutcomes ==
  CASE turns["prompt"].state = "done" -> {"done", "provider"}
    [] turns["prompt"].state \in {"failed", "stopped"} -> {"provider", "api"}
    [] turns["prompt"].state = "refused" -> {"api"}
    [] OTHER -> {}

ReplyAnswered ==
  /\ call.pc = "waiting" \/ (call.pc = "run" /\ turns["prompt"].state = "refused")
  /\ \E outcome \in ReplyOutcomes : call' = Over(outcome)
  /\ UNCHANGED <<sessions, turns>>

\* The server answers with an error, or cannot be reached, and then it has
\* not got a prompt that was on its way.
CallFails ==
  /\ InCall
  /\ turns' \in {turns} \cup (IF turns["prompt"].state = "sent" THEN {Moved("prompt", "none")} ELSE {})
  /\ call' = Over("api") /\ UNCHANGED sessions

CallTimesOut ==
  /\ InCall
  /\ call' = [call EXCEPT !.pc = "aborting"] /\ UNCHANGED <<sessions, turns>>

\* The connection is dropped, which is no error of the API: the session is
\* not aborted.
CallDropped ==
  /\ InCall
  /\ call' = Over("raised") /\ UNCHANGED <<sessions, turns>>

AcceptanceIsExplicit(answer) == answer \in {"accepted", "denied"}

\* abort_record takes what is not denied for accepted.
Accepted(answer) == answer \in {"accepted", "unclear"}

\* Taking an answer that confirms nothing for a confirmation.
AbortAssumed(answer) == Accepted(answer)

AbortConfirmed(answer) == AcceptanceIsExplicit(answer) /\ Accepted(answer)

\* The server stops the turn when it says so, and not when it says it did not;
\* an answer that is unclear or lost tells nothing.
AbortSession ==
  /\ call.pc = "aborting"
  /\ \E answer \in {"accepted", "denied", "unclear", "lost"}, stops \in BOOLEAN :
       /\ answer = "accepted" => stops
       /\ answer = "denied" => ~stops
       /\ turns' = IF stops THEN TurnsWithout(call.session) ELSE turns
       /\ call' = [Over("timeout") EXCEPT !.abort_error = ~AbortConfirmed(answer)]
  /\ UNCHANGED sessions

CallStep ==
  \/ RunAnswered \/ ReplyAnswered \/ CallFails
  \/ CallTimesOut \/ CallDropped \/ AbortSession
=============================================================================
