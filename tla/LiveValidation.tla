--------------------------- MODULE LiveValidation ---------------------------
(***************************************************************************)
(* The commands that make or use one session at a server: smoke,           *)
(* live_validate, run_blocking, steer and watch, each composed of the      *)
(* event stream (EventWatcher), prompts (SessionPrompts) and disposable    *)
(* sessions (DisposableSessions), with a sweep of disposable sessions by   *)
(* cleanup --prefix going on at any time.                                  *)
(*                                                                         *)
(* smoke and live_validate run their checks in order in the harness, which *)
(* cleans up whatever has become of them; run_blocking cleans up only      *)
(* after the errors it knows.                                              *)
(***************************************************************************)
EXTENDS EventWatcher, DisposableSessions

CONSTANTS
  Docs,   \* documents a server may have
  Modes,  \* commands to run
  Swept   \* bound on the commands a sweep goes on during

AllModes == {"smoke", "live_validate", "run_blocking", "run_in_session", "steer", "watch"}

ASSUME ValidationAssumption ==
  Modes \cup Swept \subseteq AllModes /\ \A d \in Docs : d \subseteq Paths

\* command: mode, pc, seen (the document as read), executed (whether the steer
\* was seen to run), result (the first failure), exit, retried.
VARIABLE command

vars == <<stream, thread, reader, sessions, turns, call, doc, created, cleaners, command>>

Harness == command.mode \in {"smoke", "live_validate"}

\* The session that was there before the command.
Given == command.mode \in {"run_in_session", "steer", "watch"}

Init ==
  /\ doc \in Docs
  /\ \E m \in Modes :
       /\ command = [mode |-> m, pc |-> "detecting", seen |-> {}, executed |-> "unknown",
                     result |-> "none", exit |-> "none", retried |-> FALSE]
       /\ sessions = [s \in SessionIds |->
                        IF s = "first" /\ m \in {"run_in_session", "steer", "watch"}
                          THEN "live" ELSE "none"]
       /\ turns = [t \in TurnIds |->
                     [session |-> "first", state |-> IF t = "steer" /\ m = "watch" THEN "queued" ELSE "none"]]
  /\ stream = NoStream /\ thread = NewThread /\ reader = NewReader
  /\ call = NoCall /\ created = {}
  /\ cleaners = [w \in Cleaners |-> NewCleaner]

At(mode, pc) == command.mode \in mode /\ command.pc = pc
GoTo(pc) == [command EXCEPT !.pc = pc]
Exit(how) == [command EXCEPT !.pc = "exited", !.exit = how]

\* A failed check goes to the cleanup, for what is known of the failure.
Fail(how) == [command EXCEPT !.pc = "closing", !.result = how]

\* The same outside of the harness.
Leaves(how) == IF Harness THEN Fail(how) ELSE Exit(how)

PlannedSession == RoutePlan(command.seen)["session"]

-----------------------------------------------------------------------------
(* What the server has to be able to do.                                   *)

Requirement(d) ==
  CASE command.mode = "smoke" -> SmokeSupported(d)
    [] command.mode = "live_validate" -> LiveSupported(d)
    [] command.mode \in {"run_blocking", "run_in_session"} -> Strategy(d) # "none"
    [] command.mode = "steer" -> Available(d, "v2_prompt")
    [] OTHER -> Available(d, "events")

AfterDetection ==
  CASE command.mode \in {"smoke", "live_validate", "run_blocking"} -> "creating"
    [] command.mode = "run_in_session" -> "prompting"
    [] command.mode = "steer" -> "steering"
    [] OTHER -> "observing"

\* Only run_blocking insists on the document; for the others one that cannot
\* be read is empty.  The deadline of watch may pass.
DetectCapabilities ==
  /\ command.pc = "detecting"
  /\ \/ \E seen \in {doc} \cup (IF command.mode \in {"run_blocking", "run_in_session"} THEN {} ELSE {{}}) :
          command' = IF Requirement(seen) THEN [GoTo(AfterDetection) EXCEPT !.seen = seen]
                     ELSE Leaves("unsupported")
     \/ command' \in {Leaves("failed"), Leaves("raised")}
     \/ command.mode = "watch" /\ command' = Exit("timeout")
  /\ UNCHANGED <<stream, thread, reader, sessions, turns, call, doc, created, cleaners>>

-----------------------------------------------------------------------------
(* Creating the sessions.                                                  *)

NextSession == IF cleaners["command"].todo = <<>> THEN "first" ELSE "second"

AfterCreation ==
  CASE command.mode = "smoke" -> "opening"
    [] command.mode = "live_validate" /\ NextSession = "first" -> "steering"
    [] OTHER -> "prompting"

\* A session is the command's to delete when it knows the session's id.
TrackSession(outcome) ==
  IF outcome = "created"
    THEN /\ command' = GoTo(AfterCreation)
         /\ Cleaner("command", [cleaners["command"] EXCEPT !.todo = Append(@, NextSession),
                                                           !.plan = PlannedSession])
    ELSE /\ command' = Leaves(IF outcome = "raised" THEN "raised" ELSE "failed")
         /\ UNCHANGED cleaners

Create ==
  /\ command.pc = "creating"
  /\ \E outcome \in CreateOutcomes :
       CreateSession(NextSession, PlannedSession, outcome) /\ TrackSession(outcome)
  /\ UNCHANGED <<stream, thread, reader, turns, call, doc>>

-----------------------------------------------------------------------------
(* Steering.                                                               *)

AfterSteering == CASE command.mode = "smoke" -> GoTo("observing")
                   [] command.mode = "live_validate" -> GoTo("waiting")
                   [] OTHER -> Exit("ok")

\* The operator runs steer again with the same --message-id when it failed.
Steer ==
  /\ command.pc = "steering"
  /\ AdmitPrompt("first", command.mode = "steer")
  /\ LET outcome == call'.outcome IN
       command' = CASE outcome = "admitted" -> AfterSteering
                    [] command.mode = "steer" /\ ~command.retried
                         -> [GoTo("detecting") EXCEPT !.retried = TRUE]
                    [] outcome = "api" -> Leaves("failed")
                    [] OTHER -> Leaves(outcome)
  /\ UNCHANGED <<stream, thread, reader, doc, created, cleaners>>

-----------------------------------------------------------------------------
(* The watcher of smoke.                                                   *)

OpenWatcher ==
  /\ At({"smoke"}, "opening") /\ (StartWatcher \/ WaitOpen \/ WaitOpenTimesOut)
  /\ command' = IF reader'.pc = "open" THEN GoTo("steering") ELSE command
  /\ UNCHANGED <<promptVars, doc, cleanVars>>

BeginCollect ==
  /\ At({"smoke"}, "observing") /\ reader.pc = "open"
  /\ Reader([reader EXCEPT !.pc = "collecting"])
  /\ UNCHANGED <<thread, promptVars, doc, cleanVars, command>>

CollectEvents ==
  /\ At({"smoke"}, "observing") /\ (Collect \/ CollectTimesOut \/ Decide)
  /\ UNCHANGED <<promptVars, doc, cleanVars, command>>

\* wait_open and collect close the watcher before they give their result.
CloseWatcher ==
  /\ At({"smoke"}, "opening") \/ At({"smoke"}, "observing") \/ At({"smoke"}, "closing")
  /\ Close \/ Joined
  /\ UNCHANGED <<promptVars, doc, cleanVars, command>>

\* The result keeps the types of the events only.
Collected ==
  /\ At({"smoke"}, "opening") \/ At({"smoke"}, "observing")
  /\ reader.pc = "closed"
  /\ command' = CASE reader.result = "events" -> GoTo("blockers")
                  [] reader.result = "raised" -> Fail("raised")
                  [] OTHER -> Fail("failed")
  /\ reader' = [NewReader EXCEPT !.pc = "closed"]
  /\ UNCHANGED <<stream, thread, promptVars, doc, cleanVars>>

\* The blockers are skipped when they cannot be read.
ReadBlockers ==
  /\ At({"smoke"}, "blockers")
  /\ command' \in {[GoTo("closing") EXCEPT !.result = "ok"], Fail("raised")}
  /\ UNCHANGED <<watchVars, promptVars, doc, cleanVars>>

-----------------------------------------------------------------------------
(* Looking for the execution of the steer in live_validate.                *)

Executed(e) == [command EXCEPT !.pc = "creating", !.executed = e]

TurnStatus == turns["steer"].state

\* The wait route says the state of the session, or takes too long.
WaitForSteer ==
  /\ At({"live_validate"}, "waiting")
  /\ LET route == RouteAvailability(command.seen)["v2_wait"] IN
       IF ~route.available \/ route.path = WaitParameter
         THEN command' = GoTo("reading")
         ELSE \/ Live("first") /\ TurnStatus \in {"running", "done"} /\ command' = Executed("yes")
              \/ Live("first") /\ TurnStatus = "queued" /\ command' = Executed("no")
              \/ command' \in {GoTo("reading"), Fail("raised")}
  /\ UNCHANGED <<watchVars, promptVars, doc, cleanVars>>

\* Only a message of the assistant is evidence of a turn.
IsEvidence(role) == role = "assistant"

Messages == (IF TurnStatus # "none" THEN {"user"} ELSE {})
            \cup (IF HasRun("steer") THEN {"assistant"} ELSE {})

ReadMessages ==
  /\ At({"live_validate"}, "reading")
  /\ LET looking == IF Available(command.seen, "events") THEN GoTo("observing") ELSE Executed("unknown")
     IN \/ Live("first") /\ \E role \in Messages : command' = IF IsEvidence(role) THEN Executed("yes") ELSE looking
        \/ command' \in {looking, Fail("raised")}
  /\ UNCHANGED <<watchVars, promptVars, doc, cleanVars>>

\* Events are looked at for a second.
IsExecution(e) == e \in {"text", "active", "done"}

Observe(e) ==
  LET seen == [reader EXCEPT !.got = Append(@, e)] IN
  {IF IsExecution(e) THEN [seen EXCEPT !.pc = "closed", !.result = "executed"]
   ELSE IF IsTerminal(e) THEN [seen EXCEPT !.pc = "closed", !.result = "end"]
   ELSE seen}

ObserveEvents ==
  /\ At({"live_validate"}, "observing")
  /\ \/ ForegroundOpens \/ ForegroundReads([e \in AllKinds |-> Observe(e)])
     \/ ForegroundEnds(Ended("end")) \/ ForegroundTimesOut(Ended("timeout"))
  /\ UNCHANGED <<promptVars, doc, cleanVars, command>>

\* The connection goes with the one who read from it.
Observed ==
  /\ At({"live_validate"}, "observing") /\ reader.pc = "closed"
  /\ command' = CASE reader.result = "executed" -> Executed("yes")
                  [] reader.result = "raised" -> Fail("raised")
                  [] OTHER -> Executed("unknown")
  /\ stream' = NoStream /\ reader' = NewReader
  /\ UNCHANGED <<thread, promptVars, doc, cleanVars>>

-----------------------------------------------------------------------------
(* watch: text is printed when the next event that is not of its message    *)
(* comes, or at the end.                                                   *)

Flush(r) == [r EXCEPT !.got = @ \o r.pending, !.pending = <<>>]

Show(r, e) == [r EXCEPT !.got = Append(@, e)]

\* An event is printed before the text that came before it.
EmitUnflushed(e) ==
  IF e = "text" THEN {[reader EXCEPT !.pending = Append(@, e)]} ELSE {Show(reader, e)}

Emit(e) ==
  IF e = "text"
    THEN {[reader EXCEPT !.pending = Append(@, e)],
          [Flush(reader) EXCEPT !.pending = <<e>>],
          Show(reader, e)}
    ELSE {Show(Flush(reader), e)}

Watched(e) ==
  {IF IsTerminal(e) THEN [Flush(r) EXCEPT !.pc = "closed", !.result = e] ELSE r : r \in Emit(e)}

\* What is pending is printed at the end, but not when the connection drops.
WatchEvents ==
  /\ At({"watch"}, "observing")
  /\ \/ ForegroundOpens \/ ForegroundReads([e \in AllKinds |-> Watched(e)])
     \/ ForegroundEnds(IF stream.conn = "reset" THEN Ended("raised") ELSE Flush(Ended("end")))
     \/ ForegroundTimesOut(Flush(Ended("timeout")))
  /\ UNCHANGED <<promptVars, doc, cleanVars, command>>

WatchExits ==
  /\ At({"watch"}, "observing") /\ reader.pc = "closed"
  /\ command' = CASE reader.result = "api" -> Exit("failed")
                  [] reader.result \in {"raised", "timeout", "aborted"} -> Exit(reader.result)
                  [] OTHER -> Exit("ok")
  /\ UNCHANGED <<watchVars, promptVars, doc, cleanVars>>

-----------------------------------------------------------------------------
(* Blocking execution, and the end of the commands.                        *)

PromptSession == IF command.mode = "live_validate" THEN "second" ELSE "first"

BeginPrompt ==
  /\ command.pc = "prompting" /\ call.pc \in {"idle", "over"}
  /\ StartPrompt(PromptSession, Strategy(command.seen))
  /\ command' = GoTo("executing")
  /\ UNCHANGED <<watchVars, doc, cleanVars>>

Execute ==
  /\ command.pc = "executing" /\ CallStep
  /\ UNCHANGED <<watchVars, doc, cleanVars, command>>

\* The reply may be none that live_validate takes.
PromptOver ==
  /\ command.pc = "executing" /\ call.pc = "over"
  /\ LET how == IF call.outcome \in {"done", "raised"} THEN call.outcome ELSE "failed" IN
       IF Harness
         THEN command' \in CASE how = "done" -> {[GoTo("closing") EXCEPT !.result = "ok"], Fail("failed")}
                             [] OTHER -> {Fail(how)}
       ELSE IF how = "raised" THEN command' = Exit("raised")
       ELSE command' = [GoTo("closing") EXCEPT !.result = IF how = "done" THEN "ok" ELSE "failed"]
  /\ call' = NoCall
  /\ UNCHANGED <<watchVars, sessions, turns, doc, cleanVars>>

\* smoke closes the watcher it has open first.
CloseResources ==
  /\ At({"smoke"}, "closing") /\ reader.pc = "open"
  /\ Reader([reader EXCEPT !.pc = "closing"]) /\ UNCHANGED thread
  /\ UNCHANGED <<promptVars, doc, cleanVars, command>>

StartCleanup ==
  /\ command.pc = "closing" /\ reader.pc \in {"idle", "closed"}
  /\ command' = GoTo("cleaning")
  /\ Cleaner("command", [cleaners["command"] EXCEPT !.pc = "deleting"])
  /\ UNCHANGED <<watchVars, promptVars, doc, created>>

Cleanup ==
  /\ command.pc = "cleaning" /\ CleanStep("command")
  /\ UNCHANGED <<watchVars, command>>

\* An error that was on its way out goes on after the cleanup.
CleanedUp ==
  /\ command.pc = "cleaning" /\ cleaners["command"].pc \in {"over", "raised"}
  /\ command' = Exit(IF cleaners["command"].pc = "raised" THEN "raised"
                     ELSE IF command.result = "ok" /\ cleaners["command"].failed THEN "failed"
                     ELSE command.result)
  /\ UNCHANGED <<watchVars, promptVars, doc, cleanVars>>

-----------------------------------------------------------------------------
CommandStep ==
  \/ DetectCapabilities \/ Create \/ Steer
  \/ OpenWatcher \/ BeginCollect \/ CollectEvents \/ CloseWatcher \/ Collected \/ ReadBlockers
  \/ WaitForSteer \/ ReadMessages \/ ObserveEvents \/ Observed
  \/ WatchEvents \/ WatchExits
  \/ BeginPrompt \/ Execute \/ PromptOver
  \/ CloseResources \/ StartCleanup \/ Cleanup \/ CleanedUp

\* The sweep finds what smoke and live_validate have made by its prefix.
Sweep ==
  /\ (command.mode \in Swept /\ command.pc # "exited" /\ StartSweep(Harness)) \/ CleanStep("sweep")
  /\ UNCHANGED <<watchVars, command>>

Watcher == ThreadStep /\ UNCHANGED <<promptVars, doc, cleanVars, command>>

\* Events that tell of a turn come when it has run.
Server ==
  /\ command.pc # "exited"
  /\ \/ ServerStep /\ UNCHANGED watchVars
     \/ (\E e \in Kinds : (IsExecution(e) => HasRun("steer")) /\ SendEvent(e)) /\ UNCHANGED promptVars
     \/ EndStream /\ UNCHANGED promptVars
  /\ UNCHANGED <<doc, cleanVars, command>>

Next == CommandStep \/ Sweep \/ Watcher \/ Server

\* Every call of a command has a timeout, and so has every read of the thread.
Spec == Init /\ [][Next]_vars /\ WF_vars(CommandStep) /\ WF_vars(Watcher)

-----------------------------------------------------------------------------
(* Correctness.                                                            *)

\* Every variable keeps the shape the code gives its data; only events of the
\* session are handed on, and smoke collects no more than its limit.
TypeOK ==
  /\ stream \in [conn : {"none", "open", "ended", "reset", "invalid"},
                 sent : Seq(Kinds), wire : Seq(Kinds)]
  /\ thread \in [pc : {"new", "opening", "reading", "holding", "failing", "finishing", "exiting", "ended"},
                 event : Kinds \cup {"none"}, error : Errors \cup {"none"},
                 items : Seq(SessionKinds \cup Errors \cup {"finished"}), opened : BOOLEAN, closed : BOOLEAN]
  /\ reader.got \in Seq(SessionKinds) /\ reader.pending \in Seq({"text"})
  /\ Len(reader.got) > EventLimit => command.mode # "smoke"
  /\ sessions \in [SessionIds -> {"none", "live", "deleted"}]
  /\ turns \in [TurnIds -> [session : SessionIds, state : TurnStates]]
  /\ created \subseteq SessionIds /\ doc \in Docs
  /\ \A w \in Cleaners : cleaners[w].deleted \subseteq created

\* The events a command has collected or printed, then the text it still
\* holds, then what the thread has queued or in hand and what is on the wire
\* are the events the server sent for the session, in order and each once,
\* until the reading is given up; then what it has is the beginning of them.
\* A watch that ends without a broken connection has printed all it read.
InHand == IF thread.event \in {"none", "other"} THEN <<>> ELSE <<thread.event>>
EventsInOrder ==
  LET told == Only(stream.sent, SessionKinds)
      kept == reader.got \o reader.pending
      queued == Only(thread.items, Kinds)
  IN /\ SubSeq(told, 1, Len(kept)) = kept
     /\ ~thread.closed /\ reader.result # "raised"
          => kept \o queued \o InHand \o Only(stream.wire, SessionKinds) = told
     /\ reader.pc = "closed" /\ reader.result # "raised" => reader.pending = <<>>

\* What a cleanup says it deleted is gone, even when the answer of the delete
\* was lost or another process deletes the same session; and a command that
\* reports success leaves none of the sessions made for it.
CleanupToldTruth ==
  /\ \A w \in Cleaners, s \in SessionIds : s \in cleaners[w].deleted => sessions[s] = "deleted"
  /\ command.exit = "ok" => \A s \in created : sessions[s] = "deleted"

\* When a blocking call that timed out says its session was aborted, no turn
\* of it goes on (one that has not reached the server yet may still come).
TimeoutToldTruth ==
  [][call.outcome = "none" /\ call'.outcome = "timeout" /\ ~call'.abort_error
       => turns'["prompt"].state # "running"]_vars

\* A steer reported as admitted was taken by the server, also when it is the
\* second try of one whose answer was lost; one reported as executed has run.
EvidenceIsReal ==
  /\ call.outcome = "admitted" => turns["steer"].state # "none"
  /\ command.executed = "yes" => HasRun("steer")

\* The reading thread ends, whatever the server does with the stream.
WatcherEnds == thread.pc # "new" ~> thread.pc = "ended"

\* Every command ends, a watch that was given a timeout too.
CommandEnds == <>(command.pc = "exited")
=============================================================================
