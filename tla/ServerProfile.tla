---------------------------- MODULE ServerProfile ----------------------------
(***************************************************************************)
(* What the client makes of the OpenAPI document of a server: which routes *)
(* are available, the route plan, and the way a prompt can be executed.    *)
(*                                                                         *)
(* A document is the set of the paths it has with the method the client    *)
(* needs; the spellings of a path that differ in the name of its parameter *)
(* are one path.  WaitParameter in it says that the prompt operation found *)
(* takes the query parameter wait.  A document that cannot be read is the  *)
(* empty one.                                                              *)
(***************************************************************************)
EXTENDS Naturals, Sequences

SESSION_PATHS == <<"/api/session", "/session">>
PROMPT_PATHS == <<"/api/session/{sessionID}/prompt", "/session/{sessionID}/prompt_async">>
WAIT_PATHS == <<"/api/session/{sessionID}/wait">>
EVENT_PATHS == <<"/api/event", "/event", "/global/event">>
SESSION_MESSAGE_PATH == "/session/{sessionID}/message"
LEGACY_RUN_PATH == "/session/{sessionID}/run"
LEGACY_REPLY_PATH == "/session/{sessionID}/reply"
WaitParameter == "?wait=true"

Paths == {SESSION_PATHS[i] : i \in 1..2} \cup {PROMPT_PATHS[i] : i \in 1..2}
         \cup {WAIT_PATHS[1]} \cup {EVENT_PATHS[i] : i \in 1..3}
         \cup {SESSION_MESSAGE_PATH, LEGACY_RUN_PATH, LEGACY_REPLY_PATH, WaitParameter}

\* The first of the candidates that the document has, or else the first.
FirstAvailable(doc, candidates) ==
  LET found == SelectSeq(candidates, LAMBDA path : path \in doc)
  IN [available |-> found # <<>>, path |-> Head(found \o candidates)]

\* Waiting by a parameter is looked for when there is no route for it.
WaitRoute(doc) ==
  LET route == FirstAvailable(doc, WAIT_PATHS) IN
  IF ~route.available /\ FirstAvailable(doc, PROMPT_PATHS).available /\ WaitParameter \in doc
    THEN [available |-> TRUE, path |-> WaitParameter]
    ELSE route

RouteAvailability(doc) ==
  [session |-> FirstAvailable(doc, SESSION_PATHS),
   v2_prompt |-> FirstAvailable(doc, PROMPT_PATHS),
   v2_wait |-> WaitRoute(doc),
   events |-> FirstAvailable(doc, EVENT_PATHS),
   blocking_message |-> FirstAvailable(doc, <<SESSION_MESSAGE_PATH>>),
   legacy_run |-> FirstAvailable(doc, <<LEGACY_RUN_PATH>>),
   legacy_reply |-> FirstAvailable(doc, <<LEGACY_REPLY_PATH>>)]

\* Where the plan sends a call: the path found, or the default that is the
\* first candidate as well.
DefaultPlan == [name \in DOMAIN RouteAvailability({}) |-> RouteAvailability({})[name].path]
RoutePlan(doc) == [name \in DOMAIN DefaultPlan |-> RouteAvailability(doc)[name].path]

Available(doc, name) == RouteAvailability(doc)[name].available

LegacyFallback(doc) == Available(doc, "legacy_run") /\ Available(doc, "legacy_reply")

Strategy(doc) ==
  IF Available(doc, "blocking_message") THEN "session_message"
  ELSE IF LegacyFallback(doc) THEN "legacy_run_reply" ELSE "none"

\* unsupported_reasons finds none.
Supported(doc) ==
  /\ Available(doc, "session")
  /\ Available(doc, "v2_prompt") \/ Strategy(doc) # "none"

\* What smoke and live_validate ask for.
SmokeSupported(doc) ==
  Supported(doc) /\ Available(doc, "v2_prompt") /\ Available(doc, "events")
LiveSupported(doc) ==
  Supported(doc) /\ Available(doc, "v2_prompt") /\ Strategy(doc) # "none"
=============================================================================
