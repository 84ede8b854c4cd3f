-------------------------- MODULE MCLiveValidation --------------------------
(* A server of the current routes, one of the old ones, and one that sends  *)
(* no events; a stream of two events.                                       *)
EXTENDS LiveValidation

MCKinds == {"admission", "text", "done", "other"}

MCDocs ==
  {{"/api/session", "/api/session/{sessionID}/prompt", "/api/session/{sessionID}/wait",
    "/api/event", "/session/{sessionID}/message"},
   {"/session", "/session/{sessionID}/prompt_async", "?wait=true", "/event",
    "/session/{sessionID}/run", "/session/{sessionID}/reply"},
   {"/api/session", "/api/session/{sessionID}/prompt", "/session/{sessionID}/message"}}

\* A sweep is tried with the command that makes two sessions.
MCSwept == {"live_validate"}
=============================================================================
