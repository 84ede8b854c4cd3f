--------------------------- MODULE RemoteJournal ---------------------------
(***************************************************************************)
(* The remote mutation journal of remote_journal.py, as its users run it:  *)
(* run steer and run abort (Commands) and the creation of a worker session *)
(* (Creations).  All mutations concern one worker of one run; each is a    *)
(* process that alternates updates of the run record, each under the run   *)
(* lock, with a call to the server.                                        *)
(*                                                                         *)
(* Every update may fail (the run is fenced by a cleanup or deleted, the   *)
(* write fails, the mutator raises) and every process may die: Stop.       *)
(***************************************************************************)
EXTENDS Naturals

CONSTANTS
  Commands,   \* run steer and run abort invocations
  Creations   \* session creations

ASSUME MutationsAssumption == Commands \cap Creations = {}

Mutations == Commands \cup Creations

VARIABLES
  run,         \* the run record: open, fenced by a cleanup, or deleted
  journal,     \* mutation -> outbox_state of its entry, or absent
  hasSession,  \* the worker has a session_id
  effects,     \* mutations whose run_update is in the record
  served,      \* mutations the server carried out
  pc,          \* where each process stands
  calls,       \* mutations that ask the server: a creation that finds a
               \* session already set does not
  known        \* history: the mutations the current record has listed

vars == <<run, journal, hasSession, effects, served, pc, calls, known>>

Runs == {"open", "fenced", "deleted"}
EntryStates == {"absent", "intent", "remote_succeeded", "applied",
                "uncertain"}
Running == {"intended", "answered", "unanswered", "succeeded", "applied",
            "provisioned"}
Ended == {"done", "stopped"}

Init ==
  /\ run = "open"
  /\ journal = [m \in Mutations |-> "absent"]
  /\ hasSession \in BOOLEAN
  /\ effects = {} /\ served = {} /\ calls = {} /\ known = {}
  /\ pc = [m \in Mutations |-> "idle"]

-----------------------------------------------------------------------------
(* Steps of a mutation.                                                    *)

Goto(m, from, to) == pc[m] = from /\ pc' = [pc EXCEPT ![m] = to]

SetEntry(m, state) == journal' = [journal EXCEPT ![m] = state]

\* MISSING_INTENT_IGNORE: only an entry that is there changes ...
UpdateEntry(m, state) ==
  journal' = [journal EXCEPT ![m] = IF @ = "absent" THEN @ ELSE state]

\* Writes the status an applied entry had before there were outbox states.
UpdateOrAppendLegacy(m, state) ==
  IF m \in Creations
  THEN SetEntry(m, IF state = "applied" THEN "created" ELSE state)
  ELSE UpdateEntry(m, state)

\* ... MISSING_INTENT_RECORD_APPLIED: a creation appends a missing entry.
UpdateOrAppend(m, state) ==
  IF m \in Creations THEN SetEntry(m, state) ELSE UpdateEntry(m, state)

\* The intent is written before the server hears of it, from the latest record:
\* a command needs a session, a creation reuses one that has appeared.
RecordIntent(m) ==
  /\ Goto(m, "idle", "intended")
  /\ run = "open"
  /\ m \in Commands => hasSession
  /\ SetEntry(m, "intent")
  /\ calls' = IF m \in Commands \/ ~hasSession THEN calls \cup {m} ELSE calls
  /\ known' = known \cup {m}
  /\ UNCHANGED <<run, hasSession, effects, served>>

CallRemote(m) ==
  /\ Goto(m, "intended", "answered")
  /\ served' = IF m \in calls THEN served \cup {m} ELSE served
  /\ UNCHANGED <<run, journal, hasSession, effects, calls, known>>

\* Takes a call that raised for one that was answered.
CallFailsSilently(m) ==
  /\ Goto(m, "intended", "answered")
  /\ m \in calls
  /\ served' \in {served, served \cup {m}}
  /\ UNCHANGED <<run, journal, hasSession, effects, calls, known>>

\* The call raises: the server refused, or its answer was lost or unreadable.
CallFails(m) ==
  /\ Goto(m, "intended", "unanswered")
  /\ m \in calls
  /\ served' \in {served, served \cup {m}}
  /\ UNCHANGED <<run, journal, hasSession, effects, calls, known>>

\* Drops the entry of a call that raised, as if it had never been made.
MarkUncertainDiscards(m) ==
  /\ Goto(m, "unanswered", "stopped")
  /\ run = "open"
  /\ SetEntry(m, "absent")
  /\ UNCHANGED <<run, hasSession, effects, served, calls, known>>

MarkUncertain(m) ==
  /\ Goto(m, "unanswered", "stopped")
  /\ run = "open"
  /\ UpdateEntry(m, "uncertain")
  /\ UNCHANGED <<run, hasSession, effects, served, calls, known>>

MarkRemoteSucceeded(m) ==
  /\ Goto(m, "answered", "succeeded")
  /\ run = "open"
  /\ UpdateOrAppend(m, "remote_succeeded")
  /\ known' = IF m \in Creations THEN known \cup {m} ELSE known
  /\ UNCHANGED <<run, hasSession, effects, served, calls>>

\* Reports success although the update of the record failed.
ApplyAndFinalizeBestEffort(m) ==
  /\ Goto(m, "succeeded", "done")
  /\ m \in Commands
  /\ \/ run = "open" /\ hasSession
        /\ SetEntry(m, "absent") /\ effects' = effects \cup {m}
     \/ UNCHANGED <<journal, effects>>
  /\ UNCHANGED <<run, hasSession, served, calls, known>>

\* Removes the entry and forgets the run_update.
ApplyAndFinalizeEntryOnly(m) ==
  /\ Goto(m, "succeeded", "done")
  /\ m \in Commands
  /\ run = "open" /\ hasSession
  /\ SetEntry(m, "absent")
  /\ UNCHANGED <<run, hasSession, effects, served, calls, known>>

\* run_update and the removal of the entry are one update of the record; the
\* update raises, and writes nothing, if the worker has no session.
ApplyAndFinalize(m) ==
  /\ Goto(m, "succeeded", "done")
  /\ m \in Commands
  /\ run = "open" /\ hasSession
  /\ SetEntry(m, "absent")
  /\ effects' = effects \cup {m}
  /\ UNCHANGED <<run, hasSession, served, calls, known>>

\* A created session: set on the worker, and its entry kept.
RecordApplied(m) ==
  /\ Goto(m, "succeeded", "applied")
  /\ m \in Creations \cap calls
  /\ run = "open"
  /\ UpdateOrAppend(m, "applied")
  /\ effects' = effects \cup {m}
  /\ hasSession' = TRUE
  /\ known' = known \cup {m}
  /\ UNCHANGED <<run, served, calls>>

\* No session was created: nothing is written.
KeepPending(m) ==
  /\ Goto(m, "succeeded", "applied")
  /\ m \in Creations \ calls
  /\ UNCHANGED <<run, journal, hasSession, effects, served, calls, known>>

\* The PROVISIONED transition, which sets the session where none is set.
Provision(m) ==
  /\ Goto(m, "applied", "provisioned")
  /\ run = "open"
  /\ hasSession' \in {TRUE, hasSession}
  /\ m \in calls => hasSession'
  /\ UNCHANGED <<run, journal, effects, served, calls, known>>

FinalizeBestEffort(m) ==
  /\ Goto(m, "provisioned", "done")
  /\ \/ run = "open" /\ SetEntry(m, "absent")
     \/ UNCHANGED journal
  /\ UNCHANGED <<run, hasSession, effects, served, calls, known>>

\* An update fails and its exception ends the command, or the process dies.
Stop(m) ==
  /\ pc[m] \in Running
  /\ pc' = [pc EXCEPT ![m] = "stopped"]
  /\ UNCHANGED <<run, journal, hasSession, effects, served, calls, known>>

-----------------------------------------------------------------------------
(* The run record.                                                         *)

\* run worker --session, run start --session.
UseSession ==
  /\ run = "open" /\ ~hasSession
  /\ hasSession' = TRUE
  /\ UNCHANGED <<run, journal, effects, served, pc, calls, known>>

\* The in-progress audit of run cleanup, and its end.
Fence ==
  /\ \/ run = "open"   /\ run' = "fenced"
     \/ run = "fenced" /\ run' = "open"
  /\ UNCHANGED <<journal, hasSession, effects, served, pc, calls, known>>

\* run cleanup --run-store: nothing was written since the audit began.
DeleteRun ==
  /\ run = "fenced"
  /\ run' = "deleted"
  /\ journal' = [m \in Mutations |-> "absent"]
  /\ hasSession' = FALSE
  /\ effects' = {} /\ known' = {}
  /\ UNCHANGED <<served, pc, calls>>

\* run init, and run worker with or without a session: updates go by name.
CreateRun ==
  /\ run = "deleted"
  /\ run' = "open"
  /\ hasSession' \in BOOLEAN
  /\ UNCHANGED <<journal, effects, served, pc, calls, known>>

-----------------------------------------------------------------------------

Step(m) ==
  \/ RecordIntent(m) \/ CallRemote(m) \/ CallFails(m)
  \/ MarkUncertain(m) \/ MarkRemoteSucceeded(m) \/ ApplyAndFinalize(m)
  \/ RecordApplied(m) \/ KeepPending(m) \/ Provision(m)
  \/ FinalizeBestEffort(m) \/ Stop(m)

Next ==
  \/ \E m \in Mutations : Step(m)
  \/ UseSession \/ Fence \/ DeleteRun \/ CreateRun

Spec == Init /\ [][Next]_vars

-----------------------------------------------------------------------------
(* Properties.                                                             *)

TypeOK ==
  /\ run \in Runs
  /\ journal \in [Mutations -> EntryStates]
  /\ hasSession \in BOOLEAN
  /\ effects \subseteq Mutations
  /\ served \subseteq Mutations
  /\ pc \in [Mutations -> {"idle"} \cup Running \cup Ended]
  /\ calls \subseteq Mutations
  /\ known \subseteq Mutations

\* What the server did for this record is recorded or still has an entry,
\* whatever update fails and whenever the process dies (the runner writes the
\* intent first and removes it last).
EvidenceKept ==
  \A m \in known \cap served : m \in effects \/ journal[m] # "absent"

\* An entry that says the server answered is right about it, and one that says
\* applied has its effect in the record: recovery may delete what it names.
EntriesTellTruth ==
  \A m \in Mutations :
    /\ (journal[m] \in {"remote_succeeded", "applied"} /\ m \in calls)
         => m \in served
    /\ journal[m] = "applied" => m \in effects

\* A command that reports success has its effect in the record it was started
\* on (execute returns only after apply_result was persisted).
ReportedIsRecorded ==
  \A m \in known : (pc[m] = "done" /\ m \in calls) => m \in effects

\* How the record's entries and effects stand for the states of Outbox.
StatusOf(m) ==
  CASE journal[m] # "absent" -> "open"
    [] journal[m] = "absent" /\ m \in effects -> "settled"
    [] journal[m] = "absent" /\ m \in known \ effects -> "withdrawn"
    [] journal[m] = "absent" /\ m \notin known \cup effects ->
         IF pc[m] = "idle" THEN "idle" ELSE "forgotten"

outboxStatus == [m \in Mutations |-> StatusOf(m)]

Promise == INSTANCE Outbox WITH status <- outboxStatus

\* The journal implements Outbox: a mutation is listed before the server hears
\* of it and leaves the list only recorded, or without the server's doing
\* (RemoteMutationRunner.execute under every failure of an update).
KeepsPromise == Promise!Spec
=============================================================================
