------------------------ MODULE RemoteJournalProofs ------------------------
(***************************************************************************)
(* The properties of RemoteJournal for any number of commands and          *)
(* creations.  EvidenceKept is not inductive alone: it needs where each    *)
(* process stands against what its entry, the record and the server say.   *)
(***************************************************************************)
EXTENDS RemoteJournal, TLAPS

\* A process that has not begun has left no trace.
Untouched ==
  \A m \in Mutations :
    pc[m] = "idle" =>
      journal[m] = "absent" /\ m \notin effects \cup served \cup calls \cup known

\* From the intent to the result handler the entry stays listed.
Waiting == {"intended", "answered", "unanswered", "succeeded"}

InFlightListed ==
  \A m \in Mutations :
    pc[m] \in Waiting =>
      /\ m \notin effects
      /\ m \in known => journal[m] # "absent"

\* Who asks the server, and when the server has answered.
Asked ==
  /\ served \subseteq calls
  /\ effects \subseteq served
  /\ \A m \in Mutations :
       /\ pc[m] = "intended" => m \notin served
       /\ (pc[m] \in {"answered", "succeeded", "applied", "provisioned", "done"}
             /\ m \in calls) => m \in served
       /\ (pc[m] # "idle" /\ m \in Commands) => m \in calls

\* Past its result handler, a mutation of this record is recorded in it.
HandledRecorded ==
  \A m \in known \cap calls :
    pc[m] \in {"applied", "provisioned"} => m \in effects

ListedKnown == \A m \in Mutations : journal[m] # "absent" => m \in known

IInv ==
  /\ TypeOK
  /\ EvidenceKept
  /\ EntriesTellTruth
  /\ ReportedIsRecorded
  /\ Untouched
  /\ InFlightListed
  /\ Asked
  /\ HandledRecorded
  /\ ListedKnown

-----------------------------------------------------------------------------

\* The initial record lists nothing.
LEMMA InitIInv == Init => IInv
BY DEF Init, IInv, TypeOK, EvidenceKept, EntriesTellTruth, ReportedIsRecorded,
       Untouched, InFlightListed, Asked, HandledRecorded, ListedKnown,
       Runs, EntryStates, Running, Ended, Waiting

\* Steps of one mutation preserve the invariant.
LEMMA StepIInv ==
  ASSUME IInv, NEW m \in Mutations, Step(m)
  PROVE  IInv'
<1> USE MutationsAssumption
<1> USE DEF IInv, TypeOK, EvidenceKept, EntriesTellTruth, ReportedIsRecorded,
            Untouched, InFlightListed, Asked, HandledRecorded, ListedKnown,
            Runs, EntryStates, Running, Ended, Waiting, Goto, SetEntry,
            UpdateEntry, UpdateOrAppend
<1> USE DEF Mutations
<1>1. CASE RecordIntent(m) BY <1>1 DEF RecordIntent
<1>2. CASE CallRemote(m) BY <1>2 DEF CallRemote
<1>3. CASE CallFails(m) BY <1>3 DEF CallFails
<1>4. CASE MarkUncertain(m) BY <1>4 DEF MarkUncertain
<1>5. CASE MarkRemoteSucceeded(m) BY <1>5 DEF MarkRemoteSucceeded
<1>6. CASE ApplyAndFinalize(m) BY <1>6 DEF ApplyAndFinalize
<1>7. CASE RecordApplied(m) BY <1>7 DEF RecordApplied
<1>8. CASE KeepPending(m) BY <1>8 DEF KeepPending
<1>9. CASE Provision(m) BY <1>9 DEF Provision
<1>10. CASE FinalizeBestEffort(m) BY <1>10 DEF FinalizeBestEffort
<1>11. CASE Stop(m) BY <1>11 DEF Stop
<1>12. QED BY <1>1, <1>2, <1>3, <1>4, <1>5, <1>6, <1>7, <1>8, <1>9, <1>10,
              <1>11 DEF Step

\* Every step of the specification preserves the invariant.
LEMMA NextIInv ==
  ASSUME IInv, [Next]_vars
  PROVE  IInv'
<1> USE DEF IInv, TypeOK, EvidenceKept, EntriesTellTruth, ReportedIsRecorded,
            Untouched, InFlightListed, Asked, HandledRecorded, ListedKnown,
            Runs, EntryStates, Running, Ended, Waiting
<1>1. CASE \E m \in Mutations : Step(m) BY <1>1, StepIInv
<1>2. CASE UseSession BY <1>2 DEF UseSession
<1>3. CASE Fence BY <1>3 DEF Fence
<1>4. CASE DeleteRun BY <1>4 DEF DeleteRun
<1>5. CASE CreateRun BY <1>5 DEF CreateRun
<1>6. CASE UNCHANGED vars BY <1>6 DEF vars
<1>7. QED BY <1>1, <1>2, <1>3, <1>4, <1>5, <1>6 DEF Next

\* The inductive invariant holds of every reachable state.
THEOREM Invariance == Spec => []IInv
<1>1. Init => IInv BY InitIInv
<1>2. IInv /\ [Next]_vars => IInv' BY NextIInv
<1>3. QED BY <1>1, <1>2, PTL DEF Spec

\* The journal's entries and the processes keep their types.
THEOREM TypeCorrect == Spec => []TypeOK
<1>1. IInv => TypeOK BY DEF IInv
<1>2. QED BY <1>1, Invariance, PTL

\* No effect on the server is lost to the record that listed it, whatever update
\* fails and whenever a process dies (RemoteMutationRunner.execute).
THEOREM Evidence == Spec => []EvidenceKept
<1>1. IInv => EvidenceKept BY DEF IInv
<1>2. QED BY <1>1, Invariance, PTL

\* Recovery may rely on the state of an entry (RemoteMutationRecovery).
THEOREM TruthfulEntries == Spec => []EntriesTellTruth
<1>1. IInv => EntriesTellTruth BY DEF IInv
<1>2. QED BY <1>1, Invariance, PTL

\* A command that reports success is recorded (apply_result is persisted before
\* execute returns).
THEOREM Reported == Spec => []ReportedIsRecorded
<1>1. IInv => ReportedIsRecorded BY DEF IInv
<1>2. QED BY <1>1, Invariance, PTL

-----------------------------------------------------------------------------
(* Refinement of Outbox.                                                   *)

\* A step that leaves one mutation's entry, effects and the rest as they are is
\* a step of Outbox on that mutation, or none.
LEMMA StatusFrame ==
  ASSUME NEW m \in Mutations,
         \A x \in Mutations \ {m} : StatusOf(x)' = StatusOf(x)
  PROVE  outboxStatus' = [outboxStatus EXCEPT ![m] = StatusOf(m)']
BY DEF outboxStatus

\* The initial record maps to Outbox's.
LEMMA InitRefines == Init => Promise!Init
BY DEF Init, Promise!Init, outboxStatus, StatusOf

\* Each step of a mutation maps to a step of Outbox or to a stutter.
LEMMA StepRefines ==
  ASSUME IInv, NEW m \in Mutations, Step(m)
  PROVE  Promise!Next \/ UNCHANGED Promise!vars
<1> USE MutationsAssumption
<1>s. /\ \A x \in Mutations \ {m} : pc'[x] = pc[x] /\ journal'[x] = journal[x]
      /\ \A x \in Mutations \ {m} : x \in effects' <=> x \in effects
      /\ \A x \in Mutations \ {m} : x \in known' <=> x \in known
  BY DEF Step, RecordIntent, CallRemote, CallFails, MarkUncertain,
         MarkRemoteSucceeded, ApplyAndFinalize, RecordApplied, KeepPending,
         Provision, FinalizeBestEffort, Stop, Goto, SetEntry, UpdateEntry,
         UpdateOrAppend, IInv, TypeOK
<1>f. outboxStatus' = [outboxStatus EXCEPT ![m] = StatusOf(m)']
  <2>1. \A x \in Mutations \ {m} : StatusOf(x)' = StatusOf(x)
    BY <1>s DEF StatusOf
  <2>2. QED BY <2>1, StatusFrame
<1>g. outboxStatus[m] = StatusOf(m) BY DEF outboxStatus
<1>u. StatusOf(m)' = StatusOf(m) => outboxStatus' = outboxStatus
  BY <1>f, <1>g DEF outboxStatus
<1> DEFINE Same == StatusOf(m)' = StatusOf(m) /\ served' = served
<1>same. ASSUME Same PROVE UNCHANGED Promise!vars
  BY <1>same, <1>u DEF Promise!vars
<1> USE DEF IInv, TypeOK, Untouched, InFlightListed, Asked, HandledRecorded,
            ListedKnown, EvidenceKept, Waiting, Goto, SetEntry, UpdateEntry,
            UpdateOrAppend, Mutations
<1>1. CASE RecordIntent(m)
  <2>1. StatusOf(m) = "idle" /\ StatusOf(m)' = "open" /\ served' = served
    BY <1>1 DEF RecordIntent, StatusOf
  <2>2. Promise!Begin(m) BY <2>1, <1>f, <1>g DEF Promise!Begin, Promise!Becomes
  <2>3. QED BY <2>2 DEF Promise!Next
<1>2. CASE CallRemote(m) \/ CallFails(m)
  <2>1. StatusOf(m) \in {"open", "forgotten"} /\ StatusOf(m)' = StatusOf(m)
    BY <1>2 DEF CallRemote, CallFails, StatusOf
  <2>2. served' \in {served, served \cup {m}}
    BY <1>2 DEF CallRemote, CallFails
  <2>3. served' = served => Same BY <2>1
  <2>4. served' = served \cup {m} => Promise!Serve(m)
    BY <2>1, <1>g, <1>u DEF Promise!Serve
  <2>5. QED BY <2>2, <2>3, <2>4, <1>same DEF Promise!Next
<1>3. CASE MarkUncertain(m)
  <2>1. Same BY <1>3 DEF MarkUncertain, StatusOf, EntryStates
  <2>2. QED BY <2>1, <1>same
<1>4. CASE MarkRemoteSucceeded(m)
  <2>1. \/ StatusOf(m)' = StatusOf(m)
        \/ StatusOf(m) = "forgotten" /\ StatusOf(m)' = "open"
    BY <1>4 DEF MarkRemoteSucceeded, StatusOf
  <2>2. served' = served BY <1>4 DEF MarkRemoteSucceeded
  <2>3. (StatusOf(m) = "forgotten" /\ StatusOf(m)' = "open") => Promise!Adopt(m)
    BY <2>2, <1>f, <1>g DEF Promise!Adopt, Promise!Becomes
  <2>4. QED BY <2>1, <2>2, <2>3, <1>same DEF Promise!Next
<1>5. CASE ApplyAndFinalize(m)
  <2>1. /\ StatusOf(m) \in {"open", "forgotten"} /\ StatusOf(m)' = "settled"
        /\ m \in served /\ served' = served
    BY <1>5 DEF ApplyAndFinalize, StatusOf
  <2>2. Promise!Settle(m)
    BY <2>1, <1>f, <1>g DEF Promise!Settle, Promise!Becomes
  <2>3. QED BY <2>2 DEF Promise!Next
<1>6. CASE RecordApplied(m)
  <2>1. \/ StatusOf(m)' = StatusOf(m)
        \/ StatusOf(m) = "forgotten" /\ StatusOf(m)' = "open"
    BY <1>6 DEF RecordApplied, StatusOf
  <2>2. served' = served BY <1>6 DEF RecordApplied
  <2>3. (StatusOf(m) = "forgotten" /\ StatusOf(m)' = "open") => Promise!Adopt(m)
    BY <2>2, <1>f, <1>g DEF Promise!Adopt, Promise!Becomes
  <2>4. QED BY <2>1, <2>2, <2>3, <1>same DEF Promise!Next
<1>7. CASE KeepPending(m) \/ Provision(m) \/ Stop(m)
  <2>1. Same BY <1>7 DEF KeepPending, Provision, Stop, StatusOf, Running
  <2>2. QED BY <2>1, <1>same
<1>8. CASE FinalizeBestEffort(m)
  <2>1. served' = served BY <1>8 DEF FinalizeBestEffort
  <2>2. \/ StatusOf(m)' = StatusOf(m)
        \/ StatusOf(m) = "open" /\ StatusOf(m)' = "settled" /\ m \in served
        \/ StatusOf(m) = "open" /\ StatusOf(m)' = "withdrawn" /\ m \notin served
    BY <1>8 DEF FinalizeBestEffort, StatusOf
  <2>3. (StatusOf(m) = "open" /\ StatusOf(m)' = "settled" /\ m \in served)
          => Promise!Settle(m)
    BY <2>1, <1>f, <1>g DEF Promise!Settle, Promise!Becomes
  <2>4. (StatusOf(m) = "open" /\ StatusOf(m)' = "withdrawn" /\ m \notin served)
          => Promise!Withdraw(m)
    BY <2>1, <1>f, <1>g DEF Promise!Withdraw, Promise!Becomes
  <2>5. QED BY <2>1, <2>2, <2>3, <2>4, <1>same DEF Promise!Next
<1>9. QED
  BY <1>1, <1>2, <1>3, <1>4, <1>5, <1>6, <1>7, <1>8 DEF Step

\* So does each step of the run record.
LEMMA NextRefines ==
  ASSUME IInv, [Next]_vars
  PROVE  [Promise!Next]_(Promise!vars)
<1>1. CASE \E m \in Mutations : Step(m) BY <1>1, StepRefines
<1>2. CASE UseSession \/ Fence \/ CreateRun \/ UNCHANGED vars
  BY <1>2 DEF UseSession, Fence, CreateRun, vars, Promise!vars, outboxStatus,
              StatusOf
<1>3. CASE DeleteRun
  <2>1. \A m \in Mutations :
          StatusOf(m)' = IF pc[m] = "idle" THEN "idle" ELSE "forgotten"
    BY <1>3 DEF DeleteRun, StatusOf
  <2>2. \A m \in Mutations : StatusOf(m) = "idle" <=> pc[m] = "idle"
    BY DEF IInv, Untouched, StatusOf
  <2>3. Promise!Forget
    BY <1>3, <2>1, <2>2 DEF DeleteRun, Promise!Forget, outboxStatus
  <2>4. QED BY <2>3 DEF Promise!Next
<1>4. QED BY <1>1, <1>2, <1>3 DEF Next

\* The journal implements Outbox.
THEOREM Refinement == Spec => KeepsPromise
<1>1. Init => Promise!Init BY InitRefines
<1>2. IInv /\ [Next]_vars => [Promise!Next]_(Promise!vars) BY NextRefines
<1>3. QED BY <1>1, <1>2, Invariance, PTL DEF Spec, KeepsPromise, Promise!Spec
=============================================================================
