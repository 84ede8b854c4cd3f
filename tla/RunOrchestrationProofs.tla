----------------------- MODULE RunOrchestrationProofs -----------------------
(***************************************************************************)
(* Proofs of the properties of RunOrchestration for any number of starts,  *)
(* workers, dependencies and sessions.  Types come first, with what each   *)
(* step does to the record and to a process; then one section for each     *)
(* property, with the conjuncts it adds to the invariant and, where the    *)
(* code keeps its promise only under a condition, that condition.          *)
(***************************************************************************)
EXTENDS RunOrchestration, WorkerLemmas

-----------------------------------------------------------------------------
(* Updates of the record.                                                  *)

\* What persist_transitions comes to: every transition takes effect on the
\* latest record, or none does and the process is gone.
LEMMA PersistEffect ==
  ASSUME NEW s \in Starters, NEW tr, NEW p, Persist(s, tr, p)
  PROVE  /\ deps' = deps
         /\ \/ /\ \A w \in DOMAIN tr : Legal(workers[w], tr[w])
               /\ workers' = [w \in Worker |->
                                IF w \in DOMAIN tr
                                THEN ApplyTransition(workers[w], tr[w])
                                ELSE workers[w]]
               /\ proc' = [proc EXCEPT ![s] =
                             IF p.pc \in Over
                             THEN Proc(p.pc, proc[s].policy, proc[s].cleanup,
                                       proc[s].starts)
                             ELSE [p EXCEPT !.run = workers']]
            \/ /\ \E w \in DOMAIN tr : ~Legal(workers[w], tr[w])
               /\ workers' = workers
               /\ proc' = [proc EXCEPT ![s] =
                             Proc("raised", proc[s].policy, proc[s].cleanup,
                                  proc[s].starts)]
BY DEF Persist, Resumes, Leaves

\* A process that leaves forgets all but what it was started with.
LEMMA LeavesEffect ==
  ASSUME NEW s \in Starters, NEW pc, Leaves(s, pc)
  PROVE  proc' = [proc EXCEPT ![s] = Proc(pc, proc[s].policy, proc[s].cleanup,
                                          proc[s].starts)]
BY DEF Leaves

\* A process that is starting or has left is of the right type.
LEMMA ProcTyped ==
  ASSUME NEW pc \in Over \cup {"begin"}, NEW policy \in {"fail_fast", "continue"},
         NEW cleanup \in BOOLEAN, NEW starts \in Nat
  PROVE  LET p == Proc(pc, policy, cleanup, starts) IN
         p \in Procs /\ Equipped(p) /\ p.pc = pc
BY DEF Proc, Procs, Equipped, Executing, Over, Busy, NoRun, NoneOf

-----------------------------------------------------------------------------
(* The transitions a start builds.                                         *)

\* Built from a worker record, every one of them is well formed.
LEMMA BuildersTyped ==
  ASSUME NEW w \in Workers, NEW fin \in Finalizations
  PROVE  /\ NoFinalization \in Finalizations
         /\ Provisioned(w) \in Transitions
         /\ MarkActive \in Transitions
         /\ AttemptStarted(w) \in Transitions
         /\ DependencyBlocked \in Transitions
         /\ \A c \in FailureCategories, r \in BOOLEAN :
              MarkFailed(w, c, r, fin) \in Transitions
         /\ ScheduleRetry(w, fin) \in Transitions
         /\ MarkTimeout(w, fin) \in Transitions
         /\ \A status \in ResultStatuses : ApplyResult(status, fin) \in Transitions
         /\ \A pending \in SUBSET Sessions : CleanupUpdated(pending) \in Transitions
         /\ \A accepted \in BOOLEAN : MarkAborted(accepted) \in Transitions
<1>1. NoFinalization \in Finalizations
  BY DEF NoFinalization, Finalizations, AttemptStatuses
<1> USE <1>1 DEF Transitions
<1>2. Provisioned(w) \in Transitions BY DEF Provisioned, Workers
<1>3. MarkActive \in Transitions /\ DependencyBlocked \in Transitions
  BY DEF MarkActive, DependencyBlocked
<1>4. AttemptStarted(w) \in Transitions
  <2>1. Len(w.attempts) + 1 \in Nat \ {0} BY DEF Workers
  <2>2. NewAttempt(w) \in Attempts
    BY <2>1 DEF NewAttempt, Attempts, AttemptStatuses, Workers
  <2> QED BY <2>2 DEF AttemptStarted
<1>5. ASSUME NEW c \in FailureCategories
      PROVE  RetryAvailable(w, c) \in BOOLEAN
  BY DEF RetryAvailable
<1>6. \A c \in FailureCategories, r \in BOOLEAN :
         MarkFailed(w, c, r, fin) \in Transitions
  BY <1>5 DEF MarkFailed
<1>7. ScheduleRetry(w, fin) \in Transitions BY DEF ScheduleRetry, Workers
<1>8. MarkTimeout(w, fin) \in Transitions
  BY <1>5 DEF MarkTimeout, Workers, FailureCategories
<1>9. \A status \in ResultStatuses : ApplyResult(status, fin) \in Transitions
  BY DEF ApplyResult
<1>10. \A pending \in SUBSET Sessions : CleanupUpdated(pending) \in Transitions
  BY DEF CleanupUpdated
<1>11. \A accepted \in BOOLEAN : MarkAborted(accepted) \in Transitions
  BY DEF MarkAborted
<1> QED BY <1>2, <1>3, <1>4, <1>6, <1>7, <1>8, <1>9, <1>10, <1>11

\* A step of a process that keeps the types.
LEMMA ProcStepTyped ==
  ASSUME TypeOK, NEW s \in Starters, NEW q \in Procs, Equipped(q),
         proc' = [proc EXCEPT ![s] = q], deps' = deps, workers' \in Records,
         created' \subseteq Sessions, disposable' \subseteq created',
         deleted' \subseteq Sessions
  PROVE  TypeOK'
<1>1. proc \in [Starters -> Procs] /\ deps \in Graphs BY DEF TypeOK
<1>2. proc' \in [Starters -> Procs] BY <1>1
<1>3. ASSUME NEW t \in Starters PROVE Equipped(proc'[t])
  <2>1. CASE t = s BY <1>1, <2>1
  <2>2. CASE t # s
    <3>1. proc'[t] = proc[t] BY <1>1, <2>2
    <3> QED BY <3>1 DEF TypeOK
  <2> QED BY <2>1, <2>2
<1>4. TypeOK' = (/\ deps' \in Graphs /\ workers' \in Records
                 /\ created' \subseteq Sessions /\ disposable' \subseteq created'
                 /\ deleted' \subseteq Sessions /\ proc' \in [Starters -> Procs]
                 /\ \A t \in Starters : Equipped(proc'[t]))
  BY DEF TypeOK
<1> QED BY <1>1, <1>2, <1>3, <1>4

\* An update of the record with transitions that are well formed, after which
\* the process goes on as q.
Update(s, tr, q) ==
  /\ Persist(s, tr, q) /\ UNCHANGED server
  /\ \A w \in DOMAIN tr : w \in Worker => tr[w] \in Transitions
  /\ q \in Procs /\ Equipped(q) /\ q.pc # "begin"

\* What only the start itself and its cleanup phase change.
Keeps(p, q) ==
  /\ q.policy = p.policy /\ q.cleanup = p.cleanup /\ q.starts = p.starts
  /\ q.base = p.base /\ q.remembered = p.remembered /\ q.todo = p.todo
  /\ q.failed = p.failed

\* It keeps the types.
LEMMA UpdateTyped ==
  ASSUME TypeOK, NEW s \in Starters, NEW tr, NEW p, Update(s, tr, p)
  PROVE  TypeOK'
<1> USE DEF Update
<1> DEFINE left(pc) == Proc(pc, proc[s].policy, proc[s].cleanup, proc[s].starts)
<1>1. /\ deps' = deps /\ created' = created /\ disposable' = disposable
      /\ deleted' = deleted
  BY PersistEffect DEF server
<1>2. proc \in [Starters -> Procs] /\ workers \in Records BY DEF TypeOK
<1>3. workers' \in Records
  <2>1. CASE workers' = workers BY <1>2, <2>1
  <2>2. CASE workers' = [w \in Worker |->
                           IF w \in DOMAIN tr
                           THEN ApplyTransition(workers[w], tr[w])
                           ELSE workers[w]]
    <3>1. ASSUME NEW w \in Worker PROVE workers'[w] \in Workers
      <4>1. workers[w] \in Workers BY <1>2 DEF Records
      <4>2. CASE w \in DOMAIN tr
        <5>1. tr[w] \in Transitions BY <4>2
        <5>2. ApplyTransition(workers[w], tr[w]) \in Workers
          BY <4>1, <5>1, ApplyTransitionTyped
        <5> QED BY <2>2, <4>2, <5>2
      <4>3. CASE w \notin DOMAIN tr BY <2>2, <4>1, <4>3
      <4> QED BY <4>2, <4>3
    <3> QED BY <2>2, <3>1 DEF Records
  <2> QED BY <2>1, <2>2, PersistEffect
<1>4. ASSUME NEW pc \in Over PROVE left(pc) \in Procs /\ Equipped(left(pc))
  <2>1. /\ proc[s].policy \in {"fail_fast", "continue"}
        /\ proc[s].cleanup \in BOOLEAN /\ proc[s].starts \in Nat
    BY <1>2 DEF Procs
  <2> QED BY <2>1, ProcTyped
<1>5. \E q \in Procs : proc' = [proc EXCEPT ![s] = q] /\ Equipped(q)
  <2>1. ASSUME NEW pc \in Over, proc' = [proc EXCEPT ![s] = left(pc)]
        PROVE  \E q \in Procs : proc' = [proc EXCEPT ![s] = q] /\ Equipped(q)
    <3> HIDE DEF left
    <3> QED BY <1>4, <2>1
  <2>2. ASSUME p.pc \notin Over, proc' = [proc EXCEPT ![s] = [p EXCEPT !.run = workers']]
        PROVE  \E q \in Procs : proc' = [proc EXCEPT ![s] = q] /\ Equipped(q)
    <3> DEFINE q == [p EXCEPT !.run = workers']
    <3>1. q \in Procs /\ q.run = workers' /\ q.pc = p.pc /\ q.base = p.base
          /\ q.target = p.target
      BY <1>3 DEF Procs
    <3>2. Equipped(q) BY <1>3, <3>1 DEF Equipped
    <3>3. proc' = [proc EXCEPT ![s] = q] BY <2>2
    <3> HIDE DEF q
    <3> QED BY <3>1, <3>2, <3>3
  <2>3. "raised" \in Over BY DEF Over
  <2> QED BY <2>1, <2>2, <2>3, PersistEffect
<1>6. PICK q \in Procs : proc' = [proc EXCEPT ![s] = q] /\ Equipped(q)
  BY <1>5
<1>7. /\ created \subseteq Sessions /\ disposable \subseteq created
      /\ deleted \subseteq Sessions
  BY DEF TypeOK
<1> QED BY <1>1, <1>3, <1>6, <1>7, ProcStepTyped

\* Least and Latest find what they choose.
LEMMA LeastTyped ==
  ASSUME NEW ws \in SUBSET Worker, ws # {}
  PROVE  Least(ws) \in ws /\ \A x \in ws : Least(ws) <= x
<1>1. ws \subseteq Nat BY NAssumption DEF Worker
<1>2. \E w \in ws : \A x \in ws : w <= x BY <1>1, LeastNatural
<1> QED BY <1>2 DEF Least

LEMMA LatestTyped ==
  ASSUME NEW w \in Workers, ActiveAttempts(w) # {}
  PROVE  Latest(ActiveAttempts(w)) \in ActiveAttempts(w)
<1> DEFINE ids == ActiveAttempts(w)
<1>1. Len(w.attempts) \in Nat /\ DOMAIN w.attempts = 1 .. Len(w.attempts)
  BY DEF Workers
<1>2. ids \subseteq 0 .. Len(w.attempts) BY <1>1 DEF ActiveAttempts
<1> HIDE DEF ids
<1>3. \E i \in ids : \A j \in ids : j <= i
  BY <1>1, <1>2, GreatestNatural DEF ids
<1> QED BY <1>3 DEF Latest, ids

\* What a process that is at work has at hand.
LEMMA AtHand ==
  ASSUME TypeOK, NEW s \in Starters
  PROVE  LET p == proc[s] IN
         /\ p \in Procs /\ Equipped(p)
         /\ p.pc \in Busy \ {"begin"} =>
              p.run \in Records /\ \A w \in Worker : p.run[w] \in Workers
         /\ p.pc \in Executing =>
              p.base \in Records /\ \A w \in Worker : p.base[w] \in Workers
         /\ p.pc \in Executing \cup {"probe", "deleted"} => p.target \in Worker
BY DEF TypeOK, Equipped, Records

-----------------------------------------------------------------------------
(* Typing, action by action.                                               *)

LEMMA LeavesTyped ==
  ASSUME TypeOK, NEW s \in Starters, NEW pc \in Over, Leaves(s, pc),
         UNCHANGED <<deps, workers, server>>
  PROVE  TypeOK'
<1> DEFINE q == Proc(pc, proc[s].policy, proc[s].cleanup, proc[s].starts)
<1>1. /\ proc[s].policy \in {"fail_fast", "continue"}
      /\ proc[s].cleanup \in BOOLEAN /\ proc[s].starts \in Nat
  BY DEF TypeOK, Procs
<1>2. q \in Procs /\ Equipped(q) BY <1>1, ProcTyped
<1>3. proc' = [proc EXCEPT ![s] = q] BY LeavesEffect
<1> HIDE DEF q
<1> QED BY <1>2, <1>3, ProcStepTyped DEF TypeOK, server

\* A worker queued again is of the right type.
LEMMA RequeuedTyped ==
  ASSUME NEW w \in Workers
  PROVE  RequeuedWorker(w) \in Workers
<1>1. "queued" \in LifecycleStates BY DEF LifecycleStates
<1> QED BY <1>1 DEF RequeuedWorker, Workers

LEMMA RequestTyped ==
  ASSUME TypeOK, NEW s \in Starters, Request(s)
  PROVE  TypeOK'
<1>1. PICK policy \in ExecutionPolicies, cleanup \in Cleanup :
        proc' = [proc EXCEPT ![s] = Proc("begin", policy, cleanup, proc[s].starts + 1)]
  BY DEF Request
<1>2. /\ policy \in {"fail_fast", "continue"} /\ cleanup \in BOOLEAN
      /\ proc[s].starts + 1 \in Nat
  BY ExecutionPoliciesAssumption, SubsetsAssumption DEF TypeOK, Procs
<1> DEFINE q == Proc("begin", policy, cleanup, proc[s].starts + 1)
<1>3. q \in Procs /\ Equipped(q) BY <1>2, ProcTyped
<1>4. proc' = [proc EXCEPT ![s] = q] BY <1>1
<1>5. workers' \in Records
  <2>1. CASE workers' = workers BY <2>1 DEF TypeOK
  <2>2. ASSUME NEW w \in Reprompted, workers' = [workers EXCEPT ![w] = RequeuedWorker(@)]
        PROVE  workers' \in Records
    <3>1. w \in Worker /\ workers \in Records BY SubsetsAssumption DEF TypeOK
    <3>2. workers[w] \in Workers BY <3>1 DEF Records
    <3>3. RequeuedWorker(workers[w]) \in Workers BY <3>2, RequeuedTyped
    <3> QED BY <2>2, <3>1, <3>3 DEF Records
  <2> QED BY <2>1, <2>2 DEF Request
<1> HIDE DEF q
<1> QED BY <1>3, <1>4, <1>5, ProcStepTyped DEF TypeOK, Request, server

LEMMA BeginTyped ==
  ASSUME TypeOK, NEW s \in Starters, Begin(s)
  PROVE  TypeOK'
<1> DEFINE q == [proc[s] EXCEPT !.pc = "recover", !.run = workers]
<1>1. workers \in Records /\ proc[s] \in Procs BY DEF TypeOK
<1>2. q \in Procs /\ q.pc = "recover" /\ q.run = workers
  BY <1>1 DEF Procs, Busy
<1>3. proc' = [proc EXCEPT ![s] = q] BY DEF Begin, TypeOK
<1> HIDE DEF q
<1>4. Equipped(q) BY <1>1, <1>2 DEF Equipped, Executing
<1> QED BY <1>2, <1>3, <1>4, ProcStepTyped DEF TypeOK, Begin, server

LEMMA MarkRunActiveTyped ==
  ASSUME TypeOK, NEW s \in Starters, MarkRunActive(s)
  PROVE  TypeOK'
<1> DEFINE q == [proc[s] EXCEPT !.pc = "provision", !.run = workers, !.base = workers]
<1>1. workers \in Records /\ proc[s] \in Procs /\ proc[s].target \in Worker
  BY AtHand DEF TypeOK, MarkRunActive, Executing
<1>2. /\ q \in Procs /\ q.pc = "provision" /\ q.run = workers /\ q.base = workers
      /\ q.target = proc[s].target
  BY <1>1 DEF Procs, Busy
<1>3. proc' = [proc EXCEPT ![s] = q] BY DEF MarkRunActive, TypeOK
<1> HIDE DEF q
<1>4. Equipped(q) BY <1>1, <1>2 DEF Equipped
<1> QED BY <1>2, <1>3, <1>4, ProcStepTyped DEF TypeOK, MarkRunActive, server

LEMMA IntendTyped ==
  ASSUME TypeOK, NEW s \in Starters, Intend(s)
  PROVE  TypeOK'
<1> DEFINE q == [proc[s] EXCEPT !.pc = "create", !.run = workers]
<1>1. /\ workers \in Records /\ proc[s] \in Procs /\ proc[s].target \in Worker
      /\ proc[s].base \in Records
  BY AtHand DEF TypeOK, Intend, Executing
<1>2. /\ q \in Procs /\ q.pc = "create" /\ q.run = workers /\ q.base = proc[s].base
      /\ q.target = proc[s].target
  BY <1>1 DEF Procs, Busy
<1>3. proc' = [proc EXCEPT ![s] = q] BY DEF Intend, TypeOK
<1> HIDE DEF q
<1>4. Equipped(q) BY <1>1, <1>2 DEF Equipped
<1> QED BY <1>2, <1>3, <1>4, ProcStepTyped DEF TypeOK, Intend, server

\* One that is moved to another pc only.
LEMMA AtPcTyped ==
  ASSUME TypeOK, NEW s \in Starters, proc[s].pc \in Busy \ {"begin"},
         NEW pc \in Over \cup Busy, pc # "begin",
         pc \in Executing => proc[s].pc \in Executing,
         pc \in {"probe", "deleted"} => proc[s].pc \in Executing \cup {"probe", "deleted"}
  PROVE  LET q == [proc[s] EXCEPT !.pc = pc] IN
         /\ q \in Procs /\ Equipped(q) /\ q.pc = pc /\ q.target = proc[s].target
         /\ Keeps(proc[s], q)
<1> DEFINE q == [proc[s] EXCEPT !.pc = pc]
<1>1. /\ q \in Procs /\ q.pc = pc /\ q.run = proc[s].run /\ q.base = proc[s].base
      /\ q.target = proc[s].target /\ Keeps(proc[s], q)
  BY AtHand DEF Procs, Keeps
<1> HIDE DEF q
<1>2. Equipped(q) BY <1>1, AtHand DEF Equipped
<1> QED BY <1>1, <1>2 DEF q

\* An update of the worker being executed.
LEMMA TargetUpdate ==
  ASSUME NEW s \in Starters, NEW t \in Transitions, NEW p \in Procs,
         PersistTarget(s, t, p), UNCHANGED server, Equipped(p), p.pc # "begin"
  PROVE  Update(s, [w \in {p.target} |-> t], p)
<1> DEFINE tr == [w \in {p.target} |-> t]
<1>1. Persist(s, tr, p) BY DEF PersistTarget
<1>2. \A w \in DOMAIN tr : tr[w] \in Transitions OBVIOUS
<1> HIDE DEF tr
<1>3. Update(s, tr, p) BY <1>1, <1>2 DEF Update
<1> QED BY <1>3 DEF tr

\* The workers whose lease has expired time out.
LEMMA RecoverEffect ==
  ASSUME TypeOK, NEW s \in Starters, Recover(s)
  PROVE  \E tr, q :
           /\ Update(s, tr, q) /\ Keeps(proc[s], q)
           /\ proc[s].pc = "recover" /\ q.pc = "plan" /\ q.target = proc[s].target
           /\ \A w \in DOMAIN tr :
                /\ w \in Timed /\ tr[w].name = "timed_out"
                /\ tr[w].available => RetriesTimeouts(proc[s].run[w])
<1> DEFINE p == proc[s]
           tr(expired) == [w \in expired |->
                MarkTimeout(p.run[w],
                  [id     |-> Latest(ActiveAttempts(p.run[w])), status |-> "failed"])]
           q(expired) == [p EXCEPT !.pc = "plan", !.error = expired # {}]
<1>1. PICK expired \in SUBSET Recoverable(p.run) :
        Persist(s, tr(expired), q(expired))
  BY Zenon DEF Recover
<1>2. p.pc = "recover" /\ p.pc \in Busy \ {"begin"} BY DEF Recover, Busy
<1>3. p.run \in Records /\ \A w \in Worker : p.run[w] \in Workers
  BY <1>2, AtHand
<1>4. /\ q(expired) \in Procs /\ Equipped(q(expired)) /\ q(expired).pc = "plan"
      /\ Keeps(p, q(expired)) /\ q(expired).target = p.target
  <2>1. p \in Procs BY AtHand
  <2>2. /\ q(expired) \in Procs /\ q(expired).pc = "plan"
        /\ q(expired).run = p.run /\ Keeps(p, q(expired))
        /\ q(expired).target = p.target
    BY <2>1, ZenonT(30) DEF Procs, Busy, Keeps
  <2> HIDE DEF q
  <2> QED BY <1>3, <2>2 DEF Equipped, Executing
<1>5. ASSUME NEW w \in DOMAIN tr(expired)
      PROVE  /\ w \in Timed /\ tr(expired)[w] \in Transitions
             /\ tr(expired)[w].name = "timed_out"
             /\ tr(expired)[w].available => RetriesTimeouts(p.run[w])
  <2> DEFINE fin == [id |-> Latest(ActiveAttempts(p.run[w])), status |-> "failed"]
  <2>1. w \in Timed /\ w \in Worker /\ ActiveAttempts(p.run[w]) # {}
    BY SubsetsAssumption DEF Recoverable
  <2>2. p.run[w] \in Workers BY <1>3, <2>1
  <2>3. Latest(ActiveAttempts(p.run[w])) \in DOMAIN p.run[w].attempts
    BY <2>1, <2>2, LatestTyped DEF ActiveAttempts
  <2>4. Latest(ActiveAttempts(p.run[w])) \in Nat BY <2>2, <2>3 DEF Workers
  <2>5. fin \in Finalizations BY <2>4 DEF Finalizations, AttemptStatuses
  <2>6. tr(expired)[w] = MarkTimeout(p.run[w], fin) OBVIOUS
  <2> HIDE DEF tr, fin
  <2>7. tr(expired)[w] \in Transitions BY <2>2, <2>5, <2>6, BuildersTyped
  <2>8. /\ MarkTimeout(p.run[w], fin).name = "timed_out"
        /\ MarkTimeout(p.run[w], fin).available => RetriesTimeouts(p.run[w])
    BY DEF MarkTimeout, RetryAvailable, RetriesTimeouts
  <2> QED BY <2>1, <2>6, <2>7, <2>8
<1>6. UNCHANGED server BY DEF Recover
<1> HIDE DEF tr, q
<1>7. Update(s, tr(expired), q(expired)) BY <1>1, <1>4, <1>5, <1>6 DEF Update
<1> QED BY <1>2, <1>4, <1>5, <1>7

\* A plan selects the first of the ready workers, or none.
LEMMA SelectedTyped ==
  ASSUME TypeOK, NEW s \in Starters, proc[s].pc \in {"plan", "replan"},
         NEW ready \in SUBSET Worker
  PROVE  LET p == proc[s]
             q == Selected(p, ready)
         IN
         /\ q \in Procs /\ Equipped(q) /\ q.pc # "begin" /\ Keeps(p, q)
         /\ \/ p.pc = "plan" /\ q.pc \in {"ended", "probe"}
            \/ p.pc = "replan" /\ q.pc \in {Executed(p), "provision"}
         /\ q.pc \in {"probe", "provision"} => q.target \in ready
<1> DEFINE p == proc[s]
           q == Selected(p, ready)
<1>1. p.pc \in Busy \ {"begin"} /\ p.run \in Records /\ p \in Procs
  BY AtHand DEF Busy
<1>2. p.pc = "replan" => p.base \in Records BY AtHand DEF Executing
<1>3. CASE ready = {} \/ (p.error /\ p.policy = "fail_fast")
  <2> DEFINE pc == IF p.pc = "plan" THEN "ended" ELSE Executed(p)
  <2>1. /\ pc \in Over \cup Busy /\ pc # "begin" /\ pc \notin Executing
        /\ pc \notin {"probe", "deleted", "provision"}
    BY DEF Over, Busy, Executing, Executed
  <2>2. q = [p EXCEPT !.pc = pc] BY <1>3 DEF Selected
  <2>3. \/ p.pc = "plan" /\ pc = "ended"
        \/ p.pc = "replan" /\ pc = Executed(p)
    OBVIOUS
  <2> HIDE DEF pc, q
  <2>4. q \in Procs /\ Equipped(q) /\ q.pc = pc /\ Keeps(p, q)
    BY <1>1, <2>1, <2>2, AtPcTyped
  <2> QED BY <2>1, <2>3, <2>4 DEF q
<1>4. CASE ~(ready = {} \/ (p.error /\ p.policy = "fail_fast"))
  <2> DEFINE pc == IF p.pc = "plan" THEN "probe" ELSE "provision"
             t == Least(ready)
  <2>1. t \in ready /\ t \in Worker BY <1>4, LeastTyped
  <2>2. q = [p EXCEPT !.pc = pc, !.target = t] BY <1>4 DEF Selected
  <2>3. pc \in Busy BY DEF Busy
  <2> HIDE DEF t
  <2>4. /\ q \in Procs /\ q.pc = pc /\ q.target = t /\ q.run = p.run
        /\ q.base = p.base /\ Keeps(p, q)
    BY <1>1, <2>1, <2>2, <2>3, ZenonT(30) DEF Procs, Keeps
  <2>5. Equipped(q)
    BY <1>1, <1>2, <2>1, <2>4 DEF Equipped, Executing
  <2> QED BY <2>1, <2>4, <2>5
<1> QED BY <1>3, <1>4

\* The blocked workers become so; the next worker is ready and not blocked in
\* the record the process held.
LEMMA PlanEffect ==
  ASSUME TypeOK, NEW s \in Starters, Plan(s)
  PROVE  LET p       == proc[s]
             v       == View(p.run)
             blocked == BlockedIds(v, {})
             tr      == [w \in blocked |-> DependencyBlocked]
             q       == Selected(p, ReadyIds(v, blocked))
         IN
         /\ p.pc \in {"plan", "replan"}
         /\ Update(s, tr, q) /\ Keeps(p, q)
         /\ \/ p.pc = "plan" /\ q.pc \in {"ended", "probe"}
            \/ p.pc = "replan" /\ q.pc \in {Executed(p), "provision"}
         /\ q.pc \in {"probe", "provision"} => q.target \in ReadyIds(v, blocked)
<1> DEFINE p == proc[s]
           v == View(p.run)
           blocked == BlockedIds(v, {})
           tr == [w \in blocked |-> DependencyBlocked]
           q == Selected(p, ReadyIds(v, blocked))
<1>1. ReadyIds(v, blocked) \subseteq Worker BY DEF ReadyIds, Ids, View
<1>2. p.pc \in {"plan", "replan"} BY DEF Plan
<1>3. /\ q \in Procs /\ Equipped(q) /\ q.pc # "begin" /\ Keeps(p, q)
      /\ \/ p.pc = "plan" /\ q.pc \in {"ended", "probe"}
         \/ p.pc = "replan" /\ q.pc \in {Executed(p), "provision"}
      /\ q.pc \in {"probe", "provision"} => q.target \in ReadyIds(v, blocked)
  BY <1>1, <1>2, SelectedTyped
<1>4. DependencyBlocked \in Transitions
  BY DEF DependencyBlocked, NoFinalization, Transitions, Finalizations, AttemptStatuses
<1>5. \A w \in DOMAIN tr : tr[w] \in Transitions BY <1>4
<1>6. Persist(s, tr, q) /\ UNCHANGED server BY DEF Plan
<1> HIDE DEF tr, q
<1>7. Update(s, tr, q) BY <1>3, <1>5, <1>6 DEF Update
<1> QED BY <1>2, <1>3, <1>7 DEF tr, q

\* Pending workers that fail, all at once.
LEMMA FailStartEffect ==
  ASSUME TypeOK, NEW s \in Starters, NEW run \in Records, NEW pc \in Over \cup {"clean"},
         proc[s].pc \in Busy \ {"begin"}, FailStart(s, run, pc), UNCHANGED server
  PROVE  LET tr == [w \in Pending(run) |->
                      MarkFailed(run[w], "api", FALSE, NoFinalization)]
             q  == [proc[s] EXCEPT !.pc = pc]
         IN  /\ Update(s, tr, q) /\ Keeps(proc[s], q) /\ q.pc = pc
             /\ q.target = proc[s].target
             /\ \A w \in DOMAIN tr : w \in Worker /\ tr[w].name = "failed" /\ ~tr[w].retryable
<1> DEFINE tr == [w \in Pending(run) |-> MarkFailed(run[w], "api", FALSE, NoFinalization)]
           q == [proc[s] EXCEPT !.pc = pc]
<1>1. /\ q \in Procs /\ Equipped(q) /\ q.pc = pc /\ q.target = proc[s].target
      /\ Keeps(proc[s], q)
  <2>1. /\ pc \in Over \cup Busy /\ pc # "begin" /\ pc \notin Executing
        /\ pc \notin {"probe", "deleted"}
    BY DEF Over, Busy, Executing
  <2> QED BY <2>1, AtPcTyped
<1>2. ASSUME NEW w \in DOMAIN tr
      PROVE  w \in Worker /\ tr[w] \in Transitions /\ tr[w].name = "failed" /\ ~tr[w].retryable
  <2>1. w \in Worker /\ tr[w] = MarkFailed(run[w], "api", FALSE, NoFinalization)
    BY DEF Pending
  <2>2. run[w] \in Workers BY <2>1 DEF Records
  <2>3. NoFinalization \in Finalizations
    BY DEF NoFinalization, Finalizations, AttemptStatuses
  <2>4. "api" \in FailureCategories BY DEF FailureCategories
  <2> HIDE DEF tr
  <2>5. tr[w] \in Transitions BY <2>1, <2>2, <2>3, <2>4, BuildersTyped
  <2>6. tr[w].name = "failed" /\ ~tr[w].retryable BY <2>1 DEF MarkFailed
  <2> QED BY <2>1, <2>5, <2>6
<1>3. Persist(s, tr, q) BY DEF FailStart
<1>4. q.pc # "begin" BY <1>1 DEF Over
<1> HIDE DEF tr, q
<1>5. Update(s, tr, q) BY <1>1, <1>2, <1>3, <1>4 DEF Update
<1> QED BY <1>1, <1>2, <1>5 DEF tr, q

LEMMA ProbeFailsEffect ==
  ASSUME TypeOK, NEW s \in Starters, ProbeFails(s)
  PROVE  \E tr, q :
           /\ Update(s, tr, q) /\ Keeps(proc[s], q)
           /\ proc[s].pc = "probe" /\ q.pc = "ended"
           /\ \A w \in DOMAIN tr : w \in Worker /\ tr[w].name = "failed" /\ ~tr[w].retryable
<1>1. proc[s].pc \in Busy \ {"begin"} BY DEF ProbeFails, Busy
<1>2. proc[s].run \in Records BY <1>1, AtHand
<1>3. "ended" \in Over BY DEF Over
<1>4. FailStart(s, proc[s].run, "ended") /\ UNCHANGED server /\ proc[s].pc = "probe"
  BY DEF ProbeFails
<1> DEFINE tr == [w \in Pending(proc[s].run) |->
                    MarkFailed(proc[s].run[w], "api", FALSE, NoFinalization)]
           q == [proc[s] EXCEPT !.pc = "ended"]
<1>5. /\ Update(s, tr, q) /\ Keeps(proc[s], q) /\ q.pc = "ended"
      /\ \A w \in DOMAIN tr : w \in Worker /\ tr[w].name = "failed" /\ ~tr[w].retryable
  <2> DEFINE pc == "ended"
  <2>1. pc \in Over \cup {"clean"} /\ FailStart(s, proc[s].run, pc) BY <1>3, <1>4
  <2> HIDE DEF pc
  <2>2. /\ Update(s, [w \in Pending(proc[s].run) |->
                        MarkFailed(proc[s].run[w], "api", FALSE, NoFinalization)],
                  [proc[s] EXCEPT !.pc = pc])
        /\ Keeps(proc[s], [proc[s] EXCEPT !.pc = pc])
        /\ [proc[s] EXCEPT !.pc = pc].pc = pc
        /\ \A w \in DOMAIN tr : w \in Worker /\ tr[w].name = "failed" /\ ~tr[w].retryable
    BY <1>1, <1>2, <1>4, <2>1, FailStartEffect
  <2> QED BY <2>2 DEF pc
<1> HIDE DEF tr, q
<1> QED BY <1>4, <1>5

LEMMA CreationFailsEffect ==
  ASSUME TypeOK, NEW s \in Starters, CreationFails(s)
  PROVE  \E tr, q :
           /\ Update(s, tr, q) /\ Keeps(proc[s], q)
           /\ proc[s].pc = "create" /\ q.pc = Executed(proc[s])
           /\ q.target = proc[s].target
           /\ \A w \in DOMAIN tr : w \in Worker /\ tr[w].name = "failed" /\ ~tr[w].retryable
<1>1. proc[s].pc \in Busy \ {"begin"} /\ proc[s].pc \in Executing
  BY DEF CreationFails, Busy, Executing
<1>2. proc[s].base \in Records BY <1>1, AtHand
<1>3. Executed(proc[s]) \in Over \cup {"clean"} BY DEF Over, Executed
<1>4. /\ FailStart(s, proc[s].base, Executed(proc[s])) /\ UNCHANGED server
      /\ proc[s].pc = "create"
  BY DEF CreationFails
<1> DEFINE pc == Executed(proc[s])
           tr == [w \in Pending(proc[s].base) |->
                    MarkFailed(proc[s].base[w], "api", FALSE, NoFinalization)]
           q == [proc[s] EXCEPT !.pc = pc]
<1>5. /\ Update(s, tr, q) /\ Keeps(proc[s], q) /\ q.pc = pc
      /\ q.target = proc[s].target
      /\ \A w \in DOMAIN tr : w \in Worker /\ tr[w].name = "failed" /\ ~tr[w].retryable
  <2> HIDE DEF pc
  <2>1. pc \in Over \cup {"clean"} /\ FailStart(s, proc[s].base, pc) BY <1>3, <1>4 DEF pc
  <2> QED BY <1>1, <1>2, <1>4, <2>1, FailStartEffect
<1> HIDE DEF tr, q
<1> QED BY <1>4, <1>5

LEMMA ProvisionEffect ==
  ASSUME TypeOK, NEW s \in Starters, Provision(s)
  PROVE  LET p == proc[s]
             t == Provisioned(p.run[p.target])
             q == [p EXCEPT !.pc = "active"]
         IN  /\ Update(s, [w \in {q.target} |-> t], q) /\ Keeps(p, q)
             /\ p.pc \in {"provision", "provisioned"} /\ q.pc = "active"
             /\ q.target = p.target /\ t \in Transitions
<1> DEFINE p == proc[s]
           t == Provisioned(p.run[p.target])
           q == [p EXCEPT !.pc = "active"]
<1>1. /\ p.pc \in Executing /\ p.pc \in Busy \ {"begin"}
      /\ p.pc \in {"provision", "provisioned"}
  BY DEF Provision, Executing, Busy
<1>2. p.run[p.target] \in Workers BY <1>1, AtHand
<1>3. t \in Transitions
  BY <1>2 DEF Provisioned, NoFinalization, Transitions, Finalizations,
              AttemptStatuses, Workers
<1>4. "active" \in Busy BY DEF Busy
<1>5. /\ q \in Procs /\ Equipped(q) /\ q.pc = "active" /\ q.target = p.target
      /\ Keeps(p, q)
  BY <1>1, <1>4, AtPcTyped
<1>6. PersistTarget(s, t, q) /\ UNCHANGED server BY DEF Provision
<1> HIDE DEF q, t
<1>7. Update(s, [w \in {q.target} |-> t], q) BY <1>3, <1>5, <1>6, TargetUpdate
<1> QED BY <1>1, <1>3, <1>5, <1>7 DEF q, t

LEMMA ActivateEffect ==
  ASSUME TypeOK, NEW s \in Starters, Activate(s)
  PROVE  LET p == proc[s]
             q == [p EXCEPT !.pc = "attempt"]
         IN  /\ Update(s, [w \in {q.target} |-> MarkActive], q) /\ Keeps(p, q)
             /\ p.pc = "active" /\ q.pc = "attempt" /\ q.target = p.target
             /\ MarkActive \in Transitions
<1> DEFINE q == [proc[s] EXCEPT !.pc = "attempt"]
<1>1. proc[s].pc \in Executing /\ proc[s].pc \in Busy \ {"begin"}
  BY DEF Activate, Executing, Busy
<1>2. MarkActive \in Transitions
  BY DEF MarkActive, NoFinalization, Transitions, Finalizations, AttemptStatuses
<1>3. "attempt" \in Busy BY DEF Busy
<1>4. /\ q \in Procs /\ Equipped(q) /\ q.pc = "attempt" /\ q.target = proc[s].target
      /\ Keeps(proc[s], q)
  BY <1>1, <1>3, AtPcTyped
<1>5. PersistTarget(s, MarkActive, q) /\ UNCHANGED server /\ proc[s].pc = "active"
  BY DEF Activate
<1> HIDE DEF q
<1>6. Update(s, [w \in {q.target} |-> MarkActive], q)
  BY <1>2, <1>4, <1>5, TargetUpdate
<1> QED BY <1>2, <1>4, <1>5, <1>6 DEF q

LEMMA StartAttemptEffect ==
  ASSUME TypeOK, NEW s \in Starters, StartAttempt(s)
  PROVE  LET p == proc[s]
             t == AttemptStarted(p.run[p.target])
         IN  \E q :
             /\ Update(s, [w \in {q.target} |-> t], q) /\ Keeps(p, q)
             /\ p.pc = "attempt" /\ q.pc \in {"refused", "prompt"}
             /\ q.target = p.target /\ t \in Transitions
             /\ q.attempt = Len(p.run[p.target].attempts) + 1
<1> DEFINE p == proc[s]
           w == p.run[p.target]
           t == AttemptStarted(w)
           pc == IF w.session \in deleted THEN "refused" ELSE "prompt"
           q == [p EXCEPT !.pc = pc, !.attempt = NewAttempt(w).id]
<1>1. /\ p.pc \in Executing /\ p.pc \in Busy \ {"begin"} /\ p \in Procs
      /\ p.pc = "attempt"
  BY AtHand DEF StartAttempt, Executing, Busy
<1>2. w \in Workers BY <1>1, AtHand
<1>3. t \in Transitions
  <2>1. NoFinalization \in Finalizations
    BY DEF NoFinalization, Finalizations, AttemptStatuses
  <2> QED BY <1>2, <2>1, BuildersTyped
<1>4. NewAttempt(w).id \in Nat /\ NewAttempt(w).id = Len(w.attempts) + 1
  <2> HIDE DEF p, w, q
  <2>1. w.attempts \in Seq(Attempts) BY <1>2 DEF Workers
  <2>2. Len(w.attempts) \in Nat BY <2>1
  <2>3. NewAttempt(w).id = Len(w.attempts) + 1 BY DEF NewAttempt
  <2> QED BY <2>2, <2>3
<1>5. pc \in Busy /\ pc # "begin" /\ pc \in {"refused", "prompt"} BY DEF Busy
<1> HIDE DEF pc
<1>6. /\ q \in Procs /\ q.pc = pc /\ q.run = p.run /\ q.base = p.base
      /\ q.target = p.target /\ q.attempt = NewAttempt(w).id /\ Keeps(p, q)
  BY <1>1, <1>4, <1>5 DEF Procs, Keeps
<1>7. PersistTarget(s, t, q) /\ UNCHANGED server BY DEF StartAttempt, pc
<1> HIDE DEF q, t
<1>8. Equipped(q) BY <1>1, <1>6, AtHand DEF Equipped
<1>9. Update(s, [x \in {q.target} |-> t], q)
  BY <1>3, <1>5, <1>6, <1>7, <1>8, TargetUpdate
<1> QED BY <1>1, <1>3, <1>4, <1>5, <1>6, <1>9 DEF t

\* An answer is one transition of the worker being executed, built from the
\* record of the attempt's start; the next plan knows whether it was a failure.
LEMMA AnswerEffect ==
  ASSUME TypeOK, NEW s \in Starters, Answer(s)
  PROVE  LET p == proc[s]
             w == p.run[p.target]
             Ends(status) == [id |-> p.attempt, status |-> status]
         IN  \E t \in Transitions : \E q :
             /\ Update(s, [x \in {q.target} |-> t], q) /\ Keeps(p, q)
             /\ p.pc \in {"prompt", "refused"} /\ q.pc = "replan"
             /\ q.target = p.target
             /\ t.name \in {"result_applied", "retry_scheduled", "failed", "timed_out"}
             /\ \/ /\ \E status \in ResultStatuses :
                        t = ApplyResult(status, Ends("completed"))
                   /\ q.error = p.error
                \/ /\ \E c \in FailureCategories \ {"timeout"} : RetryAvailable(w, c)
                   /\ t = ScheduleRetry(w, Ends("retry_scheduled"))
                   /\ q.error = p.error
                \/ /\ \E c \in FailureCategories \ {"timeout"} :
                        t = MarkFailed(w, c, TRUE, Ends("failed")) /\ ~t.available
                   /\ q.error
                \/ /\ t = MarkTimeout(w, Ends("failed")) /\ "timeout" \in Failures
                   /\ q.error
<1> DEFINE p == proc[s]
           w == p.run[p.target]
           q(failed) == [p EXCEPT !.pc = "replan", !.error = @ \/ failed]
           Ends(status) == [id |-> p.attempt, status |-> status]
           R(t) == \E status \in ResultStatuses : t = ApplyResult(status, Ends("completed"))
           S(t) == /\ \E c \in FailureCategories \ {"timeout"} : RetryAvailable(w, c)
                   /\ t = ScheduleRetry(w, Ends("retry_scheduled"))
           F(t) == \E c \in FailureCategories \ {"timeout"} :
                     t = MarkFailed(w, c, TRUE, Ends("failed")) /\ ~t.available
           T(t) == t = MarkTimeout(w, Ends("failed")) /\ "timeout" \in Failures
           Came(t, failed) == /\ PersistTarget(s, t, q(failed))
                              /\ \/ (R(t) \/ S(t)) /\ failed = FALSE
                                 \/ (F(t) \/ T(t)) /\ failed = TRUE
<1>1. /\ p.pc \in Executing /\ p.pc \in Busy \ {"begin"} /\ p \in Procs
      /\ p.pc \in {"prompt", "refused"}
  BY AtHand DEF Answer, Executing, Busy
<1>2. w \in Workers BY <1>1, AtHand
<1>3. \A status \in AttemptStatuses : Ends(status) \in Finalizations
  BY <1>1 DEF Finalizations, Procs
<1>4. {"completed", "retry_scheduled", "failed"} \subseteq AttemptStatuses
  BY DEF AttemptStatuses
<1>5. ASSUME NEW failed \in BOOLEAN
      PROVE  /\ q(failed) \in Procs /\ Equipped(q(failed)) /\ q(failed).pc = "replan"
             /\ q(failed).target = p.target /\ Keeps(p, q(failed))
             /\ q(failed).error = (p.error \/ failed)
  <2>1. p.error \/ failed \in BOOLEAN OBVIOUS
  <2>2. "replan" \in Busy BY DEF Busy
  <2>3. /\ q(failed) \in Procs /\ q(failed).pc = "replan" /\ q(failed).run = p.run
        /\ q(failed).base = p.base /\ q(failed).target = p.target
        /\ Keeps(p, q(failed)) /\ q(failed).error = (p.error \/ failed)
    BY <1>1, <2>1, <2>2, Zenon DEF Procs, Keeps
  <2> HIDE DEF q
  <2> QED BY <1>1, <2>3, AtHand DEF Equipped
<1>6. \E t : \E failed \in BOOLEAN : Came(t, failed)
  <2>1. ASSUME NEW status \in Results,
               PersistTarget(s, ApplyResult(status, Ends("completed")), q(FALSE))
        PROVE  \E t : \E failed \in BOOLEAN : Came(t, failed)
    <3>1. R(ApplyResult(status, Ends("completed"))) BY AnswersAssumption
    <3> QED BY <2>1, <3>1, Zenon
  <2>2. ASSUME NEW c \in Failures \ {"timeout"}, RetryAvailable(w, c),
               PersistTarget(s, ScheduleRetry(w, Ends("retry_scheduled")), q(FALSE))
        PROVE  \E t : \E failed \in BOOLEAN : Came(t, failed)
    <3>1. S(ScheduleRetry(w, Ends("retry_scheduled"))) BY <2>2, AnswersAssumption
    <3> QED BY <2>2, <3>1, Zenon
  <2>3. ASSUME NEW c \in Failures \ {"timeout"}, ~RetryAvailable(w, c),
               PersistTarget(s, MarkFailed(w, c, TRUE, Ends("failed")), q(TRUE))
        PROVE  \E t : \E failed \in BOOLEAN : Came(t, failed)
    <3>1. ~MarkFailed(w, c, TRUE, Ends("failed")).available
      BY <2>3 DEF MarkFailed
    <3>2. F(MarkFailed(w, c, TRUE, Ends("failed"))) BY <3>1, AnswersAssumption
    <3> QED BY <2>3, <3>2, Zenon
  <2>4. ASSUME "timeout" \in Failures,
               PersistTarget(s, MarkTimeout(w, Ends("failed")), q(TRUE))
        PROVE  \E t : \E failed \in BOOLEAN : Came(t, failed)
    <3>1. T(MarkTimeout(w, Ends("failed"))) BY <2>4
    <3> QED BY <2>4, <3>1, Zenon
  <2> HIDE DEF q, R, S, F, T
  <2> QED BY <2>1, <2>2, <2>3, <2>4, Zenon DEF Answer, q
<1> HIDE DEF q, R, S, F, T, Ends, w
<1>a. PICK t : \E failed \in BOOLEAN : Came(t, failed)
  BY <1>6
<1>7. PICK failed \in BOOLEAN : Came(t, failed)
  BY <1>a
<1>8. t \in Transitions
  BY <1>2, <1>3, <1>4, <1>7, BuildersTyped DEF R, S, F, T
<1>9. UNCHANGED server BY DEF Answer
<1>10. Update(s, [x \in {q(failed).target} |-> t], q(failed))
  BY <1>5, <1>7, <1>8, <1>9, TargetUpdate
<1>11. /\ Keeps(p, q(failed)) /\ q(failed).pc = "replan" /\ q(failed).target = p.target
       /\ q(failed).error = (p.error \/ failed)
  BY <1>5
<1>12. p.error \in BOOLEAN BY <1>1 DEF Procs
<1>13. ~((R(t) \/ S(t)) /\ (F(t) \/ T(t)))
  BY DEF R, S, F, T, ApplyResult, ScheduleRetry, MarkFailed, MarkTimeout
<1>14. /\ R(t) \/ S(t) => q(failed).error = p.error
       /\ F(t) \/ T(t) => q(failed).error
  <2>1. CASE failed = TRUE
    <3>1. F(t) \/ T(t) BY <1>7, <2>1
    <3>2. ~R(t) /\ ~S(t) BY <1>13, <3>1
    <3>3. q(failed).error BY <1>11, <2>1
    <3> QED BY <3>2, <3>3
  <2>2. CASE failed = FALSE
    <3>1. R(t) \/ S(t) BY <1>7, <2>2
    <3>2. ~F(t) /\ ~T(t) BY <1>13, <3>1
    <3>3. q(failed).error = p.error BY <1>11, <1>12, <2>2
    <3> QED BY <3>2, <3>3
  <2> QED BY <2>1, <2>2
<1>15. t.name \in {"result_applied", "retry_scheduled", "failed", "timed_out"}
  BY <1>7, SMTT(30)
    DEF R, S, F, T, ApplyResult, ScheduleRetry, MarkFailed, MarkTimeout
<1> QED BY <1>1, <1>7, <1>8, <1>10, <1>11, <1>14, <1>15 DEF R, S, F, T, Ends, w

\* A session for the worker, or the one the intent's record had.
LEMMA CreateSessionEffect ==
  ASSUME TypeOK, NEW s \in Starters, CreateSession(s)
  PROVE  LET p == proc[s] IN
         /\ p.pc = "create" /\ p.target \in Worker
         /\ deps' = deps /\ deleted' = deleted
         /\ \/ /\ p.run[p.target].session # NoSession
               /\ workers' = workers /\ created' = created
               /\ disposable' = disposable
               /\ proc' = [proc EXCEPT ![s] = [p EXCEPT !.pc = "provisioned",
                                                       !.run = workers]]
            \/ /\ p.run[p.target].session = NoSession
               /\ \E x \in Sessions \ (created \cup {Registered}) :
                  /\ created' = created \cup {x}
                  /\ disposable' = IF p.cleanup THEN disposable \cup {x} ELSE disposable
                  /\ workers' = [workers EXCEPT ![p.target] = WithSession(@, x, p.cleanup)]
                  /\ proc' = [proc EXCEPT ![s] =
                       [p EXCEPT !.pc = "provisioned", !.run = workers',
                                 !.remembered = IF p.cleanup
                                   THEN [p.remembered EXCEPT ![p.target] = @ \cup {x}]
                                   ELSE p.remembered]]
<1> DEFINE p == proc[s]
<1>1. p.pc = "create" /\ deps' = deps /\ deleted' = deleted
  BY Zenon DEF CreateSession
<1>2. p.target \in Worker /\ p \in Procs BY <1>1, AtHand DEF Executing
<1>3. proc[s] \in Procs /\ proc \in [Starters -> Procs] BY DEF TypeOK
<1>4. CASE p.run[p.target].session # NoSession
  <2>1. proc' = [proc EXCEPT ![s].pc = "provisioned", ![s].run = workers]
        /\ UNCHANGED <<workers, created, disposable>>
    BY <1>4, Zenon DEF CreateSession
  <2> QED BY <1>1, <1>2, <1>3, <1>4, <2>1, Zenon
<1>5. CASE p.run[p.target].session = NoSession
  <2>1. PICK x \in Sessions \ (created \cup {Registered}) :
          /\ created' = created \cup {x}
          /\ disposable' = IF p.cleanup THEN disposable \cup {x} ELSE disposable
          /\ workers' = [workers EXCEPT ![p.target] = WithSession(@, x, p.cleanup)]
          /\ proc' = [proc EXCEPT ![s] = [Remembering(p, x) EXCEPT
                                   !.pc = "provisioned", !.run = workers']]
    BY <1>5, Zenon DEF CreateSession
  <2>2. [Remembering(p, x) EXCEPT !.pc = "provisioned", !.run = workers']
         = [p EXCEPT !.pc = "provisioned", !.run = workers',
                     !.remembered = IF p.cleanup
                       THEN [p.remembered EXCEPT ![p.target] = @ \cup {x}]
                       ELSE p.remembered]
    <3>1. CASE p.cleanup BY <1>2, <3>1 DEF Remembering, Procs
    <3>2. CASE ~p.cleanup BY <1>2, <3>2 DEF Remembering, Procs
    <3> QED BY <3>1, <3>2
  <2> QED BY <1>1, <1>2, <1>5, <2>1, <2>2, Zenon
<1> QED BY <1>4, <1>5, Zenon

\* A worker that is given a session is of the right type.
LEMMA WithSessionTyped ==
  ASSUME NEW w \in Workers, NEW x \in Sessions, NEW d \in BOOLEAN
  PROVE  WithSession(w, x, d) \in Workers
BY Zenon DEF WithSession, Workers

\* A session is all that a worker is given with it.
LEMMA CreateSessionKeeps ==
  ASSUME TypeOK, NEW s \in Starters, CreateSession(s), NEW w \in Worker
  PROVE  /\ workers'[w].lifecycle = workers[w].lifecycle
         /\ workers'[w].abort = workers[w].abort
         /\ workers'[w].attempts = workers[w].attempts
         /\ workers'[w].retryCount = workers[w].retryCount
         /\ workers'[w].retryOn = workers[w].retryOn
         /\ workers'[w].session \in {workers[w].session} \cup Sessions
<1> DEFINE p == proc[s]
<1>0. workers \in Records /\ p.cleanup \in BOOLEAN /\ workers[w] \in Workers
  BY DEF TypeOK, Procs, Records
<1>1. CASE workers' = workers BY <1>1
<1>2. ASSUME NEW x \in Sessions,
             workers' = [workers EXCEPT ![p.target] = WithSession(@, x, p.cleanup)]
      PROVE  /\ workers'[w].lifecycle = workers[w].lifecycle
             /\ workers'[w].abort = workers[w].abort
             /\ workers'[w].attempts = workers[w].attempts
             /\ workers'[w].retryCount = workers[w].retryCount
             /\ workers'[w].retryOn = workers[w].retryOn
             /\ workers'[w].session \in {workers[w].session} \cup Sessions
  <2>1. CASE w = p.target
    <3>1. workers'[w] = WithSession(workers[w], x, p.cleanup)
      BY <1>0, <1>2, <2>1 DEF Records
    <3> QED BY <1>0, <3>1, WithSessionEffect
  <2>2. CASE w # p.target BY <1>0, <1>2, <2>2, SMTT(30) DEF Records
  <2> QED BY <2>1, <2>2
<1> QED BY <1>1, <1>2, CreateSessionEffect, Zenon

LEMMA CreateSessionTyped ==
  ASSUME TypeOK, NEW s \in Starters, CreateSession(s)
  PROVE  TypeOK'
<1> DEFINE p == proc[s]
<1>1. /\ p.pc = "create" /\ p.target \in Worker /\ p \in Procs
      /\ p.base \in Records /\ workers \in Records
      /\ created \subseteq Sessions /\ disposable \subseteq created
      /\ deleted \subseteq Sessions /\ deps' = deps /\ deleted' = deleted
  BY CreateSessionEffect, AtHand, Zenon DEF TypeOK, Executing
<1>2. CASE /\ workers' = workers /\ created' = created /\ disposable' = disposable
           /\ proc' = [proc EXCEPT ![s] = [p EXCEPT !.pc = "provisioned",
                                                   !.run = workers]]
  <2> DEFINE q == [p EXCEPT !.pc = "provisioned", !.run = workers]
  <2>1. /\ q \in Procs /\ q.pc = "provisioned" /\ q.run = workers
        /\ q.base = p.base /\ q.target = p.target
    BY <1>1 DEF Procs, Busy
  <2>2. proc' = [proc EXCEPT ![s] = q] BY <1>2
  <2> HIDE DEF q
  <2>3. Equipped(q) BY <1>1, <2>1 DEF Equipped
  <2> QED BY <1>1, <1>2, <2>1, <2>2, <2>3, ProcStepTyped
<1>3. ASSUME NEW x \in Sessions \ (created \cup {Registered}),
             created' = created \cup {x},
             disposable' = IF p.cleanup THEN disposable \cup {x} ELSE disposable,
             workers' = [workers EXCEPT ![p.target] = WithSession(@, x, p.cleanup)],
             proc' = [proc EXCEPT ![s] =
                       [p EXCEPT !.pc = "provisioned", !.run = workers',
                                 !.remembered = IF p.cleanup
                                   THEN [p.remembered EXCEPT ![p.target] = @ \cup {x}]
                                   ELSE p.remembered]]
      PROVE  TypeOK'
  <2> DEFINE remembered == IF p.cleanup
                             THEN [p.remembered EXCEPT ![p.target] = @ \cup {x}]
                             ELSE p.remembered
             q == [p EXCEPT !.pc = "provisioned", !.run = workers',
                            !.remembered = remembered]
  <2>1. workers' \in Records
    <3>1. workers[p.target] \in Workers /\ p.cleanup \in BOOLEAN
      BY <1>1 DEF Records, Procs
    <3>2. WithSession(workers[p.target], x, p.cleanup) \in Workers
      BY <3>1, WithSessionTyped
    <3> QED BY <1>1, <1>3, <3>2 DEF Records
  <2>2. remembered \in [Worker -> SUBSET Sessions]
    <3>1. p.remembered \in [Worker -> SUBSET Sessions] BY <1>1 DEF Procs
    <3> QED BY <1>1, <3>1
  <2>3. proc' = [proc EXCEPT ![s] = q] BY <1>3
  <2>4. created' \subseteq Sessions /\ disposable' \subseteq created'
        /\ deleted' \subseteq Sessions
    BY <1>1, <1>3
  <2> HIDE DEF remembered
  <2>5. /\ q \in Procs /\ q.pc = "provisioned" /\ q.run = workers'
        /\ q.base = p.base /\ q.target = p.target
    BY <1>1, <2>1, <2>2 DEF Procs, Busy
  <2> HIDE DEF q
  <2>6. Equipped(q) BY <1>1, <2>1, <2>5 DEF Equipped
  <2> QED BY <1>1, <2>1, <2>3, <2>4, <2>5, <2>6, ProcStepTyped
<1> QED BY <1>2, <1>3, CreateSessionEffect, Zenon

LEMMA PlanCleanupTyped ==
  ASSUME TypeOK, NEW s \in Starters, PlanCleanup(s)
  PROVE  TypeOK'
<1> DEFINE p == proc[s]
           q == [p EXCEPT !.pc = "delete", !.todo = Listed(p)]
<1>1. p.pc = "clean" /\ p.pc \in Busy \ {"begin"} /\ p \in Procs
  BY AtHand DEF PlanCleanup, Busy
<1>2. p.run \in Records BY <1>1, AtHand
<1>3. CASE Leaves(s, "ended")
  <2>1. "ended" \in Over BY DEF Over
  <2> QED BY <1>3, <2>1, LeavesTyped DEF PlanCleanup
<1>4. CASE proc' = [proc EXCEPT ![s].pc = "delete", ![s].todo = Listed(p)]
  <2>1. Listed(p) \in [Worker -> SUBSET Sessions]
    <3>1. ASSUME NEW w \in Worker
          PROVE  p.remembered[w] \cup p.run[w].cleanup \subseteq Sessions
      BY <1>1, <1>2 DEF Procs, Records, Workers
    <3> QED BY <3>1 DEF Listed
  <2>2. proc' = [proc EXCEPT ![s] = q] BY <1>4 DEF TypeOK
  <2>3. q \in Procs /\ q.pc = "delete" /\ q.run = p.run
    BY <1>1, <2>1, Zenon DEF Procs, Busy
  <2> HIDE DEF q
  <2>4. Equipped(q) BY <1>2, <2>3 DEF Equipped, Executing
  <2> QED BY <2>2, <2>3, <2>4, ProcStepTyped DEF TypeOK, PlanCleanup, server
<1> QED BY <1>3, <1>4 DEF PlanCleanup

\* Some of a worker's sessions are deleted, some of those found to be gone, and
\* the others stay on the list.
LEMMA DeleteSessionsEffect ==
  ASSUME TypeOK, NEW s \in Starters, DeleteSessions(s)
  PROVE  LET p == proc[s] IN
         /\ p.pc = "delete" /\ p \in Procs /\ p.run \in Records
         /\ \E w \in Worker : \E gone \in SUBSET p.todo[w] :
              /\ deleted' = deleted \cup gone
              /\ \E verified \in SUBSET (p.todo[w] \cap deleted') :
                   proc' = [proc EXCEPT ![s] =
                     [p EXCEPT !.pc = "deleted", !.target = w,
                               !.todo = [p.todo EXCEPT ![w] = @ \ verified],
                               !.failed = @ \/ p.todo[w] \ verified # {}]]
<1> DEFINE p == proc[s]
<1>1. p.pc = "delete" /\ p.pc \in Busy \ {"begin"} BY DEF DeleteSessions, Busy
<1>2. p \in Procs /\ p.run \in Records BY <1>1, AtHand
<1>3. PICK w \in Worker :
        \E gone \in SUBSET p.todo[w], verified \in SUBSET (p.todo[w] \cap deleted') :
        /\ deleted' = deleted \cup gone
        /\ proc' = [proc EXCEPT ![s] =
             [p EXCEPT !.pc = "deleted", !.target = w, !.todo[w] = p.todo[w] \ verified,
                       !.failed = @ \/ p.todo[w] \ verified # {}]]
  BY Zenon DEF DeleteSessions
<1>4. ASSUME NEW verified
      PROVE  [p EXCEPT !.pc = "deleted", !.target = w, !.todo[w] = p.todo[w] \ verified,
                !.failed = @ \/ p.todo[w] \ verified # {}]
        = [p EXCEPT !.pc = "deleted", !.target = w,
                    !.todo = [p.todo EXCEPT ![w] = @ \ verified],
                    !.failed = @ \/ p.todo[w] \ verified # {}]
  BY <1>2 DEF Procs
<1> QED BY <1>1, <1>2, <1>3, <1>4, Zenon

LEMMA DeleteSessionsTyped ==
  ASSUME TypeOK, NEW s \in Starters, DeleteSessions(s)
  PROVE  TypeOK'
<1> DEFINE p == proc[s]
<1>1. p.pc = "delete" /\ p \in Procs /\ p.run \in Records
  BY DeleteSessionsEffect, Zenon
<1>a. PICK w \in Worker :
        \E gone \in SUBSET p.todo[w], verified \in SUBSET (p.todo[w] \cap deleted') :
          /\ deleted' = deleted \cup gone
          /\ proc' = [proc EXCEPT ![s] =
               [p EXCEPT !.pc = "deleted", !.target = w,
                         !.todo = [p.todo EXCEPT ![w] = @ \ verified],
                         !.failed = @ \/ p.todo[w] \ verified # {}]]
  BY DeleteSessionsEffect, ZenonT(30)
<1>2. PICK gone \in SUBSET p.todo[w], verified \in SUBSET (p.todo[w] \cap deleted') :
        /\ deleted' = deleted \cup gone
        /\ proc' = [proc EXCEPT ![s] =
             [p EXCEPT !.pc = "deleted", !.target = w,
                       !.todo = [p.todo EXCEPT ![w] = @ \ verified],
                       !.failed = @ \/ p.todo[w] \ verified # {}]]
  BY <1>a, Zenon
<1>7. deleted' \subseteq Sessions BY <1>1, <1>2 DEF Procs, TypeOK
<1> DEFINE todo == [p.todo EXCEPT ![w] = @ \ verified]
           failed == p.failed \/ p.todo[w] \ verified # {}
           q == [p EXCEPT !.pc = "deleted", !.target = w, !.todo = todo, !.failed = failed]
<1>3. todo \in [Worker -> SUBSET Sessions] /\ failed \in BOOLEAN
  BY <1>1 DEF Procs
<1>4. proc' = [proc EXCEPT ![s] = q] BY <1>2
<1> HIDE DEF todo, failed
<1>5. q \in Procs /\ q.pc = "deleted" /\ q.run = p.run /\ q.target = w
  BY <1>1, <1>3 DEF Procs, Busy
<1> HIDE DEF q
<1>6. Equipped(q) BY <1>1, <1>5 DEF Equipped, Executing
<1> QED BY <1>4, <1>5, <1>6, <1>7, ProcStepTyped,
           Zenon DEF TypeOK, DeleteSessions

\* p goes on as q once what was left to delete of its target is recorded.
Recorded(p, q) ==
  LET todo == [p.todo EXCEPT ![p.target] = {}] IN
  /\ p.pc = "deleted" /\ p.target \in Worker /\ q.target = p.target
  /\ todo \in [Worker -> SUBSET Sessions] /\ q.todo = todo
  /\ q.remembered = p.remembered /\ q.failed = p.failed
  /\ q.cleanup = p.cleanup /\ q.base = p.base /\ q.policy = p.policy
  /\ q.pc = IF todo # NoneOf THEN "delete"
            ELSE IF p.failed THEN "unclean" ELSE "ended"

\* What is left to delete becomes the worker's list.
LEMMA RecordCleanupEffect ==
  ASSUME TypeOK, NEW s \in Starters, RecordCleanup(s)
  PROVE  LET p == proc[s]
             t == CleanupUpdated(p.todo[p.target])
         IN  \E q : Update(s, [w \in {q.target} |-> t], q) /\ Recorded(p, q)
<1> DEFINE p    == proc[s]
           todo == [p.todo EXCEPT ![p.target] = {}]
           t    == CleanupUpdated(p.todo[p.target])
           next == IF todo # NoneOf THEN "delete"
                   ELSE IF p.failed THEN "unclean" ELSE "ended"
           q    == [p EXCEPT !.pc = next, !.todo = todo]
<1>1. p.pc = "deleted" /\ p.pc \in Busy \ {"begin"} /\ p \in Procs
  BY AtHand DEF RecordCleanup, Busy
<1>2. p.run \in Records /\ p.target \in Worker BY <1>1, AtHand
<1>3. p.todo \in [Worker -> SUBSET Sessions] BY <1>1 DEF Procs
<1>4. todo \in [Worker -> SUBSET Sessions] BY <1>3
<1>5. /\ next \in Over \cup Busy /\ next \notin Executing \cup {"probe", "deleted"}
      /\ next # "begin"
  BY DEF Over, Busy, Executing
<1>6. PersistTarget(s, t, q) /\ UNCHANGED server BY DEF RecordCleanup
<1>7. t \in Transitions
  BY <1>2, <1>3 DEF CleanupUpdated, NoFinalization, Transitions, Finalizations,
                    AttemptStatuses
<1> HIDE DEF next, todo
<1>8. /\ q \in Procs /\ q.pc = next /\ q.run = p.run /\ q.todo = todo
      /\ q.remembered = p.remembered /\ q.failed = p.failed
      /\ q.cleanup = p.cleanup /\ q.target = p.target
      /\ q.base = p.base /\ q.policy = p.policy
  BY <1>1, <1>4, <1>5 DEF Procs
<1> HIDE DEF q
<1>9. Equipped(q) BY <1>2, <1>5, <1>8 DEF Equipped
<1> HIDE DEF t
<1>10. Update(s, [w \in {q.target} |-> t], q)
  BY <1>5, <1>6, <1>7, <1>8, <1>9, TargetUpdate
<1>11. Recorded(p, q) BY <1>1, <1>2, <1>4, <1>8 DEF todo, next, Recorded
<1> QED BY <1>10, <1>11 DEF t

LEMMA AbortTyped ==
  ASSUME TypeOK, NEW w \in Abortable, Abort(w)
  PROVE  TypeOK'
<1>1. w \in Worker /\ workers \in Records /\ workers[w] \in Workers
  BY SubsetsAssumption DEF TypeOK, Records
<1>2. PICK accepted \in BOOLEAN :
        workers' = [workers EXCEPT ![w] = ApplyTransition(@, MarkAborted(accepted))]
  BY DEF Abort
<1>3. MarkAborted(accepted) \in Transitions
  BY DEF MarkAborted, NoFinalization, Transitions, Finalizations, AttemptStatuses
<1>4. ApplyTransition(workers[w], MarkAborted(accepted)) \in Workers
  BY <1>1, <1>3, ApplyTransitionTyped
<1>5. workers' \in Records BY <1>1, <1>2, <1>4 DEF Records
<1> QED BY <1>5 DEF TypeOK, Abort, server, Records, Procs, Equipped

LEMMA StopTyped ==
  ASSUME TypeOK, NEW s \in Starters, Stop(s)
  PROVE  TypeOK'
<1>1. "stopped" \in Over BY DEF Over
<1> QED BY <1>1, LeavesTyped DEF Stop

\* A new worker is of the right type.
LEMMA NewWorkerTyped ==
  ASSUME NEW c \in Configs
  PROVE  NewWorker(c) \in Workers
<1>1. /\ c.retryLimit \in Nat /\ c.policy \in TimeoutPolicies
      /\ c.retryOn \subseteq FailureCategories \cup {"all"}
  BY ConfigsAssumption
<1>2. << >> \in Seq(Attempts) OBVIOUS
<1>3. "queued" \in LifecycleStates BY DEF LifecycleStates
<1> QED BY <1>1, <1>2, <1>3, RegisteredAssumption DEF NewWorker, Workers

LEMMA InitTyped == Init => TypeOK
<1> SUFFICES ASSUME Init PROVE TypeOK OBVIOUS
<1>1. workers \in Records
  BY NewWorkerTyped DEF Init, Records
<1> DEFINE q == Proc("idle", "fail_fast", FALSE, 0)
<1>2. q \in Procs /\ Equipped(q)
  <2>1. "idle" \in Over BY DEF Over
  <2> QED BY <2>1, ProcTyped
<1>3. proc = [s \in Starters |-> q] BY DEF Init
<1> HIDE DEF q
<1>4. proc \in [Starters -> Procs] /\ \A s \in Starters : Equipped(proc[s])
  BY <1>2, <1>3
<1> QED BY <1>1, <1>4 DEF Init, TypeOK

LEMMA NextTyped == TypeOK /\ [Next]_vars => TypeOK'
<1> SUFFICES ASSUME TypeOK, [Next]_vars PROVE TypeOK' OBVIOUS
<1>1. ASSUME NEW s \in Starters, Request(s) \/ Stop(s) PROVE TypeOK'
  BY <1>1, RequestTyped, StopTyped
<1>2. ASSUME NEW s \in Starters, Work(s) PROVE TypeOK'
  <2>1. CASE \E tr, q : Update(s, tr, q) BY <2>1, UpdateTyped
  <2>2. CASE Recover(s) \/ Plan(s) \/ ProbeFails(s) \/ CreationFails(s)
    BY <2>1, <2>2, RecoverEffect, PlanEffect, ProbeFailsEffect, CreationFailsEffect
  <2>3. CASE Provision(s) BY <2>1, <2>3, ProvisionEffect
  <2>4. CASE Activate(s) BY <2>1, <2>4, ActivateEffect
  <2>5. CASE StartAttempt(s) BY <2>1, <2>5, StartAttemptEffect
  <2>6. CASE Answer(s) BY <2>1, <2>6, AnswerEffect
  <2>7. CASE RecordCleanup(s) BY <2>1, <2>7, RecordCleanupEffect
  <2> QED
    BY <1>2, <2>2, <2>3, <2>4, <2>5, <2>6, <2>7, BeginTyped, MarkRunActiveTyped,
       IntendTyped, CreateSessionTyped, PlanCleanupTyped, DeleteSessionsTyped DEF Work
<1>3. ASSUME NEW w \in Abortable, Abort(w) PROVE TypeOK'
  BY <1>3, AbortTyped
<1>4. CASE UNCHANGED vars
  BY <1>4 DEF vars, server, TypeOK, Records, Procs, Equipped
<1> QED BY <1>1, <1>2, <1>3, <1>4 DEF Next

\* The record and the state of every process keep their types, whatever the
\* number of starts, workers and sessions; a process at work has the record, and
\* the target it is about to use is a worker of the run.
THEOREM TypeCorrect == Spec => []TypeOK
BY InitTyped, NextTyped, PTL DEF Spec

-----------------------------------------------------------------------------
(* What a step does, as the proofs below use it.                           *)

Gone(p, pc) == Proc(pc, p.policy, p.cleanup, p.starts)

\* A process that has left holds nothing.
LEMMA GoneFields ==
  ASSUME NEW p \in Procs, NEW pc
  PROVE  LET g == Gone(p, pc) IN
         /\ g.pc = pc /\ g.policy = p.policy /\ g.cleanup = p.cleanup
         /\ g.run = NoRun /\ g.remembered = NoneOf /\ g.todo = NoneOf
         /\ g.failed = FALSE /\ g.target = 0
BY DEF Gone, Proc

\* One that goes on has the new record.
LEMMA ResumedFields ==
  ASSUME NEW q \in Procs, NEW r
  PROVE  LET n == [q EXCEPT !.run = r] IN
         /\ n.run = r /\ n.pc = q.pc /\ n.target = q.target
         /\ n.attempt = q.attempt /\ n.error = q.error /\ Keeps(q, n)
BY DEF Procs, Keeps

\* An update changes the workers it has transitions for and the process that
\* makes it, which goes on with the new record, ends or raises.
LEMMA UpdateEffect ==
  ASSUME TypeOK, NEW s \in Starters, NEW tr, NEW q, Update(s, tr, q)
  PROVE  /\ deps' = deps /\ UNCHANGED server
         /\ \A t \in Starters : t # s => proc'[t] = proc[t]
         /\ \/ /\ workers' = workers /\ proc'[s] = Gone(proc[s], "raised")
            \/ /\ \A w \in DOMAIN tr : Legal(workers[w], tr[w])
               /\ \A w \in Worker : w \in DOMAIN tr =>
                    workers'[w] = ApplyTransition(workers[w], tr[w])
               /\ \/ q.pc \in Over /\ proc'[s] = Gone(proc[s], q.pc)
                  \/ q.pc \notin Over /\ proc'[s] = [q EXCEPT !.run = workers']
<1>1. Persist(s, tr, q) /\ UNCHANGED server
      /\ \A w \in DOMAIN tr : w \in Worker => tr[w] \in Transitions
  BY DEF Update
<1>2. proc \in [Starters -> Procs] BY DEF TypeOK
<1>3. CASE /\ \A w \in DOMAIN tr : Legal(workers[w], tr[w])
           /\ workers' = [w \in Worker |-> IF w \in DOMAIN tr
                            THEN ApplyTransition(workers[w], tr[w]) ELSE workers[w]]
           /\ proc' = [proc EXCEPT ![s] =
                         IF q.pc \in Over
                         THEN Proc(q.pc, proc[s].policy, proc[s].cleanup, proc[s].starts)
                         ELSE [q EXCEPT !.run = workers']]
  <2>1. \A t \in Starters : t # s => proc'[t] = proc[t] BY <1>2, <1>3
  <2>2. proc'[s] = IF q.pc \in Over THEN Gone(proc[s], q.pc)
                                    ELSE [q EXCEPT !.run = workers']
    BY <1>2, <1>3 DEF Gone
  <2>3. ASSUME NEW w \in Worker
        PROVE  workers'[w] = IF w \in DOMAIN tr
                             THEN ApplyTransition(workers[w], tr[w]) ELSE workers[w]
    BY <1>3
  <2>5. \/ q.pc \in Over /\ proc'[s] = Gone(proc[s], q.pc)
        \/ q.pc \notin Over /\ proc'[s] = [q EXCEPT !.run = workers']
    BY <2>2
  <2>6. deps' = deps BY <1>1, PersistEffect
  <2> QED BY <1>1, <1>3, <2>1, <2>3, <2>5, <2>6
<1>4. CASE /\ workers' = workers
           /\ proc' = [proc EXCEPT ![s] =
                         Proc("raised", proc[s].policy, proc[s].cleanup, proc[s].starts)]
  <2>1. \A t \in Starters : t # s => proc'[t] = proc[t] BY <1>2, <1>4
  <2>2. proc'[s] = Gone(proc[s], "raised") BY <1>2, <1>4 DEF Gone
  <2>3. deps' = deps BY <1>1, PersistEffect
  <2> QED BY <1>1, <1>4, <2>1, <2>2, <2>3
<1> QED BY <1>1, <1>3, <1>4, PersistEffect

\* Of each worker: it stays as it is or takes its transition.
LEMMA UpdateWorker ==
  ASSUME TypeOK, NEW s \in Starters, NEW tr, NEW q, Update(s, tr, q), NEW w \in Worker,
         workers'[w] # workers[w]
  PROVE  /\ w \in DOMAIN tr /\ tr[w] \in Transitions /\ Legal(workers[w], tr[w])
         /\ workers'[w] = ApplyTransition(workers[w], tr[w])
<1>1. Persist(s, tr, q) BY DEF Update
<1>2. workers' # workers OBVIOUS
<1>3. /\ \A x \in DOMAIN tr : Legal(workers[x], tr[x])
      /\ workers' = [x \in Worker |-> IF x \in DOMAIN tr
                       THEN ApplyTransition(workers[x], tr[x]) ELSE workers[x]]
  BY <1>1, <1>2, PersistEffect
<1>4. w \in DOMAIN tr BY <1>3
<1>5. tr[w] \in Transitions BY <1>4 DEF Update
<1> QED BY <1>3, <1>4, <1>5

\* The same for an update of the worker being executed.
LEMMA TargetEffect ==
  ASSUME TypeOK, NEW s \in Starters, NEW t, NEW q, q.target \in Worker,
         Update(s, [w \in {q.target} |-> t], q)
  PROVE  /\ deps' = deps /\ UNCHANGED server
         /\ \A x \in Starters : x # s => proc'[x] = proc[x]
         /\ t \in Transitions
         /\ \A w \in Worker : w # q.target => workers'[w] = workers[w]
         /\ \/ /\ workers' = workers /\ proc'[s] = Gone(proc[s], "raised")
               /\ ~Legal(workers[q.target], t)
            \/ /\ Legal(workers[q.target], t)
               /\ workers'[q.target] = ApplyTransition(workers[q.target], t)
               /\ \/ q.pc \in Over /\ proc'[s] = Gone(proc[s], q.pc)
                  \/ q.pc \notin Over /\ proc'[s] = [q EXCEPT !.run = workers']
<1> DEFINE tr == [w \in {q.target} |-> t]
<1>1. DOMAIN tr = {q.target} /\ tr[q.target] = t OBVIOUS
<1>2. Update(s, tr, q) OBVIOUS
<1> HIDE DEF tr
<1>3. t \in Transitions BY <1>1, <1>2 DEF Update
<1>4. Persist(s, tr, q) BY <1>2 DEF Update
<1>5. proc \in [Starters -> Procs] BY DEF TypeOK
<1>6. CASE \E w \in DOMAIN tr : ~Legal(workers[w], tr[w])
  <2>1. /\ workers' = workers
        /\ proc' = [proc EXCEPT ![s] =
             Proc("raised", proc[s].policy, proc[s].cleanup, proc[s].starts)]
    BY <1>4, <1>6, PersistEffect
  <2>2. proc'[s] = Gone(proc[s], "raised") BY <1>5, <2>1 DEF Gone
  <2> QED BY <1>1, <1>2, <1>3, <1>6, <2>1, <2>2, UpdateEffect, UpdateWorker
<1>7. CASE \A w \in DOMAIN tr : Legal(workers[w], tr[w])
  <2>1. /\ workers' = [w \in Worker |-> IF w \in DOMAIN tr
                         THEN ApplyTransition(workers[w], tr[w]) ELSE workers[w]]
        /\ proc' = [proc EXCEPT ![s] =
             IF q.pc \in Over
             THEN Proc(q.pc, proc[s].policy, proc[s].cleanup, proc[s].starts)
             ELSE [q EXCEPT !.run = workers']]
    BY <1>4, <1>7, PersistEffect
  <2>2. proc'[s] = IF q.pc \in Over THEN Gone(proc[s], q.pc)
                                    ELSE [q EXCEPT !.run = workers']
    BY <1>5, <2>1 DEF Gone
  <2>3. workers'[q.target] = ApplyTransition(workers[q.target], t) BY <1>1, <2>1
  <2>4. Legal(workers[q.target], t) BY <1>1, <1>7
  <2> QED BY <1>1, <1>2, <1>3, <2>2, <2>3, <2>4, UpdateEffect, UpdateWorker
<1> QED BY <1>6, <1>7

-----------------------------------------------------------------------------
(* --cleanup deletes disposable sessions only.                             *)

\* What a process may still ask to have deleted: what the record it holds
\* lists, what it remembers, and what is left of its plan.
HoldsDisposable(p) ==
  \A w \in Worker :
    /\ p.pc \in Busy \ {"begin"} => p.run[w].cleanup \subseteq disposable
    /\ p.remembered[w] \subseteq disposable
    /\ p.todo[w] \subseteq disposable

OnlyDisposable ==
  /\ \A w \in Worker : workers[w].cleanup \subseteq disposable
  /\ \A s \in Starters : HoldsDisposable(proc[s])
  /\ deleted \subseteq disposable

\* A process holds disposable sessions after a step that gives it the record.
LEMMA ResumedHolds ==
  ASSUME TypeOK, NEW q \in Procs, NEW D,
         \A w \in Worker : /\ workers'[w].cleanup \subseteq D
                           /\ q.remembered[w] \subseteq D /\ q.todo[w] \subseteq D
  PROVE  LET n == [q EXCEPT !.run = workers'] IN
         \A w \in Worker : /\ n.run[w].cleanup \subseteq D
                           /\ n.remembered[w] \subseteq D /\ n.todo[w] \subseteq D
<1> DEFINE n == [q EXCEPT !.run = workers']
<1>1. n.run = workers' /\ Keeps(q, n) BY ResumedFields
<1> HIDE DEF n
<1>2. n.remembered = q.remembered /\ n.todo = q.todo BY <1>1 DEF Keeps
<1>3. \A w \in Worker : /\ n.run[w].cleanup \subseteq D
                        /\ n.remembered[w] \subseteq D /\ n.todo[w] \subseteq D
  BY <1>1, <1>2
<1> QED BY <1>3 DEF n

\* An update that lists disposable sessions only.
LEMMA OnlyDisposableUpdate ==
  ASSUME TypeOK, OnlyDisposable, NEW s \in Starters, NEW tr, NEW q, Update(s, tr, q),
         \A w \in Worker : q.remembered[w] \subseteq disposable /\ q.todo[w] \subseteq disposable,
         \A w \in DOMAIN tr : w \in Worker /\ tr[w].name = "cleanup_updated"
                                => tr[w].cleanup \subseteq disposable
  PROVE  OnlyDisposable'
<1>1. disposable' = disposable /\ deleted' = deleted BY UpdateEffect DEF server
<1>2. \A w \in Worker : workers'[w].cleanup \subseteq disposable
  <2> TAKE w \in Worker
  <2>1. workers[w] \in Workers /\ workers[w].cleanup \subseteq disposable
    BY DEF TypeOK, Records, OnlyDisposable
  <2>2. CASE workers'[w] = workers[w] BY <2>1, <2>2
  <2>3. CASE /\ w \in DOMAIN tr /\ tr[w] \in Transitions
             /\ workers'[w] = ApplyTransition(workers[w], tr[w])
    <3>1. PICK t \in Transitions : t = tr[w] BY <2>3
    <3>2. workers'[w].cleanup = IF t.name = "cleanup_updated" THEN t.cleanup
                                ELSE workers[w].cleanup
      BY <2>1, <2>3, <3>1, ApplyEffect
    <3> QED BY <2>1, <2>3, <3>1, <3>2
  <2>4. \/ workers'[w] = workers[w]
        \/ /\ w \in DOMAIN tr /\ tr[w] \in Transitions
           /\ workers'[w] = ApplyTransition(workers[w], tr[w])
    BY UpdateWorker
  <2> QED BY <2>2, <2>3, <2>4
<1>3. HoldsDisposable(proc[s])'
  <2>1. ASSUME NEW pc, pc \in Over, proc'[s] = Gone(proc[s], pc)
        PROVE  HoldsDisposable(proc[s])'
    <3>1. /\ proc'[s].remembered = NoneOf /\ proc'[s].todo = NoneOf
          /\ proc'[s].pc = pc
      <4> DEFINE g == Gone(proc[s], pc)
      <4>1. proc[s] \in Procs BY DEF TypeOK
      <4>2. g.remembered = NoneOf /\ g.todo = NoneOf /\ g.pc = pc BY <4>1, GoneFields, ZenonT(30)
      <4> QED BY <2>1, <4>2
    <3>2. proc'[s].pc \notin Busy BY <2>1, <3>1 DEF Over, Busy
    <3> QED BY <3>1, <3>2 DEF HoldsDisposable, NoneOf
  <2>2. ASSUME proc'[s] = [q EXCEPT !.run = workers']
        PROVE  HoldsDisposable(proc[s])'
    <3>1. q \in Procs BY DEF Update
    <3> QED BY <1>1, <1>2, <2>2, <3>1, ResumedHolds DEF HoldsDisposable
  <2>3. "raised" \in Over BY DEF Over
  <2> QED BY <2>1, <2>2, <2>3, UpdateEffect
<1>4. \A t \in Starters : HoldsDisposable(proc[t])'
  <2> TAKE t \in Starters
  <2>1. CASE t # s
    <3>1. proc'[t] = proc[t] BY <2>1, UpdateEffect
    <3> QED BY <1>1, <3>1 DEF OnlyDisposable, HoldsDisposable
  <2> QED BY <1>3, <2>1
<1> QED BY <1>1, <1>2, <1>4 DEF OnlyDisposable

\* One that lists none.
LEMMA OnlyDisposableKept ==
  ASSUME TypeOK, OnlyDisposable, NEW s \in Starters, NEW tr, NEW q, Update(s, tr, q),
         Keeps(proc[s], q),
         \A w \in DOMAIN tr : w \in Worker => tr[w].name # "cleanup_updated"
  PROVE  OnlyDisposable'
<1>1. \A w \in Worker : q.remembered[w] \subseteq disposable /\ q.todo[w] \subseteq disposable
  BY DEF OnlyDisposable, HoldsDisposable, Keeps
<1> QED BY <1>1, OnlyDisposableUpdate

\* A step that only moves one process, over what is disposable.
LEMMA OnlyDisposableMoved ==
  ASSUME TypeOK, OnlyDisposable, NEW s \in Starters, NEW q \in Procs,
         proc' = [proc EXCEPT ![s] = q],
         disposable \subseteq disposable', deleted' \subseteq disposable',
         \A w \in Worker : workers'[w].cleanup \subseteq disposable',
         \A w \in Worker :
           /\ q.pc \in Busy \ {"begin"} => q.run[w].cleanup \subseteq disposable'
           /\ q.remembered[w] \subseteq disposable' /\ q.todo[w] \subseteq disposable'
  PROVE  OnlyDisposable'
<1>1. proc \in [Starters -> Procs] BY DEF TypeOK
<1>2. \A t \in Starters : HoldsDisposable(proc[t])'
  <2> TAKE t \in Starters
  <2>1. CASE t = s
    <3>1. proc'[t] = q BY <1>1, <2>1
    <3> QED BY <3>1 DEF HoldsDisposable
  <2>2. CASE t # s
    <3>1. proc'[t] = proc[t] BY <1>1, <2>2
    <3> QED BY <3>1 DEF OnlyDisposable, HoldsDisposable
  <2> QED BY <2>1, <2>2
<1> QED BY <1>2 DEF OnlyDisposable

LEMMA OnlyDisposableWork ==
  ASSUME TypeOK, OnlyDisposable, NEW s \in Starters, Work(s)
  PROVE  OnlyDisposable'
<1> DEFINE p == proc[s]
<1>0. /\ p \in Procs /\ HoldsDisposable(p) /\ workers \in Records
      /\ \A w \in Worker : workers[w].cleanup \subseteq disposable
      /\ deleted \subseteq disposable
  BY DEF TypeOK, OnlyDisposable
<1>1. CASE Recover(s) \/ ProbeFails(s) \/ CreationFails(s)
  <2>1. PICK tr : \E q :
          /\ Update(s, tr, q) /\ Keeps(p, q)
          /\ \A w \in DOMAIN tr : tr[w].name \in {"timed_out", "failed"}
    BY <1>1, RecoverEffect, ProbeFailsEffect, CreationFailsEffect
  <2>2. \A w \in DOMAIN tr : tr[w].name # "cleanup_updated" BY <2>1
  <2> QED BY <2>1, <2>2, OnlyDisposableKept
<1>2. CASE Plan(s)
  <2> DEFINE v       == View(p.run)
             blocked == BlockedIds(v, {})
             tr      == [w \in blocked |-> DependencyBlocked]
             q       == Selected(p, ReadyIds(v, blocked))
  <2>1. Update(s, tr, q) /\ Keeps(p, q) BY <1>2, PlanEffect
  <2>2. \A w \in DOMAIN tr : tr[w].name # "cleanup_updated" BY DEF DependencyBlocked
  <2> HIDE DEF tr, q
  <2> QED BY <2>1, <2>2, OnlyDisposableKept
<1>3. ASSUME NEW t, NEW q, Update(s, [w \in {q.target} |-> t], q), Keeps(p, q),
             t.name # "cleanup_updated"
      PROVE  OnlyDisposable'
  <2> DEFINE tr == [w \in {q.target} |-> t]
  <2>1. \A w \in DOMAIN tr : tr[w].name # "cleanup_updated" BY <1>3
  <2>2. Update(s, tr, q) BY <1>3
  <2> HIDE DEF tr
  <2> QED BY <1>3, <2>1, <2>2, OnlyDisposableKept
<1>4. CASE Provision(s)
  <2>1. \A w : Provisioned(w).name # "cleanup_updated" BY DEF Provisioned
  <2> QED BY <1>3, <1>4, <2>1, ProvisionEffect
<1>5. CASE Activate(s)
  <2>1. MarkActive.name # "cleanup_updated" BY DEF MarkActive
  <2> QED BY <1>3, <1>5, <2>1, ActivateEffect
<1>6. CASE StartAttempt(s)
  <2>1. \A w : AttemptStarted(w).name # "cleanup_updated" BY DEF AttemptStarted
  <2> QED BY <1>3, <1>6, <2>1, StartAttemptEffect
<1>7. CASE Answer(s)
  <2>1. PICK t \in Transitions : \E q :
          /\ Update(s, [x \in {q.target} |-> t], q) /\ Keeps(p, q)
          /\ t.name \in {"result_applied", "retry_scheduled", "failed", "timed_out"}
    BY <1>7, AnswerEffect
  <2> QED BY <1>3, <2>1
<1>8. CASE RecordCleanup(s)
  <2> DEFINE todo == [p.todo EXCEPT ![p.target] = {}]
             t    == CleanupUpdated(p.todo[p.target])
  <2>0. PICK q : Update(s, [w \in {q.target} |-> t], q) /\ Recorded(p, q)
    BY <1>8, RecordCleanupEffect
  <2>1. /\ Update(s, [w \in {q.target} |-> t], q)
        /\ p.target \in Worker /\ q.target = p.target
        /\ q.todo = todo /\ q.remembered = p.remembered
    BY <2>0 DEF Recorded
  <2> DEFINE tr == [w \in {q.target} |-> t]
  <2>2. \A w \in DOMAIN tr : tr[w].cleanup \subseteq disposable
    BY <1>0, <2>1 DEF HoldsDisposable, CleanupUpdated
  <2>3. p.todo \in [Worker -> SUBSET Sessions] BY <1>0 DEF Procs
  <2>4. \A w \in Worker : todo[w] \subseteq disposable
    BY <1>0, <2>3 DEF HoldsDisposable
  <2>5. \A w \in Worker : q.remembered[w] \subseteq disposable /\ q.todo[w] \subseteq disposable
    BY <1>0, <2>1, <2>4 DEF HoldsDisposable
  <2>6. Update(s, tr, q) BY <2>1
  <2> HIDE DEF tr
  <2> QED BY <2>2, <2>5, <2>6, OnlyDisposableUpdate
<1>9. CASE Begin(s) \/ MarkRunActive(s) \/ Intend(s)
  <2>1. PICK q \in Procs :
          /\ proc' = [proc EXCEPT ![s] = q] /\ q.run = workers
          /\ q.remembered = p.remembered /\ q.todo = p.todo
    <3>1. CASE Begin(s)
      <4> DEFINE q == [p EXCEPT !.pc = "recover", !.run = workers]
      <4>1. q \in Procs /\ q.run = workers /\ q.remembered = p.remembered /\ q.todo = p.todo
        BY <1>0 DEF Procs, Busy
      <4>2. proc' = [proc EXCEPT ![s] = q] BY <3>1 DEF Begin, TypeOK
      <4> HIDE DEF q
      <4> QED BY <4>1, <4>2
    <3>2. CASE MarkRunActive(s)
      <4> DEFINE q == [p EXCEPT !.pc = "provision", !.run = workers, !.base = workers]
      <4>1. q \in Procs /\ q.run = workers /\ q.remembered = p.remembered /\ q.todo = p.todo
        BY <1>0 DEF Procs, Busy
      <4>2. proc' = [proc EXCEPT ![s] = q] BY <3>2 DEF MarkRunActive, TypeOK
      <4> HIDE DEF q
      <4> QED BY <4>1, <4>2
    <3>3. CASE Intend(s)
      <4> DEFINE q == [p EXCEPT !.pc = "create", !.run = workers]
      <4>1. q \in Procs /\ q.run = workers /\ q.remembered = p.remembered /\ q.todo = p.todo
        BY <1>0 DEF Procs, Busy
      <4>2. proc' = [proc EXCEPT ![s] = q] BY <3>3 DEF Intend, TypeOK
      <4> HIDE DEF q
      <4> QED BY <4>1, <4>2
    <3> QED BY <1>9, <3>1, <3>2, <3>3
  <2>2. UNCHANGED <<workers, server>>
    BY <1>9, SMTT(30) DEF Begin, MarkRunActive, Intend
  <2> QED BY <1>0, <2>1, <2>2, OnlyDisposableMoved DEF server, HoldsDisposable
<1>10. CASE CreateSession(s)
  <2>1. p.pc = "create" /\ p.target \in Worker /\ deleted' = deleted
    BY <1>10, CreateSessionEffect, Zenon
  <2>2. CASE /\ workers' = workers /\ disposable' = disposable
             /\ proc' = [proc EXCEPT ![s] = [p EXCEPT !.pc = "provisioned", !.run = workers]]
    <3> DEFINE q == [p EXCEPT !.pc = "provisioned", !.run = workers]
    <3>1. /\ q \in Procs /\ q.run = workers /\ q.remembered = p.remembered
          /\ q.todo = p.todo
      BY <1>0 DEF Procs, Busy
    <3>2. proc' = [proc EXCEPT ![s] = q] BY <2>2
    <3> HIDE DEF q
    <3> QED BY <1>0, <2>1, <2>2, <3>1, <3>2, OnlyDisposableMoved DEF HoldsDisposable
  <2>3. ASSUME NEW x \in Sessions,
               disposable' = IF p.cleanup THEN disposable \cup {x} ELSE disposable,
               workers' = [workers EXCEPT ![p.target] = WithSession(@, x, p.cleanup)],
               proc' = [proc EXCEPT ![s] =
                       [p EXCEPT !.pc = "provisioned", !.run = workers',
                                 !.remembered = IF p.cleanup
                                   THEN [p.remembered EXCEPT ![p.target] = @ \cup {x}]
                                   ELSE p.remembered]]
        PROVE  OnlyDisposable'
    <3> DEFINE remembered == IF p.cleanup
                               THEN [p.remembered EXCEPT ![p.target] = @ \cup {x}]
                               ELSE p.remembered
               q == [p EXCEPT !.pc = "provisioned", !.run = workers',
                              !.remembered = remembered]
    <3>1. p.remembered \in [Worker -> SUBSET Sessions] /\ p.cleanup \in BOOLEAN
      BY <1>0 DEF Procs
    <3>2. disposable \subseteq disposable' BY <2>3
    <3>3. remembered \in [Worker -> SUBSET Sessions] BY <2>1, <3>1
    <3>4. \A w \in Worker : remembered[w] \subseteq disposable'
      <4> TAKE w \in Worker
      <4>1. p.remembered[w] \subseteq disposable BY <1>0 DEF HoldsDisposable
      <4>2. CASE p.cleanup /\ w = p.target BY <2>1, <2>3, <3>1, <4>1, <4>2
      <4>3. CASE ~p.cleanup \/ w # p.target BY <2>1, <3>1, <3>2, <4>1, <4>3
      <4> QED BY <4>2, <4>3
    <3>5. \A w \in Worker : workers'[w] \in Workers /\ workers'[w].cleanup \subseteq disposable'
      <4> TAKE w \in Worker
      <4>1. workers[w] \in Workers /\ workers[w].cleanup \subseteq disposable
        BY <1>0 DEF Records
      <4>2. WithSession(workers[w], x, p.cleanup) \in Workers
        BY <3>1, <4>1, WithSessionTyped
      <4>3. WithSession(workers[w], x, p.cleanup).cleanup \subseteq disposable'
        BY <2>3, <3>1, <4>1 DEF WithSession, Workers
      <4> QED BY <1>0, <2>1, <2>3, <3>2, <4>1, <4>2, <4>3 DEF Records
    <3>6. workers' \in Records BY <1>0, <2>3, <3>5 DEF Records
    <3>7. proc' = [proc EXCEPT ![s] = q] BY <2>3
    <3> HIDE DEF remembered
    <3>8. /\ q \in Procs /\ q.run = workers' /\ q.remembered = remembered
          /\ q.todo = p.todo
      BY <1>0, <3>3, <3>6 DEF Procs, Busy
    <3> HIDE DEF q
    <3>9. \A w \in Worker : q.todo[w] \subseteq disposable'
      BY <1>0, <3>2, <3>8 DEF HoldsDisposable
    <3>10. deleted' \subseteq disposable' BY <1>0, <2>1, <3>2
    <3> QED BY <3>2, <3>4, <3>5, <3>7, <3>8, <3>9, <3>10, OnlyDisposableMoved
  <2> QED BY <1>10, <2>2, <2>3, CreateSessionEffect, Zenon
<1>11. CASE PlanCleanup(s)
  <2>1. UNCHANGED <<workers, server>> /\ p.pc \in Busy \ {"begin"}
    BY <1>11 DEF PlanCleanup, Busy
  <2>2. CASE Leaves(s, "ended")
    <3> DEFINE q == Gone(p, "ended")
    <3>1. proc' = [proc EXCEPT ![s] = q] BY <2>2, LeavesEffect DEF Gone
    <3>2. "ended" \in Over /\ "ended" \notin Busy BY DEF Over, Busy
    <3>3. q \in Procs
      <4>1. /\ p.policy \in {"fail_fast", "continue"} /\ p.cleanup \in BOOLEAN
            /\ p.starts \in Nat
        BY <1>0 DEF Procs
      <4> QED BY <3>2, <4>1, ProcTyped DEF Gone
    <3>4. q.pc = "ended" /\ q.remembered = NoneOf /\ q.todo = NoneOf
      BY <1>0, GoneFields, ZenonT(30)
    <3> HIDE DEF q
    <3> QED BY <1>0, <2>1, <3>1, <3>2, <3>3, <3>4, OnlyDisposableMoved DEF server, NoneOf
  <2>3. CASE proc' = [proc EXCEPT ![s].pc = "delete", ![s].todo = Listed(p)]
    <3> DEFINE q == [p EXCEPT !.pc = "delete", !.todo = Listed(p)]
    <3>1. Listed(p) \in [Worker -> SUBSET Sessions]
      <4>1. p.run \in Records BY <2>1, AtHand
      <4>2. ASSUME NEW w \in Worker
            PROVE  p.remembered[w] \cup p.run[w].cleanup \subseteq Sessions
        BY <1>0, <4>1 DEF Procs, Records, Workers
      <4> QED BY <4>2 DEF Listed
    <3>2. proc' = [proc EXCEPT ![s] = q] BY <2>3 DEF TypeOK
    <3>3. /\ q \in Procs /\ q.run = p.run /\ q.remembered = p.remembered
          /\ q.todo = Listed(p)
      BY <1>0, <3>1 DEF Procs, Busy
    <3>4. \A w \in Worker : Listed(p)[w] \subseteq disposable
      BY <1>0, <2>1 DEF HoldsDisposable, Listed
    <3> HIDE DEF q
    <3> QED BY <1>0, <2>1, <3>2, <3>3, <3>4, OnlyDisposableMoved DEF server, HoldsDisposable
  <2> QED BY <1>11, <2>2, <2>3 DEF PlanCleanup
<1>12. CASE DeleteSessions(s)
  <2>1. p.pc \in Busy \ {"begin"} /\ UNCHANGED <<workers, disposable>>
    BY <1>12, SMTT(30) DEF DeleteSessions, Busy
  <2>2. PICK w \in Worker : \E gone \in SUBSET p.todo[w] :
              /\ deleted' = deleted \cup gone
              /\ \E verified \in SUBSET (p.todo[w] \cap deleted') :
                   proc' = [proc EXCEPT ![s] =
                     [p EXCEPT !.pc = "deleted", !.target = w,
                               !.todo = [p.todo EXCEPT ![w] = @ \ verified],
                               !.failed = @ \/ p.todo[w] \ verified # {}]]
    BY <1>12, DeleteSessionsEffect, Zenon
  <2>3. PICK verified \in SUBSET (p.todo[w] \cap deleted') :
          proc' = [proc EXCEPT ![s] =
                     [p EXCEPT !.pc = "deleted", !.target = w,
                               !.todo = [p.todo EXCEPT ![w] = @ \ verified],
                               !.failed = @ \/ p.todo[w] \ verified # {}]]
    BY <2>2, Zenon
  <2> DEFINE todo == [p.todo EXCEPT ![w] = @ \ verified]
             failed == p.failed \/ p.todo[w] \ verified # {}
             q == [p EXCEPT !.pc = "deleted", !.target = w, !.todo = todo,
                            !.failed = failed]
  <2>4. deleted' \subseteq disposable BY <1>0, <2>2 DEF HoldsDisposable
  <2>5. p.todo \in [Worker -> SUBSET Sessions] BY <1>0 DEF Procs
  <2>6. todo \in [Worker -> SUBSET Sessions] /\ failed \in BOOLEAN BY <1>0, <2>5 DEF Procs
  <2>7. \A x \in Worker : todo[x] \subseteq disposable
    BY <1>0, <2>5 DEF HoldsDisposable
  <2>8. proc' = [proc EXCEPT ![s] = q] BY <2>3
  <2> HIDE DEF todo, failed
  <2>9. q \in Procs /\ q.run = p.run /\ q.remembered = p.remembered /\ q.todo = todo
    BY <1>0, <2>6, ZenonT(30) DEF Procs, Busy
  <2> HIDE DEF q
  <2> QED BY <1>0, <2>1, <2>4, <2>7, <2>8, <2>9, OnlyDisposableMoved DEF HoldsDisposable
<1> QED
  BY <1>1, <1>2, <1>4, <1>5, <1>6, <1>7, <1>8, <1>9, <1>10, <1>11, <1>12 DEF Work

LEMMA OnlyDisposableStep == TypeOK /\ OnlyDisposable /\ [Next]_vars => OnlyDisposable'
<1> SUFFICES ASSUME TypeOK, OnlyDisposable, [Next]_vars PROVE OnlyDisposable' OBVIOUS
<1>0. /\ workers \in Records /\ proc \in [Starters -> Procs]
      /\ \A w \in Worker : workers[w].cleanup \subseteq disposable
      /\ deleted \subseteq disposable
  BY DEF TypeOK, OnlyDisposable
<1>1. ASSUME NEW s \in Starters, NEW pc \in Over \cup {"begin"},
             NEW policy \in {"fail_fast", "continue"}, NEW cleanup \in BOOLEAN,
             NEW starts \in Nat, UNCHANGED server,
             proc' = [proc EXCEPT ![s] = Proc(pc, policy, cleanup, starts)],
             \A w \in Worker : workers'[w].cleanup = workers[w].cleanup
      PROVE  OnlyDisposable'
  <2> DEFINE q == Proc(pc, policy, cleanup, starts)
  <2>1. q \in Procs /\ q.pc = pc BY ProcTyped
  <2>2. q.remembered = NoneOf /\ q.todo = NoneOf BY DEF Proc
  <2>3. q.pc \notin Busy \ {"begin"} BY <2>1 DEF Over, Busy
  <2>4. proc' = [proc EXCEPT ![s] = q] BY <1>1
  <2> HIDE DEF q
  <2> QED BY <1>0, <1>1, <2>1, <2>2, <2>3, <2>4, OnlyDisposableMoved DEF server, NoneOf
<1>2. ASSUME NEW s \in Starters, Request(s) PROVE OnlyDisposable'
  <2>1. PICK policy \in ExecutionPolicies, cleanup \in Cleanup :
          proc' = [proc EXCEPT ![s] = Proc("begin", policy, cleanup, proc[s].starts + 1)]
    BY <1>2 DEF Request
  <2>2. /\ policy \in {"fail_fast", "continue"} /\ cleanup \in BOOLEAN
        /\ proc[s].starts + 1 \in Nat
    BY <1>0, ExecutionPoliciesAssumption, SubsetsAssumption DEF Procs
  <2>3. \A w \in Worker : workers'[w].cleanup = workers[w].cleanup
    <3>1. CASE workers' = workers BY <3>1
    <3>2. ASSUME NEW w \in Reprompted, workers' = [workers EXCEPT ![w] = RequeuedWorker(@)]
          PROVE  \A x \in Worker : workers'[x].cleanup = workers[x].cleanup
      BY <1>0, <3>2 DEF Records, RequeuedWorker, Workers
    <3> QED BY <1>2, <3>1, <3>2 DEF Request
  <2>4. UNCHANGED server BY <1>2 DEF Request
  <2> QED BY <1>1, <2>1, <2>2, <2>3, <2>4
<1>3. ASSUME NEW s \in Starters, Stop(s) PROVE OnlyDisposable'
  <2>1. proc' = [proc EXCEPT ![s] = Proc("stopped", proc[s].policy, proc[s].cleanup,
                                          proc[s].starts)]
        /\ UNCHANGED <<workers, server>>
    BY <1>3, LeavesEffect DEF Stop
  <2>2. "stopped" \in Over BY DEF Over
  <2>3. /\ proc[s].policy \in {"fail_fast", "continue"} /\ proc[s].cleanup \in BOOLEAN
        /\ proc[s].starts \in Nat
    BY <1>0 DEF Procs
  <2> QED BY <1>1, <2>1, <2>2, <2>3
<1>4. ASSUME NEW w \in Abortable, Abort(w) PROVE OnlyDisposable'
  <2>1. PICK accepted \in BOOLEAN :
          workers' = [workers EXCEPT ![w] = ApplyTransition(@, MarkAborted(accepted))]
    BY <1>4 DEF Abort
  <2>2. MarkAborted(accepted) \in Transitions /\ MarkAborted(accepted).name = "aborted"
    BY DEF MarkAborted, NoFinalization, Transitions, Finalizations, AttemptStatuses
  <2>3. \A x \in Worker : workers'[x].cleanup = workers[x].cleanup
    BY <1>0, <2>1, <2>2, ApplyEffect DEF Records
  <2>4. UNCHANGED <<proc, disposable, deleted>> BY <1>4 DEF Abort, server
  <2> QED BY <2>3, <2>4 DEF OnlyDisposable, HoldsDisposable
<1>5. CASE UNCHANGED vars
  BY <1>5 DEF vars, server, OnlyDisposable, HoldsDisposable
<1> QED BY <1>2, <1>3, <1>4, <1>5, OnlyDisposableWork DEF Next

LEMMA OnlyDisposableInit == Init => OnlyDisposable
<1> SUFFICES ASSUME Init PROVE OnlyDisposable OBVIOUS
<1>1. \A w \in Worker : workers[w].cleanup = {} BY DEF Init, NewWorker
<1>2. \A s \in Starters : HoldsDisposable(proc[s])
  BY DEF Init, Proc, HoldsDisposable, NoneOf, Busy
<1> QED BY <1>1, <1>2 DEF Init, OnlyDisposable

\* Whatever other starts write into the workers' lists between the plan of a
\* cleanup and its deletions, --cleanup deletes no session that was created
\* without it (cleanup_created_worker_sessions).
THEOREM DisposableOnly == Spec => []DeletesDisposable
<1>1. OnlyDisposable => DeletesDisposable BY DEF OnlyDisposable, DeletesDisposable
<1> QED
  BY <1>1, TypeCorrect, OnlyDisposableInit, OnlyDisposableStep, PTL DEF Spec

-----------------------------------------------------------------------------
(* A start that ends without an error has cleaned up.                      *)

Early == {"begin", "recover", "plan", "probe"}

\* What a process that is to clean up remembers is in its plan or deleted,
\* unless a deletion failed.
CleanupLeft(p) ==
  /\ (~p.cleanup \/ p.pc \in Early) => p.remembered = NoneOf
  /\ p.failed => p.pc \in {"delete", "deleted"}
  /\ p.pc \in {"delete", "deleted"} /\ ~p.failed =>
       \A w \in Worker : p.remembered[w] \subseteq p.todo[w] \cup deleted
  /\ p.pc = "deleted" /\ ~p.failed => p.todo[p.target] = {}

CleanupTracked == \A s \in Starters : CleanupLeft(proc[s])

\* Outside of the cleanup phase there is nothing to keep track of but what the
\* process remembers.
LEMMA CleanupLeftKeeps ==
  ASSUME NEW p \in Procs, NEW q, Keeps(p, q), CleanupLeft(p),
         p.pc \notin {"delete", "deleted"}, q.pc \notin {"delete", "deleted"},
         q.pc \in Early => p.pc \in Early
  PROVE  CleanupLeft(q)
BY DEF CleanupLeft, Keeps, Procs

LEMMA CleanupLeftGone ==
  ASSUME NEW p \in Procs, NEW pc \in Over \cup {"begin"}
  PROVE  CleanupLeft(Gone(p, pc))
<1> DEFINE g == Gone(p, pc)
<1>1. g.pc = pc /\ g.remembered = NoneOf /\ g.failed = FALSE
  BY GoneFields, ZenonT(30)
<1>2. pc \notin {"delete", "deleted"} BY DEF Over
<1> HIDE DEF g
<1>3. CleanupLeft(g) BY <1>1, <1>2 DEF CleanupLeft
<1> QED BY <1>3 DEF g

\* A step of one process over what is deleted.
LEMMA CleanupMoved ==
  ASSUME TypeOK, CleanupTracked, NEW s \in Starters, deleted \subseteq deleted',
         \A t \in Starters : t # s => proc'[t] = proc[t],
         CleanupLeft(proc[s])',
         proc[s].pc \in Busy /\ proc'[s].pc = "ended"
           => \A w \in Worker : proc[s].remembered[w] \subseteq deleted'
  PROVE  CleanupTracked' /\ CleansUp
<1>1. ASSUME NEW t \in Starters PROVE CleanupLeft(proc[t])'
  <2>1. CASE t # s
    <3>1. proc'[t] = proc[t] /\ CleanupLeft(proc[t]) BY <2>1 DEF CleanupTracked
    <3>2. proc[t].pc \in {"delete", "deleted"} /\ ~proc[t].failed =>
            \A w \in Worker : proc[t].remembered[w] \subseteq proc[t].todo[w] \cup deleted'
      BY <3>1 DEF CleanupLeft
    <3> QED BY <3>1, <3>2 DEF CleanupLeft
  <2> QED BY <2>1
<1>2. ASSUME NEW t \in Starters, proc[t].pc \in Busy, proc'[t].pc = "ended",
             NEW w \in Worker
      PROVE  proc[t].remembered[w] \subseteq deleted'
  <2>1. t = s BY <1>2 DEF Busy
  <2> QED BY <1>2, <2>1
<1> QED BY <1>1, <1>2 DEF CleanupTracked, CleansUp

\* An update outside of the cleanup phase: a start ends there only when there
\* is nothing to clean up.
LEMMA CleanupUpdate ==
  ASSUME TypeOK, CleanupTracked, NEW s \in Starters, NEW tr, NEW q, Update(s, tr, q),
         Keeps(proc[s], q),
         proc[s].pc \notin {"delete", "deleted"}, q.pc \notin {"delete", "deleted"},
         q.pc \in Early => proc[s].pc \in Early,
         q.pc = "ended" => proc[s].pc \in Early \/ ~proc[s].cleanup
  PROVE  CleanupTracked' /\ CleansUp
<1>1. /\ proc[s] \in Procs /\ q \in Procs /\ CleanupLeft(proc[s])
  BY DEF TypeOK, Update, CleanupTracked
<1>2. CleanupLeft(q) BY <1>1, CleanupLeftKeeps
<1>3. deleted' = deleted BY UpdateEffect DEF server
<1>4. \A t \in Starters : t # s => proc'[t] = proc[t] BY UpdateEffect
<1>5. ASSUME NEW pc \in Over, proc'[s] = Gone(proc[s], pc), pc = "ended" => q.pc = "ended"
      PROVE  CleanupTracked' /\ CleansUp
  <2>1. CleanupLeft(proc'[s]) BY <1>1, <1>5, CleanupLeftGone
  <2>2. CleanupLeft(proc[s])' BY <1>3, <2>1 DEF CleanupLeft
  <2>3. proc'[s].pc = pc BY <1>1, <1>5, GoneFields, ZenonT(30)
  <2>4. pc = "ended" => proc[s].remembered = NoneOf BY <1>1, <1>5 DEF CleanupLeft
  <2> QED BY <1>3, <1>4, <2>2, <2>3, <2>4, CleanupMoved DEF NoneOf
<1>6. ASSUME q.pc \notin Over, proc'[s] = [q EXCEPT !.run = workers']
      PROVE  CleanupTracked' /\ CleansUp
  <2> DEFINE n == [q EXCEPT !.run = workers']
  <2>1. n.pc = q.pc /\ n.target = q.target /\ Keeps(q, n) BY <1>1, ResumedFields
  <2> HIDE DEF n
  <2>2. CleanupLeft(n) BY <1>2, <2>1 DEF CleanupLeft, Keeps
  <2>3. proc'[s] = n BY <1>6 DEF n
  <2>4. CleanupLeft(proc[s])' BY <1>3, <2>2, <2>3 DEF CleanupLeft
  <2>5. proc'[s].pc # "ended" BY <1>6, <2>1, <2>3 DEF Over
  <2> QED BY <1>3, <1>4, <2>4, <2>5, CleanupMoved
<1>7. "raised" \in Over /\ "raised" # "ended" BY DEF Over
<1> QED BY <1>5, <1>6, <1>7, UpdateEffect

\* What a move to another place before the cleanup does.
LEMMA CleanupPlain ==
  ASSUME TypeOK, CleanupTracked, NEW s \in Starters, NEW q,
         proc' = [proc EXCEPT ![s] = q], UNCHANGED deleted,
         q.cleanup = proc[s].cleanup, q.remembered = proc[s].remembered,
         q.failed = proc[s].failed,
         proc[s].pc \notin {"delete", "deleted"},
         q.pc \notin {"delete", "deleted", "ended"},
         q.pc \in Early => proc[s].pc \in Early
  PROVE  CleanupTracked' /\ CleansUp
<1>1. proc[s] \in Procs /\ CleanupLeft(proc[s]) BY DEF TypeOK, CleanupTracked
<1>3. proc'[s] = q /\ \A t \in Starters : t # s => proc'[t] = proc[t] BY DEF TypeOK
<1>4. CleanupLeft(proc[s])' BY <1>1, <1>3 DEF CleanupLeft
<1> QED BY <1>3, <1>4, CleanupMoved

LEMMA CleanupWork ==
  ASSUME TypeOK, CleanupTracked, NEW s \in Starters, Work(s)
  PROVE  CleanupTracked' /\ CleansUp
<1> DEFINE p == proc[s]
<1>0. p \in Procs /\ CleanupLeft(p) /\ proc \in [Starters -> Procs]
  BY DEF TypeOK, CleanupTracked
<1>1. ASSUME NEW tr, NEW q, Update(s, tr, q), Keeps(p, q),
             p.pc \in Early \cup Executing,
             q.pc \in (IF p.pc \in Early THEN Early \cup {"ended"}
                       ELSE Executing \cup {Executed(p)})
      PROVE  CleanupTracked' /\ CleansUp
  <2>1. /\ p.pc \notin {"delete", "deleted"} /\ q.pc \notin {"delete", "deleted"}
        /\ q.pc \in Early => p.pc \in Early
        /\ q.pc = "ended" => p.pc \in Early \/ ~p.cleanup
    BY <1>1 DEF Early, Executing, Executed
  <2> QED BY <1>1, <2>1, CleanupUpdate
<1> HIDE DEF p
<1>2. CASE Recover(s)
  BY <1>1, <1>2, RecoverEffect DEF Early, p
<1>3. CASE ProbeFails(s)
  BY <1>1, <1>3, ProbeFailsEffect DEF Early, p
<1>4. CASE CreationFails(s)
  <2>1. PICK tr : \E q : /\ Update(s, tr, q) /\ Keeps(p, q)
                         /\ p.pc = "create" /\ q.pc = Executed(p)
    BY <1>4, CreationFailsEffect DEF p
  <2>2. "create" \in Executing /\ "create" \notin Early BY DEF Executing, Early
  <2> QED BY <1>1, <2>1, <2>2
<1>5. CASE Plan(s)
  <2> DEFINE v       == View(p.run)
             blocked == BlockedIds(v, {})
             tr      == [w \in blocked |-> DependencyBlocked]
             q       == Selected(p, ReadyIds(v, blocked))
  <2>1. /\ Update(s, tr, q) /\ Keeps(p, q)
        /\ \/ p.pc = "plan" /\ q.pc \in {"ended", "probe"}
           \/ p.pc = "replan" /\ q.pc \in {Executed(p), "provision"}
    BY <1>5, PlanEffect DEF p
  <2> HIDE DEF tr, q
  <2>2. /\ "plan" \in Early /\ "probe" \in Early /\ "replan" \in Executing
        /\ "provision" \in Executing /\ "replan" \notin Early
    BY DEF Executing, Early
  <2> QED BY <1>1, <2>1, <2>2
<1>6. ASSUME NEW t, NEW q, Update(s, [w \in {q.target} |-> t], q), Keeps(p, q),
             p.pc \in Executing, q.pc \in Executing
      PROVE  CleanupTracked' /\ CleansUp
  <2> DEFINE tr == [w \in {q.target} |-> t]
  <2>1. Update(s, tr, q) BY <1>6
  <2>2. p.pc \notin Early BY <1>6 DEF Early, Executing
  <2> HIDE DEF tr
  <2> QED BY <1>1, <1>6, <2>1, <2>2
<1>7. CASE Provision(s)
  <2> DEFINE q == [p EXCEPT !.pc = "active"]
             t == Provisioned(p.run[p.target])
  <2>1. /\ Update(s, [w \in {q.target} |-> t], q) /\ Keeps(p, q)
        /\ p.pc \in {"provision", "provisioned"} /\ q.pc = "active"
    BY <1>7, ProvisionEffect DEF p
  <2> HIDE DEF q, t
  <2> QED BY <1>6, <2>1 DEF Executing
<1>8. CASE Activate(s)
  <2> DEFINE q == [p EXCEPT !.pc = "attempt"]
  <2>1. /\ Update(s, [w \in {q.target} |-> MarkActive], q) /\ Keeps(p, q)
        /\ p.pc = "active" /\ q.pc = "attempt"
    BY <1>8, ActivateEffect DEF p
  <2> HIDE DEF q
  <2> QED BY <1>6, <2>1 DEF Executing
<1>9. CASE StartAttempt(s)
  <2> DEFINE t == AttemptStarted(p.run[p.target])
  <2>1. PICK q : /\ Update(s, [w \in {q.target} |-> t], q) /\ Keeps(p, q)
                 /\ p.pc = "attempt" /\ q.pc \in {"refused", "prompt"}
    BY <1>9, StartAttemptEffect DEF p
  <2> HIDE DEF t
  <2> QED BY <1>6, <2>1 DEF Executing
<1>10. CASE Answer(s)
  <2>1. PICK t \in Transitions : \E q :
          /\ Update(s, [w \in {q.target} |-> t], q) /\ Keeps(p, q)
          /\ p.pc \in {"prompt", "refused"} /\ q.pc = "replan"
    BY <1>10, AnswerEffect DEF p
  <2> QED BY <1>6, <2>1 DEF Executing
<1>11. CASE Begin(s)
  <2> DEFINE q == [p EXCEPT !.pc = "recover", !.run = workers]
  <2>1. proc' = [proc EXCEPT ![s] = q] /\ p.pc = "begin" /\ UNCHANGED deleted
    BY <1>0, <1>11 DEF Begin, server, p
  <2>2. /\ q.pc = "recover" /\ q.cleanup = p.cleanup
        /\ q.remembered = p.remembered /\ q.failed = p.failed
    BY <1>0 DEF Procs
  <2> HIDE DEF q
  <2> QED BY <2>1, <2>2, CleanupPlain DEF Early, p
<1>12. CASE MarkRunActive(s)
  <2> DEFINE q == [p EXCEPT !.pc = "provision", !.run = workers, !.base = workers]
  <2>1. proc' = [proc EXCEPT ![s] = q] /\ p.pc = "probe" /\ UNCHANGED deleted
    BY <1>0, <1>12 DEF MarkRunActive, server, p
  <2>2. /\ q.pc = "provision" /\ q.cleanup = p.cleanup
        /\ q.remembered = p.remembered /\ q.failed = p.failed
    BY <1>0 DEF Procs
  <2> HIDE DEF q
  <2> QED BY <2>1, <2>2, CleanupPlain DEF Early, p
<1>13. CASE Intend(s)
  <2> DEFINE q == [p EXCEPT !.pc = "create", !.run = workers]
  <2>1. proc' = [proc EXCEPT ![s] = q] /\ p.pc = "provision" /\ UNCHANGED deleted
    BY <1>0, <1>13, Zenon DEF Intend, server, p
  <2>2. /\ q.pc = "create" /\ q.cleanup = p.cleanup
        /\ q.remembered = p.remembered /\ q.failed = p.failed
    BY <1>0 DEF Procs
  <2> HIDE DEF q
  <2> QED BY <2>1, <2>2, CleanupPlain DEF Early, p
<1>14. CASE CreateSession(s)
  <2>0. p.pc = "create" /\ p.target \in Worker /\ deleted' = deleted
    BY <1>14, CreateSessionEffect DEF p
  <2>1. CASE proc' = [proc EXCEPT ![s] = [p EXCEPT !.pc = "provisioned", !.run = workers]]
    <3> DEFINE q == [p EXCEPT !.pc = "provisioned", !.run = workers]
    <3>1. /\ q.pc = "provisioned" /\ q.cleanup = p.cleanup
          /\ q.remembered = p.remembered /\ q.failed = p.failed
      BY <1>0 DEF Procs
    <3>2. proc' = [proc EXCEPT ![s] = q] BY <2>1
    <3> HIDE DEF q
    <3> QED BY <2>0, <3>1, <3>2, CleanupPlain DEF Early, p
  <2>2. ASSUME NEW x \in Sessions,
               proc' = [proc EXCEPT ![s] =
                       [p EXCEPT !.pc = "provisioned", !.run = workers',
                                 !.remembered = IF p.cleanup
                                   THEN [p.remembered EXCEPT ![p.target] = @ \cup {x}]
                                   ELSE p.remembered]]
        PROVE  CleanupTracked' /\ CleansUp
    <3> DEFINE remembered == IF p.cleanup
                               THEN [p.remembered EXCEPT ![p.target] = @ \cup {x}]
                               ELSE p.remembered
               q == [p EXCEPT !.pc = "provisioned", !.run = workers',
                              !.remembered = remembered]
    <3>1. ~p.cleanup => remembered = p.remembered OBVIOUS
    <3>2. proc' = [proc EXCEPT ![s] = q] BY <2>2
    <3> HIDE DEF remembered
    <3>3. /\ q.pc = "provisioned" /\ q.remembered = remembered
          /\ q.cleanup = p.cleanup /\ q.failed = p.failed
      BY <1>0 DEF Procs
    <3> HIDE DEF q
    <3>4. proc'[s] = q /\ \A t \in Starters : t # s => proc'[t] = proc[t]
      BY <1>0, <3>2
    <3>5. CleanupLeft(proc[s])'
      BY <1>0, <2>0, <3>1, <3>3, <3>4 DEF CleanupLeft, Early
    <3>6. proc'[s].pc # "ended" BY <3>3, <3>4
    <3> QED BY <2>0, <3>4, <3>5, <3>6, CleanupMoved
  <2> QED BY <1>14, <2>1, <2>2, CreateSessionEffect, Zenon DEF p
<1>15. CASE PlanCleanup(s)
  <2>0. p.pc = "clean" /\ UNCHANGED deleted BY <1>15 DEF PlanCleanup, server, p
  <2>1. CASE Listed(p) = NoneOf /\ Leaves(s, "ended")
    <3>1. proc'[s] = Gone(p, "ended") /\ \A t \in Starters : t # s => proc'[t] = proc[t]
      BY <1>0, <2>1, LeavesEffect DEF Gone, p
    <3>2. "ended" \in Over BY DEF Over
    <3>3. CleanupLeft(proc'[s]) BY <1>0, <3>1, <3>2, CleanupLeftGone
    <3>4. CleanupLeft(proc[s])' BY <2>0, <3>3 DEF CleanupLeft
    <3>5. ASSUME NEW w \in Worker PROVE p.remembered[w] = {}
      <4>1. Listed(p)[w] = {} BY <2>1 DEF NoneOf
      <4> QED BY <4>1 DEF Listed
    <3> QED BY <2>0, <3>1, <3>4, <3>5, CleanupMoved DEF p
  <2>2. CASE proc' = [proc EXCEPT ![s].pc = "delete", ![s].todo = Listed(p)]
    <3> DEFINE q == [p EXCEPT !.pc = "delete", !.todo = Listed(p)]
    <3>1. /\ q.pc = "delete" /\ q.remembered = p.remembered
          /\ q.cleanup = p.cleanup /\ q.failed = p.failed /\ q.todo = Listed(p)
      BY <1>0 DEF Procs
    <3>2. proc' = [proc EXCEPT ![s] = q] BY <1>0, <2>2 DEF p
    <3> HIDE DEF q
    <3>3. proc'[s] = q /\ \A t \in Starters : t # s => proc'[t] = proc[t]
      BY <1>0, <3>2
    <3>4. \A w \in Worker : q.remembered[w] \subseteq q.todo[w]
      BY <3>1 DEF Listed
    <3>5. CleanupLeft(proc[s])'
      BY <1>0, <2>0, <3>1, <3>3, <3>4 DEF CleanupLeft, Early
    <3> QED BY <2>0, <3>1, <3>3, <3>5, CleanupMoved
  <2> QED BY <1>15, <2>1, <2>2 DEF PlanCleanup, p
<1>16. CASE DeleteSessions(s)
  <2>1. PICK w \in Worker : \E gone \in SUBSET p.todo[w] :
              /\ deleted' = deleted \cup gone
              /\ \E verified \in SUBSET (p.todo[w] \cap deleted') :
                   proc' = [proc EXCEPT ![s] =
                     [p EXCEPT !.pc = "deleted", !.target = w,
                               !.todo = [p.todo EXCEPT ![w] = @ \ verified],
                               !.failed = @ \/ p.todo[w] \ verified # {}]]
    BY <1>16, DeleteSessionsEffect, Zenon DEF p
  <2>2. PICK verified \in SUBSET (p.todo[w] \cap deleted') :
          proc' = [proc EXCEPT ![s] =
                     [p EXCEPT !.pc = "deleted", !.target = w,
                               !.todo = [p.todo EXCEPT ![w] = @ \ verified],
                               !.failed = @ \/ p.todo[w] \ verified # {}]]
    BY <2>1, Zenon
  <2>3. deleted \subseteq deleted' /\ p.pc = "delete" BY <1>16, <2>1 DEF DeleteSessions, p
  <2> DEFINE todo == [p.todo EXCEPT ![w] = @ \ verified]
             failed == p.failed \/ p.todo[w] \ verified # {}
             q == [p EXCEPT !.pc = "deleted", !.target = w, !.todo = todo,
                            !.failed = failed]
  <2>4. p.todo \in [Worker -> SUBSET Sessions] BY <1>0 DEF Procs
  <2>5. failed \in BOOLEAN /\ (~failed => ~p.failed /\ todo[w] = {})
    BY <1>0, <2>4 DEF Procs
  <2>6. \A x \in Worker : p.todo[x] \subseteq todo[x] \cup deleted'
    BY <2>2, <2>4
  <2>7. proc' = [proc EXCEPT ![s] = q] BY <2>2
  <2> HIDE DEF todo, failed
  <2>8. /\ q.pc = "deleted" /\ q.remembered = p.remembered /\ q.target = w
        /\ q.cleanup = p.cleanup /\ q.todo = todo /\ q.failed = failed
    BY <1>0 DEF Procs
  <2> HIDE DEF q
  <2>9. proc'[s] = q /\ \A t \in Starters : t # s => proc'[t] = proc[t]
    BY <1>0, <2>7
  <2>10. ~q.failed => \A x \in Worker : q.remembered[x] \subseteq q.todo[x] \cup deleted'
    <3> SUFFICES ASSUME ~q.failed, NEW x \in Worker
                 PROVE  q.remembered[x] \subseteq q.todo[x] \cup deleted'
      OBVIOUS
    <3>1. p.remembered[x] \subseteq p.todo[x] \cup deleted
      BY <1>0, <2>3, <2>5, <2>8 DEF CleanupLeft
    <3> QED BY <2>3, <2>6, <2>8, <3>1
  <2>11. CleanupLeft(proc[s])'
    BY <1>0, <2>3, <2>5, <2>8, <2>9, <2>10 DEF CleanupLeft, Early
  <2> QED BY <2>3, <2>8, <2>9, <2>11, CleanupMoved, SMTT(30)
<1>17. CASE RecordCleanup(s)
  <2> DEFINE todo == [p.todo EXCEPT ![p.target] = {}]
             t    == CleanupUpdated(p.todo[p.target])
  <2>0. PICK q : Update(s, [w \in {q.target} |-> t], q) /\ Recorded(p, q)
    BY <1>17, RecordCleanupEffect DEF p
  <2>1. /\ Update(s, [w \in {q.target} |-> t], q)
        /\ p.pc = "deleted" /\ p.target \in Worker /\ q.target = p.target
        /\ q.todo = todo /\ q.remembered = p.remembered /\ q.failed = p.failed
        /\ q.cleanup = p.cleanup
        /\ q.pc = IF todo # NoneOf THEN "delete"
                  ELSE IF p.failed THEN "unclean" ELSE "ended"
    BY <2>0 DEF Recorded
  <2>2. p.todo \in [Worker -> SUBSET Sessions] /\ p.failed \in BOOLEAN
        /\ q \in Procs
    BY <1>0, <2>1 DEF Procs, Update
  <2>3. ~p.failed => /\ \A w \in Worker : p.remembered[w] \subseteq p.todo[w] \cup deleted
                     /\ p.todo[p.target] = {}
    BY <1>0, <2>1 DEF CleanupLeft
  <2>4. ~p.failed => \A w \in Worker : p.remembered[w] \subseteq todo[w] \cup deleted
    BY <2>1, <2>2, <2>3
  <2>5. q.pc = "ended" => \A w \in Worker : p.remembered[w] \subseteq deleted
    <3> SUFFICES ASSUME q.pc = "ended", NEW w \in Worker
                 PROVE  p.remembered[w] \subseteq deleted
      OBVIOUS
    <3>1. ~p.failed /\ todo = NoneOf BY <2>1
    <3>2. todo[w] = {} BY <3>1 DEF NoneOf
    <3> QED BY <2>4, <3>1, <3>2
  <2> HIDE DEF todo
  <2> DEFINE tr == [w \in {q.target} |-> t]
  <2>6. Update(s, tr, q) BY <2>1
  <2> HIDE DEF tr, t
  <2>7. deleted' = deleted BY <2>6, UpdateEffect DEF server
  <2>8. \A x \in Starters : x # s => proc'[x] = proc[x] BY <2>6, UpdateEffect
  <2>9. ASSUME NEW pc \in Over, proc'[s] = Gone(p, pc), pc = "ended" => q.pc = "ended"
        PROVE  CleanupTracked' /\ CleansUp
    <3>1. CleanupLeft(proc'[s]) BY <1>0, <2>9, CleanupLeftGone
    <3>2. CleanupLeft(proc[s])' BY <2>7, <3>1 DEF CleanupLeft
    <3> DEFINE g == Gone(p, pc)
    <3>4. g.pc = pc BY <1>0, GoneFields
    <3>3. proc'[s].pc = pc BY <2>9, <3>4
    <3> QED BY <2>5, <2>7, <2>8, <2>9, <3>2, <3>3, CleanupMoved DEF p
  <2>10. ASSUME q.pc \notin Over, proc'[s] = [q EXCEPT !.run = workers']
         PROVE  CleanupTracked' /\ CleansUp
    <3> DEFINE n == [q EXCEPT !.run = workers']
    <3>1. n.pc = q.pc /\ n.target = q.target /\ Keeps(q, n) BY <2>2, ResumedFields
    <3>2. proc'[s] = n BY <2>10
    <3> HIDE DEF n
    <3>3. q.pc = "delete" BY <2>1, <2>10 DEF Over
    <3>4. CleanupLeft(proc[s])'
      BY <1>0, <2>1, <2>2, <2>4, <2>7, <3>1, <3>2, <3>3 DEF CleanupLeft, Keeps, Early
    <3> QED BY <2>7, <2>8, <3>1, <3>2, <3>3, <3>4, CleanupMoved
  <2>11. "raised" \in Over /\ "raised" # "ended" BY DEF Over
  <2> QED BY <2>6, <2>9, <2>10, <2>11, UpdateEffect DEF p
<1> QED
  BY <1>2, <1>3, <1>4, <1>5, <1>7, <1>8, <1>9, <1>10, <1>11, <1>12, <1>13, <1>14,
     <1>15, <1>16, <1>17 DEF Work

LEMMA CleanupStep ==
  TypeOK /\ CleanupTracked /\ [Next]_vars => CleanupTracked' /\ [CleansUp]_vars
<1> SUFFICES ASSUME TypeOK, CleanupTracked, [Next]_vars
             PROVE  CleanupTracked' /\ [CleansUp]_vars
  OBVIOUS
<1>1. ASSUME NEW s \in Starters, Request(s) PROVE CleanupTracked' /\ CleansUp
  <2>1. PICK policy \in ExecutionPolicies, cleanup \in Cleanup :
          proc' = [proc EXCEPT ![s] = Proc("begin", policy, cleanup, proc[s].starts + 1)]
    BY <1>1 DEF Request
  <2>2. /\ proc'[s] = Proc("begin", policy, cleanup, proc[s].starts + 1)
        /\ \A t \in Starters : t # s => proc'[t] = proc[t]
    BY <2>1 DEF TypeOK
  <2>3. CleanupLeft(proc[s])' BY <2>2 DEF CleanupLeft, Proc
  <2>4. proc'[s].pc = "begin" BY <2>2 DEF Proc
  <2>5. deleted' = deleted BY <1>1 DEF Request, server
  <2> QED BY <2>2, <2>3, <2>4, <2>5, CleanupMoved
<1>2. ASSUME NEW s \in Starters, Stop(s) PROVE CleanupTracked' /\ CleansUp
  <2>1. proc'[s] = Gone(proc[s], "stopped") /\ \A t \in Starters : t # s => proc'[t] = proc[t]
    BY <1>2, LeavesEffect DEF Stop, Gone, TypeOK
  <2>2. "stopped" \in Over /\ proc[s] \in Procs BY DEF Over, TypeOK
  <2>3. CleanupLeft(proc'[s]) BY <2>1, <2>2, CleanupLeftGone
  <2>4. deleted' = deleted BY <1>2 DEF Stop, server
  <2>5. CleanupLeft(proc[s])' BY <2>3, <2>4 DEF CleanupLeft
  <2> DEFINE g == Gone(proc[s], "stopped")
  <2>7. g.pc = "stopped" BY <2>2, GoneFields
  <2>6. proc'[s].pc # "ended" BY <2>1, <2>7
  <2> QED BY <2>1, <2>4, <2>5, <2>6, CleanupMoved
<1>3. ASSUME NEW w \in Abortable, Abort(w) PROVE CleanupTracked' /\ CleansUp
  <2>1. proc' = proc /\ deleted' = deleted BY <1>3 DEF Abort, server
  <2>2. \A s \in Starters : proc[s].pc \in Busy => proc[s].pc # "ended" BY DEF Busy
  <2> QED BY <2>1, <2>2 DEF CleanupTracked, CleanupLeft, CleansUp
<1>4. CASE UNCHANGED vars
  <2>1. CleanupTracked' BY <1>4 DEF vars, server, CleanupTracked, CleanupLeft
  <2> QED BY <1>4, <2>1
<1> QED BY <1>1, <1>2, <1>3, <1>4, CleanupWork DEF Next

LEMMA CleanupInit == Init => CleanupTracked
BY DEF Init, CleanupTracked, CleanupLeft, Proc

\* A start that ends without an error has deleted every session it created
\* under --cleanup, however the deletions and their verifications fell out and
\* whatever other starts did meanwhile (CreatedWorkerCleanupPlanner.plan).
THEOREM CleansUpBehind == Spec => StartCleansUp
<1>1. Spec => []CleanupTracked
  BY TypeCorrect, CleanupInit, CleanupStep, PTL DEF Spec
<1> QED BY <1>1, TypeCorrect, CleanupStep, PTL DEF Spec, StartCleansUp

-----------------------------------------------------------------------------
(* A worker that is active is being executed.                              *)

\* Only a mark leads to active_wait, and an answer leads away from it.
LEMMA StaysActive ==
  ASSUME NEW w \in Workers, NEW t \in Transitions, t.name # "active",
         ApplyTransition(w, t).lifecycle = "active_wait"
  PROVE  /\ w.lifecycle = "active_wait"
         /\ t.name \notin {"result_applied", "retry_scheduled", "failed", "timed_out"}
<1> DEFINE n == ApplyTransition(w, t)
<1>1. n.lifecycle = IF Swallows(w, t) THEN w.lifecycle ELSE Landing(w, t)
  BY ApplyEffect
<1>2. ~Swallows(w, t)
  BY <1>1 DEF Swallows, AcceptedAbort, AbortedStates
<1>3. Landing(w, t) = "active_wait" BY <1>1, <1>2
<1> USE TransitionFields
<1>4. CASE t.name = "timed_out"
  BY <1>3, <1>4 DEF Landing, TimeoutTarget, TimeoutPolicies
<1>5. CASE t.name = "result_applied"
  BY <1>3, <1>5 DEF Landing, ResultTarget, ResultStatuses
<1>6. CASE t.name = "failed" BY <1>3, <1>6 DEF Landing, FailedTarget
<1>7. CASE t.name \notin {"timed_out", "result_applied", "failed"}
  BY <1>3, <1>7 DEF Landing
<1> QED BY <1>4, <1>5, <1>6, <1>7

\* A step of a process that executes nothing.
LEMMA ActiveElsewhere ==
  ASSUME ActiveHasExecutor, NEW s \in Starters,
         proc[s].pc \notin {"attempt", "prompt", "refused"},
         \A t \in Starters : t # s => proc'[t] = proc[t],
         \A w \in Worker : workers'[w].lifecycle = "active_wait"
                             => workers[w].lifecycle = "active_wait"
  PROVE  ActiveHasExecutor'
<1> SUFFICES ASSUME NEW w \in Worker, workers'[w].lifecycle = "active_wait"
             PROVE  \E t \in Starters : proc'[t].target = w
                      /\ proc'[t].pc \in {"attempt", "prompt", "refused"}
  BY DEF ActiveHasExecutor
<1>1. PICK t \in Starters : proc[t].target = w /\ proc[t].pc \in {"attempt", "prompt", "refused"}
  BY DEF ActiveHasExecutor
<1>2. t # s BY <1>1
<1> QED BY <1>1, <1>2

\* An update that marks no worker active.
LEMMA ActiveUpdate ==
  ASSUME TypeOK, NEW s \in Starters, NEW tr, NEW q, Update(s, tr, q),
         \A w \in DOMAIN tr : tr[w].name # "active",
         NEW w \in Worker, workers'[w].lifecycle = "active_wait"
  PROVE  workers[w].lifecycle = "active_wait"
<1>1. workers[w] \in Workers BY DEF TypeOK, Records
<1>2. CASE workers'[w] # workers[w]
  <2>1. PICK t \in Transitions : t = tr[w] BY <1>2, UpdateWorker
  <2>2. t.name # "active" /\ workers'[w] = ApplyTransition(workers[w], t)
    BY <1>2, <2>1, UpdateWorker
  <2> QED BY <1>1, <2>2, StaysActive
<1> QED BY <1>2

LEMMA ActiveWork ==
  ASSUME TypeOK, ActiveHasExecutor, NEW s \in Starters, Work(s)
  PROVE  ActiveHasExecutor'
<1> DEFINE p == proc[s]
<1>0. p \in Procs /\ workers \in Records /\ proc \in [Starters -> Procs] BY DEF TypeOK
<1>1. ASSUME NEW tr, NEW q, Update(s, tr, q), \A w \in DOMAIN tr : tr[w].name # "active",
             p.pc \notin {"attempt", "prompt", "refused"}
      PROVE  ActiveHasExecutor'
  <2>1. \A t \in Starters : t # s => proc'[t] = proc[t] BY <1>1, UpdateEffect
  <2>2. \A w \in Worker : workers'[w].lifecycle = "active_wait"
                            => workers[w].lifecycle = "active_wait"
    BY <1>1, ActiveUpdate
  <2> QED BY <1>1, <2>1, <2>2, ActiveElsewhere
<1>2. CASE Recover(s) \/ ProbeFails(s) \/ CreationFails(s)
  <2>1. PICK tr : \E q :
          /\ Update(s, tr, q) /\ p.pc \in {"recover", "probe", "create"}
          /\ \A w \in DOMAIN tr : tr[w].name \in {"timed_out", "failed"}
    BY <1>2, RecoverEffect, ProbeFailsEffect, CreationFailsEffect
  <2>2. \A w \in DOMAIN tr : tr[w].name # "active" BY <2>1
  <2> HIDE DEF p
  <2> QED BY <1>1, <2>1, <2>2
<1>3. CASE Plan(s)
  <2> DEFINE v       == View(p.run)
             blocked == BlockedIds(v, {})
             tr      == [w \in blocked |-> DependencyBlocked]
             q       == Selected(p, ReadyIds(v, blocked))
  <2>1. Update(s, tr, q) /\ p.pc \in {"plan", "replan"} BY <1>3, PlanEffect
  <2>2. \A w \in DOMAIN tr : tr[w].name # "active" BY DEF DependencyBlocked
  <2> HIDE DEF tr, q, p
  <2> QED BY <1>1, <2>1, <2>2
<1>4. ASSUME NEW t, NEW q, Update(s, [w \in {q.target} |-> t], q), t.name # "active",
             p.pc \notin {"attempt", "prompt", "refused"}
      PROVE  ActiveHasExecutor'
  <2> DEFINE tr == [w \in {q.target} |-> t]
  <2>1. Update(s, tr, q) /\ \A w \in DOMAIN tr : tr[w].name # "active" BY <1>4
  <2> HIDE DEF tr
  <2> QED BY <1>1, <1>4, <2>1
<1>5. CASE Provision(s)
  <2> DEFINE q == [p EXCEPT !.pc = "active"]
             t == Provisioned(p.run[p.target])
  <2>1. /\ Update(s, [w \in {q.target} |-> t], q)
        /\ p.pc \in {"provision", "provisioned"}
    BY <1>5, ProvisionEffect
  <2>2. t.name # "active" BY DEF Provisioned
  <2> HIDE DEF q, t, p
  <2> QED BY <1>4, <2>1, <2>2
<1>6. CASE RecordCleanup(s)
  <2> DEFINE t == CleanupUpdated(p.todo[p.target])
  <2>1. PICK q : Update(s, [w \in {q.target} |-> t], q) /\ Recorded(p, q)
    BY <1>6, RecordCleanupEffect
  <2>3. p.pc = "deleted" BY <2>1 DEF Recorded
  <2>2. t.name # "active" BY DEF CleanupUpdated
  <2> HIDE DEF t, p
  <2> QED BY <1>4, <2>1, <2>2, <2>3
<1>7. CASE Activate(s)
  <2> DEFINE q == [p EXCEPT !.pc = "attempt"]
  <2>1. /\ Update(s, [w \in {q.target} |-> MarkActive], q)
        /\ p.pc = "active" /\ q.pc = "attempt" /\ q.target = p.target
    BY <1>7, ActivateEffect
  <2>2. q.target \in Worker /\ q \in Procs BY <2>1, AtHand DEF Executing, Update
  <2>3. q.pc \notin Over BY <2>1 DEF Over
  <2> DEFINE n == [q EXCEPT !.run = workers']
  <2>5. n.target = q.target /\ n.pc = q.pc BY <2>2, ResumedFields
  <2> HIDE DEF q, n
  <2>6. /\ \A t \in Starters : t # s => proc'[t] = proc[t]
        /\ \A w \in Worker : w # q.target => workers'[w] = workers[w]
        /\ (workers' = workers \/ proc'[s] = n)
    BY <2>1, <2>2, <2>3, TargetEffect DEF n
  <2>7. CASE workers' = workers BY <2>1, <2>6, <2>7, ActiveElsewhere
  <2>8. CASE proc'[s] = n
    <3> SUFFICES ASSUME NEW w \in Worker, workers'[w].lifecycle = "active_wait"
                 PROVE  \E t \in Starters : proc'[t].target = w
                          /\ proc'[t].pc \in {"attempt", "prompt", "refused"}
      BY DEF ActiveHasExecutor
    <3>1. CASE w = q.target BY <2>1, <2>5, <2>8, <3>1
    <3>2. CASE w # q.target
      <4>1. workers'[w] = workers[w] BY <2>6, <3>2
      <4>2. PICK t \in Starters :
              proc[t].target = w /\ proc[t].pc \in {"attempt", "prompt", "refused"}
        BY <4>1 DEF ActiveHasExecutor
      <4>3. t # s BY <2>1, <4>2
      <4> QED BY <2>6, <4>2, <4>3
    <3> QED BY <3>1, <3>2
  <2> QED BY <2>6, <2>7, <2>8
<1>8. CASE StartAttempt(s)
  <2> DEFINE t == AttemptStarted(p.run[p.target])
  <2>1. PICK q :
          /\ Update(s, [w \in {q.target} |-> t], q)
          /\ p.pc = "attempt" /\ q.pc \in {"refused", "prompt"} /\ q.target = p.target
    BY <1>8, StartAttemptEffect
  <2>2. t.name # "active" BY DEF AttemptStarted
  <2>3. q.target \in Worker /\ q \in Procs BY <2>1, AtHand DEF Executing, Update
  <2>4. q.pc \notin Over BY <2>1 DEF Over
  <2> DEFINE n == [q EXCEPT !.run = workers']
             tr == [w \in {q.target} |-> t]
  <2>5. n.target = q.target /\ n.pc = q.pc BY <2>3, ResumedFields
  <2>6. Update(s, tr, q) /\ \A w \in DOMAIN tr : tr[w].name # "active" BY <2>1, <2>2
  <2> HIDE DEF n, t, tr
  <2>7. /\ \A x \in Starters : x # s => proc'[x] = proc[x]
        /\ \/ workers' = workers /\ ~Legal(workers[q.target], t)
           \/ proc'[s] = n
    BY <2>1, <2>3, <2>4, TargetEffect DEF n
  <2>8. t.name = "attempt_started" BY DEF t, AttemptStarted
  <2> SUFFICES ASSUME NEW w \in Worker, workers'[w].lifecycle = "active_wait"
               PROVE  \E x \in Starters : proc'[x].target = w
                        /\ proc'[x].pc \in {"attempt", "prompt", "refused"}
    BY DEF ActiveHasExecutor
  <2>9. workers[w].lifecycle = "active_wait" BY <2>6, ActiveUpdate
  <2>10. PICK x \in Starters :
           proc[x].target = w /\ proc[x].pc \in {"attempt", "prompt", "refused"}
    BY <2>9 DEF ActiveHasExecutor
  <2>11. CASE x # s BY <2>7, <2>10, <2>11
  <2>12. CASE x = s
    <3>1. w = q.target BY <2>1, <2>10, <2>12
    <3>2. Legal(workers[q.target], t) BY <2>8, <2>9, <3>1 DEF Legal, Sources
    <3> QED BY <2>1, <2>5, <2>7, <3>1, <3>2
  <2> QED BY <2>11, <2>12
<1>9. CASE Answer(s)
  <2>1. PICK t \in Transitions : \E q :
          /\ Update(s, [w \in {q.target} |-> t], q)
          /\ p.pc \in {"prompt", "refused"} /\ q.pc = "replan" /\ q.target = p.target
          /\ t.name \in {"result_applied", "retry_scheduled", "failed", "timed_out"}
    BY <1>9, AnswerEffect
  <2>2. PICK q :
          /\ Update(s, [w \in {q.target} |-> t], q)
          /\ p.pc \in {"prompt", "refused"} /\ q.pc = "replan" /\ q.target = p.target
    BY <2>1
  <2>3. q.target \in Worker BY <2>2, AtHand DEF Executing
  <2> DEFINE tr == [w \in {q.target} |-> t]
  <2>4. Update(s, tr, q) /\ \A w \in DOMAIN tr : tr[w].name # "active" BY <2>1, <2>2
  <2> HIDE DEF tr, p
  <2>5. /\ \A x \in Starters : x # s => proc'[x] = proc[x]
        /\ \/ workers' = workers /\ ~Legal(workers[q.target], t)
           \/ workers'[q.target] = ApplyTransition(workers[q.target], t)
    BY <2>2, <2>3, TargetEffect, ZenonT(30)
  <2> SUFFICES ASSUME NEW w \in Worker, workers'[w].lifecycle = "active_wait"
               PROVE  \E x \in Starters : proc'[x].target = w
                        /\ proc'[x].pc \in {"attempt", "prompt", "refused"}
    BY DEF ActiveHasExecutor
  <2>6. workers[w].lifecycle = "active_wait" BY <2>4, ActiveUpdate
  <2>7. w # q.target
    <3> SUFFICES ASSUME w = q.target PROVE FALSE OBVIOUS
    <3>1. Legal(workers[w], t) BY <2>1, <2>6 DEF Legal, Sources, StartSources
    <3>2. workers'[w] = ApplyTransition(workers[w], t) BY <2>5, <3>1
    <3>3. workers[w] \in Workers BY <1>0 DEF Records
    <3> QED BY <2>1, <3>2, <3>3, StaysActive
  <2>8. PICK x \in Starters :
           proc[x].target = w /\ proc[x].pc \in {"attempt", "prompt", "refused"}
    BY <2>6 DEF ActiveHasExecutor
  <2>9. x # s BY <2>2, <2>7, <2>8 DEF p
  <2> QED BY <2>5, <2>8, <2>9
<1>10. CASE Begin(s) \/ MarkRunActive(s) \/ Intend(s) \/ PlanCleanup(s) \/ DeleteSessions(s)
  <2>1. workers' = workers /\ p.pc \in {"begin", "probe", "provision", "clean", "delete"}
    BY <1>10, Zenon
      DEF Begin, MarkRunActive, Intend, PlanCleanup, DeleteSessions
  <2>2. \A t \in Starters : t # s => proc'[t] = proc[t]
    BY <1>0, <1>10, Zenon
      DEF Begin, MarkRunActive, Intend, PlanCleanup, DeleteSessions, Leaves
  <2> QED BY <2>1, <2>2, ActiveElsewhere, SMTT(30)
<1>11. CASE CreateSession(s)
  <2>1. p.pc = "create" /\ p.target \in Worker
    BY <1>11, CreateSessionEffect, Zenon
  <2>2. \A t \in Starters : t # s => proc'[t] = proc[t]
    BY <1>0, <1>11, Zenon DEF CreateSession
  <2>3. \A w \in Worker : workers'[w].lifecycle = workers[w].lifecycle
    BY <1>11, CreateSessionKeeps
  <2> QED BY <2>1, <2>2, <2>3, ActiveElsewhere, SMTT(30)
<1> QED
  BY <1>2, <1>3, <1>5, <1>6, <1>7, <1>8, <1>9, <1>10, <1>11 DEF Work

LEMMA ActiveStep ==
  ASSUME Mortal = {}
  PROVE  TypeOK /\ ActiveHasExecutor /\ [Next]_vars => ActiveHasExecutor'
<1> SUFFICES ASSUME TypeOK, ActiveHasExecutor, [Next]_vars PROVE ActiveHasExecutor' OBVIOUS
<1>0. workers \in Records BY DEF TypeOK
<1>1. ASSUME NEW s \in Starters, Request(s) PROVE ActiveHasExecutor'
  <2>1. /\ \A t \in Starters : t # s => proc'[t] = proc[t]
        /\ proc[s].pc \notin {"attempt", "prompt", "refused"}
    BY <1>1 DEF Request, TypeOK, Over
  <2>2. \A w \in Worker : workers'[w].lifecycle = "active_wait"
                            => workers[w].lifecycle = "active_wait"
    BY <1>0, <1>1, ZenonT(30) DEF Request, RequeuedWorker, Records, Workers
  <2> QED BY <2>1, <2>2, ActiveElsewhere
<1>2. ASSUME NEW s \in Starters, Stop(s) PROVE FALSE BY <1>2 DEF Stop
<1>3. ASSUME NEW w \in Abortable, Abort(w) PROVE ActiveHasExecutor'
  <2>1. PICK accepted \in BOOLEAN :
          workers' = [workers EXCEPT ![w] = ApplyTransition(@, MarkAborted(accepted))]
    BY <1>3 DEF Abort
  <2>2. MarkAborted(accepted) \in Transitions /\ MarkAborted(accepted).name # "active"
    BY DEF MarkAborted, NoFinalization, Transitions, Finalizations, AttemptStatuses
  <2>3. \A x \in Worker : workers'[x].lifecycle = "active_wait"
                            => workers[x].lifecycle = "active_wait"
    BY <1>0, <2>1, <2>2, StaysActive DEF Records
  <2>4. proc' = proc BY <1>3 DEF Abort
  <2> QED BY <2>3, <2>4 DEF ActiveHasExecutor
<1>4. CASE UNCHANGED vars BY <1>4 DEF vars, ActiveHasExecutor
<1> QED BY <1>1, <1>2, <1>3, <1>4, ActiveWork DEF Next

\* Unless a start dies, a worker is active_wait only while a start executes it,
\* however many starts run at the same time and whatever is aborted or queued
\* again meanwhile: every way out of an attempt leads out of active_wait.
THEOREM ActiveIsExecuted ==
  ASSUME Mortal = {}
  PROVE  Spec => []ActiveHasExecutor
<1>1. Init => ActiveHasExecutor
  BY DEF Init, NewWorker, ActiveHasExecutor
<1> QED BY <1>1, TypeCorrect, ActiveStep, PTL DEF Spec

-----------------------------------------------------------------------------
(* A step of a process, as a move between two places and one transition for *)
(* each of some workers.                                                   *)

Flow ==
  {<<"begin", "recover">>, <<"recover", "plan">>, <<"plan", "probe">>,
   <<"probe", "provision">>, <<"provision", "create">>, <<"provision", "active">>,
   <<"create", "provisioned">>, <<"create", "clean">>, <<"provisioned", "active">>,
   <<"active", "attempt">>, <<"attempt", "prompt">>, <<"attempt", "refused">>,
   <<"prompt", "replan">>, <<"refused", "replan">>, <<"replan", "provision">>,
   <<"replan", "clean">>, <<"clean", "delete">>, <<"delete", "deleted">>,
   <<"deleted", "delete">>}

\* What p asks to be made of worker w.
Asks(p, w, t) ==
  /\ t.name \in {"provisioned", "active", "attempt_started", "retry_scheduled",
                 "result_applied", "cleanup_updated"} => w = p.target
  /\ t.name = "provisioned" => p.pc \in {"provision", "provisioned"}
  /\ t.name = "active" => p.pc = "active"
  /\ t.name = "attempt_started" => p.pc = "attempt"
  /\ t.name = "result_applied" => p.pc \in {"prompt", "refused"}
  /\ t.name = "retry_scheduled" =>
       p.pc \in {"prompt", "refused"} /\ t.retryCount = p.run[w].retryCount + 1
  /\ t.name = "failed" =>
       \/ p.pc \in {"probe", "create"} /\ ~t.retryable
       \/ p.pc \in {"prompt", "refused"} /\ w = p.target /\ ~t.available
  /\ t.name = "timed_out" =>
       /\ \/ p.pc = "recover" /\ w \in Timed
          \/ p.pc \in {"prompt", "refused"} /\ w = p.target /\ "timeout" \in Failures
       /\ t.available => RetriesTimeouts(p.run[w])
  /\ t.name = "dependency_blocked" =>
       p.pc \in {"plan", "replan"} /\ w \in BlockedIds(View(p.run), {})
  /\ t.name = "cleanup_updated" => p.pc = "deleted"
  /\ t.name # "aborted"

\* n may differ from w in its session and its list of sessions.
SameProgress(w, n) ==
  /\ n.lifecycle = w.lifecycle /\ n.abort = w.abort
  /\ n.attempts = w.attempts /\ n.retryCount = w.retryCount
  /\ n.retryOn = w.retryOn
  /\ n.session \in {w.session} \cup Sessions

\* From p to q with r as the record.
GoesOn(p, q, r) ==
  /\ <<p.pc, q.pc>> \in Flow
  /\ q.cleanup = p.cleanup /\ q.policy = p.policy
  /\ q.run = (IF q.pc = "deleted" \/ p.pc = "clean" THEN p.run ELSE r)
  /\ q.base = (IF p.pc = "probe" THEN r ELSE p.base)
  /\ p.pc \notin {"plan", "replan", "delete"} => q.target = p.target
  /\ q.pc = "clean" => p.cleanup
  /\ p.pc \in {"plan", "replan"} /\ q.pc # "clean" =>
       q.target \in ReadyIds(View(p.run), BlockedIds(View(p.run), {}))

\* A step of s.
Moves(s) ==
  /\ deps' = deps
  /\ \A t \in Starters : t # s => proc'[t] = proc[t]
  /\ \A w \in Worker :
       \/ SameProgress(workers[w], workers'[w])
       \/ \E t \in Transitions :
            /\ Legal(workers[w], t) /\ Asks(proc[s], w, t)
            /\ workers'[w] = ApplyTransition(workers[w], t)
  /\ \/ proc'[s].pc \in Over /\ proc'[s].policy = proc[s].policy
     \/ GoesOn(proc[s], proc'[s], workers')
  /\ proc[s].pc \in {"probe", "create"} /\ proc'[s].pc \in Executing =>
       \A w \in Worker : SameProgress(workers[w], workers'[w])

\* An update is such a step if the process goes on as it should.
LEMMA UpdateMoves ==
  ASSUME TypeOK, NEW s \in Starters, NEW tr, NEW q, Update(s, tr, q),
         \A w \in DOMAIN tr : w \in Worker => Asks(proc[s], w, tr[w]),
         q.pc \notin Over => \A r : GoesOn(proc[s], [q EXCEPT !.run = r], r),
         proc[s].pc \in {"probe", "create"} => q.pc \notin Executing
  PROVE  Moves(s)
<1>1. deps' = deps /\ \A t \in Starters : t # s => proc'[t] = proc[t]
  BY UpdateEffect
<1>2. ASSUME NEW w \in Worker
      PROVE  \/ SameProgress(workers[w], workers'[w])
             \/ \E t \in Transitions :
                  /\ Legal(workers[w], t) /\ Asks(proc[s], w, t)
                  /\ workers'[w] = ApplyTransition(workers[w], t)
  <2>1. CASE workers'[w] = workers[w] BY <2>1 DEF SameProgress
  <2>2. CASE workers'[w] # workers[w]
    <3>1. PICK t \in Transitions : t = tr[w] BY <2>2, UpdateWorker
    <3>2. /\ w \in DOMAIN tr /\ Legal(workers[w], t)
          /\ workers'[w] = ApplyTransition(workers[w], t)
      BY <2>2, <3>1, UpdateWorker
    <3>3. Asks(proc[s], w, t) BY <3>1, <3>2
    <3> QED BY <3>2, <3>3
  <2> QED BY <2>1, <2>2
<1>3. \/ proc'[s].pc \in Over /\ proc'[s].policy = proc[s].policy
      \/ GoesOn(proc[s], proc'[s], workers')
  <2>0. proc[s] \in Procs /\ "raised" \in Over BY DEF TypeOK, Over
  <2>1. ASSUME NEW pc \in Over, proc'[s] = Gone(proc[s], pc)
        PROVE  proc'[s].pc \in Over /\ proc'[s].policy = proc[s].policy
    <3> DEFINE g == Gone(proc[s], pc)
    <3>1. g.pc = pc /\ g.policy = proc[s].policy BY <2>0, GoneFields
    <3> QED BY <2>1, <3>1
  <2>2. CASE q.pc \notin Over /\ proc'[s] = [q EXCEPT !.run = workers'] BY <2>2
  <2> QED BY <2>0, <2>1, <2>2, UpdateEffect
<1>4. proc[s].pc \in {"probe", "create"} => proc'[s].pc \notin Executing
  <2>1. ASSUME NEW pc \in Over, proc'[s] = Gone(proc[s], pc) PROVE proc'[s].pc \notin Executing
    <3> DEFINE g == Gone(proc[s], pc)
    <3>1. proc[s] \in Procs BY DEF TypeOK
    <3>2. g.pc = pc BY <3>1, GoneFields
    <3> QED BY <2>1, <3>2 DEF Over, Executing
  <2>2. ASSUME proc'[s] = [q EXCEPT !.run = workers'] PROVE proc'[s].pc = q.pc
    <3>1. q \in Procs BY DEF Update
    <3> DEFINE n == [q EXCEPT !.run = workers']
    <3>2. n.pc = q.pc BY <3>1, ResumedFields
    <3> QED BY <2>2, <3>2
  <2> QED BY <2>1, <2>2, UpdateEffect DEF Over
<1> QED BY <1>1, <1>2, <1>3, <1>4 DEF Moves

\* The fields that do not change as the process goes on.
LEMMA GoesOnWith ==
  ASSUME NEW p, NEW q \in Procs, Keeps(p, q), <<p.pc, q.pc>> \in Flow,
         p.pc \notin {"probe", "clean"}, q.pc # "deleted",
         p.pc \notin {"plan", "replan", "delete"} => q.target = p.target,
         q.pc = "clean" => p.cleanup,
         p.pc \in {"plan", "replan"} /\ q.pc # "clean" =>
           q.target \in ReadyIds(View(p.run), BlockedIds(View(p.run), {}))
  PROVE  \A r : GoesOn(p, [q EXCEPT !.run = r], r)
<1> TAKE r
<1> DEFINE n == [q EXCEPT !.run = r]
<1>1. n.run = r /\ n.pc = q.pc /\ n.target = q.target /\ Keeps(q, n)
  BY ResumedFields
<1> HIDE DEF n
<1>2. GoesOn(p, n, r) BY <1>1 DEF GoesOn, Keeps
<1> QED BY <1>2 DEF n

\* An update of the worker being executed.
LEMMA TargetMoves ==
  ASSUME TypeOK, NEW s \in Starters, NEW t, NEW q, Update(s, [w \in {q.target} |-> t], q),
         Keeps(proc[s], q), q.target = proc[s].target, <<proc[s].pc, q.pc>> \in Flow,
         proc[s].pc \in Executing \ {"create", "replan"}, q.pc \in Executing,
         Asks(proc[s], proc[s].target, t)
  PROVE  Moves(s)
<1> DEFINE tr == [w \in {q.target} |-> t]
<1>1. \A w \in DOMAIN tr : Asks(proc[s], w, tr[w]) OBVIOUS
<1>2. Update(s, tr, q) OBVIOUS
<1> HIDE DEF tr
<1>3. q \in Procs BY <1>2 DEF Update
<1>4. \A r : GoesOn(proc[s], [q EXCEPT !.run = r], r)
  BY <1>3, GoesOnWith DEF Executing
<1>5. proc[s].pc \notin {"probe", "create"} BY DEF Executing
<1> QED BY <1>1, <1>2, <1>4, <1>5, UpdateMoves

LEMMA WorkMoves ==
  ASSUME TypeOK, NEW s \in Starters, Work(s)
  PROVE  Moves(s)
<1> DEFINE p == proc[s]
<1>0. p \in Procs /\ proc \in [Starters -> Procs] /\ workers \in Records
  BY DEF TypeOK
<1>1. CASE Recover(s)
  <2>1. PICK tr : \E q :
          /\ Update(s, tr, q) /\ Keeps(p, q) /\ p.pc = "recover" /\ q.pc = "plan"
          /\ q.target = p.target
          /\ \A w \in DOMAIN tr :
               /\ w \in Timed /\ tr[w].name = "timed_out"
               /\ tr[w].available => RetriesTimeouts(p.run[w])
    BY <1>1, RecoverEffect
  <2>2. PICK q :
          /\ Update(s, tr, q) /\ Keeps(p, q) /\ p.pc = "recover" /\ q.pc = "plan"
          /\ q.target = p.target
    BY <2>1
  <2>3. \A w \in DOMAIN tr : Asks(p, w, tr[w]) BY <2>1 DEF Asks
  <2>4. <<p.pc, q.pc>> \in Flow BY <2>2 DEF Flow
  <2>5. q \in Procs BY <2>2 DEF Update
  <2> HIDE DEF p
  <2>6. \A r : GoesOn(p, [q EXCEPT !.run = r], r) BY <2>2, <2>4, <2>5, GoesOnWith
  <2> QED BY <2>2, <2>3, <2>6, UpdateMoves DEF p
<1>2. CASE ProbeFails(s)
  <2>1. PICK tr : \E q :
          /\ Update(s, tr, q) /\ p.pc = "probe" /\ q.pc = "ended"
          /\ \A w \in DOMAIN tr : tr[w].name = "failed" /\ ~tr[w].retryable
    BY <1>2, ProbeFailsEffect
  <2>2. \A w \in DOMAIN tr : Asks(p, w, tr[w]) BY <2>1 DEF Asks
  <2>3. "ended" \in Over /\ "ended" \notin Executing BY DEF Over, Executing
  <2> QED BY <2>1, <2>2, <2>3, UpdateMoves
<1>3. CASE CreationFails(s)
  <2>1. PICK tr : \E q :
          /\ Update(s, tr, q) /\ Keeps(p, q) /\ p.pc = "create" /\ q.pc = Executed(p)
          /\ q.target = p.target
          /\ \A w \in DOMAIN tr : tr[w].name = "failed" /\ ~tr[w].retryable
    BY <1>3, CreationFailsEffect
  <2>2. PICK q :
          /\ Update(s, tr, q) /\ Keeps(p, q) /\ p.pc = "create" /\ q.pc = Executed(p)
          /\ q.target = p.target
    BY <2>1
  <2>3. \A w \in DOMAIN tr : Asks(p, w, tr[w]) BY <2>1 DEF Asks
  <2>4. q \in Procs BY <2>2 DEF Update
  <2>5. q.pc = "ended" \/ (q.pc = "clean" /\ p.cleanup) BY <2>2 DEF Executed
  <2> HIDE DEF p
  <2>6. q.pc \notin Over => \A r : GoesOn(p, [q EXCEPT !.run = r], r)
    <3>1. CASE q.pc = "clean"
      <4>1. <<p.pc, q.pc>> \in Flow BY <2>2, <3>1 DEF Flow
      <4> QED BY <2>2, <2>4, <2>5, <3>1, <4>1, GoesOnWith
    <3> QED BY <2>5, <3>1 DEF Over
  <2>7. q.pc \notin Executing BY <2>5 DEF Executing
  <2> QED BY <2>2, <2>3, <2>6, <2>7, UpdateMoves DEF p
<1>4. CASE Plan(s)
  <2> DEFINE v       == View(p.run)
             blocked == BlockedIds(v, {})
             tr      == [w \in blocked |-> DependencyBlocked]
             q       == Selected(p, ReadyIds(v, blocked))
  <2>1. /\ Update(s, tr, q) /\ Keeps(p, q)
        /\ \/ p.pc = "plan" /\ q.pc \in {"ended", "probe"}
           \/ p.pc = "replan" /\ q.pc \in {Executed(p), "provision"}
        /\ q.pc \in {"probe", "provision"} => q.target \in ReadyIds(v, blocked)
    BY <1>4, PlanEffect
  <2>2. \A w \in DOMAIN tr : Asks(p, w, tr[w]) BY <2>1 DEF DependencyBlocked, Asks
  <2>3. \/ q.pc = "ended"
        \/ q.pc = "clean" /\ p.cleanup /\ p.pc = "replan"
        \/ q.pc = "probe" /\ p.pc = "plan"
        \/ q.pc = "provision" /\ p.pc = "replan"
    BY <2>1 DEF Executed
  <2> HIDE DEF tr, q, p, v, blocked
  <2>4. q \in Procs BY <2>1 DEF Update
  <2>5. q.pc \notin Over => \A r : GoesOn(p, [q EXCEPT !.run = r], r)
    <3> SUFFICES ASSUME q.pc \notin Over PROVE \A r : GoesOn(p, [q EXCEPT !.run = r], r)
      OBVIOUS
    <3>1. q.pc # "ended" BY DEF Over
    <3>2. <<p.pc, q.pc>> \in Flow BY <2>3, <3>1 DEF Flow
    <3>3. q.pc # "clean" => q.target \in ReadyIds(View(p.run), BlockedIds(View(p.run), {}))
      BY <2>1, <2>3, <3>1 DEF v, blocked
    <3> QED BY <2>1, <2>3, <2>4, <3>1, <3>2, <3>3, GoesOnWith
  <2> QED BY <2>1, <2>2, <2>5, UpdateMoves DEF p
<1>5. CASE Provision(s)
  <2> DEFINE q == [p EXCEPT !.pc = "active"]
             t == Provisioned(p.run[p.target])
  <2>1. /\ Update(s, [w \in {q.target} |-> t], q) /\ Keeps(p, q)
        /\ p.pc \in {"provision", "provisioned"} /\ q.pc = "active"
        /\ q.target = p.target
    BY <1>5, ProvisionEffect
  <2>2. Asks(p, p.target, t) BY <2>1 DEF Asks, Provisioned
  <2> HIDE DEF q, t
  <2> QED BY <2>1, <2>2, TargetMoves DEF Executing, Flow
<1>6. CASE Activate(s)
  <2> DEFINE q == [p EXCEPT !.pc = "attempt"]
  <2>1. /\ Update(s, [w \in {q.target} |-> MarkActive], q) /\ Keeps(p, q)
        /\ p.pc = "active" /\ q.pc = "attempt" /\ q.target = p.target
    BY <1>6, ActivateEffect
  <2>2. Asks(p, p.target, MarkActive) BY <2>1 DEF Asks, MarkActive
  <2> HIDE DEF q
  <2> QED BY <2>1, <2>2, TargetMoves DEF Executing, Flow
<1>7. CASE StartAttempt(s)
  <2> DEFINE t == AttemptStarted(p.run[p.target])
  <2>1. PICK q :
          /\ Update(s, [w \in {q.target} |-> t], q) /\ Keeps(p, q)
          /\ p.pc = "attempt" /\ q.pc \in {"refused", "prompt"} /\ q.target = p.target
    BY <1>7, StartAttemptEffect
  <2>2. Asks(p, p.target, t) BY <2>1 DEF Asks, AttemptStarted
  <2> HIDE DEF t
  <2> QED BY <2>1, <2>2, TargetMoves DEF Executing, Flow
<1>8. CASE Answer(s)
  <2> DEFINE w == p.run[p.target]
             Ends(status) == [id |-> p.attempt, status |-> status]
  <2>1. PICK t \in Transitions : \E q :
          /\ Update(s, [x \in {q.target} |-> t], q) /\ Keeps(p, q)
          /\ p.pc \in {"prompt", "refused"} /\ q.pc = "replan" /\ q.target = p.target
          /\ t.name \in {"result_applied", "retry_scheduled", "failed", "timed_out"}
          /\ \/ \E status \in ResultStatuses : t = ApplyResult(status, Ends("completed"))
             \/ t = ScheduleRetry(w, Ends("retry_scheduled"))
             \/ \E c \in FailureCategories :
                  t = MarkFailed(w, c, TRUE, Ends("failed")) /\ ~t.available
             \/ t = MarkTimeout(w, Ends("failed")) /\ "timeout" \in Failures
    BY <1>8, AnswerEffect
  <2>2. p.pc \in {"prompt", "refused"} BY <2>1
  <2>3. Asks(p, p.target, t)
    <3>1. t.name \in {"result_applied", "retry_scheduled", "failed", "timed_out"}
      BY <2>1
    <3>2. t.name = "failed" => ~t.available
      BY <2>1 DEF ApplyResult, ScheduleRetry, MarkFailed, MarkTimeout
    <3>3. ASSUME t.name = "timed_out"
          PROVE  "timeout" \in Failures /\ (t.available => RetriesTimeouts(w))
      <4>1. t = MarkTimeout(w, Ends("failed")) /\ "timeout" \in Failures
        BY <2>1, <3>3 DEF ApplyResult, ScheduleRetry, MarkFailed
      <4>2. t.available = RetryAvailable(w, "timeout") BY <4>1 DEF MarkTimeout
      <4> HIDE DEF w
      <4> QED BY <4>1, <4>2, Zenon DEF RetryAvailable, RetriesTimeouts
    <3>4. t.name = "retry_scheduled" => t.retryCount = w.retryCount + 1
      BY <2>1 DEF ApplyResult, ScheduleRetry, MarkFailed, MarkTimeout
    <3> HIDE DEF p
    <3> QED BY <2>2, <3>1, <3>2, <3>3, <3>4 DEF Asks
  <2> HIDE DEF w, Ends
  <2> QED BY <2>1, <2>3, TargetMoves DEF Executing, Flow
<1>9. CASE RecordCleanup(s)
  <2> DEFINE t == CleanupUpdated(p.todo[p.target])
  <2>0. PICK q : Update(s, [w \in {q.target} |-> t], q) /\ Recorded(p, q)
    BY <1>9, RecordCleanupEffect
  <2>1. /\ Update(s, [w \in {q.target} |-> t], q)
        /\ p.pc = "deleted" /\ q.target = p.target /\ q.cleanup = p.cleanup
        /\ q.base = p.base /\ q.policy = p.policy
        /\ q.pc \in {"delete", "unclean", "ended"}
    BY <2>0 DEF Recorded
  <2> DEFINE tr == [w \in {q.target} |-> t]
  <2>2. \A w \in DOMAIN tr : Asks(p, w, tr[w]) BY <2>1 DEF Asks, CleanupUpdated
  <2>3. Update(s, tr, q) /\ q \in Procs BY <2>1 DEF Update
  <2> HIDE DEF tr, p
  <2>4. q.pc \notin Over => \A r : GoesOn(p, [q EXCEPT !.run = r], r)
    <3> SUFFICES ASSUME q.pc \notin Over, NEW r PROVE GoesOn(p, [q EXCEPT !.run = r], r)
      OBVIOUS
    <3> DEFINE n == [q EXCEPT !.run = r]
    <3>1. n.run = r /\ n.pc = q.pc /\ n.target = q.target /\ Keeps(q, n)
      BY <2>3, ResumedFields
    <3>2. q.pc = "delete" BY <2>1 DEF Over
    <3> HIDE DEF n
    <3>3. GoesOn(p, n, r) BY <2>1, <3>1, <3>2 DEF GoesOn, Keeps, Flow
    <3> QED BY <3>3 DEF n
  <2>5. p.pc \notin {"probe", "create"} BY <2>1
  <2> QED BY <2>2, <2>3, <2>4, <2>5, UpdateMoves DEF p
<1>10. ASSUME UNCHANGED <<deps, workers>>, NEW q, proc' = [proc EXCEPT ![s] = q],
              (q.pc \in Over /\ q.policy = p.policy) \/ GoesOn(p, q, workers)
       PROVE  Moves(s)
  <2>1. proc'[s] = q /\ \A t \in Starters : t # s => proc'[t] = proc[t]
    BY <1>0, <1>10
  <2>2. \A w \in Worker : SameProgress(workers[w], workers'[w])
    BY <1>10 DEF SameProgress
  <2> QED BY <1>10, <2>1, <2>2 DEF Moves
<1>11. CASE Begin(s)
  <2> DEFINE q == [p EXCEPT !.pc = "recover", !.run = workers]
  <2>1. proc' = [proc EXCEPT ![s] = q] /\ p.pc = "begin" /\ UNCHANGED <<deps, workers>>
    BY <1>0, <1>11 DEF Begin
  <2>2. GoesOn(p, q, workers) BY <1>0, <2>1 DEF Procs, GoesOn, Flow
  <2> QED BY <1>10, <2>1, <2>2
<1>12. CASE MarkRunActive(s)
  <2> DEFINE q == [p EXCEPT !.pc = "provision", !.run = workers, !.base = workers]
  <2>1. proc' = [proc EXCEPT ![s] = q] /\ p.pc = "probe" /\ UNCHANGED <<deps, workers>>
    BY <1>0, <1>12 DEF MarkRunActive
  <2>2. GoesOn(p, q, workers) BY <1>0, <2>1 DEF Procs, GoesOn, Flow
  <2> QED BY <1>10, <2>1, <2>2
<1>13. CASE Intend(s)
  <2> DEFINE q == [p EXCEPT !.pc = "create", !.run = workers]
  <2>1. proc' = [proc EXCEPT ![s] = q] /\ p.pc = "provision" /\ UNCHANGED <<deps, workers>>
    BY <1>0, <1>13 DEF Intend
  <2>2. GoesOn(p, q, workers) BY <1>0, <2>1 DEF Procs, GoesOn, Flow
  <2> QED BY <1>10, <2>1, <2>2
<1>14. CASE CreateSession(s)
  <2>1. p.pc = "create" /\ deps' = deps BY <1>14, CreateSessionEffect, Zenon
  <2>2. \A w \in Worker : SameProgress(workers[w], workers'[w])
    BY <1>14, CreateSessionKeeps, SMTT(30) DEF SameProgress
  <2>3. GoesOn(p, proc'[s], workers') /\ \A t \in Starters : t # s => proc'[t] = proc[t]
    <3>1. CASE /\ workers' = workers
               /\ proc' = [proc EXCEPT ![s] = [p EXCEPT !.pc = "provisioned",
                                                       !.run = workers]]
      <4> DEFINE q == [p EXCEPT !.pc = "provisioned", !.run = workers]
      <4>1. proc'[s] = q /\ \A t \in Starters : t # s => proc'[t] = proc[t]
        BY <1>0, <3>1
      <4>2. GoesOn(p, q, workers) BY <1>0, <2>1 DEF Procs, GoesOn, Flow
      <4> QED BY <3>1, <4>1, <4>2
    <3>2. ASSUME NEW x,
                 proc' = [proc EXCEPT ![s] =
                       [p EXCEPT !.pc = "provisioned", !.run = workers',
                                 !.remembered = IF p.cleanup
                                   THEN [p.remembered EXCEPT ![p.target] = @ \cup {x}]
                                   ELSE p.remembered]]
          PROVE  GoesOn(p, proc'[s], workers') /\ \A t \in Starters : t # s => proc'[t] = proc[t]
      <4> DEFINE remembered == IF p.cleanup
                               THEN [p.remembered EXCEPT ![p.target] = @ \cup {x}]
                               ELSE p.remembered
                 q == [p EXCEPT !.pc = "provisioned", !.run = workers',
                                !.remembered = remembered]
      <4>1. proc'[s] = q /\ \A t \in Starters : t # s => proc'[t] = proc[t]
        BY <1>0, <3>2
      <4> HIDE DEF remembered
      <4>2. GoesOn(p, q, workers') BY <1>0, <2>1 DEF Procs, GoesOn, Flow
      <4> QED BY <4>1, <4>2
    <3> QED BY <1>14, <3>1, <3>2, CreateSessionEffect, Zenon
  <2> QED BY <2>1, <2>2, <2>3, SMTT(30) DEF Moves
<1>15. CASE PlanCleanup(s)
  <2>0. p.pc = "clean" /\ UNCHANGED <<deps, workers>> BY <1>15 DEF PlanCleanup
  <2>1. CASE Leaves(s, "ended")
    <3> DEFINE g == Gone(p, "ended")
    <3>1. proc' = [proc EXCEPT ![s] = g] BY <2>1, LeavesEffect DEF Gone
    <3>2. g.pc = "ended" /\ g.policy = p.policy BY <1>0, GoneFields
    <3> HIDE DEF g
    <3> QED BY <1>10, <2>0, <3>1, <3>2 DEF Over
  <2>2. CASE proc' = [proc EXCEPT ![s].pc = "delete", ![s].todo = Listed(p)]
    <3> DEFINE q == [p EXCEPT !.pc = "delete", !.todo = Listed(p)]
    <3>1. proc' = [proc EXCEPT ![s] = q] BY <1>0, <2>2
    <3>2. GoesOn(p, q, workers) BY <1>0, <2>0 DEF Procs, GoesOn, Flow
    <3> QED BY <1>10, <2>0, <3>1, <3>2
  <2> QED BY <1>15, <2>1, <2>2 DEF PlanCleanup
<1>16. CASE DeleteSessions(s)
  <2>0. UNCHANGED <<deps, workers>> /\ p.pc = "delete" BY <1>16 DEF DeleteSessions
  <2>1. PICK w \in Worker : \E gone \in SUBSET p.todo[w] :
              \E verified \in SUBSET (p.todo[w] \cap deleted') :
                   proc' = [proc EXCEPT ![s] =
                     [p EXCEPT !.pc = "deleted", !.target = w,
                               !.todo = [p.todo EXCEPT ![w] = @ \ verified],
                               !.failed = @ \/ p.todo[w] \ verified # {}]]
    BY <1>16, DeleteSessionsEffect, Zenon
  <2>2. PICK verified \in SUBSET (p.todo[w] \cap deleted') :
          proc' = [proc EXCEPT ![s] =
                     [p EXCEPT !.pc = "deleted", !.target = w,
                               !.todo = [p.todo EXCEPT ![w] = @ \ verified],
                               !.failed = @ \/ p.todo[w] \ verified # {}]]
    BY <2>1, Zenon
  <2> DEFINE todo == [p.todo EXCEPT ![w] = @ \ verified]
             failed == p.failed \/ p.todo[w] \ verified # {}
             q == [p EXCEPT !.pc = "deleted", !.target = w, !.todo = todo,
                            !.failed = failed]
  <2>3. proc' = [proc EXCEPT ![s] = q] BY <2>2
  <2> HIDE DEF todo, failed
  <2>4. GoesOn(p, q, workers) BY <1>0, <2>0 DEF Procs, GoesOn, Flow
  <2> QED BY <1>10, <2>0, <2>3, <2>4
<1> QED
  BY <1>1, <1>2, <1>3, <1>4, <1>5, <1>6, <1>7, <1>8, <1>9, <1>11, <1>12, <1>13,
     <1>14, <1>15, <1>16 DEF Work

-----------------------------------------------------------------------------
(* Dependencies run first.                                                 *)

\* Nothing that is still legal leaves done_collect.
LEMMA DoneStays ==
  ASSUME NEW w \in Workers, NEW t \in Transitions, Legal(w, t),
         w.lifecycle = "done_collect"
  PROVE  ApplyTransition(w, t).lifecycle = "done_collect"
<1>1. ~AcceptedAbort(w) BY DEF AcceptedAbort, AbortedStates
<1>2. t.name = "cleanup_updated"
  BY <1>1, TransitionFields
     DEF Legal, Sources, StartSources, RetrySources, ActiveStates, BlockedStates, AbortedStates
<1> QED BY <1>1, <1>2, ApplyEffect DEF Swallows, Landing

\* What a process took for done is done, and so are the dependencies of the
\* worker it executes, in the record the others change.
DoneBy(p) ==
  /\ p.pc \in Busy \ {"begin"} =>
       \A w \in Worker : p.run[w].lifecycle = "done_collect"
                           => workers[w].lifecycle = "done_collect"
  /\ p.pc \in (Executing \ {"replan"}) \cup {"probe"} =>
       \A d \in deps[p.target] : d \in Worker /\ workers[d].lifecycle = "done_collect"

DependenciesTracked == \A s \in Starters : DoneBy(proc[s])

\* No start can be given a new prompt for a worker another one depends on.
Undisturbed == Reprompted = {} \/ \A s, t \in Starters : s = t

\* It holds for a process that a step leaves alone.
LEMMA DoneByStays ==
  ASSUME NEW s \in Starters, DoneBy(proc[s]), proc'[s] = proc[s], deps' = deps,
         \A w \in Worker : workers[w].lifecycle = "done_collect"
                             => workers'[w].lifecycle = "done_collect"
  PROVE  DoneBy(proc[s])'
BY DEF DoneBy

\* No worker that is done changes its state in a step of a process.
LEMMA MovesKeepDone ==
  ASSUME TypeOK, NEW s \in Starters, Moves(s), NEW w \in Worker,
         workers[w].lifecycle = "done_collect"
  PROVE  workers'[w].lifecycle = "done_collect"
<1>1. workers[w] \in Workers BY DEF TypeOK, Records
<1>2. CASE SameProgress(workers[w], workers'[w]) BY <1>2 DEF SameProgress
<1>3. ASSUME NEW t \in Transitions, Legal(workers[w], t),
             workers'[w] = ApplyTransition(workers[w], t)
      PROVE  workers'[w].lifecycle = "done_collect"
  BY <1>1, <1>3, DoneStays
<1> QED BY <1>2, <1>3 DEF Moves

LEMMA DoneByMoves ==
  ASSUME TypeOK, NEW s \in Starters, Moves(s), DoneBy(proc[s])
  PROVE  DoneBy(proc[s])'
<1> DEFINE p == proc[s]
           q == proc'[s]
<1>1. \A w \in Worker : workers[w].lifecycle = "done_collect"
                          => workers'[w].lifecycle = "done_collect"
  BY MovesKeepDone
<1>2. deps' = deps BY DEF Moves
<1>3. CASE q.pc \in Over BY <1>3 DEF Over, Busy, Executing, DoneBy
<1>4. CASE GoesOn(p, q, workers')
  <2>1. ASSUME NEW w \in Worker, q.pc \in Busy \ {"begin"},
               q.run[w].lifecycle = "done_collect"
        PROVE  workers'[w].lifecycle = "done_collect"
    <3>1. CASE q.run = workers' BY <2>1, <3>1
    <3>2. CASE q.pc = "deleted" \/ p.pc = "clean"
      <4>1. q.run = p.run BY <1>4, <3>2 DEF GoesOn
      <4>2. p.pc \in {"delete", "clean"} BY <1>4, <3>2 DEF GoesOn, Flow
      <4>3. p.pc \in Busy \ {"begin"} BY <4>2 DEF Busy
      <4> QED BY <1>1, <2>1, <4>1, <4>3 DEF DoneBy
    <3> QED BY <1>4, <3>1, <3>2 DEF GoesOn
  <2>2. ASSUME q.pc \in (Executing \ {"replan"}) \cup {"probe"}, NEW d \in deps[q.target]
        PROVE  d \in Worker /\ workers'[d].lifecycle = "done_collect"
    <3>1. CASE p.pc \in {"plan", "replan"}
      <4> DEFINE v == View(p.run)
      <4>1. q.target \in ReadyIds(v, BlockedIds(v, {}))
        BY <1>4, <2>2, <3>1 DEF GoesOn, Executing
      <4>2. \A e \in v.deps[q.target] : e \in Ids(v) /\ v.life[e] = "done_collect"
        BY <4>1 DEF ReadyIds, DependenciesDone
      <4>3. d \in Worker /\ p.run[d].lifecycle = "done_collect"
        BY <2>2, <4>2 DEF View, Ids
      <4>4. p.pc \in Busy \ {"begin"} BY <3>1 DEF Busy
      <4> QED BY <1>1, <4>3, <4>4 DEF DoneBy
    <3>2. CASE p.pc \notin {"plan", "replan"}
      <4>1. p.pc \in (Executing \ {"replan"}) \cup {"probe"} /\ p.pc # "delete"
        BY <1>4, <2>2, <3>2 DEF GoesOn, Flow, Executing
      <4>2. q.target = p.target BY <1>4, <3>2, <4>1 DEF GoesOn
      <4> QED BY <1>1, <2>2, <4>1, <4>2 DEF DoneBy
    <3> QED BY <3>1, <3>2
  <2> QED BY <1>2, <2>1, <2>2 DEF DoneBy
<1> QED BY <1>3, <1>4 DEF Moves

LEMMA DependenciesTrackedStep ==
  ASSUME Undisturbed
  PROVE  TypeOK /\ DependenciesTracked /\ [Next]_vars => DependenciesTracked'
<1> SUFFICES ASSUME TypeOK, DependenciesTracked, [Next]_vars, NEW x \in Starters
             PROVE  DoneBy(proc[x])'
  BY DEF DependenciesTracked
<1>0. /\ DoneBy(proc[x]) /\ proc \in [Starters -> Procs] /\ workers \in Records
  BY DEF DependenciesTracked, TypeOK
<1>1. CASE UNCHANGED vars
  BY <1>0, <1>1, DoneByStays DEF vars
<1>2. ASSUME NEW s \in Starters, Work(s) PROVE DoneBy(proc[x])'
  <2>1. Moves(s) BY <1>2, WorkMoves
  <2>2. \A w \in Worker : workers[w].lifecycle = "done_collect"
                            => workers'[w].lifecycle = "done_collect"
    BY <2>1, MovesKeepDone
  <2>3. CASE x = s BY <1>0, <2>1, <2>3, DoneByMoves
  <2>4. CASE x # s
    <3>1. proc'[x] = proc[x] /\ deps' = deps BY <2>1, <2>4 DEF Moves
    <3> QED BY <1>0, <2>2, <3>1, DoneByStays
  <2> QED BY <2>3, <2>4
<1>3. ASSUME NEW s \in Starters, Request(s) PROVE DoneBy(proc[x])'
  <2>0. deps' = deps BY <1>3 DEF Request
  <2>1. CASE x = s
    <3>1. PICK policy, cleanup :
            proc' = [proc EXCEPT ![s] = Proc("begin", policy, cleanup, @.starts + 1)]
      BY <1>3 DEF Request
    <3>2. proc'[x].pc = "begin" BY <1>0, <2>1, <3>1 DEF Proc
    <3> QED BY <3>2 DEF DoneBy, Executing
  <2>2. CASE x # s
    <3>1. workers' = workers BY <1>3, <2>2 DEF Request, Undisturbed
    <3>2. proc'[x] = proc[x] BY <1>0, <1>3, <2>2 DEF Request
    <3> QED BY <1>0, <2>0, <3>1, <3>2, DoneByStays
  <2> QED BY <2>1, <2>2
<1>4. ASSUME NEW s \in Starters, Stop(s) PROVE DoneBy(proc[x])'
  <2>1. deps' = deps /\ workers' = workers /\ Leaves(s, "stopped") BY <1>4 DEF Stop
  <2>2. CASE x = s
    <3> DEFINE g == Gone(proc[s], "stopped")
    <3>1. proc' = [proc EXCEPT ![s] = g] BY <2>1, LeavesEffect DEF Gone
    <3>2. g.pc = "stopped" BY <1>0, GoneFields, ZenonT(30)
    <3> HIDE DEF g
    <3>3. proc'[x].pc = "stopped" BY <1>0, <2>2, <3>1, <3>2
    <3> QED BY <3>3 DEF DoneBy, Busy, Executing
  <2>3. CASE x # s
    <3>1. proc'[x] = proc[x] BY <1>0, <2>1, <2>3, LeavesEffect
    <3> QED BY <1>0, <2>1, <3>1, DoneByStays
  <2> QED BY <2>2, <2>3
<1>5. ASSUME NEW a \in Abortable, Abort(a) PROVE DoneBy(proc[x])'
  <2>1. PICK accepted \in BOOLEAN :
          /\ Legal(workers[a], MarkAborted(accepted))
          /\ workers' = [workers EXCEPT
                           ![a] = ApplyTransition(workers[a], MarkAborted(accepted))]
    BY <1>5 DEF Abort
  <2>2. MarkAborted(accepted) \in Transitions
    BY DEF MarkAborted, NoFinalization, Transitions, Finalizations, AttemptStatuses
  <2>3. ASSUME NEW w \in Worker, workers[w].lifecycle = "done_collect"
        PROVE  workers'[w].lifecycle = "done_collect"
    <3>1. workers[w] \in Workers BY <1>0 DEF Records
    <3>2. CASE w = a
      <4>1. workers'[w] = ApplyTransition(workers[w], MarkAborted(accepted))
        BY <1>0, <2>1, <3>2 DEF Records
      <4> QED BY <2>1, <2>2, <2>3, <3>1, <3>2, <4>1, DoneStays
    <3>3. CASE w # a BY <1>0, <2>1, <2>3, <3>3 DEF Records
    <3> QED BY <3>2, <3>3
  <2>4. proc' = proc /\ deps' = deps BY <1>5 DEF Abort
  <2> QED BY <1>0, <2>3, <2>4, DoneByStays
<1> QED BY <1>1, <1>2, <1>3, <1>4, <1>5 DEF Next

\* Who adds an attempt to a worker.
LEMMA AttemptBy ==
  ASSUME TypeOK, Next, NEW w \in Worker,
         Len(workers'[w].attempts) > Len(workers[w].attempts)
  PROVE  \E s \in Starters : proc[s].pc = "attempt" /\ proc[s].target = w
<1>0. /\ proc \in [Starters -> Procs] /\ workers \in Records /\ workers[w] \in Workers
      /\ Len(workers[w].attempts) \in Nat
  BY DEF TypeOK, Records, Workers
<1>1. workers'[w].attempts # workers[w].attempts BY <1>0
<1>2. ASSUME NEW s \in Starters, Work(s)
      PROVE  proc[s].pc = "attempt" /\ proc[s].target = w
  <2>1. Moves(s) BY <1>2, WorkMoves
  <2>2. ~SameProgress(workers[w], workers'[w]) BY <1>1 DEF SameProgress
  <2>3. PICK t \in Transitions :
          Asks(proc[s], w, t) /\ workers'[w] = ApplyTransition(workers[w], t)
    BY <2>1, <2>2 DEF Moves
  <2>4. t.name = "attempt_started"
    <3>1. t.name # "attempt_started" => Len(workers'[w].attempts) = Len(workers[w].attempts)
      BY <1>0, <2>3, ApplyEffect
    <3> QED BY <1>0, <3>1
  <2> QED BY <2>3, <2>4 DEF Asks
<1>3. ASSUME NEW s \in Starters, Request(s) PROVE FALSE
  <2>1. PICK x \in Worker : workers' = [workers EXCEPT ![x] = RequeuedWorker(@)]
    BY <1>1, <1>3, SubsetsAssumption DEF Request
  <2>2. CASE x = w
    <3>1. workers'[w] = RequeuedWorker(workers[w]) BY <1>0, <2>1, <2>2 DEF Records
    <3>2. workers'[w].attempts = workers[w].attempts
      BY <1>0, <3>1 DEF RequeuedWorker, Workers
    <3> QED BY <1>1, <3>2
  <2>3. CASE x # w BY <1>0, <1>1, <2>1, <2>3 DEF Records
  <2> QED BY <2>2, <2>3
<1>4. ASSUME NEW s \in Starters, Stop(s) PROVE FALSE
  BY <1>1, <1>4 DEF Stop
<1>5. ASSUME NEW a \in Abortable, Abort(a) PROVE FALSE
  <2>1. PICK accepted \in BOOLEAN :
          workers' = [workers EXCEPT
                        ![a] = ApplyTransition(workers[a], MarkAborted(accepted))]
    BY <1>5 DEF Abort
  <2>2. MarkAborted(accepted) \in Transitions /\ MarkAborted(accepted).name = "aborted"
    BY DEF MarkAborted, NoFinalization, Transitions, Finalizations, AttemptStatuses
  <2>3. CASE a = w
    <3>1. workers'[w] = ApplyTransition(workers[w], MarkAborted(accepted))
      BY <1>0, <2>1, <2>3 DEF Records
    <3>2. Len(workers'[w].attempts) = Len(workers[w].attempts)
      BY <1>0, <2>2, <3>1, ApplyEffect
    <3> QED BY <1>0, <3>2
  <2>4. CASE a # w BY <1>0, <1>1, <2>1, <2>4 DEF Records
  <2> QED BY <2>3, <2>4
<1> QED BY <1>2, <1>3, <1>4, <1>5 DEF Next

\* An attempt is started only of a worker whose dependencies are all done in the
\* shared record, although its process planned with a record of its own: as long
\* as no second start can queue a finished worker again by giving it a prompt.
THEOREM DependenciesRunFirst ==
  ASSUME Undisturbed
  PROVE  Spec => DependenciesFirst
<1>1. Init => DependenciesTracked
  BY DEF Init, Proc, DependenciesTracked, DoneBy, Busy, Executing
<1>2. TypeOK /\ DependenciesTracked /\ [Next]_vars => [StartsAfterDependencies]_vars
  <2> SUFFICES ASSUME TypeOK, DependenciesTracked, Next, NEW w \in Worker,
                      Len(workers'[w].attempts) > Len(workers[w].attempts),
                      NEW d \in deps[w]
               PROVE  d \in Worker /\ workers[d].lifecycle = "done_collect"
    BY DEF StartsAfterDependencies
  <2>1. PICK s \in Starters : proc[s].pc = "attempt" /\ proc[s].target = w BY AttemptBy
  <2>2. DoneBy(proc[s]) BY DEF DependenciesTracked
  <2> QED BY <2>1, <2>2 DEF DoneBy, Executing
<1> QED
  BY <1>1, <1>2, InitTyped, NextTyped, DependenciesTrackedStep, PTL
     DEF Spec, DependenciesFirst

-----------------------------------------------------------------------------
(* Every attempt after the first is counted as a retry.                    *)

\* One start at a time, and no new prompts: another way to an attempt that is
\* not a retry.
OneStart    == \A s, t \in Starters : s = t
OnlyRetries == OneStart /\ Reprompted = {}

SameCount(w, n) ==
  /\ Len(n.attempts) = Len(w.attempts) /\ n.retryCount = w.retryCount
  /\ n.retryOn = w.retryOn

\* All attempts of a worker that may be picked up are counted.
AllCounted(w) == RetriesTimeouts(w) \/ Len(w.attempts) <= w.retryCount

\* A worker that does not retry timeouts is never left for another start.
Counted(w) ==
  /\ w.lifecycle \in {"queued", "active_retry"} => AllCounted(w)
  /\ w.lifecycle \in RetrySources => RetriesTimeouts(w)
  /\ RetriesTimeouts(w) \/ EachIsCounted(w)

\* A process knows the counts, and its target may have another attempt.
CountKnown(p) ==
  /\ p.pc \in Busy \ {"begin"} =>
       \A w \in Worker : Counted(p.run[w]) /\ SameCount(workers[w], p.run[w])
  /\ p.pc \in {"probe", "provision", "create", "provisioned", "active", "attempt"} =>
       AllCounted(workers[p.target])

CountsTracked ==
  /\ \A w \in Worker : Counted(workers[w])
  /\ \A s \in Starters : CountKnown(proc[s])

\* The counts change in an attempt's start and its end only.
LEMMA MovesKeepCounts ==
  ASSUME TypeOK, NEW s \in Starters, Moves(s), NEW w \in Worker,
         proc[s].pc \notin {"attempt", "prompt", "refused"}
  PROVE  SameCount(workers[w], workers'[w])
<1>1. workers[w] \in Workers BY DEF TypeOK, Records
<1>2. CASE SameProgress(workers[w], workers'[w]) BY <1>2 DEF SameProgress, SameCount
<1>3. ASSUME NEW t \in Transitions, Asks(proc[s], w, t),
             workers'[w] = ApplyTransition(workers[w], t)
      PROVE  SameCount(workers[w], workers'[w])
  <2>1. t.name # "attempt_started" /\ t.name # "retry_scheduled" BY <1>3 DEF Asks
  <2> QED BY <1>1, <1>3, <2>1, ApplyEffect, RetryCounterEffect DEF SameCount
<1> QED BY <1>2, <1>3 DEF Moves

\* What a process asks for keeps a worker counted.
LEMMA CountedAsked ==
  ASSUME TypeOK, NEW s \in Starters, CountKnown(proc[s]), NEW w \in Worker,
         Counted(workers[w]), NEW t \in Transitions, Legal(workers[w], t),
         Asks(proc[s], w, t)
  PROVE  Counted(ApplyTransition(workers[w], t))
<1> DEFINE p == proc[s]
           o == workers[w]
           n == ApplyTransition(o, t)
<1>1. /\ o \in Workers /\ Len(o.attempts) \in Nat /\ o.retryCount \in Nat
      /\ Counted(o)
  BY DEF TypeOK, Records, Workers
<1>2. /\ n.lifecycle = IF Swallows(o, t) THEN o.lifecycle ELSE Landing(o, t)
      /\ t.name # "attempt_started" => Len(n.attempts) = Len(o.attempts)
      /\ t.name # "retry_scheduled" => n.retryCount = o.retryCount
      /\ t.name = "retry_scheduled" /\ ~Swallows(o, t) => n.retryCount = t.retryCount
      /\ Len(n.attempts) \in {Len(o.attempts), Len(o.attempts) + 1}
      /\ n.retryCount \in {o.retryCount, t.retryCount}
      /\ n.retryOn = o.retryOn
  BY <1>1, ApplyEffect, RetryCounterEffect, RetryScheduledEffect, OneAttempt
<1>3. t.name # "aborted" BY DEF Asks
<1>4. CASE t.name = "attempt_started"
  <2>1. p.pc = "attempt" /\ w = p.target BY <1>4 DEF Asks
  <2>2. AllCounted(o) BY <2>1 DEF CountKnown
  <2>3. n.lifecycle = o.lifecycle BY <1>2, <1>4 DEF Landing
  <2>4. o.lifecycle = "active_wait" \/ AcceptedAbort(o) BY <1>4 DEF Legal, Sources
  <2>5. n.lifecycle \notin {"queued", "active_retry"} \cup RetrySources
    BY <2>3, <2>4 DEF AcceptedAbort, AbortedStates, RetrySources
  <2> HIDE DEF n, o
  <2>6. Counted(n)
    BY <1>1, <1>2, <1>4, <2>2, <2>5
       DEF Counted, AllCounted, EachIsCounted, RetriesTimeouts
  <2> QED BY <2>6 DEF n, o
<1>5. CASE t.name = "retry_scheduled"
  <2>1. t.retryCount = p.run[w].retryCount + 1 BY <1>5 DEF Asks
  <2>2. p.pc \in Busy \ {"begin"} BY <1>5 DEF Asks, Busy
  <2>5. p.run[w].retryCount = o.retryCount BY <2>2 DEF CountKnown, SameCount
  <2>3. CASE Swallows(o, t)
    <3>1. n.lifecycle \in AbortedStates BY <1>2, <2>3 DEF Swallows, AcceptedAbort
    <3>2. n.lifecycle \notin {"queued", "active_retry"} \cup RetrySources
      BY <3>1 DEF AbortedStates, RetrySources
    <3> HIDE DEF n, o
    <3>3. Counted(n)
      BY <1>1, <1>2, <1>5, <2>1, <2>5, <3>2 DEF Counted, EachIsCounted, RetriesTimeouts
    <3> QED BY <3>3 DEF n, o
  <2>4. CASE ~Swallows(o, t)
    <3>1. n.lifecycle = "active_retry" BY <1>2, <1>5, <2>4 DEF Landing
    <3> HIDE DEF n, o
    <3>2. Counted(n)
      BY <1>1, <1>2, <1>5, <2>1, <2>5, <2>4, <3>1
         DEF Counted, AllCounted, EachIsCounted, RetriesTimeouts, RetrySources
    <3> QED BY <3>2 DEF n, o
  <2> QED BY <2>3, <2>4
<1>6. CASE t.name \notin {"attempt_started", "retry_scheduled"}
  <2>1. \/ n.lifecycle = o.lifecycle
        \/ n.lifecycle \notin {"queued", "active_retry"} \cup RetrySources
        \/ n.lifecycle \in RetrySources /\ RetriesTimeouts(o)
    <3>1. t.name = "failed" => FailedTarget(t.retryable, t.available) = "failed_terminal"
      BY DEF Asks, FailedTarget
    <3>2. t.name = "result_applied" =>
            ResultTarget(t.status) \notin {"queued", "active_retry"} \cup RetrySources
      BY TransitionFields DEF ResultTarget, ResultStatuses, RetrySources
    <3>3. CASE t.name = "timed_out"
      <4>1. p.pc \in Busy \ {"begin"} BY <3>3 DEF Asks, Busy
      <4>2. t.available => RetriesTimeouts(o)
        BY <3>3, <4>1 DEF Asks, CountKnown, SameCount, RetriesTimeouts
      <4>3. n.lifecycle \in {o.lifecycle, TimeoutTarget(t.policy, t.available)}
        BY <1>2, <3>3 DEF Landing
      <4>4. t.policy \in TimeoutPolicies /\ t.available \in BOOLEAN
        BY <3>3, TransitionFields
      <4> HIDE DEF n, o
      <4> QED BY <4>2, <4>3, <4>4 DEF TimeoutTarget, TimeoutPolicies, RetrySources
    <3>4. CASE t.name # "timed_out"
      BY <1>2, <1>3, <1>6, <3>1, <3>2, <3>4, TransitionFields DEF Landing, RetrySources
    <3> QED BY <3>3, <3>4
  <2>2. Len(n.attempts) = Len(o.attempts) /\ n.retryCount = o.retryCount BY <1>2, <1>6
  <2> HIDE DEF n, o
  <2>3. Counted(n)
    BY <1>1, <1>2, <2>1, <2>2
       DEF Counted, AllCounted, EachIsCounted, RetriesTimeouts, RetrySources
  <2> QED BY <2>3 DEF n, o
<1> QED BY <1>4, <1>5, <1>6

LEMMA CountsMoves ==
  ASSUME OnlyRetries, TypeOK, CountsTracked, NEW s \in Starters, Moves(s)
  PROVE  CountsTracked'
<1> DEFINE p == proc[s]
           q == proc'[s]
<1>0. CountKnown(p) BY DEF CountsTracked
<1>1. ASSUME NEW w \in Worker PROVE Counted(workers'[w])
  <2>1. Counted(workers[w]) BY DEF CountsTracked
  <2>2. CASE SameProgress(workers[w], workers'[w]) 
    BY <2>1, <2>2 DEF SameProgress, Counted, AllCounted, EachIsCounted, RetriesTimeouts
  <2>3. ASSUME NEW t \in Transitions, Legal(workers[w], t), Asks(p, w, t),
               workers'[w] = ApplyTransition(workers[w], t)
        PROVE  Counted(workers'[w])
    BY <1>0, <2>1, <2>3, CountedAsked DEF OnlyRetries
  <2> QED BY <2>2, <2>3 DEF Moves
<1>2. CountKnown(proc[s])'
  <2>1. CASE q.pc \in Over BY <2>1 DEF Over, Busy, CountKnown
  <2>2. CASE GoesOn(p, q, workers')
    <3>0. p.pc \notin {"attempt", "prompt", "refused"} =>
            \A w \in Worker : SameCount(workers[w], workers'[w])
      BY MovesKeepCounts
    <3>1. ASSUME NEW w \in Worker, q.pc \in Busy \ {"begin"}
          PROVE  Counted(q.run[w]) /\ SameCount(workers'[w], q.run[w])
      <4>1. CASE q.run = workers' BY <1>1, <4>1 DEF SameCount
      <4>2. CASE q.pc = "deleted" \/ p.pc = "clean"
        <5>1. q.run = p.run BY <2>2, <4>2 DEF GoesOn
        <5>2. p.pc \in {"delete", "clean"} BY <2>2, <4>2 DEF GoesOn, Flow
        <5>3. Counted(p.run[w]) /\ SameCount(workers[w], p.run[w])
          BY <1>0, <5>2 DEF CountKnown, Busy
        <5>4. SameCount(workers[w], workers'[w]) BY <3>0, <5>2
        <5> QED BY <5>1, <5>3, <5>4 DEF SameCount
      <4> QED BY <2>2, <4>1, <4>2 DEF GoesOn
    <3>2. ASSUME q.pc \in {"probe", "provision", "create", "provisioned", "active", "attempt"}
          PROVE  AllCounted(workers'[q.target])
      <4>1. p.pc \in {"plan", "replan", "probe", "provision", "create", "provisioned", "active"}
        BY <2>2, <3>2 DEF GoesOn, Flow
      <4>2. CASE p.pc \in {"plan", "replan"}
        <5> DEFINE w == q.target
        <5>1. w \in ReadyIds(View(p.run), BlockedIds(View(p.run), {}))
          BY <2>2, <3>2, <4>2 DEF GoesOn
        <5>2. w \in Worker /\ p.run[w].lifecycle \in ExecutableStates
          BY <5>1 DEF ReadyIds, Executable, Ids, View
        <5>3. Counted(p.run[w]) /\ SameCount(workers[w], p.run[w])
          BY <1>0, <4>2, <5>2, SMTT(30) DEF CountKnown, Busy
        <5>4. AllCounted(p.run[w])
          BY <5>2, <5>3 DEF Counted, AllCounted, ExecutableStates, RetrySources
        <5>5. SameCount(workers[w], workers'[w]) BY <3>0, <4>2, <5>2
        <5> QED BY <5>3, <5>4, <5>5 DEF AllCounted, SameCount, RetriesTimeouts
      <4>3. CASE p.pc \in {"probe", "provision", "create", "provisioned", "active"}
        <5>1. q.target = p.target BY <2>2, <4>3 DEF GoesOn
        <5>2. AllCounted(workers[p.target])
          BY <1>0, <4>3 DEF CountKnown
        <5>3. p.target \in Worker BY <4>3, AtHand DEF Busy, Executing
        <5>4. SameCount(workers[p.target], workers'[p.target]) BY <3>0, <4>3, <5>3
        <5> QED BY <5>1, <5>2, <5>4 DEF SameCount, AllCounted, RetriesTimeouts
      <4> QED BY <4>1, <4>2, <4>3
    <3> QED BY <3>1, <3>2 DEF CountKnown
  <2> QED BY <2>1, <2>2 DEF Moves
<1>3. \A t \in Starters : t = s BY DEF OnlyRetries, OneStart
<1> QED BY <1>1, <1>2, <1>3 DEF CountsTracked

LEMMA CountsStep ==
  ASSUME OnlyRetries
  PROVE  TypeOK /\ CountsTracked /\ [Next]_vars => CountsTracked'
<1> SUFFICES ASSUME TypeOK, CountsTracked, [Next]_vars PROVE CountsTracked'
  OBVIOUS
<1>0. proc \in [Starters -> Procs] /\ workers \in Records BY DEF TypeOK
<1>1. CASE UNCHANGED vars BY <1>1 DEF vars, CountsTracked, CountKnown, Counted
<1>2. ASSUME NEW s \in Starters, Work(s) PROVE CountsTracked'
  BY <1>2, WorkMoves, CountsMoves
<1>3. ASSUME NEW s \in Starters, workers' = workers,
             proc'[s].pc \in Over \cup {"begin"}
      PROVE  CountsTracked'
  <2>1. CountKnown(proc[s])' BY <1>3 DEF CountKnown, Over, Busy
  <2>2. \A t \in Starters : t = s BY DEF OnlyRetries, OneStart
  <2> QED BY <1>3, <2>1, <2>2 DEF CountsTracked
<1>4. ASSUME NEW s \in Starters, Request(s) PROVE CountsTracked'
  <2>1. workers' = workers BY <1>4 DEF Request, OnlyRetries
  <2>2. PICK policy, cleanup :
          proc' = [proc EXCEPT ![s] = Proc("begin", policy, cleanup, @.starts + 1)]
    BY <1>4 DEF Request
  <2>3. proc'[s].pc = "begin" BY <1>0, <2>2 DEF Proc
  <2> QED BY <1>3, <2>1, <2>3
<1>5. ASSUME NEW s \in Starters, Stop(s) PROVE CountsTracked'
  <2>1. workers' = workers /\ Leaves(s, "stopped") BY <1>5 DEF Stop
  <2> DEFINE g == Gone(proc[s], "stopped")
  <2>2. proc' = [proc EXCEPT ![s] = g] BY <2>1, LeavesEffect DEF Gone
  <2>3. g.pc = "stopped" BY <1>0, GoneFields, ZenonT(30)
  <2> HIDE DEF g
  <2>4. proc'[s].pc = "stopped" BY <1>0, <2>2, <2>3
  <2> QED BY <1>3, <2>1, <2>4 DEF Over
<1>6. ASSUME NEW a \in Abortable, Abort(a) PROVE CountsTracked'
  <2>1. PICK accepted \in BOOLEAN :
          workers' = [workers EXCEPT
                        ![a] = ApplyTransition(workers[a], MarkAborted(accepted))]
    BY <1>6 DEF Abort
  <2>2. MarkAborted(accepted) \in Transitions
    BY DEF MarkAborted, NoFinalization, Transitions, Finalizations, AttemptStatuses
  <2>3. ASSUME NEW w \in Worker
        PROVE  SameCount(workers[w], workers'[w]) /\ Counted(workers'[w])
    <3>0. workers[w] \in Workers /\ Counted(workers[w])
      BY <1>0 DEF Records, CountsTracked
    <3>1. CASE w = a
      <4> DEFINE t == MarkAborted(accepted)
      <4>1. workers'[w] = ApplyTransition(workers[w], t) BY <1>0, <2>1, <3>1 DEF Records
      <4>2. t.name = "aborted" BY DEF MarkAborted
      <4>3. t \in Transitions BY <2>2
      <4> HIDE DEF t
      <4>4. SameCount(workers[w], workers'[w])
        BY <3>0, <4>1, <4>2, <4>3, ApplyEffect, RetryCounterEffect DEF SameCount
      <4>5. workers'[w].lifecycle \in {workers[w].lifecycle, "aborted"}
        BY <3>0, <4>1, <4>2, <4>3, ApplyEffect DEF Landing
      <4> QED
        BY <3>0, <4>4, <4>5
           DEF Counted, AllCounted, EachIsCounted, RetriesTimeouts, SameCount, RetrySources
    <3>2. CASE w # a
      <4>1. workers'[w] = workers[w] BY <1>0, <2>1, <3>2 DEF Records
      <4> QED BY <3>0, <4>1 DEF SameCount
    <3> QED BY <3>1, <3>2
  <2>4. proc' = proc BY <1>6 DEF Abort
  <2>5. ASSUME NEW s \in Starters PROVE CountKnown(proc[s])'
    <3>1. CountKnown(proc[s]) BY DEF CountsTracked
    <3>2. proc[s].pc \in {"probe", "provision", "create", "provisioned", "active", "attempt"}
            => proc[s].target \in Worker
      BY AtHand DEF Executing
    <3> QED
      BY <2>3, <2>4, <3>1, <3>2 DEF CountKnown, SameCount, AllCounted, RetriesTimeouts
  <2> QED BY <2>3, <2>5 DEF CountsTracked
<1> QED BY <1>1, <1>2, <1>4, <1>5, <1>6 DEF Next

\* Without new prompts, one start at a time runs a worker once and then once for
\* each retry that its record counts, whatever dies, is aborted, fails or times
\* out in between and whatever the limits of its workers are, unless the worker
\* is one that retries timeouts.
THEOREM AttemptsAreRetries ==
  ASSUME OnlyRetries
  PROVE  Spec => []AttemptsAreCounted
<1>1. Init => CountsTracked
  <2> SUFFICES ASSUME Init PROVE CountsTracked OBVIOUS
  <2>1. PICK c \in Configs : workers = [w \in Worker |-> NewWorker(c)] BY DEF Init
  <2>2. Len(<< >>) = 0 OBVIOUS
  <2>3. \A w \in Worker : Counted(workers[w])
    BY <2>1, <2>2 DEF NewWorker, Counted, AllCounted, EachIsCounted, RetrySources
  <2> QED BY <2>3 DEF Init, Proc, CountsTracked, CountKnown, Busy
<1>2. CountsTracked => AttemptsAreCounted
  BY DEF CountsTracked, Counted, AttemptsAreCounted
<1> QED BY <1>1, <1>2, InitTyped, NextTyped, CountsStep, PTL DEF Spec

-----------------------------------------------------------------------------
(* No update of a start raises.                                            *)

\* A worker is as r says, or an abort of it was accepted since.
AsKnown(w, r) == AcceptedAbort(w) \/ w.lifecycle = r.lifecycle

\* Places at which a process is about to start its target, or has.
Picked  == {"probe", "provision", "provisioned", "active"}
Running == {"attempt", "prompt", "refused"}
Deciding == {"recover", "plan", "replan"}

\* A process that updates the record knows all workers as they are, but for
\* accepted aborts; its target may be started, or is active.
OnCourse(p) ==
  /\ p.pc \notin {"create", "raised"}
  /\ p.pc \in Deciding \cup Picked \cup Running =>
       \A w \in Worker : AsKnown(workers[w], p.run[w]) /\ p.run[w].session # NoSession
  /\ p.pc \in Picked =>
       \/ AcceptedAbort(workers[p.target])
       \/ workers[p.target].lifecycle \in ExecutableStates
  /\ p.pc \in Running =>
       \/ AcceptedAbort(workers[p.target])
       \/ workers[p.target].lifecycle = "active_wait"

CourseTracked ==
  /\ \A w \in Worker : workers[w].session # NoSession
  /\ \A s \in Starters : OnCourse(proc[s])

\* An update whose transitions are all legal does not raise.
LEMMA PersistGoesOn ==
  ASSUME TypeOK, NEW s \in Starters, NEW tr, NEW q, q \in Procs, Persist(s, tr, q),
         \A w \in DOMAIN tr : Legal(workers[w], tr[w])
  PROVE  proc'[s].pc = q.pc
<1>0. proc \in [Starters -> Procs] BY DEF TypeOK
<1>1. proc' = [proc EXCEPT ![s] =
                 IF q.pc \in Over
                 THEN Proc(q.pc, proc[s].policy, proc[s].cleanup, proc[s].starts)
                 ELSE [q EXCEPT !.run = workers']]
  BY PersistEffect
<1>2. CASE q.pc \in Over
  <2>1. proc'[s] = Gone(proc[s], q.pc) BY <1>0, <1>1, <1>2 DEF Gone
  <2> DEFINE g == Gone(proc[s], q.pc)
  <2>2. proc[s] \in Procs BY <1>0
  <2>3. g.pc = q.pc BY <2>2, GoneFields
  <2> QED BY <2>1, <2>3
<1>3. CASE q.pc \notin Over
  <2> DEFINE n == [q EXCEPT !.run = workers']
  <2>1. proc'[s] = n BY <1>0, <1>1, <1>3
  <2>2. n.pc = q.pc BY ResumedFields
  <2> QED BY <2>1, <2>2
<1> QED BY <1>2, <1>3

\* The same for an update of the worker being executed.
LEMMA TargetGoesOn ==
  ASSUME TypeOK, NEW s \in Starters, NEW t, NEW q, Update(s, [w \in {q.target} |-> t], q),
         Legal(workers[q.target], t)
  PROVE  proc'[s].pc = q.pc
<1> DEFINE tr == [w \in {q.target} |-> t]
<1>1. \A w \in DOMAIN tr : Legal(workers[w], tr[w]) OBVIOUS
<1>2. Update(s, tr, q) OBVIOUS
<1> HIDE DEF tr
<1>3. q \in Procs /\ Persist(s, tr, q) BY <1>2 DEF Update
<1> QED BY <1>1, <1>3, PersistGoesOn

LEMMA LegalIfKnown ==
  ASSUME NEW w, NEW r, NEW t, AsKnown(w, r), r.lifecycle \in Sources(t.name),
         t.name # "cleanup_updated"
  PROVE  Legal(w, t)
BY DEF AsKnown, Legal

LEMMA WorkGoesOn ==
  ASSUME TypeOK, CourseTracked, NEW s \in Starters, Work(s)
  PROVE  proc'[s].pc \notin {"raised", "create"}
<1> DEFINE p == proc[s]
<1>0. /\ p \in Procs /\ proc \in [Starters -> Procs] /\ workers \in Records
      /\ OnCourse(p)
  BY DEF TypeOK, CourseTracked
<1>a. "raised" \notin Busy /\ "create" \notin Over BY DEF Busy, Over
<1>1. CASE Recover(s)
  <2> DEFINE tr(expired) == [w \in expired |->
                MarkTimeout(p.run[w],
                  [id     |-> Latest(ActiveAttempts(p.run[w])), status |-> "failed"])]
             q(expired) == [p EXCEPT !.pc = "plan", !.error = expired # {}]
  <2>1. PICK expired \in SUBSET Recoverable(p.run) : Persist(s, tr(expired), q(expired))
    BY <1>1, Zenon DEF Recover
  <2>2. p.pc = "recover" BY <1>1 DEF Recover
  <2>3. ASSUME NEW w \in DOMAIN tr(expired) PROVE Legal(workers[w], tr(expired)[w])
    <3>1. w \in Worker /\ p.run[w].lifecycle = "active_wait"
      BY SubsetsAssumption DEF Recoverable
    <3>2. tr(expired)[w].name = "timed_out" BY DEF MarkTimeout
    <3>3. AsKnown(workers[w], p.run[w]) BY <1>0, <2>2, <3>1 DEF OnCourse, Deciding
    <3> HIDE DEF tr
    <3> QED BY <3>1, <3>2, <3>3, LegalIfKnown DEF Sources
  <2>4. q(expired) \in Procs /\ q(expired).pc = "plan"
    BY <1>0, ZenonT(30) DEF Procs, Busy
  <2> HIDE DEF tr, q
  <2> QED BY <2>1, <2>3, <2>4, PersistGoesOn
<1>2. CASE Plan(s)
  <2> DEFINE v       == View(p.run)
             blocked == BlockedIds(v, {})
             tr      == [w \in blocked |-> DependencyBlocked]
             q       == Selected(p, ReadyIds(v, blocked))
  <2>1. /\ Update(s, tr, q) /\ p.pc \in {"plan", "replan"}
        /\ \/ p.pc = "plan" /\ q.pc \in {"ended", "probe"}
           \/ p.pc = "replan" /\ q.pc \in {Executed(p), "provision"}
    BY <1>2, PlanEffect
  <2>2. ASSUME NEW w \in DOMAIN tr PROVE Legal(workers[w], tr[w])
    <3>1. w \in blocked /\ tr[w].name = "dependency_blocked" BY DEF DependencyBlocked
    <3>2. IsFiniteSet(Ids(v))
      <4>1. IsFiniteSet(Worker) BY NAssumption, FS_Interval DEF Worker
      <4> QED BY <4>1 DEF Ids, View
    <3>3. w \in Ids(v) /\ Blockable(v, w) BY <3>1, <3>2, BlockedIdsEffect
    <3>4. w \in Worker /\ p.run[w].lifecycle \in RunnableStates
      BY <3>3 DEF Ids, View, Blockable
    <3>5. AsKnown(workers[w], p.run[w]) BY <1>0, <2>1, <3>4 DEF OnCourse, Deciding
    <3> HIDE DEF tr
    <3> QED BY <3>1, <3>4, <3>5, LegalIfKnown DEF Sources, RunnableStates, ActiveStates
  <2>3. q.pc \notin {"raised", "create"} BY <2>1 DEF Executed
  <2> HIDE DEF tr, q
  <2>4. q \in Procs /\ Persist(s, tr, q) BY <2>1 DEF Update
  <2> QED BY <2>2, <2>3, <2>4, PersistGoesOn
<1>3. CASE ProbeFails(s)
  <2> DEFINE tr == [w \in Pending(p.run) |-> MarkFailed(p.run[w], "api", FALSE, NoFinalization)]
             q  == [p EXCEPT !.pc = "ended"]
  <2>1. Persist(s, tr, q) /\ p.pc = "probe" BY <1>3 DEF ProbeFails, FailStart
  <2>2. q \in Procs /\ q.pc = "ended" BY <1>0 DEF Procs, Over
  <2>3. ASSUME NEW w \in DOMAIN tr PROVE Legal(workers[w], tr[w])
    <3>1. w \in Worker /\ p.run[w].lifecycle \in ExecutableStates /\ tr[w].name = "failed"
      BY DEF Pending, Executable, View, MarkFailed
    <3>2. AsKnown(workers[w], p.run[w]) BY <1>0, <2>1, <3>1 DEF OnCourse, Picked
    <3> HIDE DEF tr
    <3> QED BY <3>1, <3>2, LegalIfKnown DEF Sources, ExecutableStates, StartSources, RetrySources
  <2> HIDE DEF tr, q
  <2> QED BY <2>1, <2>2, <2>3, PersistGoesOn
<1>4. CASE Provision(s)
  <2> DEFINE t == Provisioned(p.run[p.target])
             q == [p EXCEPT !.pc = "active"]
  <2>1. /\ Update(s, [w \in {q.target} |-> t], q)
        /\ p.pc \in {"provision", "provisioned"} /\ q.pc = "active" /\ q.target = p.target
    BY <1>4, ProvisionEffect
  <2>2. Legal(workers[p.target], t)
    BY <1>0, <2>1 DEF OnCourse, Picked, Provisioned, Legal, Sources, ExecutableStates,
                      StartSources, RetrySources
  <2> HIDE DEF t, q
  <2> QED BY <2>1, <2>2, TargetGoesOn
<1>5. CASE Activate(s)
  <2> DEFINE q == [p EXCEPT !.pc = "attempt"]
  <2>1. /\ Update(s, [w \in {q.target} |-> MarkActive], q)
        /\ p.pc = "active" /\ q.pc = "attempt" /\ q.target = p.target
    BY <1>5, ActivateEffect
  <2>2. Legal(workers[p.target], MarkActive)
    BY <1>0, <2>1 DEF OnCourse, Picked, MarkActive, Legal, Sources, ExecutableStates,
                      StartSources, RetrySources
  <2> HIDE DEF q
  <2> QED BY <2>1, <2>2, TargetGoesOn
<1>6. CASE StartAttempt(s)
  <2> DEFINE t == AttemptStarted(p.run[p.target])
  <2>1. PICK q : /\ Update(s, [w \in {q.target} |-> t], q)
                 /\ p.pc = "attempt" /\ q.pc \in {"refused", "prompt"} /\ q.target = p.target
    BY <1>6, StartAttemptEffect
  <2>2. Legal(workers[p.target], t)
    BY <1>0, <2>1 DEF OnCourse, Running, AttemptStarted, Legal, Sources
  <2> HIDE DEF t
  <2> QED BY <2>1, <2>2, TargetGoesOn
<1>7. CASE Answer(s)
  <2>1. PICK t \in Transitions : \E q :
          /\ Update(s, [x \in {q.target} |-> t], q)
          /\ p.pc \in {"prompt", "refused"} /\ q.pc = "replan" /\ q.target = p.target
          /\ t.name \in {"result_applied", "retry_scheduled", "failed", "timed_out"}
    BY <1>7, AnswerEffect
  <2>2. PICK q :
          /\ Update(s, [x \in {q.target} |-> t], q)
          /\ p.pc \in {"prompt", "refused"} /\ q.pc = "replan" /\ q.target = p.target
    BY <2>1
  <2>3. Legal(workers[p.target], t)
    BY <1>0, <2>1, <2>2 DEF OnCourse, Running, Legal, Sources, StartSources
  <2> QED BY <2>2, <2>3, TargetGoesOn
<1>8. CASE RecordCleanup(s)
  <2> DEFINE t == CleanupUpdated(p.todo[p.target])
  <2>1. PICK q : Update(s, [w \in {q.target} |-> t], q) /\ Recorded(p, q)
    BY <1>8, RecordCleanupEffect
  <2>2. /\ p.target \in Worker /\ q.target = p.target
        /\ q.pc \in {"delete", "unclean", "ended"}
    BY <2>1 DEF Recorded
  <2>3. Legal(workers[p.target], t)
    BY <1>0, <2>2, SMTT(30)
      DEF CleanupUpdated, Legal, Sources, Records, Workers
  <2> HIDE DEF t
  <2> QED BY <2>1, <2>2, <2>3, TargetGoesOn
<1>9. CASE CreateSession(s) \/ CreationFails(s)
  BY <1>0, <1>9, Zenon DEF CreateSession, CreationFails, OnCourse
<1>10. CASE Intend(s)
  <2>1. p.pc = "provision" /\ p.run[p.target].session = NoSession
    BY <1>10 DEF Intend
  <2>2. p.target \in Worker BY <2>1, AtHand DEF Executing
  <2> QED BY <1>0, <2>1, <2>2 DEF OnCourse, Picked
<1>11. CASE Begin(s)
  <2>1. proc' = [proc EXCEPT ![s].pc = "recover", ![s].run = workers] BY <1>11 DEF Begin
  <2> QED BY <1>0, <2>1 DEF Procs
<1>12. CASE MarkRunActive(s)
  <2>1. proc' = [proc EXCEPT ![s].pc = "provision", ![s].run = workers, ![s].base = workers]
    BY <1>12 DEF MarkRunActive
  <2> QED BY <1>0, <2>1 DEF Procs
<1>13. CASE PlanCleanup(s)
  <2>1. CASE Leaves(s, "ended")
    <3> DEFINE g == Gone(p, "ended")
    <3>1. proc' = [proc EXCEPT ![s] = g] BY <2>1, LeavesEffect DEF Gone
    <3>2. g.pc = "ended" BY <1>0, GoneFields, Zenon
    <3> HIDE DEF g
    <3> QED BY <1>0, <3>1, <3>2
  <2>2. CASE proc' = [proc EXCEPT ![s].pc = "delete", ![s].todo = Listed(p)]
    BY <1>0, <2>2 DEF Procs
  <2> QED BY <1>13, <2>1, <2>2 DEF PlanCleanup
<1>14. CASE DeleteSessions(s)
  <2>1. PICK w \in Worker : \E verified \in SUBSET (p.todo[w] \cap deleted') :
          proc' = [proc EXCEPT ![s] = [p EXCEPT !.pc = "deleted", !.target = w,
                     !.todo[w] = p.todo[w] \ verified,
                     !.failed = @ \/ p.todo[w] \ verified # {}]]
    BY <1>14, Zenon DEF DeleteSessions
  <2>2. PICK verified \in SUBSET (p.todo[w] \cap deleted') :
          proc' = [proc EXCEPT ![s] = [p EXCEPT !.pc = "deleted", !.target = w,
                     !.todo[w] = p.todo[w] \ verified,
                     !.failed = @ \/ p.todo[w] \ verified # {}]]
    BY <2>1, Zenon
  <2> QED BY <1>0, <2>2 DEF Procs
<1> QED
  BY <1>1, <1>2, <1>3, <1>4, <1>5, <1>6, <1>7, <1>8, <1>9, <1>10, <1>11, <1>12,
     <1>13, <1>14 DEF Work

\* An accepted abort stays.
LEMMA MovesKeepAbort ==
  ASSUME TypeOK, NEW s \in Starters, Moves(s), NEW w \in Worker, AcceptedAbort(workers[w])
  PROVE  AcceptedAbort(workers'[w])
<1>0. workers[w] \in Workers BY DEF TypeOK, Records
<1>1. CASE SameProgress(workers[w], workers'[w])
  BY <1>1 DEF SameProgress, AcceptedAbort
<1>2. ASSUME NEW t \in Transitions, workers'[w] = ApplyTransition(workers[w], t)
      PROVE  AcceptedAbort(workers'[w])
  BY <1>0, <1>2, ApplyKeepsAbort
<1> QED BY <1>1, <1>2 DEF Moves

\* A plan touches only the workers it blocks.
LEMMA PlanSpares ==
  ASSUME TypeOK, NEW s \in Starters, Moves(s), NEW w \in Worker,
         proc[s].pc \in {"plan", "replan"},
         w \notin BlockedIds(View(proc[s].run), {})
  PROVE  SameProgress(workers[w], workers'[w])
<1>1. ASSUME NEW t \in Transitions, Asks(proc[s], w, t) PROVE FALSE
  BY <1>1, TransitionFields DEF Asks
<1> QED BY <1>1 DEF Moves

\* A session that has been given to a worker stays with it.
LEMMA MovesKeepSession ==
  ASSUME TypeOK, NEW s \in Starters, Moves(s), NEW w \in Worker,
         workers[w].session # NoSession
  PROVE  workers'[w].session # NoSession
<1>0. workers[w] \in Workers BY DEF TypeOK, Records
<1>1. CASE SameProgress(workers[w], workers'[w])
  BY <1>1, NoSessionAssumption DEF SameProgress
<1>2. ASSUME NEW t \in Transitions, workers'[w] = ApplyTransition(workers[w], t)
      PROVE  workers'[w].session # NoSession
  BY <1>0, <1>2, ApplyEffect
<1> QED BY <1>1, <1>2 DEF Moves

\* A step that asks at most for one kind of transition lands where it leads.
LEMMA MovesLand ==
  ASSUME TypeOK, NEW s \in Starters, Moves(s), NEW w \in Worker,
         proc[s].pc \in {"provision", "provisioned", "attempt"}
  PROVE  workers'[w].lifecycle = workers[w].lifecycle
<1>0. workers[w] \in Workers BY DEF TypeOK, Records
<1>1. CASE SameProgress(workers[w], workers'[w])
  BY <1>1 DEF SameProgress
<1>2. ASSUME NEW t \in Transitions, Asks(proc[s], w, t),
             workers'[w] = ApplyTransition(workers[w], t)
      PROVE  workers'[w].lifecycle = workers[w].lifecycle
  <2>1. t.name \in {"provisioned", "attempt_started"}
    BY <1>2, TransitionFields DEF Asks
  <2> QED BY <1>0, <1>2, <2>1, ApplyEffect DEF Landing
<1> QED BY <1>1, <1>2 DEF Moves

\* The target of a start is active once it has been marked so, unless aborted.
LEMMA ActivateLands ==
  ASSUME TypeOK, NEW s \in Starters, Activate(s), proc'[s].pc # "raised"
  PROVE  LET n == workers'[proc[s].target] IN
         AcceptedAbort(n) \/ n.lifecycle = "active_wait"
<1> DEFINE q == [proc[s] EXCEPT !.pc = "attempt"]
           w == proc[s].target
<1>1. /\ Update(s, [x \in {q.target} |-> MarkActive], q)
      /\ proc[s].pc = "active" /\ q.pc = "attempt" /\ q.target = w
      /\ MarkActive \in Transitions
  BY ActivateEffect
<1>2. w \in Worker /\ proc[s] \in Procs BY <1>1, AtHand DEF Executing
<1>3. workers[w] \in Workers BY <1>2 DEF TypeOK, Records
<1> HIDE DEF q, w
<1>4. proc'[s] # Gone(proc[s], "raised")
  <2> DEFINE g == Gone(proc[s], "raised")
  <2>1. g.pc = "raised" BY <1>2, GoneFields
  <2> QED BY <2>1
<1>5. workers'[w] = ApplyTransition(workers[w], MarkActive)
  BY <1>1, <1>2, <1>4, TargetEffect, ZenonT(30)
<1>6. CASE AcceptedAbort(workers[w])
  BY <1>1, <1>3, <1>5, <1>6, ApplyKeepsAbort DEF w
<1>7. CASE ~AcceptedAbort(workers[w])
  <2>1. MarkActive.name = "active" BY DEF MarkActive
  <2>2. workers'[w].lifecycle = "active_wait"
    BY <1>1, <1>3, <1>5, <1>7, <2>1, ApplyEffect DEF Landing, Swallows
  <2> QED BY <2>2 DEF w
<1> QED BY <1>6, <1>7

LEMMA CourseMoves ==
  ASSUME OneStart, TypeOK, CourseTracked, NEW s \in Starters, Work(s)
  PROVE  CourseTracked'
<1> DEFINE p == proc[s]
           q == proc'[s]
<1>0. /\ p \in Procs /\ Equipped(p) /\ workers \in Records /\ OnCourse(p)
      /\ p.pc \in Executing \cup {"probe"} => p.target \in Worker
  BY AtHand DEF TypeOK, CourseTracked
<1>1. Moves(s) BY WorkMoves
<1>2. q.pc \notin {"raised", "create"} BY WorkGoesOn
<1>3. \A w \in Worker : workers'[w].session # NoSession
  BY <1>1, MovesKeepSession, SMTT(30) DEF CourseTracked
<1>4. p.pc \notin Over
  BY Zenon DEF Work, Begin, Recover, Plan, ProbeFails, MarkRunActive, Intend,
        CreateSession, CreationFails, Provision, Activate, StartAttempt, Answer,
        PlanCleanup, DeleteSessions, RecordCleanup, Over
<1>5. q.pc \in Over \/ GoesOn(p, q, workers') BY <1>1 DEF Moves
<1>6. CASE q.pc \in Over
  <2>1. OnCourse(proc[s])'
    BY <1>2, <1>6 DEF OnCourse, Over, Deciding, Picked, Running
  <2> QED BY <1>3, <2>1 DEF CourseTracked, OneStart
<1>7. CASE GoesOn(p, q, workers')
  <2>1. q.pc \in Deciding \cup Picked \cup Running => q.run = workers'
    BY <1>7 DEF GoesOn, Deciding, Picked, Running, Flow
  <2>2. q.pc \in Deciding \cup Picked \cup Running =>
          \A w \in Worker : AsKnown(workers'[w], q.run[w]) /\ q.run[w].session # NoSession
    BY <1>3, <2>1 DEF AsKnown
  <2>3. ASSUME q.pc \in Picked
        PROVE  \/ AcceptedAbort(workers'[q.target])
               \/ workers'[q.target].lifecycle \in ExecutableStates
    <3>1. CASE p.pc \in {"plan", "replan"}
      <4>1. q.target \in ReadyIds(View(p.run), BlockedIds(View(p.run), {}))
        BY <1>7, <2>3, <3>1 DEF GoesOn, Picked
      <4>2. /\ q.target \in Worker /\ q.target \notin BlockedIds(View(p.run), {})
            /\ p.run[q.target].lifecycle \in ExecutableStates
        BY <4>1 DEF ReadyIds, Ids, View, Executable
      <4>3. SameProgress(workers[q.target], workers'[q.target])
        BY <1>1, <3>1, <4>2, PlanSpares
      <4>4. AsKnown(workers[q.target], p.run[q.target])
        BY <1>0, <3>1, <4>2 DEF OnCourse, Deciding
      <4> QED BY <4>2, <4>3, <4>4 DEF AsKnown, SameProgress, AcceptedAbort
    <3>2. CASE p.pc = "probe"
      <4>1. q.pc = "provision" /\ q.target = p.target /\ p.target \in Worker
        BY <1>0, <1>7, <3>2 DEF GoesOn, Flow
      <4>2. SameProgress(workers[p.target], workers'[p.target])
        BY <1>1, <3>2, <4>1 DEF Moves, Executing
      <4> QED BY <1>0, <3>2, <4>1, <4>2
              DEF OnCourse, Picked, SameProgress, AcceptedAbort
    <3>3. CASE p.pc \in {"provision", "provisioned"}
      <4>1. q.target = p.target /\ p.target \in Worker
        BY <1>0, <1>7, <3>3 DEF GoesOn, Executing
      <4>2. workers'[p.target].lifecycle = workers[p.target].lifecycle
        BY <1>1, <3>3, <4>1, MovesLand
      <4> QED BY <1>0, <1>1, <3>3, <4>1, <4>2, MovesKeepAbort DEF OnCourse, Picked
    <3> QED BY <1>0, <1>7, <2>3, <3>1, <3>2, <3>3 DEF GoesOn, Flow, Picked, OnCourse
  <2>4. ASSUME q.pc \in Running
        PROVE  \/ AcceptedAbort(workers'[q.target])
               \/ workers'[q.target].lifecycle = "active_wait"
    <3>1. CASE p.pc = "active"
      <4>1. q.target = p.target BY <1>7, <3>1 DEF GoesOn
      <4>2. Activate(s)
        BY <3>1 DEF Work, Begin, Recover, Plan, ProbeFails, MarkRunActive, Intend,
             CreateSession, CreationFails, Provision, Activate, StartAttempt, Answer,
             PlanCleanup, DeleteSessions, RecordCleanup
      <4> QED BY <1>2, <4>1, <4>2, ActivateLands
    <3>2. CASE p.pc = "attempt"
      <4>1. q.target = p.target /\ p.target \in Worker
        BY <1>0, <1>7, <3>2 DEF GoesOn, Executing
      <4>2. workers'[p.target].lifecycle = workers[p.target].lifecycle
        BY <1>1, <3>2, <4>1, MovesLand
      <4> QED BY <1>0, <1>1, <3>2, <4>1, <4>2, MovesKeepAbort DEF OnCourse, Running
    <3> QED BY <1>7, <2>4, <3>1, <3>2 DEF GoesOn, Flow, Running
  <2>5. OnCourse(proc[s])' BY <1>2, <2>2, <2>3, <2>4 DEF OnCourse
  <2> QED BY <1>3, <2>5 DEF CourseTracked, OneStart
<1> QED BY <1>5, <1>6, <1>7

\* The operator aborts a worker for good, or leaves its lifecycle as it is.
LEMMA AbortLands ==
  ASSUME TypeOK, NEW a \in Abortable, Abort(a), NEW w \in Worker
  PROVE  /\ workers'[w].lifecycle = workers[w].lifecycle \/ AcceptedAbort(workers'[w])
         /\ AcceptedAbort(workers[w]) => AcceptedAbort(workers'[w])
         /\ workers'[w].session = workers[w].session
<1>0. workers[w] \in Workers /\ workers \in Records BY DEF TypeOK, Records
<1>1. PICK accepted \in BOOLEAN :
        workers' = [workers EXCEPT
                      ![a] = ApplyTransition(workers[a], MarkAborted(accepted))]
  BY DEF Abort
<1>2. CASE w # a BY <1>0, <1>1, <1>2 DEF Records
<1>3. CASE w = a
  <2> DEFINE t == MarkAborted(accepted)
  <2>1. t \in Transitions
    BY DEF MarkAborted, NoFinalization, Transitions, Finalizations, AttemptStatuses
  <2>2. t.name = "aborted" /\ t.accepted = accepted BY DEF MarkAborted
  <2>3. workers'[w] = ApplyTransition(workers[w], t) BY <1>0, <1>1, <1>3 DEF Records
  <2> HIDE DEF t
  <2>4. AcceptedAbort(workers[w]) => AcceptedAbort(workers'[w])
    BY <1>0, <2>1, <2>3, ApplyKeepsAbort
  <2>5. workers'[w].session = workers[w].session
    BY <1>0, <2>1, <2>2, <2>3, ApplyEffect
  <2>6. CASE accepted
    <3>0. t.accepted BY <2>2, <2>6
    <3>1. ~Swallows(workers[w], t) /\ Landing(workers[w], t) = "aborted"
      BY <2>2, <3>0 DEF Landing, Swallows
    <3>2. workers'[w].lifecycle = "aborted" /\ workers'[w].abort = "accepted"
      BY <1>0, <2>1, <2>2, <2>3, <3>0, <3>1, ApplyEffect
    <3> QED BY <2>4, <2>5, <3>2 DEF AcceptedAbort, AbortedStates
  <2>7. CASE ~accepted
    <3>1. workers'[w].lifecycle = workers[w].lifecycle
      BY <1>0, <2>1, <2>2, <2>3, <2>7, ApplyEffect DEF Landing
    <3> QED BY <2>4, <2>5, <3>1
  <2> QED BY <2>6, <2>7
<1> QED BY <1>2, <1>3

LEMMA CourseStep ==
  ASSUME OneStart
  PROVE  TypeOK /\ CourseTracked /\ [Next]_vars => CourseTracked'
<1> SUFFICES ASSUME TypeOK, CourseTracked, [Next]_vars PROVE CourseTracked'
  OBVIOUS
<1>0. /\ proc \in [Starters -> Procs] /\ workers \in Records
      /\ \A w \in Worker : workers[w] \in Workers
  BY DEF TypeOK, Records
<1>1. CASE UNCHANGED vars
  BY <1>1 DEF vars, CourseTracked, OnCourse
<1>2. ASSUME NEW s \in Starters, Work(s) PROVE CourseTracked'
  BY <1>2, CourseMoves
<1>3. ASSUME NEW s \in Starters, \A w \in Worker : workers'[w].session = workers[w].session,
             proc'[s].pc \in (Over \cup {"begin"}) \ {"raised"}
      PROVE  CourseTracked'
  <2>1. OnCourse(proc[s])'
    BY <1>3 DEF OnCourse, Over, Deciding, Picked, Running
  <2> QED BY <1>3, <2>1 DEF CourseTracked, OneStart
<1>4. ASSUME NEW s \in Starters, Request(s) PROVE CourseTracked'
  <2>1. ASSUME NEW w \in Worker PROVE workers'[w].session = workers[w].session
    <3>1. CASE UNCHANGED workers BY <3>1
    <3>2. ASSUME NEW x \in Reprompted,
                 workers' = [workers EXCEPT ![x] = RequeuedWorker(workers[x])]
          PROVE  workers'[w].session = workers[w].session
      <4>1. RequeuedWorker(workers[w]).session = workers[w].session
        BY <1>0 DEF RequeuedWorker, Workers
      <4>2. workers'[w] \in {workers[w], RequeuedWorker(workers[w])}
        BY <1>0, <3>2 DEF Records
      <4> QED BY <4>1, <4>2
    <3> QED BY <1>4, <3>1, <3>2 DEF Request
  <2>2. PICK policy, cleanup :
          proc' = [proc EXCEPT ![s] = Proc("begin", policy, cleanup, @.starts + 1)]
    BY <1>4 DEF Request
  <2>3. proc'[s].pc = "begin" BY <1>0, <2>2 DEF Proc
  <2> QED BY <1>3, <2>1, <2>3
<1>5. ASSUME NEW s \in Starters, Stop(s) PROVE CourseTracked'
  <2>1. workers' = workers /\ Leaves(s, "stopped") BY <1>5 DEF Stop
  <2> DEFINE g == Gone(proc[s], "stopped")
  <2>2. proc' = [proc EXCEPT ![s] = g] BY <2>1, LeavesEffect DEF Gone
  <2>3. g.pc = "stopped" BY <1>0, GoneFields, ZenonT(30)
  <2> HIDE DEF g
  <2>4. proc'[s].pc = "stopped" BY <1>0, <2>2, <2>3
  <2> QED BY <1>3, <2>1, <2>4 DEF Over
<1>6. ASSUME NEW a \in Abortable, Abort(a) PROVE CourseTracked'
  <2>1. ASSUME NEW w \in Worker
        PROVE  /\ workers'[w].lifecycle = workers[w].lifecycle \/ AcceptedAbort(workers'[w])
               /\ AcceptedAbort(workers[w]) => AcceptedAbort(workers'[w])
               /\ workers'[w].session = workers[w].session
    BY <1>6, AbortLands
  <2>2. proc' = proc BY <1>6 DEF Abort
  <2>3. ASSUME NEW s \in Starters PROVE OnCourse(proc[s])'
    <3>1. OnCourse(proc[s]) BY DEF CourseTracked
    <3>2. proc[s].pc \in Picked \cup Running => proc[s].target \in Worker
      BY AtHand DEF Executing, Picked, Running
    <3> QED BY <2>1, <2>2, <3>1, <3>2 DEF OnCourse, AsKnown
  <2> QED BY <2>1, <2>3 DEF CourseTracked
<1> QED BY <1>1, <1>2, <1>4, <1>5, <1>6 DEF Next

\* With all workers registered with a session, one start at a time never asks
\* for an illegal update, whatever the operator aborts, whatever new prompts are
\* given and wherever an earlier start died.
THEOREM UpdatesAreLegal ==
  ASSUME OneStart, Registered # NoSession
  PROVE  Spec => []NeverRaises
<1>1. Init => CourseTracked
  <2> SUFFICES ASSUME Init PROVE CourseTracked OBVIOUS
  <2>1. PICK c \in Configs : workers = [w \in Worker |-> NewWorker(c)] BY DEF Init
  <2>2. \A w \in Worker : workers[w].session # NoSession BY <2>1 DEF NewWorker
  <2> QED BY <2>2 DEF Init, Proc, CourseTracked, OnCourse, Deciding, Picked, Running
<1>2. CourseTracked => NeverRaises BY DEF CourseTracked, OnCourse, NeverRaises
<1> QED BY <1>1, <1>2, InitTyped, NextTyped, CourseStep, PTL DEF Spec

-----------------------------------------------------------------------------
(* A start leaves the run settled.                                         *)

\* A start that ends here under that policy has left nothing behind.
Settled(policy) ==
  /\ DependencySeeds(View(workers)) = {}
  /\ policy = "continue" => ReadyIds(View(workers), {}) = {}

\* A process knows the state of every worker.  From the moment it marks the run
\* active a worker can be executable only if it was so then, so that a failed
\* creation of a session fails all that are; and the target was.
SettleKnown(p) ==
  /\ p.pc \in Busy \ {"begin"} =>
       \A w \in Worker : p.run[w].lifecycle = workers[w].lifecycle
  /\ p.pc = "probe" => workers[p.target].lifecycle \in ExecutableStates
  /\ p.pc \in Executing =>
       \A w \in Worker : workers[w].lifecycle \in ExecutableStates
                           => p.base[w].lifecycle \in ExecutableStates
  /\ p.pc \in Executing \ {"replan"} => p.base[p.target].lifecycle \in ExecutableStates
  /\ p.pc \in {"ended", "clean", "delete", "deleted"} => Settled(p.policy)

\* The dependencies of an active worker are done, even if its start died.
SettleTracked ==
  /\ \A w \in Worker : workers[w].abort # "accepted"
  /\ \A w \in Worker : workers[w].lifecycle = "active_wait" =>
       \A d \in deps[w] : d \in Worker /\ workers[d].lifecycle = "done_collect"
  /\ \A s \in Starters : SettleKnown(proc[s])

\* Records with the same lifecycles look the same to the dependency rules.
LEMMA SameView ==
  ASSUME NEW r, NEW x, \A w \in Worker : r[w].lifecycle = x[w].lifecycle
  PROVE  View(r) = View(x)
BY DEF View

LEMMA SettledStays ==
  ASSUME NEW policy, Settled(policy), deps' = deps,
         \A w \in Worker : workers'[w].lifecycle = workers[w].lifecycle
  PROVE  Settled(policy)'
<1>1. View(workers)' = View(workers) BY DEF View
<1> QED BY <1>1 DEF Settled

\* Each worker after an update that was made.
LEMMA UpdateMade ==
  ASSUME TypeOK, NEW s \in Starters, NEW tr, NEW q, Update(s, tr, q),
         proc'[s].pc # "raised"
  PROVE  /\ \A w \in Worker : w \in DOMAIN tr => workers'[w] = ApplyTransition(workers[w], tr[w])
         /\ \A w \in Worker : w \notin DOMAIN tr => workers'[w] = workers[w]
<1>1. proc \in [Starters -> Procs] /\ Persist(s, tr, q) BY DEF TypeOK, Update
<1>2. CASE proc' = [proc EXCEPT ![s] =
                      Proc("raised", proc[s].policy, proc[s].cleanup, proc[s].starts)]
  <2>1. proc'[s].pc = "raised" BY <1>1, <1>2 DEF Proc
  <2> QED BY <2>1
<1>3. CASE workers' = [w \in Worker |-> IF w \in DOMAIN tr
                         THEN ApplyTransition(workers[w], tr[w]) ELSE workers[w]]
  BY <1>3
<1> QED BY <1>1, <1>2, <1>3, PersistEffect

\* No step of a process makes an accepted abort.
LEMMA MovesUnaborted ==
  ASSUME TypeOK, NEW s \in Starters, Moves(s), NEW w \in Worker,
         workers[w].abort # "accepted"
  PROVE  workers'[w].abort # "accepted"
<1>0. workers[w] \in Workers BY DEF TypeOK, Records
<1>1. CASE SameProgress(workers[w], workers'[w])
  BY <1>1 DEF SameProgress
<1>2. ASSUME NEW t \in Transitions, Asks(proc[s], w, t),
             workers'[w] = ApplyTransition(workers[w], t)
      PROVE  workers'[w].abort # "accepted"
  <2>1. t.name # "aborted" BY <1>2 DEF Asks
  <2> QED BY <1>0, <1>2, <2>1, ApplyEffect
<1> QED BY <1>1, <1>2 DEF Moves

\* Only a start that activates its target makes a worker active.
LEMMA MovesActivate ==
  ASSUME TypeOK, NEW s \in Starters, Moves(s), NEW w \in Worker,
         workers'[w].lifecycle = "active_wait", workers[w].lifecycle # "active_wait"
  PROVE  proc[s].pc = "active" /\ proc[s].target = w
<1>0. workers[w] \in Workers BY DEF TypeOK, Records
<1>1. ~SameProgress(workers[w], workers'[w]) BY DEF SameProgress
<1>2. PICK t \in Transitions :
        Asks(proc[s], w, t) /\ workers'[w] = ApplyTransition(workers[w], t)
  BY <1>1 DEF Moves
<1>3. Landing(workers[w], t) = "active_wait" BY <1>0, <1>2, ApplyEffect
<1>4. t.name = "active"
  <2>1. /\ t.name = "failed" => t.retryable \in BOOLEAN /\ t.available \in BOOLEAN
        /\ t.name = "timed_out" => t.policy \in TimeoutPolicies /\ t.available \in BOOLEAN
        /\ t.name = "result_applied" => t.status \in ResultStatuses
    BY TransitionFields
  <2>2. t.name # "failed" BY <1>3, <2>1 DEF Landing, FailedTarget
  <2>3. t.name # "timed_out" BY <1>3, <2>1 DEF Landing, TimeoutTarget, TimeoutPolicies
  <2>4. t.name # "result_applied" BY <1>3, <2>1 DEF Landing, ResultTarget, ResultStatuses
  <2> QED BY <1>2, <1>3, <2>2, <2>3, <2>4, TransitionFields DEF Landing, Asks
<1> QED BY <1>2, <1>4 DEF Asks

\* Only the worker a start executes may become executable again, except for a
\* lease that expired before it.
LEMMA MovesRequeue ==
  ASSUME TypeOK, NEW s \in Starters, Moves(s), NEW w \in Worker,
         proc[s].pc \in Executing,
         workers'[w].lifecycle \in ExecutableStates,
         workers[w].lifecycle \notin ExecutableStates
  PROVE  proc[s].pc # "replan" /\ proc[s].target = w
<1>0. workers[w] \in Workers BY DEF TypeOK, Records
<1>1. ~SameProgress(workers[w], workers'[w]) BY DEF SameProgress
<1>2. PICK t \in Transitions :
        Asks(proc[s], w, t) /\ workers'[w] = ApplyTransition(workers[w], t)
  BY <1>1 DEF Moves
<1>3. Landing(workers[w], t) \in ExecutableStates BY <1>0, <1>2, ApplyEffect
<1>4. t.name \in {"failed", "timed_out", "retry_scheduled"}
  <2>1. t.name = "result_applied" => t.status \in ResultStatuses BY TransitionFields
  <2>2. t.name # "result_applied"
    BY <1>3, <2>1 DEF Landing, ResultTarget, ResultStatuses, ExecutableStates
  <2> QED BY <1>2, <1>3, <2>2, TransitionFields DEF Landing, Asks, ExecutableStates
<1>5. CASE t.name \in {"timed_out", "retry_scheduled"} BY <1>2, <1>5 DEF Asks, Executing
<1>6. CASE t.name = "failed"
  <2>1. t.retryable \in BOOLEAN /\ t.available \in BOOLEAN BY <1>6, TransitionFields
  <2>2. t.retryable BY <1>3, <1>6, <2>1 DEF Landing, FailedTarget, ExecutableStates
  <2> QED BY <1>2, <1>6, <2>2 DEF Asks
<1> QED BY <1>4, <1>5, <1>6

\* An update that does not raise goes on where it should.
LEMMA UpdateGoes ==
  ASSUME TypeOK, NEW s \in Starters, NEW tr, NEW q, Update(s, tr, q),
         proc'[s].pc # "raised"
  PROVE  proc'[s].pc = q.pc
<1>1. proc \in [Starters -> Procs] /\ Persist(s, tr, q) /\ q \in Procs
  BY DEF TypeOK, Update
<1>2. CASE proc' = [proc EXCEPT ![s] =
                      Proc("raised", proc[s].policy, proc[s].cleanup, proc[s].starts)]
  <2>1. proc'[s].pc = "raised" BY <1>1, <1>2 DEF Proc
  <2> QED BY <2>1
<1>3. CASE proc' = [proc EXCEPT ![s] =
                      IF q.pc \in Over
                      THEN Proc(q.pc, proc[s].policy, proc[s].cleanup, proc[s].starts)
                      ELSE [q EXCEPT !.run = workers']]
  <2>1. CASE q.pc \in Over BY <1>1, <1>3, <2>1 DEF Proc
  <2>2. CASE q.pc \notin Over
    <3> DEFINE n == [q EXCEPT !.run = workers']
    <3>1. proc'[s] = n BY <1>1, <1>3, <2>2
    <3>2. n.pc = q.pc BY <1>1, ResumedFields
    <3> QED BY <3>1, <3>2
  <2> QED BY <2>1, <2>2
<1> QED BY <1>1, <1>2, <1>3, PersistEffect

\* The last plan of a start leaves the run settled.
LEMMA PlanSettles ==
  ASSUME TypeOK, SettleTracked, NEW s \in Starters, Plan(s),
         proc'[s].pc \in {"ended", "clean"}
  PROVE  Settled(proc[s].policy)'
<1> DEFINE p == proc[s]
           v == View(p.run)
           blocked == BlockedIds(v, {})
           tr == [w \in blocked |-> DependencyBlocked]
           q == Selected(p, ReadyIds(v, blocked))
           n == View(workers)'
<1>1. Update(s, tr, q) /\ p.pc \in {"plan", "replan"} BY PlanEffect
<1>2. \A w \in Worker : p.run[w].lifecycle = workers[w].lifecycle
  BY <1>1 DEF SettleTracked, SettleKnown, Busy
<1>3. IsFiniteSet(Ids(v)) /\ Ids(v) = Worker
  BY NAssumption, FS_Interval DEF Worker, Ids, View
<1>4. ReadyIds(v, blocked) = {} \/ p.policy # "continue"
  <2>1. q.pc = proc'[s].pc
    <3> HIDE DEF tr, q
    <3> QED BY <1>1, UpdateGoes
  <2>2. p \in Procs BY DEF TypeOK
  <2>3. q.pc \in {"ended", "clean"} BY <2>1
  <2>4. CASE ~(ReadyIds(v, blocked) = {} \/ (p.error /\ p.policy = "fail_fast"))
    <3>1. q.pc \in {"probe", "provision"} BY <2>2, <2>4 DEF Selected, Procs
    <3> QED BY <2>3, <3>1
  <2> QED BY <2>4
<1>5. \A w \in blocked : w \in Worker BY <1>3, BlockedIdsEffect
<1>6. \A w \in Worker : workers'[w].lifecycle = IF w \in blocked THEN "blocked_dependency"
                                                ELSE v.life[w]
  <2> TAKE w \in Worker
  <2>1. workers[w] \in Workers /\ v.life[w] = workers[w].lifecycle
    BY <1>2 DEF TypeOK, Records, View
  <2>2. DOMAIN tr = blocked /\ (w \in blocked => tr[w] = DependencyBlocked) OBVIOUS
  <2>3. Update(s, tr, q) BY <1>1
  <2> HIDE DEF tr, q, blocked
  <2>4. /\ w \in blocked => workers'[w] = ApplyTransition(workers[w], DependencyBlocked)
        /\ w \notin blocked => workers'[w] = workers[w]
    BY <2>2, <2>3, UpdateMade
  <2>5. CASE w \in blocked
    <3>1. DependencyBlocked \in Transitions /\ DependencyBlocked.name = "dependency_blocked"
      BY DEF DependencyBlocked, NoFinalization, Transitions, Finalizations, AttemptStatuses
    <3>2. ~Swallows(workers[w], DependencyBlocked)
      BY DEF SettleTracked, Swallows, AcceptedAbort
    <3> QED BY <2>1, <2>4, <2>5, <3>1, <3>2, ApplyEffect DEF Landing
  <2> QED BY <2>1, <2>4, <2>5
<1>7. deps' = deps
  <2>1. Persist(s, tr, q) BY <1>1 DEF Update
  <2> HIDE DEF tr, q
  <2> QED BY <2>1, PersistEffect
<1>8. /\ n.life = [w \in Worker |-> workers'[w].lifecycle] /\ n.deps = v.deps
      /\ n.prompted = v.prompted /\ Ids(n) = Worker
  BY <1>7 DEF View, Ids
<1>9. \A w \in Ids(v) : n.life[w] = IF w \in BlockedIds(v, {})
                                    THEN "blocked_dependency" ELSE v.life[w]
  BY <1>3, <1>6, <1>8
<1> HIDE DEF v, n
<1>10. /\ DependencySeeds(n) = {}
       /\ ReadyIds(v, BlockedIds(v, {})) = {} => ReadyIds(n, {}) = {}
  BY <1>3, <1>8, <1>9, BlockingSettles
<1>11. proc'[s].policy = p.policy
  <2>1. Moves(s) BY WorkMoves DEF Work
  <2> QED BY <2>1 DEF Moves, GoesOn
<1> QED BY <1>4, <1>10, <1>11 DEF Settled, n

\* So does a start that fails all workers it knows to be left.
LEMMA FailureSettles ==
  ASSUME TypeOK, SettleTracked, NEW s \in Starters, Moves(s),
         NEW run \in Records, NEW pc \in {"ended", "clean"}, FailStart(s, run, pc),
         UNCHANGED server, proc[s].pc \in {"probe", "create"},
         proc'[s].pc # "raised",
         \A w \in Worker : workers[w].lifecycle \in ExecutableStates
                             => run[w].lifecycle \in ExecutableStates
  PROVE  Settled(proc[s].policy)'
<1> DEFINE tr == [w \in Pending(run) |-> MarkFailed(run[w], "api", FALSE, NoFinalization)]
           q  == [proc[s] EXCEPT !.pc = pc]
           n == View(workers)'
<1>1. /\ Update(s, tr, q)
      /\ \A w \in DOMAIN tr : w \in Worker /\ tr[w].name = "failed" /\ ~tr[w].retryable
  <2>1. pc \in Over \cup {"clean"} /\ proc[s].pc \in Busy \ {"begin"} BY DEF Over, Busy
  <2> QED BY <2>1, FailStartEffect
<1>2. \A w \in Worker : workers[w].lifecycle \in ExecutableStates => w \in DOMAIN tr
  BY DEF Pending, Executable, View
<1> HIDE DEF tr, q
<1>3. ASSUME NEW w \in Worker
      PROVE  /\ workers'[w].lifecycle \notin ExecutableStates
             /\ workers'[w].lifecycle = "active_wait" =>
                  \A d \in deps[w] : d \in Worker /\ workers'[d].lifecycle = "done_collect"
  <2>0. workers[w] \in Workers BY DEF TypeOK, Records
  <2>1. CASE w \in DOMAIN tr
    <3>1. workers'[w] = ApplyTransition(workers[w], tr[w]) BY <1>1, <2>1, UpdateMade
    <3>2. tr[w] \in Transitions BY <1>1, <2>1 DEF Update
    <3>3. ~Swallows(workers[w], tr[w]) BY DEF SettleTracked, Swallows, AcceptedAbort
    <3>4. tr[w].name = "failed" /\ ~tr[w].retryable BY <1>1, <2>1
    <3>5. Landing(workers[w], tr[w]) = "failed_terminal"
      BY <3>4 DEF Landing, FailedTarget
    <3>6. workers'[w].lifecycle = "failed_terminal"
      BY <2>0, <3>1, <3>2, <3>3, <3>5, ApplyEffect
    <3> QED BY <3>6 DEF ExecutableStates
  <2>2. CASE w \notin DOMAIN tr
    <3>1. workers'[w] = workers[w] BY <1>1, <2>2, UpdateMade
    <3>2. workers'[w].lifecycle \notin ExecutableStates BY <1>2, <2>2, <3>1
    <3>3. ASSUME workers'[w].lifecycle = "active_wait", NEW d \in deps[w]
          PROVE  d \in Worker /\ workers'[d].lifecycle = "done_collect"
      <4>1. d \in Worker /\ workers[d].lifecycle = "done_collect"
        BY <3>1, <3>3 DEF SettleTracked
      <4> QED BY <4>1, MovesKeepDone
    <3> QED BY <3>2, <3>3
  <2> QED BY <2>1, <2>2
<1>4. deps' = deps BY DEF Moves
<1>5. \A w \in Ids(n) : /\ ~Executable(n, w)
                        /\ n.life[w] = "active_wait" => DependenciesDone(n, w)
  BY <1>3, <1>4 DEF Ids, View, Executable, DependenciesDone
<1> HIDE DEF n
<1>6. DependencySeeds(n) = {} /\ ReadyIds(n, {}) = {} BY <1>5, NoneLeftSettles
<1> QED BY <1>6 DEF Settled, n

\* The cleanup phase leaves the workers where they are.
LEMMA MovesRest ==
  ASSUME TypeOK, NEW s \in Starters, Moves(s), NEW w \in Worker,
         proc[s].pc \in {"clean", "delete", "deleted"}
  PROVE  workers'[w].lifecycle = workers[w].lifecycle
<1>0. workers[w] \in Workers BY DEF TypeOK, Records
<1>1. CASE SameProgress(workers[w], workers'[w]) BY <1>1 DEF SameProgress
<1>2. ASSUME NEW t \in Transitions, Asks(proc[s], w, t),
             workers'[w] = ApplyTransition(workers[w], t)
      PROVE  workers'[w].lifecycle = workers[w].lifecycle
  <2>1. t.name = "cleanup_updated" BY <1>2, TransitionFields DEF Asks
  <2> QED BY <1>0, <1>2, <2>1, ApplyEffect DEF Landing
<1> QED BY <1>1, <1>2 DEF Moves

\* A step by which a start ends or goes to its cleanup phase.
LEMMA EndsSettled ==
  ASSUME TypeOK, SettleTracked, NEW s \in Starters, Work(s),
         proc'[s].pc \in {"ended", "clean", "delete", "deleted"}
  PROVE  Settled(proc[s].policy)'
<1> DEFINE p == proc[s]
<1>0. /\ p \in Procs /\ Equipped(p) /\ SettleKnown(p) /\ Moves(s)
  BY WorkMoves, AtHand DEF SettleTracked
<1>1. deps' = deps /\ (\/ proc'[s].pc \in Over /\ proc'[s].policy = p.policy
                       \/ GoesOn(p, proc'[s], workers'))
  BY <1>0 DEF Moves
<1>2. proc'[s].policy = p.policy BY <1>1 DEF GoesOn
<1>3. CASE p.pc \in {"clean", "delete", "deleted"}
  <2>1. Settled(p.policy) BY <1>0, <1>3 DEF SettleKnown
  <2>2. \A w \in Worker : workers'[w].lifecycle = workers[w].lifecycle
    BY <1>0, <1>3, MovesRest
  <2> DEFINE policy == p.policy
  <2>3. View(workers)' = View(workers) BY <1>1, <2>2 DEF View
  <2> QED BY <1>2, <2>1, <2>3 DEF Settled
<1>4. CASE Plan(s)
  <2>1. p.pc \in {"plan", "replan"} BY <1>4 DEF Plan
  <2>2. proc'[s].pc \in {"ended", "clean"} BY <1>1, <2>1 DEF GoesOn, Flow, Over
  <2> QED BY <1>4, <2>2, PlanSettles
<1>5. CASE ProbeFails(s)
  <2>1. p.pc = "probe" /\ FailStart(s, p.run, "ended") /\ UNCHANGED server
    BY <1>5 DEF ProbeFails
  <2>2. p.run \in Records BY <1>0, <2>1 DEF Equipped, Busy
  <2>3. \A w \in Worker : p.run[w].lifecycle = workers[w].lifecycle
    BY <1>0, <2>1 DEF SettleKnown, Busy
  <2>4. \A w \in Worker : workers[w].lifecycle \in ExecutableStates
                            => p.run[w].lifecycle \in ExecutableStates
    BY <2>3
  <2> DEFINE pc == "ended"
  <2>5. FailStart(s, p.run, pc) /\ pc \in {"ended", "clean"} BY <2>1
  <2>6. p.pc \in {"probe", "create"} /\ proc'[s].pc # "raised" BY <2>1
  <2> HIDE DEF pc
  <2> QED BY <1>0, <2>1, <2>2, <2>4, <2>5, <2>6, FailureSettles
<1>6. CASE CreationFails(s)
  <2>1. p.pc = "create" /\ FailStart(s, p.base, Executed(p)) /\ UNCHANGED server
    BY <1>6 DEF CreationFails
  <2>2. p.base \in Records BY <1>0, <2>1 DEF Equipped, Executing
  <2>4. \A w \in Worker : workers[w].lifecycle \in ExecutableStates
                            => p.base[w].lifecycle \in ExecutableStates
    BY <1>0, <2>1 DEF SettleKnown, Executing
  <2>5. Executed(p) \in {"ended", "clean"} BY DEF Executed
  <2>6. p.pc \in {"probe", "create"} /\ proc'[s].pc # "raised"
    BY <2>1, SMTT(30)
  <2> QED BY <1>0, <2>1, <2>2, <2>4, <2>5, <2>6, FailureSettles
<1>7. ASSUME p.pc \notin {"clean", "delete", "deleted"}, ~Plan(s), ~ProbeFails(s),
             ~CreationFails(s)
      PROVE  FALSE
  <2>1. CASE Begin(s)
    <3>1. proc' = [proc EXCEPT ![s].pc = "recover", ![s].run = workers]
      BY <2>1 DEF Begin
    <3>2. proc'[s].pc = "recover" BY <1>0, <3>1 DEF TypeOK, Procs
    <3> QED BY <3>2
  <2>2. CASE MarkRunActive(s)
    <3>1. proc' = [proc EXCEPT ![s].pc = "provision", ![s].run = workers,
                               ![s].base = workers]
      BY <2>2 DEF MarkRunActive
    <3>2. proc'[s].pc = "provision" BY <1>0, <3>1 DEF TypeOK, Procs
    <3> QED BY <3>2
  <2>3. CASE Recover(s)
    <3>1. PICK tr : \E q : Update(s, tr, q) /\ q.pc = "plan" BY <2>3, RecoverEffect
    <3>2. PICK q : Update(s, tr, q) /\ q.pc = "plan" BY <3>1
    <3>3. proc'[s].pc # "raised" OBVIOUS
    <3> QED BY <3>2, <3>3, UpdateGoes
  <2>4. ASSUME NEW t, NEW q, Update(s, [w \in {q.target} |-> t], q)
        PROVE  proc'[s].pc \in {"raised", q.pc}
    <3> DEFINE tr == [w \in {q.target} |-> t]
    <3>1. Update(s, tr, q) BY <2>4
    <3> HIDE DEF tr
    <3> QED BY <3>1, UpdateGoes
  <2>5. CASE Provision(s)
    <3> DEFINE t == Provisioned(p.run[p.target])
               q == [p EXCEPT !.pc = "active"]
    <3>1. Update(s, [w \in {q.target} |-> t], q) /\ q.pc = "active"
      BY <2>5, ProvisionEffect
    <3> HIDE DEF t, q
    <3> QED BY <2>4, <3>1
  <2>6. CASE Activate(s)
    <3> DEFINE q == [p EXCEPT !.pc = "attempt"]
    <3>1. Update(s, [w \in {q.target} |-> MarkActive], q) /\ q.pc = "attempt"
      BY <2>6, ActivateEffect
    <3> HIDE DEF q
    <3> QED BY <2>4, <3>1
  <2>7. CASE StartAttempt(s)
    <3> DEFINE t == AttemptStarted(p.run[p.target])
    <3>1. PICK q : Update(s, [w \in {q.target} |-> t], q) /\ q.pc \in {"refused", "prompt"}
      BY <2>7, StartAttemptEffect
    <3> HIDE DEF t
    <3> QED BY <2>4, <3>1
  <2>8. CASE Answer(s)
    <3>1. PICK t \in Transitions : \E q :
            Update(s, [x \in {q.target} |-> t], q) /\ q.pc = "replan"
      BY <2>8, AnswerEffect, ZenonT(30)
    <3>2. PICK q : Update(s, [x \in {q.target} |-> t], q) /\ q.pc = "replan" BY <3>1
    <3> QED BY <2>4, <3>2
  <2>9. CASE Intend(s)
    <3>1. proc' = [proc EXCEPT ![s].pc = "create", ![s].run = workers] BY <2>9 DEF Intend
    <3>2. proc'[s].pc = "create" BY <1>0, <3>1 DEF TypeOK, Procs
    <3> QED BY <3>2
  <2>10. CASE CreateSession(s)
    <3>1. proc[s].pc = "create" BY <2>10, Zenon DEF CreateSession
    <3>2. proc'[s].pc = "provisioned"
      <4>1. CASE proc' = [proc EXCEPT ![s] = [p EXCEPT !.pc = "provisioned",
                                                       !.run = workers]]
        BY <1>0, <4>1 DEF TypeOK, Procs
      <4>2. ASSUME NEW x, proc' = [proc EXCEPT ![s] =
                       [p EXCEPT !.pc = "provisioned", !.run = workers',
                                 !.remembered = IF p.cleanup
                                   THEN [p.remembered EXCEPT ![p.target] = @ \cup {x}]
                                   ELSE p.remembered]]
            PROVE  proc'[s].pc = "provisioned"
        <5> DEFINE remembered == IF p.cleanup
                                 THEN [p.remembered EXCEPT ![p.target] = @ \cup {x}]
                                 ELSE p.remembered
        <5>1. proc' = [proc EXCEPT ![s] = [p EXCEPT !.pc = "provisioned",
                                 !.run = workers', !.remembered = remembered]]
          BY <4>2
        <5> HIDE DEF remembered
        <5> QED BY <1>0, <5>1 DEF TypeOK, Procs
      <4> QED BY <2>10, <4>1, <4>2, CreateSessionEffect, Zenon
    <3> QED BY <3>2, SMTT(30)
  <2> QED
    BY <1>7, <2>1, <2>2, <2>3, <2>5, <2>6, <2>7, <2>8, <2>9, <2>10, Zenon
       DEF Work, PlanCleanup, DeleteSessions, RecordCleanup
<1> QED BY <1>3, <1>4, <1>5, <1>6, <1>7

LEMMA SettleKnownMoves ==
  ASSUME TypeOK, SettleTracked, NEW s \in Starters, Work(s)
  PROVE  SettleKnown(proc[s])'
<1> DEFINE p == proc[s]
           q == proc'[s]
<1>0. /\ p \in Procs /\ Equipped(p) /\ SettleKnown(p) /\ Moves(s)
      /\ p.pc \in Executing \cup {"probe"} => p.target \in Worker
  BY WorkMoves, AtHand DEF SettleTracked
<1>1. ASSUME q.pc \in {"ended", "clean", "delete", "deleted"}
      PROVE  Settled(proc[s].policy)'
  BY <1>1, EndsSettled
<1>2. CASE q.pc \in Over BY <1>1, <1>2 DEF SettleKnown, Over, Busy, Executing
<1>3. CASE GoesOn(p, q, workers')
  <2>1. ASSUME NEW w \in Worker PROVE q.run[w].lifecycle = workers'[w].lifecycle
    <3>1. CASE q.pc = "deleted" \/ p.pc = "clean"
      <4>1. p.pc \in {"clean", "delete"} /\ q.run = p.run
        BY <1>3, <3>1 DEF GoesOn, Flow
      <4>2. p.run[w].lifecycle = workers[w].lifecycle
        BY <1>0, <4>1 DEF SettleKnown, Busy
      <4> QED BY <1>0, <4>1, <4>2, MovesRest
    <3> QED BY <1>3, <3>1 DEF GoesOn
  <2>2. ASSUME p.pc \in {"plan", "replan"}, q.pc # "clean"
        PROVE  /\ q.target \in Worker
               /\ workers[q.target].lifecycle \in ExecutableStates
               /\ workers'[q.target].lifecycle \in ExecutableStates
    <3>1. q.target \in ReadyIds(View(p.run), BlockedIds(View(p.run), {}))
      BY <1>3, <2>2 DEF GoesOn
    <3>2. /\ q.target \in Worker /\ q.target \notin BlockedIds(View(p.run), {})
          /\ p.run[q.target].lifecycle \in ExecutableStates
      BY <3>1 DEF ReadyIds, Ids, View, Executable
    <3>3. SameProgress(workers[q.target], workers'[q.target])
      BY <1>0, <2>2, <3>2, PlanSpares
    <3>4. p.run[q.target].lifecycle = workers[q.target].lifecycle
      BY <1>0, <2>2, <3>2 DEF SettleKnown, Busy
    <3> QED BY <3>2, <3>3, <3>4 DEF SameProgress
  <2>3. ASSUME q.pc = "probe" PROVE workers'[q.target].lifecycle \in ExecutableStates
    <3>1. p.pc = "plan" BY <1>3, <2>3 DEF GoesOn, Flow
    <3> QED BY <2>2, <2>3, <3>1
  <2>4. ASSUME q.pc \in Executing, NEW w \in Worker,
               workers'[w].lifecycle \in ExecutableStates
        PROVE  q.base[w].lifecycle \in ExecutableStates
    <3>1. CASE p.pc = "probe" BY <1>3, <2>4, <3>1 DEF GoesOn
    <3>2. CASE p.pc # "probe"
      <4>1. p.pc \in Executing /\ q.base = p.base
        BY <1>3, <2>4, <3>2 DEF GoesOn, Flow, Executing
      <4>2. CASE workers[w].lifecycle \in ExecutableStates
        BY <1>0, <4>1, <4>2 DEF SettleKnown
      <4>3. CASE workers[w].lifecycle \notin ExecutableStates
        <5>1. p.pc # "replan" /\ p.target = w BY <1>0, <2>4, <4>1, <4>3, MovesRequeue
        <5> QED BY <1>0, <4>1, <5>1 DEF SettleKnown
      <4> QED BY <4>2, <4>3
    <3> QED BY <3>1, <3>2
  <2>5. ASSUME q.pc \in Executing \ {"replan"}
        PROVE  q.base[q.target].lifecycle \in ExecutableStates
    <3>1. CASE p.pc = "probe"
      <4>1. q.target = p.target /\ q.base = workers' /\ p.target \in Worker
        BY <1>0, <1>3, <3>1 DEF GoesOn
      <4>2. SameProgress(workers[p.target], workers'[p.target])
        BY <1>0, <2>5, <3>1, <4>1 DEF Moves
      <4> QED BY <1>0, <3>1, <4>1, <4>2 DEF SettleKnown, SameProgress
    <3>2. CASE p.pc = "replan"
      <4>1. q.target \in Worker /\ workers[q.target].lifecycle \in ExecutableStates
        BY <2>2, <2>5, <3>2 DEF Executing
      <4>2. q.base = p.base BY <1>3, <3>2 DEF GoesOn
      <4> QED BY <1>0, <3>2, <4>1, <4>2 DEF SettleKnown, Executing
    <3>3. CASE p.pc \notin {"probe", "replan"}
      <4>1. p.pc \in Executing \ {"replan"} /\ q.target = p.target /\ q.base = p.base
        BY <1>3, <2>5, <3>3 DEF GoesOn, Flow, Executing
      <4> QED BY <1>0, <4>1 DEF SettleKnown
    <3> QED BY <3>1, <3>2, <3>3
  <2> QED BY <1>1, <2>1, <2>3, <2>4, <2>5 DEF SettleKnown
<1> QED BY <1>0, <1>2, <1>3 DEF Moves

\* One start at a time and no aborts; a worker gets no new prompt while another
\* that depends on it may be left active by a start that died.
Alone == OneStart /\ Abortable = {} /\ (Reprompted = {} \/ Mortal = {})

LEMMA SettleStep ==
  ASSUME Alone
  PROVE  TypeOK /\ DependenciesTracked /\ SettleTracked /\ (Reprompted = {} \/ ActiveHasExecutor)
           /\ [Next]_vars => SettleTracked'
<1> SUFFICES ASSUME TypeOK, DependenciesTracked, SettleTracked,
                    Reprompted = {} \/ ActiveHasExecutor, [Next]_vars
             PROVE  SettleTracked'
  OBVIOUS
<1>0. proc \in [Starters -> Procs] BY DEF TypeOK
<1>1. CASE UNCHANGED vars
  <2>1. workers' = workers /\ deps' = deps /\ proc' = proc BY <1>1 DEF vars
  <2>2. View(workers)' = View(workers) BY <2>1 DEF View
  <2>3. ASSUME NEW s \in Starters PROVE SettleKnown(proc[s])'
    <3>1. SettleKnown(proc[s]) BY DEF SettleTracked
    <3> QED BY <2>1, <2>2, <3>1 DEF SettleKnown, Settled
  <2> QED BY <2>1, <2>3 DEF SettleTracked
<1>2. ASSUME NEW s \in Starters, Work(s) PROVE SettleTracked'
  <2>0. Moves(s) /\ DoneBy(proc[s]) BY <1>2, WorkMoves DEF DependenciesTracked
  <2>1. \A w \in Worker : workers'[w].abort # "accepted"
    BY <2>0, MovesUnaborted DEF SettleTracked
  <2>2. ASSUME NEW w \in Worker, workers'[w].lifecycle = "active_wait", NEW d \in deps'[w]
        PROVE  d \in Worker /\ workers'[d].lifecycle = "done_collect"
    <3>1. deps' = deps BY <2>0 DEF Moves
    <3>2. d \in Worker /\ workers[d].lifecycle = "done_collect"
      <4>1. CASE workers[w].lifecycle = "active_wait"
        BY <2>2, <3>1, <4>1 DEF SettleTracked
      <4>2. CASE workers[w].lifecycle # "active_wait"
        <5>1. proc[s].pc = "active" /\ proc[s].target = w
          BY <2>0, <2>2, <4>2, MovesActivate
        <5> QED BY <2>0, <2>2, <3>1, <5>1 DEF DoneBy, Executing
      <4> QED BY <4>1, <4>2
    <3> QED BY <2>0, <3>2, MovesKeepDone
  <2>3. SettleKnown(proc[s])' BY <1>2, SettleKnownMoves
  <2> QED BY <2>1, <2>2, <2>3 DEF SettleTracked, Alone, OneStart
<1>3. ASSUME NEW s \in Starters, proc'[s].pc \in (Over \cup {"begin"}) \ {"ended"}
      PROVE  \A t \in Starters : SettleKnown(proc[t])'
  <2>1. SettleKnown(proc[s])'
    BY <1>3 DEF SettleKnown, Over, Busy, Executing
  <2> QED BY <2>1 DEF Alone, OneStart
<1>4. ASSUME NEW s \in Starters, Request(s) PROVE SettleTracked'
  <2>1. deps' = deps /\ proc[s].pc \in Over BY <1>4 DEF Request
  <2>2. PICK policy, cleanup :
          proc' = [proc EXCEPT ![s] = Proc("begin", policy, cleanup, @.starts + 1)]
    BY <1>4 DEF Request
  <2>3. proc'[s].pc = "begin" BY <1>0, <2>2 DEF Proc
  <2>4. \A t \in Starters : SettleKnown(proc[t])' BY <1>3, <2>3
  <2>5. CASE workers' = workers BY <2>1, <2>4, <2>5 DEF SettleTracked
  <2>6. ASSUME NEW w \in Reprompted, workers' = [workers EXCEPT ![w] = RequeuedWorker(@)]
        PROVE  SettleTracked'
    <3>1. ASSUME NEW x \in Worker PROVE workers[x].lifecycle # "active_wait"
      BY <2>1, <2>6 DEF ActiveHasExecutor, Alone, OneStart, Over
    <3>2. ASSUME NEW x \in Worker
          PROVE  workers'[x].abort # "accepted" /\ workers'[x].lifecycle # "active_wait"
      <4>1. workers \in Records /\ workers[x] \in Workers BY DEF TypeOK, Records
      <4>2. workers[x].abort # "accepted" BY DEF SettleTracked
      <4>3. CASE x = w
        <5>1. workers'[x] = RequeuedWorker(workers[x]) BY <2>6, <4>1, <4>3 DEF Records
        <5> QED BY <4>1, <4>2, <5>1 DEF RequeuedWorker, Workers
      <4>4. CASE x # w BY <2>6, <3>1, <4>1, <4>2, <4>4 DEF Records
      <4> QED BY <4>3, <4>4
    <3> QED BY <2>4, <3>2 DEF SettleTracked
  <2> QED BY <1>4, <2>5, <2>6 DEF Request
<1>5. ASSUME NEW s \in Starters, Stop(s) PROVE SettleTracked'
  <2>1. workers' = workers /\ deps' = deps /\ Leaves(s, "stopped") BY <1>5 DEF Stop
  <2> DEFINE g == Gone(proc[s], "stopped")
  <2>2. proc' = [proc EXCEPT ![s] = g] BY <2>1, LeavesEffect DEF Gone
  <2>3. g.pc = "stopped" BY <1>0, GoneFields, ZenonT(30)
  <2> HIDE DEF g
  <2>4. proc'[s].pc = "stopped" BY <1>0, <2>2, <2>3
  <2>5. \A t \in Starters : SettleKnown(proc[t])' BY <1>3, <2>4 DEF Over
  <2> QED BY <2>1, <2>5 DEF SettleTracked
<1> QED BY <1>1, <1>2, <1>4, <1>5 DEF Next, Alone

\* Without aborts, one start at a time that comes to an end of its own leaves no
\* worker that could only wait for a failed one, and under continue none that is
\* ready, even if the probe or the creation of a session failed: wherever starts
\* before it died or, if none did, whatever new prompts were given.
THEOREM RunsAreSettled ==
  ASSUME Alone
  PROVE  Spec => []StartSettlesRun
<1>1. Init => SettleTracked
  <2> SUFFICES ASSUME Init PROVE SettleTracked OBVIOUS
  <2>1. PICK c \in Configs : workers = [w \in Worker |-> NewWorker(c)] BY DEF Init
  <2>2. \A w \in Worker : workers[w].abort = "none" /\ workers[w].lifecycle = "queued"
    BY <2>1 DEF NewWorker
  <2>3. \A s \in Starters : SettleKnown(proc[s])
    BY DEF Init, Proc, SettleKnown, Busy, Executing
  <2> QED BY <2>2, <2>3 DEF SettleTracked
<1>2. SettleTracked => StartSettlesRun
  <2> SUFFICES ASSUME SettleTracked, NEW s \in Starters, proc[s].pc = "ended"
               PROVE  Settled(proc[s].policy)
    BY DEF StartSettlesRun, Settled
  <2> QED BY DEF SettleTracked, SettleKnown
<1>3. Undisturbed BY DEF Alone, OneStart, Undisturbed
<1>4. Init => DependenciesTracked
  BY DEF Init, Proc, DependenciesTracked, DoneBy, Busy, Executing
<1>5. TypeOK /\ DependenciesTracked /\ [Next]_vars => DependenciesTracked'
  BY <1>3, DependenciesTrackedStep
<1> DEFINE Attended == Reprompted = {} \/ ActiveHasExecutor
<1>6. Init => Attended
  <2>1. Init => ActiveHasExecutor BY DEF Init, NewWorker, ActiveHasExecutor
  <2> QED BY <2>1
<1>7. TypeOK /\ Attended /\ [Next]_vars => Attended'
  <2>1. CASE Reprompted = {} BY <2>1
  <2>2. CASE Mortal = {} BY <2>2, ActiveStep
  <2> QED BY <2>1, <2>2 DEF Alone
<1>8. TypeOK /\ DependenciesTracked /\ SettleTracked /\ Attended /\ [Next]_vars => SettleTracked'
  BY SettleStep
<1> HIDE DEF Attended
<1> QED
  BY <1>1, <1>2, <1>4, <1>5, <1>6, <1>7, <1>8, InitTyped, NextTyped, PTL DEF Spec
=============================================================================
