------------------------- MODULE WorkerDependencies -------------------------
(***************************************************************************)
(* The dependency rules of worker_dependencies.py as operators over the    *)
(* workers of one run: v.life is their lifecycle states, v.prompted the    *)
(* ones that have a prompt, v.deps the ids each depends on.  An id in deps *)
(* may name no worker.                                                     *)
(***************************************************************************)
EXTENDS WorkerTransitions, FiniteSets

Ids(v) == DOMAIN v.life

Executable(v, w) == w \in v.prompted /\ v.life[w] \in ExecutableStates

Blockable(v, w) == w \in v.prompted /\ v.life[w] \in RunnableStates

\* A dependency that would have to run first and never will: it has no prompt.
NonRunnable(v, d) ==
  d \in Ids(v) /\ v.life[d] \in RunnableStates /\ d \notin v.prompted

\* A dependency that names no worker is not counted as failed.
FailedKnownDependency(v, d) ==
  d \in Ids(v) /\ v.life[d] \in FailedDependencyStates

\* A dependency that names no worker counts as failed.
FailedDependency(v, d) ==
  d \in Ids(v) => v.life[d] \in FailedDependencyStates

DependenciesDone(v, w) ==
  \A d \in v.deps[w] : d \in Ids(v) /\ v.life[d] = "done_collect"

InvalidSeeds(v, cyclic) ==
  {w \in Ids(v) : Blockable(v, w)
                  /\ (w \in cyclic \/ \E d \in v.deps[w] : NonRunnable(v, d))}

DependencySeeds(v) ==
  {w \in Ids(v) : Blockable(v, w)
                  /\ \E d \in v.deps[w] : FailedDependency(v, d)}

\* One round of the propagation: the dependents of blocked workers.
NewlyBlocked(v, blocked) ==
  {w \in Ids(v) \ blocked : Blockable(v, w) /\ v.deps[w] \cap blocked # {}}

\* All rounds: each but the last blocks a worker.
Propagated(v, seeds) ==
  LET rounds[n \in Nat] ==
        IF n = 0 THEN seeds
        ELSE LET before == rounds[n - 1]
             IN before \cup NewlyBlocked(v, before)
  IN rounds[Cardinality(Ids(v))]

\* The two kinds of blockers propagate by the same rule; merged, they name the
\* workers to block.
BlockedIds(v, cyclic) ==
  Propagated(v, InvalidSeeds(v, cyclic) \cup DependencySeeds(v))

\* Takes a worker that is not blocked for one that is ready.
ReadyIdsUnblocked(v, blocked) == {w \in Ids(v) \ blocked : Executable(v, w)}

ReadyIds(v, blocked) ==
  {w \in Ids(v) \ blocked : Executable(v, w) /\ DependenciesDone(v, w)}
=============================================================================
