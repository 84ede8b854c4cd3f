------------------------- MODULE DependencyAnalysis -------------------------
(***************************************************************************)
(* analyze_worker_dependencies step by step: the depth-first search that   *)
(* orders the workers and reports cycles, then the blocker seeds and their *)
(* propagation, round by round, then the ready workers.                    *)
(*                                                                         *)
(* Workers are numbered in the sorted order of their ids.  A worker's      *)
(* dependencies form a list; the search may take them in any order here.   *)
(* The search reads the graph alone, so the states of the workers are      *)
(* chosen when it is over.                                                 *)
(***************************************************************************)
EXTENDS WorkerDependencies, SequencesExt

CONSTANTS
  N,        \* number of workers
  Missing,  \* an id that names no worker
  Kinds     \* [life, prompted] combinations a worker may be in

Worker == 1 .. N

ASSUME NAssumption == N \in Nat \ {0} /\ Missing \notin Worker
ASSUME KindsAssumption ==
  Kinds \subseteq [life : LifecycleStates, prompted : BOOLEAN]

VARIABLES
  deps,     \* the dependency graph
  visiting, \* the search's path, each with its dependencies still to visit
  visited,
  ordered,  \* worker_ids_in_dependency_order
  cycles,   \* the cycles reported, as sequences of workers
  phase,    \* search, seed, propagate, done
  view,     \* the workers, once chosen
  blocked,  \* blockers by kind: invalid, dependency
  ready     \* ready_worker_ids

vars == <<deps, visiting, visited, ordered, cycles, phase, view, blocked,
          ready>>

Kind == {"invalid", "dependency"}

NoView == [life |-> << >>, prompted |-> {}, deps |-> << >>]

Init ==
  /\ deps \in [Worker -> SUBSET (Worker \cup {Missing})]
  /\ visiting = << >> /\ visited = {} /\ ordered = << >> /\ cycles = {}
  /\ phase = "search"
  /\ view = NoView
  /\ blocked = [k \in Kind |-> {}]
  /\ ready = {}

-----------------------------------------------------------------------------
(* The search.                                                             *)

Path == [i \in DOMAIN visiting |-> visiting[i].worker]
Frame(w) == [worker |-> w, todo |-> deps[w]]

\* The outer loop takes the next worker in sorted order.
VisitRoot ==
  /\ phase = "search" /\ visiting = << >>
  /\ visited # Worker
  /\ LET w == CHOOSE w \in Worker \ visited :
                \A x \in Worker \ visited : w <= x
     IN visiting' = <<Frame(w)>>
  /\ UNCHANGED <<deps, visited, ordered, cycles, phase, view, blocked, ready>>

\* The path without d among what its last worker has still to visit.
Advanced(d) ==
  [visiting EXCEPT ![Len(visiting)].todo = @ \ {d}]

\* Looks for a cycle among the finished workers instead of those on the path.
VisitDependencyNoCycle ==
  /\ phase = "search" /\ visiting # << >>
  /\ \E d \in Last(visiting).todo :
       \/ /\ d \in visited \cup {Missing} \cup Range(Path)
          /\ visiting' = Advanced(d)
          /\ UNCHANGED cycles
       \/ /\ d \notin visited \cup Range(Path) /\ d # Missing
          /\ visiting' = Append(Advanced(d), Frame(d))
          /\ UNCHANGED cycles
  /\ UNCHANGED <<deps, visited, ordered, phase, view, blocked, ready>>

VisitDependency ==
  /\ phase = "search" /\ visiting # << >>
  /\ \E d \in Last(visiting).todo :
       \/ /\ d \in visited \cup {Missing}
          /\ visiting' = Advanced(d)
          /\ UNCHANGED cycles
       \/ \E i \in DOMAIN visiting :
            /\ visiting[i].worker = d
            /\ cycles' = cycles \cup {SubSeq(Path, i, Len(Path))}
            /\ visiting' = Advanced(d)
       \/ /\ d \notin visited \cup Range(Path) /\ d # Missing
          /\ visiting' = Append(Advanced(d), Frame(d))
          /\ UNCHANGED cycles
  /\ UNCHANGED <<deps, visited, ordered, phase, view, blocked, ready>>

\* Puts each worker before its dependencies.
LeaveReversed ==
  /\ phase = "search" /\ visiting # << >>
  /\ Last(visiting).todo = {}
  /\ LET w == Last(visiting).worker
     IN visited' = visited \cup {w} /\ ordered' = <<w>> \o ordered
  /\ visiting' = Front(visiting)
  /\ UNCHANGED <<deps, cycles, phase, view, blocked, ready>>

Leave ==
  /\ phase = "search" /\ visiting # << >>
  /\ Last(visiting).todo = {}
  /\ LET w == Last(visiting).worker
     IN visited' = visited \cup {w} /\ ordered' = Append(ordered, w)
  /\ visiting' = Front(visiting)
  /\ UNCHANGED <<deps, cycles, phase, view, blocked, ready>>

-----------------------------------------------------------------------------
(* Blockers.                                                               *)

Cyclic == UNION {Range(c) : c \in cycles}

Seed ==
  /\ phase = "search" /\ visiting = << >> /\ visited = Worker
  /\ \E k \in [Worker -> Kinds] :
       view' = [life     |-> [w \in Worker |-> k[w].life],
                prompted |-> {w \in Worker : k[w].prompted},
                deps     |-> deps]
  /\ blocked' = [invalid    |-> InvalidSeeds(view', Cyclic),
                 dependency |-> DependencySeeds(view')]
  /\ phase' = "propagate"
  /\ UNCHANGED <<deps, visiting, visited, ordered, cycles, ready>>

\* Stops as soon as one of the two kinds finds nothing new.
PropagateUntilOneSettles ==
  LET new == [k \in Kind |-> NewlyBlocked(view, blocked[k])] IN
  /\ phase = "propagate"
  /\ \/ /\ \A k \in Kind : new[k] # {}
        /\ blocked' = [k \in Kind |-> blocked[k] \cup new[k]]
        /\ UNCHANGED <<phase, ready>>
     \/ /\ \E k \in Kind : new[k] = {}
        /\ ready' = ReadyIds(view, UNION {blocked[k] : k \in Kind})
        /\ phase' = "done"
        /\ UNCHANGED blocked
  /\ UNCHANGED <<deps, visiting, visited, ordered, cycles, view>>

\* A round for both kinds, or, when neither blocks anything new, the end.
Propagate ==
  LET new == [k \in Kind |-> NewlyBlocked(view, blocked[k])] IN
  /\ phase = "propagate"
  /\ \/ /\ \E k \in Kind : new[k] # {}
        /\ blocked' = [k \in Kind |-> blocked[k] \cup new[k]]
        /\ UNCHANGED <<phase, ready>>
     \/ /\ \A k \in Kind : new[k] = {}
        /\ ready' = ReadyIds(view, UNION {blocked[k] : k \in Kind})
        /\ phase' = "done"
        /\ UNCHANGED blocked
  /\ UNCHANGED <<deps, visiting, visited, ordered, cycles, view>>

Next == VisitRoot \/ VisitDependency \/ Leave \/ Seed \/ Propagate

Spec == Init /\ [][Next]_vars

-----------------------------------------------------------------------------
(* Properties.                                                             *)

\* Where a chain of at least one step of follows leads to from w: what every
\* set holds that holds what follows each of its members and what follows w.
Reached(follows, w) ==
  {x \in Worker : \A U \in SUBSET Worker :
     (follows[w] \subseteq U /\ \A u \in U : follows[u] \subseteq U) => x \in U}

\* w depends on x, directly or not.
Reaches(w, x) == x \in Reached([v \in Worker |-> deps[v] \cap Worker], w)

\* The blockable dependencies of a blockable worker: it waits for them.
WaitsFor ==
  [w \in Worker |-> {d \in deps[w] \cap Worker :
                       Blockable(view, w) /\ Blockable(view, d)}]

SearchOver == phase # "search"

\* A cycle is reported exactly when there is one, and every cycle reported is
\* one (visit's test on the path alone).
CyclesAreFound ==
  SearchOver =>
    /\ (cycles # {}) <=> \E w \in Worker : Reaches(w, w)
    /\ \A c \in cycles : \A i \in DOMAIN c :
         (IF i = Len(c) THEN c[1] ELSE c[i + 1]) \in deps[c[i]]

\* Without a cycle a worker comes after everything it depends on, which is the
\* order run collect prints results in (workers_in_dependency_order).
DependenciesComeFirst ==
  (SearchOver /\ cycles = {}) =>
    \A i, j \in DOMAIN ordered : Reaches(ordered[i], ordered[j]) => j < i

\* The blocked workers are those from which a chain of blockable workers leads
\* to a seed: propagation by rounds loses none, in whichever order they are
\* visited, and adds none.
BlockedIsReachable ==
  phase = "done" =>
    LET seeds == InvalidSeeds(view, Cyclic) \cup DependencySeeds(view)
        expected ==
          seeds \cup {w \in Worker : \E s \in seeds : s \in Reached(WaitsFor, w)}
    IN /\ UNION {blocked[k] : k \in Kind} = expected
       /\ BlockedIds(view, Cyclic) = expected

\* When no worker is ready, none is silently left behind: each one that has yet
\* to run is blocked, with blockers to show for it, or waits for a worker that
\* is running (the plan that ends a run start).
NobodyStalls ==
  (phase = "done" /\ ready = {}) =>
    \A w \in Worker :
      (Executable(view, w) /\ Blockable(view, w)) =>
        \/ w \in UNION {blocked[k] : k \in Kind}
        \/ \E x \in Worker : view.life[x] = "active_wait" /\ Reaches(w, x)
=============================================================================
