---------------------- MODULE DependencyAnalysisProofs ----------------------
(***************************************************************************)
(* Proofs about DependencyAnalysis, for any number of workers and any      *)
(* graph.  The search is followed by two facts: each dependency examined   *)
(* so far has been left before the worker that has it, or both are on      *)
(* cycles reported (Examined); and each cycle reported                     *)
(* is one (CyclesAreReal).  The propagation is followed by one: it has     *)
(* blocked what the closure of the seeds holds and nothing else            *)
(* (Propagating).                                                          *)
(***************************************************************************)
EXTENDS DependencyAnalysis, WorkerLemmas, TLAPS

Frames == [worker : Worker, todo : SUBSET (Worker \cup {Missing})]

Views == [life : [Worker -> LifecycleStates], prompted : SUBSET Worker, deps : {deps}]

\* The state has its types.
Typed ==
  /\ deps \in [Worker -> SUBSET (Worker \cup {Missing})]
  /\ visiting \in Seq(Frames)
  /\ visited \in SUBSET Worker
  /\ ordered \in Seq(Worker)
  /\ cycles \in SUBSET Seq(Worker)
  /\ phase \in {"search", "propagate", "done"}
  /\ blocked \in [Kind -> SUBSET Worker]
  /\ ready \in SUBSET Worker
  /\ SearchOver => view \in Views

\* The path has no worker twice and none that the search has left; it follows
\* the dependencies.
PathIsOpen ==
  /\ \A i \in DOMAIN visiting : visiting[i].worker \notin visited
  /\ \A i, j \in DOMAIN visiting :
       visiting[i].worker = visiting[j].worker => i = j
  /\ \A i, j \in DOMAIN visiting :
       j = i + 1 => visiting[j].worker \in deps[visiting[i].worker]
  /\ \A i \in DOMAIN visiting : visiting[i].todo \subseteq deps[visiting[i].worker]

\* The order holds the workers the search has left, each once.
OrderIsVisited ==
  /\ visited = Range(ordered)
  /\ \A i, j \in DOMAIN ordered : ordered[i] = ordered[j] => i = j
  /\ SearchOver => visited = Worker

\* What has become of a dependency d of worker w: the search reported cycles
\* that hold both.
OnCycle(w, d) == w \in Cyclic /\ d \in Cyclic

\* A worker that the search has left comes after its dependencies, and one on
\* the path has only left behind what is below it there, except on a cycle.
Examined ==
  /\ \A j \in DOMAIN ordered : \A d \in deps[ordered[j]] :
       \/ d = Missing
       \/ \E i \in DOMAIN ordered : i < j /\ ordered[i] = d
       \/ OnCycle(ordered[j], d)
  /\ \A i \in DOMAIN visiting : \A d \in deps[visiting[i].worker] \ visiting[i].todo :
       \/ d \in visited \cup {Missing}
       \/ OnCycle(visiting[i].worker, d)
       \/ i + 1 \in DOMAIN visiting /\ d = visiting[i + 1].worker

\* Each worker of a cycle depends on the next one, the last on the first.
IsCycle(c) ==
  /\ c # << >>
  /\ \A i \in DOMAIN c : i # Len(c) => c[i + 1] \in deps[c[i]]
  /\ c[1] \in deps[c[Len(c)]]

CyclesAreReal == \A c \in cycles : IsCycle(c)

Seeds(k) ==
  IF k = "invalid" THEN InvalidSeeds(view, Cyclic) ELSE DependencySeeds(view)

\* Each kind of blocker has spread from its seeds, as far as the closure of the
\* seeds goes at most, and that far in the end.
Propagating ==
  SearchOver =>
    \A k \in Kind :
      /\ Seeds(k) \subseteq blocked[k]
      /\ blocked[k] \subseteq Propagated(view, Seeds(k))
      /\ phase = "done" => NewlyBlocked(view, blocked[k]) = {}

\* The workers ready are those of the plan.
Planned ==
  phase = "done" => ready = ReadyIds(view, UNION {blocked[k] : k \in Kind})

SearchInv == Typed /\ PathIsOpen /\ OrderIsVisited /\ Examined /\ CyclesAreReal

Inv == SearchInv /\ Propagating /\ Planned

-----------------------------------------------------------------------------
(* The search.                                                             *)

LEMMA WorkersAreFinite ==
  IsFiniteSet(Worker) /\ Worker \subseteq Nat /\ Missing \notin Worker
<1>1. 1 \in Int /\ N \in Int BY NAssumption
<1>2. IsFiniteSet(1 .. N) BY <1>1, FS_Interval
<1> QED BY <1>2, NAssumption DEF Worker

LEMMA InitSearch == Init => SearchInv
<1> SUFFICES ASSUME Init PROVE SearchInv OBVIOUS
<1>1. Typed BY DEF Init, Typed, SearchOver
<1>2. PathIsOpen BY DEF Init, PathIsOpen
<1>3. OrderIsVisited BY DEF Init, OrderIsVisited, SearchOver, Range
<1>4. Examined BY DEF Init, Examined
<1>5. CyclesAreReal BY DEF Init, CyclesAreReal
<1> QED BY <1>1, <1>2, <1>3, <1>4, <1>5 DEF SearchInv

\* The first worker not visited starts a path.
LEMMA VisitRootSearch == ASSUME SearchInv, VisitRoot PROVE SearchInv'
<1> USE DEF SearchInv
<1>1. PICK w \in Worker \ visited : visiting' = <<Frame(w)>>
  <2> DEFINE Left == Worker \ visited
  <2>1. Left \subseteq Nat /\ Left # {} BY WorkersAreFinite DEF VisitRoot, Typed
  <2> HIDE DEF Left
  <2>2. \E w \in Left : \A x \in Left : w <= x BY <2>1, LeastNatural
  <2> QED BY <2>2 DEF VisitRoot, Left
<1> DEFINE f == Frame(w)
<1>2. f \in Frames /\ f.worker = w /\ f.todo = deps[w] BY DEF Frame, Frames, Typed
<1> HIDE DEF f
<1>3. visiting' = <<f>> BY <1>1 DEF f
<1>4. phase = "search" /\ phase' = "search" BY DEF VisitRoot
<1>5. UNCHANGED <<deps, visited, ordered, cycles, phase, view, blocked, ready>>
  BY DEF VisitRoot
<1>6. Typed' BY <1>2, <1>3, <1>4, <1>5 DEF Typed, SearchOver
<1>7. PathIsOpen' BY <1>1, <1>2, <1>3, <1>5 DEF PathIsOpen
<1>8. OrderIsVisited' BY <1>4, <1>5 DEF OrderIsVisited, SearchOver
<1>9. Examined' BY <1>2, <1>3, <1>5 DEF Examined, OnCycle, Cyclic
<1>10. CyclesAreReal' BY <1>5 DEF CyclesAreReal, IsCycle
<1> QED BY <1>6, <1>7, <1>8, <1>9, <1>10

\* What every visit of a dependency leaves of the path.
LEMMA AdvancedEffect ==
  ASSUME Typed, visiting # << >>, NEW d
  PROVE  /\ Len(visiting) \in DOMAIN visiting /\ Len(visiting) \in Nat
         /\ DOMAIN visiting = 1 .. Len(visiting)
         /\ Advanced(d) \in Seq(Frames)
         /\ Len(Advanced(d)) = Len(visiting)
         /\ DOMAIN Advanced(d) = DOMAIN visiting
         /\ \A i \in DOMAIN visiting : Advanced(d)[i].worker = visiting[i].worker
         /\ \A i \in DOMAIN visiting :
              Advanced(d)[i].todo =
                IF i = Len(visiting) THEN visiting[i].todo \ {d} ELSE visiting[i].todo
<1>1. visiting \in Seq(Frames) BY DEF Typed
<1>2. Len(visiting) \in DOMAIN visiting /\ Len(visiting) \in Nat BY <1>1
<1>3. DOMAIN visiting = 1 .. Len(visiting) BY <1>1
<1>4. \A i \in DOMAIN visiting : visiting[i] \in Frames BY <1>1
<1> DEFINE n == Len(visiting)
           r == [visiting[n] EXCEPT !.todo = @ \ {d}]
<1>5. r \in Frames /\ r.worker = visiting[n].worker /\ r.todo = visiting[n].todo \ {d}
  BY <1>2, <1>4 DEF Frames
<1> HIDE DEF r
<1>6. Advanced(d) = [visiting EXCEPT ![n] = r] BY DEF Advanced, r
<1>7. Advanced(d) \in Seq(Frames) /\ Len(Advanced(d)) = n
      /\ DOMAIN Advanced(d) = DOMAIN visiting
  BY <1>1, <1>2, <1>3, <1>5, <1>6
<1>8. \A i \in DOMAIN visiting : Advanced(d)[i] = IF i = n THEN r ELSE visiting[i]
  BY <1>6
<1> QED BY <1>2, <1>3, <1>5, <1>7, <1>8

\* A dependency that is no worker, or that the search has left.
LEMMA VisitKnown ==
  ASSUME SearchInv, phase = "search", visiting # << >>,
         NEW d \in visiting[Len(visiting)].todo, d \in visited \cup {Missing},
         visiting' = Advanced(d), UNCHANGED cycles,
         UNCHANGED <<deps, visited, ordered, phase, view, blocked, ready>>
  PROVE  SearchInv'
<1> USE DEF SearchInv
<1>1. /\ Len(visiting) \in DOMAIN visiting /\ Len(visiting) \in Nat
      /\ DOMAIN visiting = 1 .. Len(visiting)
      /\ visiting' \in Seq(Frames)
      /\ Len(visiting') = Len(visiting)
      /\ DOMAIN visiting' = DOMAIN visiting
      /\ \A i \in DOMAIN visiting : visiting'[i].worker = visiting[i].worker
      /\ \A i \in DOMAIN visiting :
           visiting'[i].todo =
             IF i = Len(visiting) THEN visiting[i].todo \ {d} ELSE visiting[i].todo
  BY AdvancedEffect
<1>2. Typed' BY <1>1 DEF Typed, SearchOver
<1>3. PathIsOpen' BY <1>1, ZenonT(30) DEF PathIsOpen
<1>4. OrderIsVisited' BY DEF OrderIsVisited, SearchOver
<1>5. Examined'
  <2>1. ASSUME NEW i \in DOMAIN visiting, NEW e \in deps[visiting[i].worker] \ visiting'[i].todo
        PROVE  \/ e \in visited \cup {Missing}
               \/ OnCycle(visiting[i].worker, e)
               \/ i + 1 \in DOMAIN visiting /\ e = visiting[i + 1].worker
    <3>1. CASE e = d BY <3>1
    <3>2. CASE e # d
      <4>1. e \notin visiting[i].todo BY <1>1, <3>2
      <4> QED BY <4>1 DEF Examined
    <3> QED BY <3>1, <3>2
  <2>2. \A w, e : OnCycle(w, e)' <=> OnCycle(w, e) BY DEF OnCycle, Cyclic
  <2>3. ASSUME NEW i \in DOMAIN visiting', NEW e \in deps'[visiting'[i].worker] \ visiting'[i].todo
        PROVE  \/ e \in visited' \cup {Missing}
               \/ OnCycle(visiting[i].worker, e)'
               \/ i + 1 \in DOMAIN visiting' /\ e = visiting'[i + 1].worker
    <3>1. i \in DOMAIN visiting /\ e \in deps[visiting[i].worker] \ visiting'[i].todo BY <1>1
    <3>2. \/ e \in visited \cup {Missing}
          \/ OnCycle(visiting[i].worker, e)
          \/ i + 1 \in DOMAIN visiting /\ e = visiting[i + 1].worker
      BY <2>1, <3>1
    <3>3. visiting'[i].worker = visiting[i].worker BY <1>1, <3>1
    <3>4. OnCycle(visiting[i].worker, e) => OnCycle(visiting[i].worker, e)'
      BY <3>3 DEF OnCycle, Cyclic
    <3> QED BY <1>1, <3>2, <3>4
  <2>4. \A j \in DOMAIN ordered' : \A e \in deps'[ordered'[j]] :
          \/ e = Missing
          \/ \E i \in DOMAIN ordered' : i < j /\ ordered'[i] = e
          \/ OnCycle(ordered[j], e)'
    BY DEF Examined, OnCycle, Cyclic
  <2> QED BY <2>3, <2>4 DEF Examined
<1>6. CyclesAreReal' BY DEF CyclesAreReal, IsCycle
<1> QED BY <1>2, <1>3, <1>4, <1>5, <1>6

\* A dependency on the path: the part of the path from it on is a cycle.
LEMMA PathCycle ==
  ASSUME SearchInv, visiting # << >>, NEW i \in DOMAIN visiting,
         visiting[i].worker \in visiting[Len(visiting)].todo
  PROVE  LET c == SubSeq(Path, i, Len(Path)) IN
         /\ c \in Seq(Worker) /\ IsCycle(c)
         /\ visiting[i].worker \in Range(c)
         /\ visiting[Len(visiting)].worker \in Range(c)
<1> DEFINE n == Len(visiting)
           c == SubSeq(Path, i, Len(Path))
<1>1. /\ visiting \in Seq(Frames) /\ n \in Nat /\ DOMAIN visiting = 1 .. n
      /\ i \in 1 .. n /\ n \in 1 .. n
  <2>1. visiting \in Seq(Frames) BY DEF SearchInv, Typed
  <2> QED BY <2>1
<1>2. \A j \in 1 .. n : visiting[j] \in Frames BY <1>1
<1>3. \A j \in 1 .. n : Path[j] = visiting[j].worker /\ Path[j] \in Worker
  BY <1>1, <1>2 DEF Path, Frames
<1>4. DOMAIN Path = 1 .. n BY <1>1 DEF Path
<1>5. Path \in Seq(Worker) /\ Len(Path) = n
  <2>1. Path \in [1 .. n -> Worker] BY <1>1, <1>2, <1>3 DEF Path
  <2> QED BY <1>1, <1>4, <2>1
<1> HIDE DEF n
<1>6. /\ c \in Seq(Worker) /\ Len(c) = (n - i) + 1 /\ DOMAIN c = 1 .. ((n - i) + 1)
      /\ \A k \in 1 .. ((n - i) + 1) : c[k] = Path[(i + k) - 1]
  <2>1. c = SubSeq(Path, i, n) BY <1>5
  <2> QED BY <1>1, <1>5, <2>1
<1> HIDE DEF c
<1>7. (n - i) + 1 \in Nat /\ 1 \in DOMAIN c /\ Len(c) \in DOMAIN c BY <1>1, <1>6
<1>8. c[1] = visiting[i].worker
  <2>1. (i + 1) - 1 = i /\ 1 \in 1 .. ((n - i) + 1) BY <1>1, <1>6, <1>7
  <2> QED BY <1>1, <1>3, <1>6, <2>1
<1>9. c[Len(c)] = visiting[n].worker
  <2>1. (i + ((n - i) + 1)) - 1 = n BY <1>1
  <2>2. c[Len(c)] = Path[n] BY <1>6, <1>7, <2>1
  <2> QED BY <1>1, <1>3, <2>2
<1>10. ASSUME NEW k \in DOMAIN c, k # Len(c) PROVE c[k + 1] \in deps[c[k]]
  <2> DEFINE j == (i + k) - 1
  <2>1. /\ j \in 1 .. n /\ j + 1 \in 1 .. n /\ k + 1 \in 1 .. ((n - i) + 1)
        /\ (i + (k + 1)) - 1 = j + 1 /\ k \in 1 .. ((n - i) + 1)
    BY <1>1, <1>6, <1>10
  <2>2. c[k] = Path[j] /\ c[k + 1] = Path[j + 1] BY <1>6, <2>1, SMTT(30)
  <2> HIDE DEF j
  <2>3. c[k] = visiting[j].worker /\ c[k + 1] = visiting[j + 1].worker
    BY <1>3, <2>1, <2>2
  <2>4. \A a, b \in DOMAIN visiting :
           b = a + 1 => visiting[b].worker \in deps[visiting[a].worker]
    BY DEF SearchInv, PathIsOpen
  <2> QED BY <1>1, <2>1, <2>3, <2>4
<1>11. c[1] \in deps[c[Len(c)]]
  <2>1. visiting[i].worker \in deps[visiting[n].worker]
    BY <1>1 DEF SearchInv, PathIsOpen, n
  <2> QED BY <1>8, <1>9, <2>1
<1>12. IsCycle(c)
  <2>1. c # << >> BY <1>7
  <2> QED BY <1>10, <1>11, <2>1 DEF IsCycle
<1>13. visiting[i].worker \in Range(c) /\ visiting[n].worker \in Range(c)
  BY <1>7, <1>8, <1>9 DEF Range
<1> QED BY <1>6, <1>12, <1>13 DEF c, n

LEMMA VisitCycle ==
  ASSUME SearchInv, phase = "search", visiting # << >>,
         NEW i \in DOMAIN visiting,
         visiting[i].worker \in visiting[Len(visiting)].todo,
         visiting' = Advanced(visiting[i].worker),
         cycles' = cycles \cup {SubSeq(Path, i, Len(Path))},
         UNCHANGED <<deps, visited, ordered, phase, view, blocked, ready>>
  PROVE  SearchInv'
<1> DEFINE d == visiting[i].worker
           c == SubSeq(Path, i, Len(Path))
           n == Len(visiting)
<1>1. /\ n \in DOMAIN visiting /\ n \in Nat
      /\ DOMAIN visiting = 1 .. n
      /\ visiting' \in Seq(Frames)
      /\ Len(visiting') = n
      /\ DOMAIN visiting' = DOMAIN visiting
      /\ \A j \in DOMAIN visiting : visiting'[j].worker = visiting[j].worker
      /\ \A j \in DOMAIN visiting :
           visiting'[j].todo =
             IF j = n THEN visiting[j].todo \ {d} ELSE visiting[j].todo
  <2>1. Typed BY DEF SearchInv
  <2> QED BY <2>1, AdvancedEffect
<1>2. c \in Seq(Worker) /\ IsCycle(c) /\ d \in Range(c) /\ visiting[n].worker \in Range(c)
  BY PathCycle
<1>3. cycles' = cycles \cup {c} OBVIOUS
<1> HIDE DEF d, c, n
<1> USE DEF SearchInv
<1>4. Cyclic' = Cyclic \cup Range(c) BY <1>3 DEF Cyclic
<1>5. Typed' BY <1>1, <1>2, <1>3 DEF Typed, SearchOver
<1>6. PathIsOpen'
  <2>1. \A j \in DOMAIN visiting : visiting'[j].todo \subseteq visiting[j].todo BY <1>1
  <2>2. \A j \in DOMAIN visiting : visiting'[j].todo \subseteq deps[visiting'[j].worker]
    BY <1>1, <2>1 DEF PathIsOpen
  <2>3. \A j, k \in DOMAIN visiting :
          k = j + 1 => visiting'[k].worker \in deps[visiting'[j].worker]
    BY <1>1 DEF PathIsOpen
  <2>4. \A j \in DOMAIN visiting : visiting'[j].worker \notin visited
    BY <1>1 DEF PathIsOpen
  <2>5. \A j, k \in DOMAIN visiting :
          visiting'[j].worker = visiting'[k].worker => j = k
    BY <1>1 DEF PathIsOpen
  <2> QED BY <1>1, <2>2, <2>3, <2>4, <2>5 DEF PathIsOpen
<1>7. OrderIsVisited' BY DEF OrderIsVisited, SearchOver
<1>8. CyclesAreReal' BY <1>2, <1>3 DEF CyclesAreReal, IsCycle
<1>9. Examined'
  <2>1. ASSUME NEW j \in DOMAIN visiting', NEW e \in deps'[visiting'[j].worker] \ visiting'[j].todo
        PROVE  \/ e \in visited' \cup {Missing}
               \/ visiting'[j].worker \in Cyclic' /\ e \in Cyclic'
               \/ j + 1 \in DOMAIN visiting' /\ e = visiting'[j + 1].worker
    <3>1. j \in DOMAIN visiting /\ e \in deps[visiting[j].worker]
          /\ visiting'[j].worker = visiting[j].worker
      BY <1>1
    <3>2. CASE e \in visiting[j].todo
      <4>1. j = n /\ e = d BY <1>1, <3>1, <3>2
      <4> QED BY <1>2, <1>4, <3>1, <4>1
    <3>3. CASE e \notin visiting[j].todo
      <4>1. \/ e \in visited \cup {Missing}
            \/ OnCycle(visiting[j].worker, e)
            \/ j + 1 \in DOMAIN visiting /\ e = visiting[j + 1].worker
        BY <3>1, <3>3 DEF Examined
      <4> QED BY <1>1, <1>4, <3>1, <4>1 DEF OnCycle
    <3> QED BY <3>2, <3>3
  <2>2. ASSUME NEW j \in DOMAIN ordered', NEW e \in deps'[ordered'[j]]
        PROVE  \/ e = Missing
               \/ \E k \in DOMAIN ordered' : k < j /\ ordered'[k] = e
               \/ ordered'[j] \in Cyclic' /\ e \in Cyclic'
    BY <1>4 DEF Examined, OnCycle
  <2> QED BY <2>1, <2>2 DEF Examined, OnCycle
<1> QED BY <1>5, <1>6, <1>7, <1>8, <1>9

\* A dependency the search has not seen yet is next on the path.
LEMMA VisitDeeper ==
  ASSUME SearchInv, phase = "search", visiting # << >>,
         NEW d \in visiting[Len(visiting)].todo,
         d \notin visited \cup Range(Path), d # Missing,
         visiting' = Append(Advanced(d), Frame(d)), UNCHANGED cycles,
         UNCHANGED <<deps, visited, ordered, phase, view, blocked, ready>>
  PROVE  SearchInv'
<1> DEFINE n == Len(visiting)
           f == Frame(d)
           a == Advanced(d)
<1>1. /\ n \in DOMAIN visiting /\ n \in Nat
      /\ DOMAIN visiting = 1 .. n
      /\ a \in Seq(Frames)
      /\ Len(a) = n
      /\ DOMAIN a = DOMAIN visiting
      /\ \A j \in DOMAIN visiting : a[j].worker = visiting[j].worker
      /\ \A j \in DOMAIN visiting :
           a[j].todo = IF j = n THEN visiting[j].todo \ {d} ELSE visiting[j].todo
  <2>1. Typed BY DEF SearchInv
  <2> QED BY <2>1, AdvancedEffect
<1>2. \A j \in DOMAIN visiting : visiting[j] \in Frames
  BY DEF SearchInv, Typed
<1>3. visiting[n].todo \subseteq deps[visiting[n].worker]
  BY <1>1 DEF SearchInv, PathIsOpen
<1>4. d \in Worker /\ d \in deps[visiting[n].worker]
  <2>1. d \in Worker \cup {Missing} BY <1>1, <1>2 DEF Frames
  <2> QED BY <1>3, <2>1
<1>5. \A j \in DOMAIN visiting : visiting[j].worker # d BY DEF Range, Path
<1>6. f \in Frames /\ f.worker = d /\ f.todo = deps[d]
  BY <1>4 DEF Frame, Frames, SearchInv, Typed
<1>7. visiting' = Append(a, f) OBVIOUS
<1>8. d \notin visited OBVIOUS
<1> HIDE DEF n, f, a
<1>9. /\ visiting' \in Seq(Frames) /\ Len(visiting') = n + 1
      /\ DOMAIN visiting' = 1 .. (n + 1)
      /\ \A j \in 1 .. n : visiting'[j] = a[j]
      /\ visiting'[n + 1] = f
  BY <1>1, <1>6, <1>7
<1>10. \A j \in 1 .. (n + 1) :
         /\ visiting'[j].worker = IF j = n + 1 THEN d ELSE visiting[j].worker
         /\ visiting'[j].todo = IF j = n + 1 THEN deps[d]
                                ELSE IF j = n THEN visiting[j].todo \ {d}
                                ELSE visiting[j].todo
  <2> SUFFICES ASSUME NEW j \in 1 .. (n + 1)
               PROVE  /\ visiting'[j].worker = IF j = n + 1 THEN d ELSE visiting[j].worker
                      /\ visiting'[j].todo = IF j = n + 1 THEN deps[d]
                                             ELSE IF j = n THEN visiting[j].todo \ {d}
                                             ELSE visiting[j].todo
    OBVIOUS
  <2>1. CASE j = n + 1 BY <1>6, <1>9, <2>1
  <2>2. CASE j # n + 1
    <3>1. j \in DOMAIN visiting /\ visiting'[j] = a[j] BY <1>1, <1>9, <2>2
    <3> QED BY <1>1, <2>2, <3>1
  <2> QED BY <2>1, <2>2
<1> USE DEF SearchInv
<1>11. Typed' BY <1>9 DEF Typed, SearchOver
<1>12. PathIsOpen'
  <2>1. \A j \in 1 .. (n + 1) : visiting'[j].worker \notin visited
    <3>1. \A j \in 1 .. (n + 1) : j # n + 1 => j \in 1 .. n BY <1>1
    <3> QED BY <1>1, <1>8, <1>10, <3>1, ZenonT(30) DEF PathIsOpen
  <2>2. ASSUME NEW j \in 1 .. (n + 1), NEW k \in 1 .. (n + 1),
               visiting'[j].worker = visiting'[k].worker
        PROVE  j = k
    <3>1. \A l \in 1 .. (n + 1) : l # n + 1 => l \in DOMAIN visiting BY <1>1
    <3>2. CASE j # n + 1 /\ k # n + 1
      <4>1. visiting[j].worker = visiting[k].worker BY <1>10, <2>2, <3>2
      <4> QED BY <3>1, <3>2, <4>1 DEF PathIsOpen
    <3>3. CASE ~(j # n + 1 /\ k # n + 1) BY <1>5, <1>10, <2>2, <3>1, <3>3
    <3> QED BY <3>2, <3>3
  <2>3. ASSUME NEW j \in 1 .. (n + 1), NEW k \in 1 .. (n + 1), k = j + 1
        PROVE  visiting'[k].worker \in deps[visiting'[j].worker]
    <3>1. j \in 1 .. n /\ j # n + 1 BY <1>1, <2>3
    <3>2. CASE k = n + 1
      <4>1. j = n BY <1>1, <2>3, <3>2
      <4> QED BY <1>4, <1>10, <3>1, <3>2, <4>1
    <3>3. CASE k # n + 1
      <4>1. k \in 1 .. n BY <1>1, <3>3
      <4>2. visiting[k].worker \in deps[visiting[j].worker]
        BY <1>1, <2>3, <3>1, <4>1 DEF PathIsOpen
      <4> QED BY <1>10, <3>1, <3>3, <4>2
    <3> QED BY <3>2, <3>3
  <2>4. \A j \in 1 .. (n + 1) : visiting'[j].todo \subseteq deps[visiting'[j].worker]
    <3>1. \A l \in 1 .. (n + 1) : l # n + 1 => l \in DOMAIN visiting BY <1>1
    <3> QED BY <1>10, <3>1, ZenonT(30) DEF PathIsOpen
  <2> QED BY <1>9, <2>1, <2>2, <2>3, <2>4 DEF PathIsOpen
<1>13. OrderIsVisited' BY DEF OrderIsVisited, SearchOver
<1>14. CyclesAreReal' BY DEF CyclesAreReal, IsCycle
<1>15. Examined'
  <2>1. ASSUME NEW j \in 1 .. (n + 1),
               NEW e \in deps[visiting'[j].worker] \ visiting'[j].todo
        PROVE  \/ e \in visited \cup {Missing}
               \/ visiting'[j].worker \in Cyclic /\ e \in Cyclic
               \/ j + 1 \in 1 .. (n + 1) /\ e = visiting'[j + 1].worker
    <3>1. j # n + 1 BY <1>10, <2>1
    <3>2. j \in 1 .. n /\ j + 1 \in 1 .. (n + 1) BY <1>1, <3>1
    <3>3. CASE e \in visiting[j].todo
      <4>1. j = n /\ e = d BY <1>10, <2>1, <3>1, <3>3
      <4> QED BY <1>10, <3>2, <4>1
    <3>4. CASE e \notin visiting[j].todo
      <4>1. visiting'[j].worker = visiting[j].worker BY <1>10, <3>1
      <4>2. \/ e \in visited \cup {Missing}
            \/ OnCycle(visiting[j].worker, e)
            \/ j + 1 \in DOMAIN visiting /\ e = visiting[j + 1].worker
        BY <1>1, <2>1, <3>2, <3>4, <4>1 DEF Examined
      <4>3. j + 1 \in DOMAIN visiting => j + 1 # n + 1 BY <1>1
      <4>4. j + 1 \in DOMAIN visiting => visiting'[j + 1].worker = visiting[j + 1].worker
        BY <1>10, <3>2, <4>3
      <4> QED BY <3>2, <4>1, <4>2, <4>4 DEF OnCycle
    <3> QED BY <3>3, <3>4
  <2>2. Cyclic' = Cyclic BY DEF Cyclic
  <2>3. ASSUME NEW j \in DOMAIN ordered', NEW e \in deps'[ordered'[j]]
        PROVE  \/ e = Missing
               \/ \E k \in DOMAIN ordered' : k < j /\ ordered'[k] = e
               \/ ordered'[j] \in Cyclic' /\ e \in Cyclic'
    BY <2>2 DEF Examined, OnCycle
  <2>4. DOMAIN visiting' = 1 .. (n + 1) BY <1>9
  <2>5. deps' = deps /\ visited' = visited OBVIOUS
  <2>6. ASSUME NEW j \in DOMAIN visiting', NEW e \in deps'[visiting'[j].worker] \ visiting'[j].todo
        PROVE  \/ e \in visited' \cup {Missing}
               \/ visiting'[j].worker \in Cyclic' /\ e \in Cyclic'
               \/ j + 1 \in DOMAIN visiting' /\ e = visiting'[j + 1].worker
    <3>1. j \in 1 .. (n + 1) /\ e \in deps[visiting'[j].worker] \ visiting'[j].todo
      BY <2>4, <2>5
    <3> QED BY <2>1, <2>2, <2>4, <2>5, <3>1
  <2> QED BY <2>3, <2>6 DEF Examined, OnCycle
<1> QED BY <1>11, <1>12, <1>13, <1>14, <1>15

LEMMA VisitDependencySearch == ASSUME SearchInv, VisitDependency PROVE SearchInv'
<1>1. /\ phase = "search" /\ visiting # << >>
      /\ UNCHANGED <<deps, visited, ordered, phase, view, blocked, ready>>
  BY DEF VisitDependency
<1>2. PICK d \in visiting[Len(visiting)].todo :
        \/ d \in visited \cup {Missing} /\ visiting' = Advanced(d) /\ UNCHANGED cycles
        \/ \E i \in DOMAIN visiting :
             /\ visiting[i].worker = d
             /\ cycles' = cycles \cup {SubSeq(Path, i, Len(Path))}
             /\ visiting' = Advanced(d)
        \/ /\ d \notin visited \cup Range(Path) /\ d # Missing
           /\ visiting' = Append(Advanced(d), Frame(d))
           /\ UNCHANGED cycles
  BY Zenon DEF VisitDependency, Last
<1>3. CASE d \in visited \cup {Missing} /\ visiting' = Advanced(d) /\ UNCHANGED cycles
  BY <1>1, <1>3, VisitKnown
<1>4. CASE \E i \in DOMAIN visiting :
             /\ visiting[i].worker = d
             /\ cycles' = cycles \cup {SubSeq(Path, i, Len(Path))}
             /\ visiting' = Advanced(d)
  <2>1. PICK i \in DOMAIN visiting :
             /\ visiting[i].worker = d
             /\ cycles' = cycles \cup {SubSeq(Path, i, Len(Path))}
             /\ visiting' = Advanced(d)
    BY <1>4
  <2>2. visiting' = Advanced(visiting[i].worker)
        /\ visiting[i].worker \in visiting[Len(visiting)].todo
    BY <2>1
  <2> QED BY <1>1, <2>1, <2>2, VisitCycle
<1>5. CASE /\ d \notin visited \cup Range(Path) /\ d # Missing
           /\ visiting' = Append(Advanced(d), Frame(d))
           /\ UNCHANGED cycles
  BY <1>1, <1>5, VisitDeeper
<1> QED BY <1>2, <1>3, <1>4, <1>5

\* The search leaves the last worker of the path.
LEMMA LeaveSearch == ASSUME SearchInv, Leave PROVE SearchInv'
<1> DEFINE n == Len(visiting)
           w == visiting[n].worker
           m == Len(ordered)
<1>1. /\ phase = "search" /\ visiting # << >> /\ visiting[n].todo = {}
      /\ visited' = visited \cup {w} /\ ordered' = Append(ordered, w)
      /\ visiting' = SubSeq(visiting, 1, n - 1)
      /\ UNCHANGED <<deps, cycles, phase, view, blocked, ready>>
  BY DEF Leave, Last, Front
<1>2. visiting \in Seq(Frames) /\ ordered \in Seq(Worker)
  BY DEF SearchInv, Typed
<1>3. n \in DOMAIN visiting /\ n \in Nat /\ DOMAIN visiting = 1 .. n /\ m \in Nat
      /\ DOMAIN ordered = 1 .. m
  BY <1>1, <1>2
<1>4. w \in Worker
  <2>1. visiting[n] \in Frames BY <1>2, <1>3
  <2> QED BY <2>1 DEF Frames
<1> HIDE DEF n, w, m
<1>5. /\ visiting' \in Seq(Frames) /\ DOMAIN visiting' = 1 .. (n - 1)
      /\ \A i \in 1 .. (n - 1) : visiting'[i] = visiting[i] /\ i \in DOMAIN visiting
  BY <1>1, <1>2, <1>3 DEF n
<1>6. /\ ordered' \in Seq(Worker) /\ DOMAIN ordered' = 1 .. (m + 1)
      /\ \A i \in 1 .. m : ordered'[i] = ordered[i]
      /\ ordered'[m + 1] = w
  BY <1>1, <1>2, <1>3, <1>4 DEF m
<1>7. \A i \in 1 .. (m + 1) : i # m + 1 => i \in 1 .. m BY <1>3
<1> USE DEF SearchInv
<1>8. Typed' BY <1>1, <1>4, <1>5, <1>6 DEF Typed, SearchOver
<1>9. PathIsOpen'
  <2>1. ASSUME NEW i \in 1 .. (n - 1) PROVE visiting[i].worker # w
    <3>1. i \in DOMAIN visiting /\ i # n BY <1>3, <1>5
    <3> QED BY <1>3, <3>1 DEF PathIsOpen, w
  <2>2. \A i \in 1 .. (n - 1) : visiting'[i].worker \notin visited'
    BY <1>1, <1>5, <2>1 DEF PathIsOpen
  <2>3. \A i, j \in 1 .. (n - 1) :
          visiting'[i].worker = visiting'[j].worker => i = j
    BY <1>5 DEF PathIsOpen
  <2>4. \A i, j \in 1 .. (n - 1) :
          j = i + 1 => visiting'[j].worker \in deps'[visiting'[i].worker]
    BY <1>1, <1>5 DEF PathIsOpen
  <2>5. \A i \in 1 .. (n - 1) : visiting'[i].todo \subseteq deps'[visiting'[i].worker]
    BY <1>1, <1>5 DEF PathIsOpen
  <2> QED BY <1>5, <2>2, <2>3, <2>4, <2>5 DEF PathIsOpen
<1>10. w \notin visited BY <1>3 DEF PathIsOpen, w
<1>11. OrderIsVisited'
  <2>1. visited' = Range(ordered')
    <3>1. ASSUME NEW x \in visited' PROVE x \in Range(ordered')
      <4>1. CASE x = w
        <5>1. m + 1 \in 1 .. (m + 1) BY <1>3
        <5> QED BY <1>6, <4>1, <5>1 DEF Range
      <4>2. CASE x # w
        <5>1. PICK i \in DOMAIN ordered : ordered[i] = x
          BY <1>1, <4>2 DEF OrderIsVisited, Range
        <5>2. i \in 1 .. (m + 1) /\ i \in 1 .. m BY <1>3
        <5> QED BY <1>6, <5>1, <5>2 DEF Range
      <4> QED BY <4>1, <4>2
    <3>2. ASSUME NEW i \in 1 .. (m + 1) PROVE ordered'[i] \in visited'
      <4>1. CASE i = m + 1 BY <1>1, <1>6, <4>1
      <4>2. CASE i # m + 1 BY <1>1, <1>3, <1>6, <1>7, <4>2 DEF OrderIsVisited, Range
      <4> QED BY <4>1, <4>2
    <3> QED BY <1>6, <3>1, <3>2 DEF Range
  <2>2. ASSUME NEW i \in 1 .. (m + 1), NEW j \in 1 .. (m + 1), ordered'[i] = ordered'[j]
        PROVE  i = j
    <3>1. \A k \in 1 .. m : ordered[k] # w BY <1>3, <1>10 DEF OrderIsVisited, Range
    <3>2. CASE i # m + 1 /\ j # m + 1
      BY <1>3, <1>6, <1>7, <2>2, <3>2 DEF OrderIsVisited
    <3>3. CASE ~(i # m + 1 /\ j # m + 1) BY <1>6, <1>7, <2>2, <3>1, <3>3
    <3> QED BY <3>2, <3>3
  <2> QED BY <1>1, <1>6, <2>1, <2>2 DEF OrderIsVisited, SearchOver
<1>12. CyclesAreReal' BY <1>1 DEF CyclesAreReal, IsCycle
<1>13. \A x \in visited : \E k \in 1 .. m : ordered[k] = x
  BY <1>3 DEF OrderIsVisited, Range
<1>14. Cyclic' = Cyclic BY <1>1 DEF Cyclic
<1>15. Examined'
  <2>1. ASSUME NEW j \in 1 .. (m + 1), NEW e \in deps[ordered'[j]]
        PROVE  \/ e = Missing
               \/ \E k \in 1 .. (m + 1) : k < j /\ ordered'[k] = e
               \/ ordered'[j] \in Cyclic /\ e \in Cyclic
    <3>1. CASE j = m + 1
      <4>1. ordered'[j] = w /\ e \in deps[w] \ visiting[n].todo BY <1>1, <1>6, <2>1, <3>1
      <4>2. n + 1 \notin DOMAIN visiting BY <1>3
      <4>3. e \in visited \cup {Missing} \/ OnCycle(w, e)
        BY <1>3, <4>1, <4>2 DEF Examined, w
      <4>4. CASE e \in visited
        <5>1. PICK k \in 1 .. m : ordered[k] = e BY <1>13, <4>4
        <5>2. k < j /\ k \in 1 .. (m + 1) BY <1>3, <3>1
        <5> QED BY <1>6, <5>1, <5>2
      <4> QED BY <4>1, <4>3, <4>4 DEF OnCycle
    <3>2. CASE j # m + 1
      <4>1. j \in 1 .. m /\ ordered'[j] = ordered[j] BY <1>6, <1>7, <3>2
      <4>2. \/ e = Missing
            \/ \E k \in DOMAIN ordered : k < j /\ ordered[k] = e
            \/ OnCycle(ordered[j], e)
        BY <1>3, <4>1 DEF Examined
      <4>3. \A k \in 1 .. m : k \in 1 .. (m + 1) BY <1>3
      <4> QED BY <1>3, <1>6, <4>1, <4>2, <4>3 DEF OnCycle
    <3> QED BY <3>1, <3>2
  <2>2. ASSUME NEW i \in 1 .. (n - 1),
               NEW e \in deps[visiting[i].worker] \ visiting[i].todo
        PROVE  \/ e \in visited' \cup {Missing}
               \/ visiting[i].worker \in Cyclic /\ e \in Cyclic
               \/ i + 1 \in 1 .. (n - 1) /\ e = visiting[i + 1].worker
    <3>1. \/ e \in visited \cup {Missing}
          \/ OnCycle(visiting[i].worker, e)
          \/ i + 1 \in DOMAIN visiting /\ e = visiting[i + 1].worker
      BY <1>5 DEF Examined
    <3>2. CASE i + 1 \in DOMAIN visiting /\ e = visiting[i + 1].worker
      <4>1. i + 1 = n \/ i + 1 \in 1 .. (n - 1) BY <1>3, <3>2
      <4> QED BY <1>1, <3>2, <4>1 DEF w
    <3> QED BY <1>1, <3>1, <3>2 DEF OnCycle
  <2>3. \A i \in 1 .. (n - 1) : i + 1 \in 1 .. (n - 1) => visiting'[i + 1] = visiting[i + 1]
    BY <1>5
  <2>4. ASSUME NEW j \in DOMAIN ordered', NEW e \in deps'[ordered'[j]]
        PROVE  \/ e = Missing
               \/ \E k \in DOMAIN ordered' : k < j /\ ordered'[k] = e
               \/ ordered'[j] \in Cyclic' /\ e \in Cyclic'
    BY <1>1, <1>6, <1>14, <2>1
  <2>5. ASSUME NEW i \in DOMAIN visiting', NEW e \in deps'[visiting'[i].worker] \ visiting'[i].todo
        PROVE  \/ e \in visited' \cup {Missing}
               \/ visiting'[i].worker \in Cyclic' /\ e \in Cyclic'
               \/ i + 1 \in DOMAIN visiting' /\ e = visiting'[i + 1].worker
    <3>1. i \in 1 .. (n - 1) /\ visiting'[i] = visiting[i] BY <1>5
    <3>2. e \in deps[visiting[i].worker] \ visiting[i].todo BY <1>1, <3>1
    <3> QED BY <1>5, <1>14, <2>2, <2>3, <3>1, <3>2
  <2> QED BY <2>4, <2>5 DEF Examined, OnCycle
<1> QED BY <1>8, <1>9, <1>11, <1>12, <1>15

-----------------------------------------------------------------------------
(* Blockers.                                                               *)

LEMMA SeedsAreBlockable ==
  ASSUME SearchInv, SearchOver, NEW k \in Kind
  PROVE  /\ Ids(view) = Worker /\ view.deps = deps
         /\ \A w \in Seeds(k) : w \in Worker /\ Blockable(view, w)
<1>1. view \in Views BY DEF SearchInv, Typed
<1>2. Ids(view) = Worker /\ view.deps = deps BY <1>1 DEF Views, Ids
<1> QED BY <1>2 DEF Seeds, InvalidSeeds, DependencySeeds

\* The states chosen for the workers, and what blocks some of them at once.
LEMMA SeedStep == ASSUME Inv, Seed PROVE Inv'
<1>1. /\ phase = "search" /\ phase' = "propagate" /\ visited = Worker
      /\ UNCHANGED <<deps, visiting, visited, ordered, cycles, ready>>
  BY DEF Seed
<1>2. PICK k \in [Worker -> Kinds] :
        view' = [life     |-> [w \in Worker |-> k[w].life],
                 prompted |-> {w \in Worker : k[w].prompted},
                 deps     |-> deps]
  BY DEF Seed
<1>3. view' \in Views'
  <2>1. \A w \in Worker : k[w].life \in LifecycleStates BY KindsAssumption
  <2>2. [w \in Worker |-> k[w].life] \in [Worker -> LifecycleStates] BY <2>1
  <2> QED BY <1>1, <1>2, <2>2 DEF Views
<1>4. Cyclic' = Cyclic BY <1>1 DEF Cyclic
<1>5. blocked' = [invalid    |-> InvalidSeeds(view', Cyclic),
                  dependency |-> DependencySeeds(view')]
  BY DEF Seed
<1>6. \A i \in Kind : blocked'[i] = Seeds(i)'
  BY <1>4, <1>5 DEF Kind, Seeds
<1>7. Ids(view') = Worker BY <1>3 DEF Views, Ids
<1>8. \A i \in Kind : Seeds(i)' \subseteq Worker
  BY <1>7 DEF Seeds, InvalidSeeds, DependencySeeds
<1>9. blocked' \in [Kind -> SUBSET Worker]
  <2>1. DOMAIN blocked' = Kind /\ blocked' = [i \in Kind |-> blocked'[i]]
    BY <1>5 DEF Kind
  <2> QED BY <1>6, <1>8, <2>1
<1> USE DEF Inv, SearchInv
<1>10. Typed' BY <1>1, <1>3, <1>9 DEF Typed
<1>11. PathIsOpen' BY <1>1 DEF PathIsOpen
<1>12. OrderIsVisited' BY <1>1 DEF OrderIsVisited
<1>13. Examined' BY <1>1, <1>4 DEF Examined, OnCycle
<1>14. CyclesAreReal' BY <1>1 DEF CyclesAreReal, IsCycle
<1>15. Propagating'
  <2>1. ASSUME NEW i \in Kind
        PROVE  Seeds(i)' \subseteq Propagated(view', Seeds(i)')
    <3>1. IsFiniteSet(Ids(view')) /\ Seeds(i)' \subseteq Ids(view')
      BY <1>7, <1>8, WorkersAreFinite
    <3> QED BY <3>1, PropagatedEffect
  <2> QED BY <1>1, <1>6, <2>1 DEF Propagating
<1>16. Planned' BY <1>1 DEF Planned
<1> QED BY <1>10, <1>11, <1>12, <1>13, <1>14, <1>15, <1>16

\* One round, or the end.
LEMMA PropagateStep == ASSUME Inv, Propagate PROVE Inv'
<1> USE DEF Inv, SearchInv
<1> DEFINE new == [k \in Kind |-> NewlyBlocked(view, blocked[k])]
<1>1. /\ phase = "propagate" /\ SearchOver
      /\ UNCHANGED <<deps, visiting, visited, ordered, cycles, view>>
  BY DEF Propagate, SearchOver
<1>2. Cyclic' = Cyclic BY <1>1 DEF Cyclic
<1>3. \A k \in Kind : Seeds(k)' = Seeds(k) BY <1>1, <1>2 DEF Seeds
<1>4. view \in Views /\ Ids(view) = Worker BY <1>1, SeedsAreBlockable DEF Typed, Kind
<1>5. \A k \in Kind : new[k] \subseteq Worker BY <1>4 DEF NewlyBlocked
<1>6. /\ PathIsOpen' /\ OrderIsVisited'
  BY <1>1 DEF PathIsOpen, OrderIsVisited
<1>7. Examined' BY <1>1, <1>2 DEF Examined, OnCycle
<1>8. CyclesAreReal' BY <1>1 DEF CyclesAreReal, IsCycle
<1>9. CASE /\ \E k \in Kind : new[k] # {}
           /\ blocked' = [k \in Kind |-> blocked[k] \cup new[k]]
           /\ UNCHANGED <<phase, ready>>
  <2>1. Typed' BY <1>1, <1>4, <1>5, <1>9 DEF Typed, Views, SearchOver
  <2>2. ASSUME NEW k \in Kind
        PROVE  /\ Seeds(k) \subseteq blocked'[k]
               /\ blocked'[k] \subseteq Propagated(view, Seeds(k))
    <3> DEFINE P == Propagated(view, Seeds(k))
    <3>1. blocked'[k] = blocked[k] \cup NewlyBlocked(view, blocked[k]) BY <1>9
    <3>2. Seeds(k) \subseteq blocked[k] /\ blocked[k] \subseteq P
      BY <1>1 DEF Propagating
    <3>3. IsFiniteSet(Ids(view)) /\ Seeds(k) \subseteq Ids(view)
      BY <1>1, <1>4, WorkersAreFinite, SeedsAreBlockable
    <3>4. NewlyBlocked(view, P) = {} BY <3>3, PropagatedEffect
    <3> HIDE DEF P
    <3>5. NewlyBlocked(view, blocked[k]) \subseteq P BY <3>2, <3>4 DEF NewlyBlocked
    <3> QED BY <3>1, <3>2, <3>5 DEF P
  <2>3. Propagating' BY <1>1, <1>3, <1>9, <2>2 DEF Propagating
  <2>4. Planned' BY <1>1, <1>9 DEF Planned
  <2> QED BY <1>6, <1>7, <1>8, <2>1, <2>3, <2>4
<1>10. CASE /\ \A k \in Kind : new[k] = {}
            /\ ready' = ReadyIds(view, UNION {blocked[k] : k \in Kind})
            /\ phase' = "done"
            /\ UNCHANGED blocked
  <2>1. ready' \subseteq Worker BY <1>4, <1>10 DEF ReadyIds
  <2>2. Typed' BY <1>1, <1>4, <1>10, <2>1 DEF Typed, Views, SearchOver
  <2>3. Propagating' BY <1>1, <1>3, <1>10 DEF Propagating
  <2>4. Planned' BY <1>1, <1>10 DEF Planned
  <2> QED BY <1>6, <1>7, <1>8, <2>2, <2>3, <2>4
<1> HIDE DEF Inv, SearchInv
<1> QED BY Zenon, <1>9, <1>10 DEF Propagate

LEMMA SearchSteps ==
  ASSUME Inv, VisitRoot \/ VisitDependency \/ Leave
  PROVE  Inv'
<1>1. SearchInv' BY VisitRootSearch, VisitDependencySearch, LeaveSearch DEF Inv
<1>2. phase' = "search" BY DEF VisitRoot, VisitDependency, Leave
<1> QED BY <1>1, <1>2 DEF Inv, Propagating, Planned, SearchOver

\* The invariant holds throughout.
THEOREM AnalysisIsTracked == Spec => []Inv
<1>1. Init => Inv BY InitSearch DEF Inv, Init, Propagating, Planned, SearchOver
<1>2. Inv /\ [Next]_vars => Inv'
  <2> SUFFICES ASSUME Inv, [Next]_vars PROVE Inv' OBVIOUS
  <2>1. CASE VisitRoot \/ VisitDependency \/ Leave BY <2>1, SearchSteps
  <2>2. CASE Seed BY <2>2, SeedStep
  <2>3. CASE Propagate BY <2>3, PropagateStep
  <2>4. CASE UNCHANGED vars
    <3>1. SearchInv' BY <2>4 DEF vars, Inv, SearchInv, Typed, SearchOver, Views, PathIsOpen,
                                OrderIsVisited, Examined, OnCycle, Cyclic, CyclesAreReal,
                                IsCycle
    <3>2. Propagating' /\ Planned'
      BY <2>4 DEF vars, Inv, Propagating, Planned, Seeds, Cyclic, SearchOver
    <3> QED BY <3>1, <3>2 DEF Inv
  <2> QED BY <2>1, <2>2, <2>3, <2>4 DEF Next
<1> QED BY <1>1, <1>2, PTL DEF Spec

-----------------------------------------------------------------------------
(* Cycles and the order.                                                   *)

\* What follows w is reached from it, and so is what is reached from there.
LEMMA ReachedClosed ==
  ASSUME NEW follows \in [Worker -> SUBSET Worker], NEW w \in Worker
  PROVE  /\ follows[w] \subseteq Reached(follows, w)
         /\ \A d \in follows[w] : Reached(follows, d) \subseteq Reached(follows, w)
BY DEF Reached

\* A closed set that holds what follows w holds all that is reached from w.
LEMMA ReachedLeast ==
  ASSUME NEW follows, NEW w \in Worker, NEW U \in SUBSET Worker,
         follows[w] \subseteq U, \A u \in U : follows[u] \subseteq U
  PROVE  Reached(follows, w) \subseteq U
BY DEF Reached

\* A worker on a cycle depends on itself.
LEMMA CycleReachesItself ==
  ASSUME Typed, NEW c \in cycles, IsCycle(c)
  PROVE  c[1] \in Worker /\ Reaches(c[1], c[1])
<1> DEFINE F == [v \in Worker |-> deps[v] \cap Worker]
<1>1. c \in Seq(Worker) /\ c # << >> BY DEF Typed, IsCycle
<1>2. /\ Len(c) \in Nat /\ DOMAIN c = 1 .. Len(c) /\ 1 \in DOMAIN c /\ Len(c) \in DOMAIN c
      /\ \A i \in DOMAIN c : c[i] \in Worker
  BY <1>1
<1>3. ASSUME NEW U \in SUBSET Worker, F[c[1]] \subseteq U,
             \A u \in U : F[u] \subseteq U
      PROVE  c[1] \in U
  <2>1. \A i \in DOMAIN c : F[c[i]] \subseteq U
    <3> DEFINE Bad == {i \in DOMAIN c : ~(F[c[i]] \subseteq U)}
    <3>1. SUFFICES ASSUME Bad # {} PROVE FALSE OBVIOUS
    <3>2. PICK i \in Bad : \A j \in Bad : i <= j
      <4>1. Bad \subseteq Nat BY <1>2
      <4> HIDE DEF Bad
      <4> QED BY <3>1, <4>1, LeastNatural
    <3>3. i # 1 BY <1>3
    <3>4. i - 1 \in DOMAIN c /\ (i - 1) + 1 = i /\ i - 1 # Len(c) /\ ~(i <= i - 1)
      BY <1>2, <3>2, <3>3
    <3>5. F[c[i - 1]] \subseteq U BY <3>2, <3>4
    <3>6. c[i] \in deps[c[i - 1]]
      <4>1. c[(i - 1) + 1] \in deps[c[i - 1]] BY <3>4 DEF IsCycle
      <4> QED BY <3>4, <4>1
    <3>7. c[i] \in U
      <4>1. c[i] \in F[c[i - 1]] BY <1>2, <3>2, <3>4, <3>6
      <4> QED BY <3>5, <4>1
    <3> QED BY <1>3, <3>2, <3>7
  <2>2. c[1] \in F[c[Len(c)]] BY <1>2 DEF IsCycle
  <2> QED BY <1>2, <2>1, <2>2
<1>4. c[1] \in Reached(F, c[1])
  <2> HIDE DEF F
  <2> QED BY <1>2, <1>3 DEF Reached
<1> QED BY <1>2, <1>4 DEF Reaches

\* Without a cycle no worker depends on one that comes after it, or on itself.
LEMMA OrderIsDependency ==
  ASSUME SearchInv, SearchOver, cycles = {},
         NEW i \in DOMAIN ordered, NEW j \in DOMAIN ordered, Reaches(ordered[i], ordered[j])
  PROVE  j < i
<1> DEFINE F == [v \in Worker |-> deps[v] \cap Worker]
           U == {ordered[k] : k \in {k \in DOMAIN ordered : k < i}}
<1>1. /\ ordered \in Seq(Worker) /\ deps \in [Worker -> SUBSET (Worker \cup {Missing})]
      /\ Cyclic = {}
  BY DEF SearchInv, Typed, Cyclic
<1>2. \A k \in DOMAIN ordered : k \in Nat /\ ordered[k] \in Worker BY <1>1
<1>3. U \in SUBSET Worker BY <1>2
<1>4. ASSUME NEW k \in DOMAIN ordered, k <= i PROVE F[ordered[k]] \subseteq U
  <2> SUFFICES ASSUME NEW d \in F[ordered[k]] PROVE d \in U OBVIOUS
  <2>1. d \in deps[ordered[k]] /\ d # Missing BY <1>2, WorkersAreFinite
  <2>2. PICK l \in DOMAIN ordered : l < k /\ ordered[l] = d
    BY <1>1, <2>1 DEF SearchInv, Examined, OnCycle
  <2>3. l < i BY <1>2, <1>4, <2>2
  <2> QED BY <2>2, <2>3
<1>5. F[ordered[i]] \subseteq U BY <1>2, <1>4
<1>6. \A u \in U : F[u] \subseteq U
  <2> SUFFICES ASSUME NEW k \in DOMAIN ordered, k < i PROVE F[ordered[k]] \subseteq U
    OBVIOUS
  <2>1. k <= i BY <1>2
  <2> QED BY <1>4, <2>1
<1>7. ordered[j] \in U
  <2>1. ordered[j] \in Reached(F, ordered[i]) BY DEF Reaches
  <2> HIDE DEF F, U
  <2> QED BY <1>2, <1>3, <1>5, <1>6, <2>1, ReachedLeast
<1>8. PICK k \in DOMAIN ordered : k < i /\ ordered[k] = ordered[j] BY <1>7
<1>9. k = j BY <1>8 DEF SearchInv, OrderIsVisited
<1> QED BY <1>8, <1>9

\* A cycle is reported exactly when there is one, and each one reported is one.
LEMMA InvFindsCycles == ASSUME SearchInv PROVE CyclesAreFound
<1> SUFFICES ASSUME SearchOver PROVE CyclesAreFound BY DEF CyclesAreFound
<1>1. ASSUME cycles # {} PROVE \E w \in Worker : Reaches(w, w)
  <2>1. PICK c \in cycles : TRUE BY <1>1
  <2>2. IsCycle(c) /\ Typed BY DEF SearchInv, CyclesAreReal
  <2> QED BY <2>1, <2>2, CycleReachesItself
<1>2. ASSUME cycles = {}, NEW w \in Worker, Reaches(w, w) PROVE FALSE
  <2>1. PICK i \in DOMAIN ordered : ordered[i] = w
    BY DEF SearchInv, OrderIsVisited, Range
  <2>2. i < i BY <1>2, <2>1, OrderIsDependency
  <2>3. i \in Nat
    <3>1. ordered \in Seq(Worker) BY DEF SearchInv, Typed
    <3> QED BY <3>1
  <2> QED BY <2>2, <2>3
<1>3. ASSUME NEW c \in cycles, NEW i \in DOMAIN c
      PROVE  (IF i = Len(c) THEN c[1] ELSE c[i + 1]) \in deps[c[i]]
  BY DEF SearchInv, CyclesAreReal, IsCycle
<1> QED BY <1>1, <1>2, <1>3 DEF CyclesAreFound

\* The search of visit is complete and sound: a cycle is reported if and only if
\* some worker depends on itself, and each cycle reported is made of dependencies.
THEOREM FindsCycles == Spec => []CyclesAreFound
<1>1. Inv => CyclesAreFound BY InvFindsCycles DEF Inv
<1> QED BY <1>1, AnalysisIsTracked, PTL

\* Without a cycle the order visit builds puts every worker after all that it
\* depends on, directly or not.
THEOREM OrdersDependencies == Spec => []DependenciesComeFirst
<1>1. Inv => DependenciesComeFirst
  BY OrderIsDependency DEF Inv, DependenciesComeFirst
<1> QED BY <1>1, AnalysisIsTracked, PTL

-----------------------------------------------------------------------------
(* What is blocked.                                                        *)

\* The closure of a set of blockable workers, in terms of the chains of
\* blockable workers that lead to it.
LEMMA ClosureIsReachable ==
  ASSUME Typed, SearchOver, NEW seeds \in SUBSET Worker,
         \A s \in seeds : Blockable(view, s)
  PROVE  Propagated(view, seeds) =
           seeds \cup {w \in Worker : \E s \in seeds : s \in Reached(WaitsFor, w)}
<1> DEFINE B == Propagated(view, seeds)
           F == WaitsFor
           E == seeds \cup {w \in Worker : \E s \in seeds : s \in Reached(F, w)}
<1>1. Ids(view) = Worker /\ view.deps = deps BY DEF Typed, Views, Ids
<1>2. /\ seeds \subseteq B /\ B \subseteq Worker
      /\ NewlyBlocked(view, B) = {}
      /\ \A c : seeds \subseteq c /\ NewlyBlocked(view, c) = {} => B \subseteq c
  <2>1. IsFiniteSet(Ids(view)) /\ seeds \subseteq Ids(view) BY <1>1, WorkersAreFinite
  <2> QED BY <1>1, <2>1, PropagatedEffect
<1>3. F \in [Worker -> SUBSET Worker] BY DEF WaitsFor
<1>4. \A w \in Worker, d \in Worker :
        d \in F[w] <=> (d \in deps[w] /\ Blockable(view, w) /\ Blockable(view, d))
  BY DEF WaitsFor
<1> HIDE DEF B, F
<1>5. ASSUME NEW w \in E PROVE w \in B
  <2>1. SUFFICES ASSUME w \notin B PROVE FALSE OBVIOUS
  <2>2. PICK s \in seeds : w \in Worker /\ s \in Reached(F, w) BY <1>2, <2>1
  <2> DEFINE U == Worker \ B
  <2>3. \A u \in U : F[u] \subseteq U
    <3> SUFFICES ASSUME NEW u \in Worker, u \notin B, NEW d \in F[u] PROVE d \in Worker /\ d \notin B
      OBVIOUS
    <3>1. d \in Worker BY <1>3
    <3>2. d \in deps[u] /\ Blockable(view, u) BY <1>4, <3>1
    <3> QED BY <1>1, <1>2, <3>1, <3>2 DEF NewlyBlocked
  <2>4. U \in SUBSET Worker /\ w \in U BY <2>1, <2>2
  <2> HIDE DEF U
  <2>5. Reached(F, w) \subseteq U BY <2>2, <2>3, <2>4, ReachedLeast
  <2> QED BY <1>2, <2>2, <2>5 DEF U
<1>6. seeds \subseteq E OBVIOUS
<1>7. NewlyBlocked(view, E) = {}
  <2> SUFFICES ASSUME NEW w \in Worker, w \notin E, Blockable(view, w),
                      NEW d \in deps[w], d \in E
               PROVE  FALSE
    BY <1>1 DEF NewlyBlocked
  <2>1. d \in Worker OBVIOUS
  <2>2. Blockable(view, d)
    <3>1. CASE d \in seeds BY <3>1
    <3>2. CASE \E s \in seeds : s \in Reached(F, d)
      <4>1. SUFFICES ASSUME ~Blockable(view, d) PROVE FALSE OBVIOUS
      <4>2. F[d] = {} BY <1>3, <1>4, <2>1, <4>1
      <4>3. {} \in SUBSET Worker /\ F[d] \subseteq {} /\ \A u \in {} : F[u] \subseteq {}
        BY <4>2
      <4>4. Reached(F, d) \subseteq {} BY <2>1, <4>3, ReachedLeast
      <4> QED BY <3>2, <4>4
    <3> QED BY <3>1, <3>2
  <2>3. d \in F[w] BY <1>4, <2>1, <2>2
  <2>4. d \in Reached(F, w) /\ Reached(F, d) \subseteq Reached(F, w)
    BY <1>3, <2>3, ReachedClosed
  <2>5. \E s \in seeds : s \in Reached(F, w) BY <2>4
  <2> QED BY <2>5
<1>8. B \subseteq E
  <2> HIDE DEF E
  <2> QED BY <1>2, <1>6, <1>7
<1>9. B = E BY <1>5, <1>8
<1> QED BY <1>9 DEF B, F

\* The closure of two sets together is that of one and that of the other.
LEMMA ClosuresJoin ==
  ASSUME NEW v, IsFiniteSet(Ids(v)), NEW a, a \subseteq Ids(v), NEW b, b \subseteq Ids(v)
  PROVE  Propagated(v, a \cup b) = Propagated(v, a) \cup Propagated(v, b)
<1> DEFINE A == Propagated(v, a)
           B == Propagated(v, b)
           C == Propagated(v, a \cup b)
<1>1. a \subseteq A /\ NewlyBlocked(v, A) = {}
      /\ \A c : a \subseteq c /\ NewlyBlocked(v, c) = {} => A \subseteq c
  BY PropagatedEffect
<1>2. b \subseteq B /\ NewlyBlocked(v, B) = {}
      /\ \A c : b \subseteq c /\ NewlyBlocked(v, c) = {} => B \subseteq c
  BY PropagatedEffect
<1>3. (a \cup b) \subseteq C /\ NewlyBlocked(v, C) = {}
      /\ \A c : (a \cup b) \subseteq c /\ NewlyBlocked(v, c) = {} => C \subseteq c
  <2> DEFINE s == a \cup b
  <2>1. s \subseteq Ids(v) OBVIOUS
  <2> HIDE DEF s
  <2>2. s \subseteq Propagated(v, s) /\ NewlyBlocked(v, Propagated(v, s)) = {}
        /\ \A c : s \subseteq c /\ NewlyBlocked(v, c) = {} => Propagated(v, s) \subseteq c
    BY <2>1, PropagatedEffect
  <2> QED BY <2>2 DEF s
<1> HIDE DEF A, B, C
<1>4. NewlyBlocked(v, A \cup B) = {} BY <1>1, <1>2 DEF NewlyBlocked
<1>5. A \subseteq C /\ B \subseteq C BY <1>1, <1>2, <1>3
<1>6. C \subseteq (A \cup B) BY <1>1, <1>2, <1>3, <1>4
<1>7. C = A \cup B BY <1>5, <1>6
<1> QED BY <1>7 DEF A, B, C

\* When the rounds are over each kind has blocked the closure of its seeds.
LEMMA DoneIsClosed ==
  ASSUME Inv, phase = "done", NEW k \in Kind
  PROVE  /\ Seeds(k) \subseteq Worker /\ \A s \in Seeds(k) : Blockable(view, s)
         /\ blocked[k] = Propagated(view, Seeds(k))
<1>1. SearchOver BY DEF SearchOver
<1>2. /\ Ids(view) = Worker
      /\ \A w \in Seeds(k) : w \in Worker /\ Blockable(view, w)
  BY <1>1, SeedsAreBlockable DEF Inv
<1>3. IsFiniteSet(Ids(view)) /\ Seeds(k) \subseteq Ids(view) BY <1>2, WorkersAreFinite
<1>4. /\ Seeds(k) \subseteq blocked[k] /\ blocked[k] \subseteq Propagated(view, Seeds(k))
      /\ NewlyBlocked(view, blocked[k]) = {}
  BY <1>1 DEF Inv, Propagating
<1>5. Propagated(view, Seeds(k)) \subseteq blocked[k] BY <1>3, <1>4, PropagatedEffect
<1> QED BY <1>2, <1>4, <1>5

\* The blocked workers of both kinds are those of one closure of all seeds.
LEMMA BlockedIsClosure ==
  ASSUME Inv, phase = "done"
  PROVE  LET seeds == InvalidSeeds(view, Cyclic) \cup DependencySeeds(view) IN
         /\ seeds \subseteq Worker /\ \A s \in seeds : Blockable(view, s)
         /\ UNION {blocked[k] : k \in Kind} = Propagated(view, seeds)
<1> DEFINE a == InvalidSeeds(view, Cyclic)
           b == DependencySeeds(view)
<1>1. /\ a \subseteq Worker /\ \A s \in a : Blockable(view, s)
      /\ blocked["invalid"] = Propagated(view, a)
  <2>1. "invalid" \in Kind /\ Seeds("invalid") = a BY DEF Kind, Seeds
  <2> HIDE DEF a
  <2>2. /\ Seeds("invalid") \subseteq Worker /\ \A s \in Seeds("invalid") : Blockable(view, s)
        /\ blocked["invalid"] = Propagated(view, Seeds("invalid"))
    BY <2>1, DoneIsClosed
  <2> QED BY <2>1, <2>2
<1>2. /\ b \subseteq Worker /\ \A s \in b : Blockable(view, s)
      /\ blocked["dependency"] = Propagated(view, b)
  <2>1. "dependency" \in Kind /\ Seeds("dependency") = b BY DEF Kind, Seeds
  <2> HIDE DEF b
  <2>2. /\ Seeds("dependency") \subseteq Worker
        /\ \A s \in Seeds("dependency") : Blockable(view, s)
        /\ blocked["dependency"] = Propagated(view, Seeds("dependency"))
    BY <2>1, DoneIsClosed
  <2> QED BY <2>1, <2>2
<1> HIDE DEF a, b
<1>3. IsFiniteSet(Ids(view)) /\ Ids(view) = Worker
  <2>1. Ids(view) = Worker BY DEF Inv, SearchInv, Typed, SearchOver, Views, Ids
  <2> QED BY <2>1, WorkersAreFinite
<1>4. Propagated(view, a \cup b) = Propagated(view, a) \cup Propagated(view, b)
  BY <1>1, <1>2, <1>3, ClosuresJoin
<1>5. UNION {blocked[k] : k \in Kind} = blocked["invalid"] \cup blocked["dependency"]
  BY DEF Kind
<1>6. UNION {blocked[k] : k \in Kind} = Propagated(view, a \cup b)
  BY <1>1, <1>2, <1>4, <1>5
<1> QED BY <1>1, <1>2, <1>6 DEF a, b

LEMMA InvBlocksReachable == ASSUME Inv PROVE BlockedIsReachable
<1> SUFFICES ASSUME phase = "done" PROVE BlockedIsReachable BY DEF BlockedIsReachable
<1> DEFINE seeds == InvalidSeeds(view, Cyclic) \cup DependencySeeds(view)
<1>1. /\ seeds \subseteq Worker /\ \A s \in seeds : Blockable(view, s)
      /\ UNION {blocked[k] : k \in Kind} = Propagated(view, seeds)
  BY BlockedIsClosure
<1>2. BlockedIds(view, Cyclic) = Propagated(view, seeds) BY DEF BlockedIds
<1> HIDE DEF seeds
<1>3. Typed /\ SearchOver BY DEF Inv, SearchInv, SearchOver
<1>4. Propagated(view, seeds) =
        seeds \cup {w \in Worker : \E s \in seeds : s \in Reached(WaitsFor, w)}
  BY <1>1, <1>3, ClosureIsReachable
<1> QED BY <1>1, <1>2, <1>4 DEF BlockedIsReachable, seeds

\* The rounds of _propagate_blocker_maps, one kind of blocker at a time, and the
\* fixed point the orchestration takes for them block the same workers: those
\* from which a chain of blockable workers leads to a seed.
THEOREM BlocksReachable == Spec => []BlockedIsReachable
<1>1. Inv => BlockedIsReachable BY InvBlocksReachable
<1> QED BY <1>1, AnalysisIsTracked, PTL

-----------------------------------------------------------------------------
(* Nobody stalls.                                                          *)

\* A worker that has yet to run, is neither ready nor blocked, and waits for no
\* running one, has a dependency of the same sort, which it comes after.
Stuck(w) ==
  /\ w \in Worker /\ Executable(view, w) /\ Blockable(view, w)
  /\ w \notin UNION {blocked[k] : k \in Kind}
  /\ \A x \in Worker : view.life[x] = "active_wait" => ~Reaches(w, x)

LEMMA StuckOnAnother ==
  ASSUME Inv, phase = "done", ready = {}, NEW i \in DOMAIN ordered, Stuck(ordered[i])
  PROVE  \E j \in DOMAIN ordered : j < i /\ Stuck(ordered[j])
<1> DEFINE w == ordered[i]
           B == UNION {blocked[k] : k \in Kind}
           seeds == InvalidSeeds(view, Cyclic) \cup DependencySeeds(view)
           F == [v \in Worker |-> deps[v] \cap Worker]
<1>1. /\ w \in Worker /\ Executable(view, w) /\ Blockable(view, w) /\ w \notin B
      /\ \A x \in Worker : view.life[x] = "active_wait" => ~Reaches(w, x)
  BY DEF Stuck
<1>2. Typed /\ SearchOver /\ view \in Views BY DEF Inv, SearchInv, Typed, SearchOver
<1>3. Ids(view) = Worker /\ view.deps = deps BY <1>2 DEF Views, Ids
<1>4. ready = ReadyIds(view, B) BY DEF Inv, Planned
<1>5. seeds \subseteq Worker /\ B = Propagated(view, seeds) BY BlockedIsClosure
<1>6. seeds \subseteq B /\ NewlyBlocked(view, B) = {}
  <2> HIDE DEF seeds
  <2>1. IsFiniteSet(Ids(view)) /\ seeds \subseteq Ids(view) BY <1>3, <1>5, WorkersAreFinite
  <2>2. seeds \subseteq Propagated(view, seeds) /\ NewlyBlocked(view, Propagated(view, seeds)) = {}
    BY <2>1, PropagatedEffect
  <2> QED BY <1>5, <2>2
<1>7. w \notin InvalidSeeds(view, Cyclic) /\ w \notin DependencySeeds(view) BY <1>1, <1>6
<1> HIDE DEF B, seeds
<1>8. ~DependenciesDone(view, w) BY <1>1, <1>3, <1>4 DEF ReadyIds
<1>9. PICK d \in deps[w] : ~(d \in Worker /\ view.life[d] = "done_collect")
  BY <1>3, <1>8 DEF DependenciesDone
<1>10. ~FailedDependency(view, d) BY <1>1, <1>3, <1>7 DEF DependencySeeds
<1>11. d \in Worker /\ view.life[d] \notin FailedDependencyStates
  BY <1>3, <1>10 DEF FailedDependency
<1>12. view.life[d] \in RunnableStates
  <2>1. view.life[d] \in LifecycleStates BY <1>2, <1>11 DEF Views
  <2> QED BY <1>9, <1>11, <2>1
       DEF LifecycleStates, FailedDependencyStates, BlockedStates, FailedStates,
           TimeoutStates, AbortedStates, RunnableStates, ActiveStates
<1>13. w \notin Cyclic /\ ~NonRunnable(view, d) BY <1>1, <1>3, <1>7 DEF InvalidSeeds
<1>14. d \in view.prompted BY <1>3, <1>11, <1>12, <1>13 DEF NonRunnable
<1>15. Blockable(view, d) BY <1>12, <1>14 DEF Blockable
<1>16. d \in Reached(F, w) /\ Reached(F, d) \subseteq Reached(F, w)
  <2>1. F \in [Worker -> SUBSET Worker] /\ d \in F[w] BY <1>1, <1>11
  <2> HIDE DEF F
  <2> QED BY <1>1, <2>1, ReachedClosed
<1>17. \A x \in Worker : view.life[x] = "active_wait" => ~Reaches(d, x)
  BY <1>1, <1>16 DEF Reaches
<1>18. view.life[d] # "active_wait" BY <1>1, <1>11, <1>16 DEF Reaches
<1>19. Executable(view, d)
  BY <1>12, <1>14, <1>18 DEF Executable, RunnableStates, ActiveStates, ExecutableStates
<1>20. d \notin B BY <1>1, <1>3, <1>6, <1>9 DEF NewlyBlocked
<1>21. Stuck(d) BY <1>11, <1>15, <1>17, <1>19, <1>20 DEF Stuck, B
<1>22. PICK j \in DOMAIN ordered : j < i /\ ordered[j] = d
  <2>1. d # Missing BY <1>11, WorkersAreFinite
  <2> QED BY <1>9, <1>13, <2>1 DEF Inv, SearchInv, Examined, OnCycle
<1> QED BY <1>21, <1>22

LEMMA InvNobodyStalls == ASSUME Inv PROVE NobodyStalls
<1>1. SUFFICES ASSUME phase = "done", ready = {}, NEW w \in Worker, Stuck(w) PROVE FALSE
  BY DEF NobodyStalls, Stuck
<1> DEFINE Bad == {i \in DOMAIN ordered : Stuck(ordered[i])}
<1>2. Bad # {}
  <2>1. w \in Range(ordered) BY <1>1 DEF Inv, SearchInv, OrderIsVisited, SearchOver
  <2> QED BY <1>1, <2>1 DEF Range
<1>3. Bad \subseteq Nat
  <2>1. ordered \in Seq(Worker) BY DEF Inv, SearchInv, Typed
  <2> QED BY <2>1
<1>4. PICK i \in Bad : \A j \in Bad : i <= j
  <2> HIDE DEF Bad
  <2> QED BY <1>2, <1>3, LeastNatural
<1>5. PICK j \in DOMAIN ordered : j < i /\ Stuck(ordered[j]) BY <1>1, StuckOnAnother
<1>6. j \in Bad BY <1>5
<1>7. i \in Nat /\ j \in Nat BY <1>3, <1>6
<1> QED BY <1>4, <1>5, <1>6, <1>7

\* The plan that ends a run start: when nothing is ready, each worker that has
\* yet to run is blocked or waits for one that is running.
THEOREM LeavesNobodyBehind == Spec => []NobodyStalls
<1>1. Inv => NobodyStalls BY InvNobodyStalls
<1> QED BY <1>1, AnalysisIsTracked, PTL
=============================================================================
