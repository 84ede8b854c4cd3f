------------------------ MODULE LiveValidationProofs ------------------------
(***************************************************************************)
(* Proofs about LiveValidation, for any documents, kinds of event, bounds  *)
(* and modes.  The invariant has four parts, each of which rests on the    *)
(* ones before it: the shape of the state (Shaped), what the reading of    *)
(* the stream has done with the events so far (Read), what has become of   *)
(* the sessions and who is to delete them (Tracked), and what is known of  *)
(* the turns (Known).                                                      *)
(***************************************************************************)
EXTENDS LiveValidation, SequenceTheorems, TLAPS

\* The lemmas on natural numbers and iterates there depend on no constant.
Lemmas == INSTANCE WorkerLemmas WITH Sessions <- {}, NoSession <- 0

-----------------------------------------------------------------------------
(* Shape.                                                                  *)

StreamShape == [conn : {"none", "open", "ended", "reset", "invalid"},
                sent : Seq(Kinds), wire : Seq(Kinds)]

Items == SessionKinds \cup Errors \cup {"finished"}

ThreadShape ==
  [pc : {"new", "opening", "reading", "holding", "failing", "finishing", "exiting", "ended"},
   event : Kinds \cup {"none"}, error : Errors \cup {"none"},
   items : Seq(Items), opened : BOOLEAN, closed : BOOLEAN]

ReaderShape ==
  [pc : {"idle", "opening", "open", "collecting", "deciding", "closing", "joining",
         "closed", "reading"},
   got : Seq(SessionKinds), pending : Seq(SessionKinds \cap {"text"}),
   result : AllKinds \cup Errors
            \cup {"none", "not opened", "events", "timeout", "empty", "executed", "end"}]

CallShape ==
  [pc : {"idle", "run", "waiting", "aborting", "over"}, session : SessionIds,
   outcome : {"none", "admitted", "raised", "unsupported", "api", "provider", "done",
              "timeout"},
   abort_error : BOOLEAN]

PlanOf(d) == RoutePlan(d)["session"]
Plans == {PlanOf(d) : d \in SUBSET Paths} \cup {DefaultPlan["session"]}

CleanerShape ==
  [pc : {"idle", "deleting", "verifying", "over", "raised"}, plan : Plans,
   todo : Seq(SessionIds), deleted : SUBSET SessionIds, failed : BOOLEAN]

Results == {"none", "ok", "unsupported", "failed", "raised"}

Places ==
  {"detecting", "creating", "prompting", "steering", "observing", "opening", "waiting",
   "reading", "blockers", "executing", "closing", "cleaning", "exited"}
Exits == Results \cup {"timeout", "aborted"}

CommandShape ==
  [mode : AllModes, pc : Places, seen : SUBSET Paths, executed : {"unknown", "yes", "no"},
   result : Results, exit : Exits, retried : BOOLEAN]

\* The thread has an event in hand when it is about to hand it over.
Holding ==
  /\ thread.pc = "holding" <=> thread.event # "none"
  /\ thread.pc = "failing" => thread.error \in Errors

WatchShaped ==
  stream \in StreamShape /\ thread \in ThreadShape /\ reader \in ReaderShape /\ Holding

PromptShaped ==
  /\ sessions \in [SessionIds -> {"none", "live", "deleted"}]
  /\ turns \in [TurnIds -> [session : SessionIds, state : TurnStates]]
  /\ call \in CallShape

CleanShaped ==
  /\ doc \in Docs /\ created \in SUBSET SessionIds
  /\ cleaners \in [Cleaners -> CleanerShape]

Shaped == WatchShaped /\ PromptShaped /\ CleanShaped /\ command \in CommandShape

-----------------------------------------------------------------------------
(* Events.                                                                 *)

Told == Only(stream.sent, SessionKinds)
Kept == reader.got \o reader.pending
Queued == Only(thread.items, Kinds)
OnWire == Only(stream.wire, SessionKinds)

\* What is read, queued, in hand and on the wire is what was told.
Fits(kept, queued, hand, wire, told) ==
  /\ {kept, queued, hand, wire, told} \subseteq Seq(SessionKinds)
  /\ kept \o (queued \o (hand \o wire)) = told

Begins(kept, told) == \E rest \in Seq(SessionKinds) : kept \o rest = told

\* Once the reading is given up, what is read is the beginning of it.
InOrder ==
  /\ ~thread.closed /\ reader.result # "raised" => Fits(Kept, Queued, InHand, OnWire, Told)
  /\ Begins(Kept, Told)
  /\ reader.pc = "closed" /\ reader.result # "raised" => reader.pending = <<>>

\* Who reads: smoke by its thread, watch with text pending, the others neither.
ReadsAlone ==
  /\ command.mode # "smoke" => thread = NewThread
  /\ command.mode # "watch" => reader.pending = <<>>
  /\ reader.pc = "idle" => reader = NewReader /\ thread = NewThread
  /\ reader.result # "none" => reader.pc \in {"closing", "joining", "closed"}
  /\ reader.pc \in {"opening", "open", "collecting", "deciding", "closing", "joining"}
       => command.mode = "smoke"
  /\ reader.pc = "reading" => command.mode \in {"live_validate", "watch"}
  /\ command.mode = "smoke" /\ reader.pc \in {"joining", "closed"} => thread.closed
  /\ thread.closed => reader.pc \in {"joining", "closed"}

Read == InOrder /\ ReadsAlone

-----------------------------------------------------------------------------
(* Sessions.                                                               *)

Among(q) == {q[i] : i \in DOMAIN q}
Left(w) == Among(cleaners[w].todo)

\* A cleaner deletes sessions made for the command, where the server has a
\* route; those it says are deleted are.
CleansOwn(w) ==
  /\ Left(w) \subseteq created
  /\ cleaners[w].todo # <<>> => RouteExists(cleaners[w].plan)
  /\ cleaners[w].pc = "verifying" => cleaners[w].todo # <<>>
  /\ cleaners[w].pc = "over" => cleaners[w].todo = <<>>
  /\ \A s \in cleaners[w].deleted : s \in created /\ sessions[s] = "deleted"

\* Where a command that makes sessions has made one.
Early == {"steering", "opening", "waiting", "reading", "observing"}

\* No session is made twice.
Fresh ==
  ~Given =>
    /\ command.pc = "detecting" =>
         created = {} /\ cleaners["command"].todo = <<>>
    /\ command.pc = "creating" =>
         \/ created = {} /\ cleaners["command"].todo = <<>>
         \/ /\ command.mode = "live_validate"
            /\ created = {"first"} /\ cleaners["command"].todo = <<"first">>
    /\ command.pc \in Early =>
         created = {"first"} /\ cleaners["command"].todo = <<"first">>

\* The command knows of all the sessions made for it, unless it has failed.
Knows ==
  command.result \in {"none", "ok"} /\ command.exit \in {"none", "ok"}
    /\ ~cleaners["command"].failed
  => created \subseteq Left("command") \cup cleaners["command"].deleted

CleanersKnow ==
  /\ \A s \in created : sessions[s] # "none"
  /\ \A w \in Cleaners : CleansOwn(w)

Tracked ==
  /\ CleanersKnow
  /\ cleaners["command"].pc # "idle" => command.pc \in {"cleaning", "exited"}
  /\ Given => created = {}
  /\ command.exit # "none" => command.pc = "exited"
  /\ command.result # "none" => command.pc \in {"closing", "cleaning", "exited"}
  /\ command.exit = "ok" => \A s \in created : sessions[s] = "deleted"
  /\ command.pc = "creating" => ~Given
  /\ command.pc = "steering" => command.mode \in {"smoke", "live_validate", "steer"}
  /\ Fresh
  /\ Knows

-----------------------------------------------------------------------------
(* Turns.                                                                  *)

\* While a call is on its way, the prompt is in its session.
Linked == call.pc \in {"run", "waiting", "aborting"} => turns["prompt"].session = call.session

Known ==
  /\ EvidenceIsReal
  /\ reader.result = "executed" => HasRun("steer")
  /\ (\E e \in Among(stream.wire) : IsExecution(e)) => HasRun("steer")
  /\ Linked

Inv == Shaped /\ Read /\ Tracked /\ Known

-----------------------------------------------------------------------------
(* Only: what is left of a sequence.                                       *)

\* f[n] is what is left of the first n items of s.
FirstOnly(s, S, m, f) ==
  f = [n \in 0 .. m |-> IF n = 0 THEN <<>>
                        ELSE IF s[n] \in S THEN Append(f[n - 1], s[n]) ELSE f[n - 1]]

LEMMA FirstOnlyExists ==
  ASSUME NEW s, NEW S, NEW m \in Nat
  PROVE  \E f : FirstOnly(s, S, m, f)
<1> DEFINE Bad == {k \in Nat : ~ \E f : FirstOnly(s, S, k, f)}
<1>1. SUFFICES ASSUME Bad # {} PROVE FALSE OBVIOUS
<1>2. PICK k \in Bad : \A j \in Bad : k <= j
  <2>1. Bad \subseteq Nat OBVIOUS
  <2> HIDE DEF Bad
  <2> QED BY <1>1, <2>1, Lemmas!LeastNatural
<1>3. CASE k = 0
  <2> DEFINE f == [n \in 0 .. 0 |-> <<>>]
  <2>1. FirstOnly(s, S, 0, f)
    <3>1. \A n \in 0 .. 0 : n = 0 OBVIOUS
    <3> QED BY <3>1 DEF FirstOnly
  <2> QED BY <1>3, <2>1
<1>4. CASE k # 0
  <2>1. k - 1 \in Nat /\ k \in Nat /\ ~(k <= k - 1) BY <1>4
  <2>2. k - 1 \notin Bad BY <1>2, <2>1
  <2>3. PICK f : FirstOnly(s, S, k - 1, f) BY <2>1, <2>2
  <2>4. \A n \in 0 .. (k - 1) :
          f[n] = IF n = 0 THEN <<>>
                 ELSE IF s[n] \in S THEN Append(f[n - 1], s[n]) ELSE f[n - 1]
    BY <2>3 DEF FirstOnly
  <2> DEFINE g == [n \in 0 .. k |->
                     IF n # k THEN f[n]
                     ELSE IF s[k] \in S THEN Append(f[k - 1], s[k]) ELSE f[k - 1]]
  <2>5. \A n \in 0 .. k : n # k => n \in 0 .. (k - 1) /\ g[n] = f[n] BY <2>1
  <2>6. g[k] = IF s[k] \in S THEN Append(f[k - 1], s[k]) ELSE f[k - 1] BY <2>1
  <2>7. DOMAIN g = 0 .. k /\ g = [n \in 0 .. k |-> g[n]] OBVIOUS
  <2> HIDE DEF g
  <2>8. ASSUME NEW n \in 0 .. k
        PROVE  g[n] = IF n = 0 THEN <<>>
                      ELSE IF s[n] \in S THEN Append(g[n - 1], s[n]) ELSE g[n - 1]
    <3>1. n # 0 => n - 1 \in 0 .. k /\ n - 1 # k BY <2>1
    <3>2. n # 0 => g[n - 1] = f[n - 1] BY <2>5, <3>1
    <3>3. CASE n = k BY <1>4, <2>6, <3>2, <3>3
    <3>4. CASE n # k
      <4>1. n \in 0 .. (k - 1) /\ g[n] = f[n] BY <2>5, <3>4
      <4> QED BY <2>4, <3>2, <4>1
    <3> QED BY <3>3, <3>4
  <2>9. FirstOnly(s, S, k, g) BY <2>7, <2>8 DEF FirstOnly
  <2> QED BY <2>9
<1> QED BY <1>3, <1>4

\* It depends on these items alone.
LEMMA FirstOnlyAgree ==
  ASSUME NEW s, NEW t, NEW S, NEW m \in Nat, NEW n \in Nat, NEW f, NEW g,
         FirstOnly(s, S, m, f), FirstOnly(t, S, n, g),
         NEW k \in Nat, k <= m, k <= n, \A i \in 1 .. k : s[i] = t[i]
  PROVE  f[k] = g[k]
<1> DEFINE Bad == {i \in 0 .. k : f[i] # g[i]}
<1>1. SUFFICES ASSUME Bad # {} PROVE FALSE OBVIOUS
<1>2. PICK i \in Bad : \A j \in Bad : i <= j
  <2>1. Bad \subseteq Nat OBVIOUS
  <2> HIDE DEF Bad
  <2> QED BY <1>1, <2>1, Lemmas!LeastNatural
<1>3. /\ i \in 0 .. m /\ f[i] = IF i = 0 THEN <<>>
                              ELSE IF s[i] \in S THEN Append(f[i - 1], s[i]) ELSE f[i - 1]
      /\ i \in 0 .. n /\ g[i] = IF i = 0 THEN <<>>
                              ELSE IF t[i] \in S THEN Append(g[i - 1], t[i]) ELSE g[i - 1]
  <2>1. i \in 0 .. m /\ i \in 0 .. n OBVIOUS
  <2> QED BY <2>1 DEF FirstOnly
<1>4. i # 0 BY <1>3
<1>5. i - 1 \in 0 .. k /\ i \in 1 .. k /\ ~(i <= i - 1) BY <1>4
<1>6. f[i - 1] = g[i - 1] BY <1>2, <1>5
<1> QED BY <1>3, <1>5, <1>6

LEMMA OnlyIs ==
  ASSUME NEW s, NEW S, Len(s) \in Nat, NEW f, FirstOnly(s, S, Len(s), f)
  PROVE  Only(s, S) = f[Len(s)]
<1> DEFINE g == CHOOSE g : FirstOnly(s, S, Len(s), g)
<1>1. FirstOnly(s, S, Len(s), g) OBVIOUS
<1>2. Only(s, S) = g[Len(s)] BY DEF Only, FirstOnly
<1> HIDE DEF g
<1>3. \A i \in 1 .. Len(s) : s[i] = s[i] OBVIOUS
<1>4. f[Len(s)] = g[Len(s)] BY <1>1, <1>3, FirstOnlyAgree
<1> QED BY <1>2, <1>4

LEMMA OnlyEmpty == \A S : Only(<<>>, S) = <<>>
<1> SUFFICES ASSUME NEW S PROVE Only(<<>>, S) = <<>> OBVIOUS
<1>1. Len(<<>>) = 0 OBVIOUS
<1>2. PICK f : FirstOnly(<<>>, S, 0, f) BY FirstOnlyExists
<1>3. f[0] = <<>> BY <1>2 DEF FirstOnly
<1> QED BY <1>1, <1>2, <1>3, OnlyIs

LEMMA OnlyAppend ==
  ASSUME NEW T, NEW s \in Seq(T), NEW e \in T, NEW S
  PROVE  Only(Append(s, e), S) = IF e \in S THEN Append(Only(s, S), e) ELSE Only(s, S)
<1> DEFINE n == Len(s)
           t == Append(s, e)
<1>1. n \in Nat /\ Len(t) = n + 1 /\ t[n + 1] = e /\ \A i \in 1 .. n : s[i] = t[i]
  OBVIOUS
<1> HIDE DEF n, t
<1>2. PICK f : FirstOnly(s, S, n, f) BY <1>1, FirstOnlyExists
<1>3. n + 1 \in Nat /\ n <= n + 1 /\ n <= n BY <1>1
<1>4. PICK g : FirstOnly(t, S, n + 1, g) BY <1>3, FirstOnlyExists
<1>5. Only(s, S) = f[n] BY <1>1, <1>2, OnlyIs DEF n
<1>6. Only(t, S) = g[n + 1] BY <1>1, <1>3, <1>4, OnlyIs
<1>7. f[n] = g[n]
  <2> DEFINE m == n + 1
  <2>1. n \in Nat /\ m \in Nat /\ n <= n /\ n <= m BY <1>1, <1>3
  <2>2. FirstOnly(t, S, m, g) BY <1>4
  <2>3. \A i \in 1 .. n : s[i] = t[i] BY <1>1
  <2> HIDE DEF m
  <2> QED BY <1>2, <2>1, <2>2, <2>3, FirstOnlyAgree
<1>8. g[n + 1] = IF t[n + 1] \in S THEN Append(g[n], t[n + 1]) ELSE g[n]
  <2>1. n + 1 \in 0 .. (n + 1) /\ n + 1 # 0 /\ (n + 1) - 1 = n BY <1>1
  <2>2. g[n + 1] = IF t[n + 1] \in S THEN Append(g[(n + 1) - 1], t[n + 1])
                   ELSE g[(n + 1) - 1]
    BY <1>4, <2>1 DEF FirstOnly
  <2> QED BY <2>1, <2>2
<1> QED BY <1>1, <1>5, <1>6, <1>7, <1>8 DEF t

\* All of its items are in T and in S.
LEMMA OnlyTyped ==
  ASSUME NEW T, NEW s \in Seq(T), NEW S
  PROVE  Only(s, S) \in Seq(T \cap S)
<1> DEFINE n == Len(s)
           R == T \cap S
<1>1. n \in Nat /\ \A i \in 1 .. n : s[i] \in T OBVIOUS
<1> HIDE DEF n, R
<1>2. PICK f : FirstOnly(s, S, n, f) BY <1>1, FirstOnlyExists
<1>3. Only(s, S) = f[n] BY <1>1, <1>2, OnlyIs DEF n
<1>4. \A k \in 0 .. n : f[k] \in Seq(R)
  <2> DEFINE Bad == {k \in 0 .. n : f[k] \notin Seq(R)}
  <2>1. SUFFICES ASSUME Bad # {} PROVE FALSE OBVIOUS
  <2>2. PICK k \in Bad : \A j \in Bad : k <= j
    <3>1. Bad \subseteq Nat OBVIOUS
    <3> HIDE DEF Bad
    <3> QED BY <2>1, <3>1, Lemmas!LeastNatural
  <2>3. k \in 0 .. n /\ f[k] = IF k = 0 THEN <<>>
                               ELSE IF s[k] \in S THEN Append(f[k - 1], s[k]) ELSE f[k - 1]
    BY <1>2 DEF FirstOnly
  <2>4. k # 0
    <3>1. <<>> \in Seq(R) OBVIOUS
    <3> QED BY <2>2, <2>3, <3>1
  <2>5. k - 1 \in 0 .. n /\ k \in 1 .. n /\ ~(k <= k - 1) BY <1>1, <2>3, <2>4
  <2>6. f[k - 1] \in Seq(R) BY <2>2, <2>5
  <2>7. s[k] \in S => s[k] \in R BY <1>1, <2>5 DEF R
  <2>8. s[k] \in S => Append(f[k - 1], s[k]) \in Seq(R) BY <2>6, <2>7
  <2> QED BY <2>2, <2>3, <2>4, <2>6, <2>8
<1>5. n \in 0 .. n BY <1>1
<1> QED BY <1>3, <1>4, <1>5 DEF R

LEMMA OnlyHead ==
  ASSUME NEW T, NEW s \in Seq(T), s # <<>>, NEW S
  PROVE  Only(s, S) = IF Head(s) \in S THEN <<Head(s)>> \o Only(Tail(s), S)
                      ELSE Only(Tail(s), S)
<1> DEFINE n == Len(s) - 1
           t == Tail(s)
           e == Head(s)
           h == IF e \in S THEN <<e>> ELSE <<>>
<1>1. /\ n \in Nat /\ Len(s) = n + 1 /\ t \in Seq(T) /\ Len(t) = n
      /\ s[1] = e /\ e \in T
      /\ \A i \in 1 .. n : t[i] = s[i + 1]
  OBVIOUS
<1>2. h \in Seq(T) BY <1>1
<1>3. h \o <<>> = h BY <1>2
<1>4. e \in S => h = <<e>> OBVIOUS
<1>5. e \notin S => h = <<>> OBVIOUS
<1> HIDE DEF n, t, e, h
<1>6. n + 1 \in Nat /\ 1 \in 0 .. (n + 1) BY <1>1
<1>7. PICK f : FirstOnly(s, S, n + 1, f) BY <1>6, FirstOnlyExists
<1>8. PICK g : FirstOnly(t, S, n, g) BY <1>1, FirstOnlyExists
<1>9. \A k \in 0 .. (n + 1) :
        f[k] = IF k = 0 THEN <<>>
               ELSE IF s[k] \in S THEN Append(f[k - 1], s[k]) ELSE f[k - 1]
  BY <1>7 DEF FirstOnly
<1>10. \A k \in 0 .. n :
         g[k] = IF k = 0 THEN <<>>
                ELSE IF t[k] \in S THEN Append(g[k - 1], t[k]) ELSE g[k - 1]
  BY <1>8 DEF FirstOnly
<1>11. \A k \in 0 .. n : g[k] \in Seq(T) /\ f[k + 1] = h \o g[k]
  <2> DEFINE Bad == {k \in 0 .. n : ~(g[k] \in Seq(T) /\ f[k + 1] = h \o g[k])}
  <2>1. SUFFICES ASSUME Bad # {} PROVE FALSE OBVIOUS
  <2>2. PICK k \in Bad : \A j \in Bad : k <= j
    <3>1. Bad \subseteq Nat OBVIOUS
    <3> HIDE DEF Bad
    <3> QED BY <2>1, <3>1, Lemmas!LeastNatural
  <2>3. k # 0
    <3>1. g[0] = <<>> /\ g[0] \in Seq(T)
      <4>1. 0 \in 0 .. n /\ <<>> \in Seq(T) BY <1>1
      <4> QED BY <1>10, <4>1
    <3>2. f[0] = <<>> BY <1>6, <1>9
    <3>3. f[1] = h
      <4>1. f[1] = IF s[1] \in S THEN Append(f[1 - 1], s[1]) ELSE f[1 - 1] BY <1>6, <1>9
      <4>2. Append(<<>>, e) = <<e>> OBVIOUS
      <4>3. 1 - 1 = 0 OBVIOUS
      <4> QED BY <1>1, <1>4, <1>5, <3>2, <4>1, <4>2, <4>3
    <3>4. 0 + 1 = 1 OBVIOUS
    <3> QED BY <1>3, <2>2, <3>1, <3>3, <3>4
  <2>4. /\ k - 1 \in 0 .. n /\ (k - 1) + 1 = k /\ k \in 1 .. n /\ ~(k <= k - 1)
        /\ k \in 0 .. n /\ k + 1 \in 0 .. (n + 1) /\ k + 1 # 0 /\ (k + 1) - 1 = k
    BY <1>1, <2>2, <2>3
  <2>5. g[k - 1] \in Seq(T) /\ f[k] = h \o g[k - 1] BY <2>2, <2>4
  <2>6. t[k] = s[k + 1] /\ t[k] \in T BY <1>1, <2>4
  <2>7. f[k + 1] = IF s[k + 1] \in S THEN Append(f[(k + 1) - 1], s[k + 1])
                   ELSE f[(k + 1) - 1]
    BY <1>9, <2>4
  <2>8. f[k + 1] = IF t[k] \in S THEN Append(h \o g[k - 1], t[k]) ELSE h \o g[k - 1]
    BY <2>4, <2>5, <2>6, <2>7
  <2>9. g[k] = IF t[k] \in S THEN Append(g[k - 1], t[k]) ELSE g[k - 1]
    BY <1>10, <2>3, <2>4
  <2>10. Append(h \o g[k - 1], t[k]) = h \o Append(g[k - 1], t[k])
    <3> DEFINE a == g[k - 1]
               x == t[k]
    <3>1. a \in Seq(T) /\ x \in T BY <2>5, <2>6
    <3> HIDE DEF a, x, Bad
    <3>3. Append(h \o a, x) = h \o Append(a, x) BY <1>2, <3>1, SMTT(30)
    <3> QED BY <3>3 DEF a, x
  <2>11. g[k] \in Seq(T) BY <2>5, <2>6, <2>9
  <2> QED BY <2>2, <2>8, <2>9, <2>10, <2>11
<1>12. n \in 0 .. n BY <1>1
<1>13. f[n + 1] = h \o g[n] /\ g[n] \in Seq(T) BY <1>11, <1>12
<1>14. Only(s, S) = f[n + 1] BY <1>1, <1>6, <1>7, OnlyIs
<1>15. Only(t, S) = g[n] BY <1>1, <1>8, OnlyIs
<1>16. <<>> \o g[n] = g[n] BY <1>13, ConcatEmptySeq
<1> QED BY <1>4, <1>5, <1>13, <1>14, <1>15, <1>16 DEF t, e

-----------------------------------------------------------------------------
(* The shape of the state.                                                 *)

\* What the parts of the state are made of.
LEMMA Shapes ==
  ASSUME WatchShaped
  PROVE  /\ stream.conn \in {"none", "open", "ended", "reset", "invalid"}
         /\ stream.sent \in Seq(Kinds) /\ stream.wire \in Seq(Kinds)
         /\ thread.event \in Kinds \cup {"none"} /\ thread.error \in Errors \cup {"none"}
         /\ thread.items \in Seq(Items) /\ thread.closed \in BOOLEAN
         /\ reader.got \in Seq(SessionKinds)
         /\ reader.pending \in Seq(SessionKinds \cap {"text"})
BY Zenon DEF WatchShaped, StreamShape, ThreadShape, ReaderShape

LEMMA KindsAre ==
  /\ SessionKinds \subseteq Kinds /\ Kinds \subseteq AllKinds /\ SessionKinds \subseteq Items
  /\ Errors \cap AllKinds = {} /\ "finished" \notin AllKinds /\ "none" \notin AllKinds
  /\ Items \cap Kinds = SessionKinds /\ "finished" \notin Errors
BY EventsAssumption DEF SessionKinds, IsOfSession, AllKinds, Errors, Items

LEMMA ThreadShaped ==
  ASSUME WatchShaped, ThreadStep
  PROVE  /\ stream' \in StreamShape /\ thread' \in ThreadShape /\ Holding'
         /\ reader' = reader
<1> USE Shapes DEF Thread, Put
<1>0. stream \in StreamShape /\ thread \in ThreadShape /\ Holding BY DEF WatchShaped
<1>1. CASE ThreadOpens
  BY <1>0, <1>1, ZenonT(30) DEF ThreadOpens, StreamShape, ThreadShape, Holding
<1>2. CASE ThreadReads
  <2>1. stream.wire # <<>> BY <1>2 DEF ThreadReads, Silent
  <2>2. Head(stream.wire) \in Kinds /\ Tail(stream.wire) \in Seq(Kinds) BY <2>1
  <2>3. stream' \in StreamShape /\ reader' = reader
    BY <1>0, <1>2, <2>2 DEF ThreadReads, StreamShape
  <2>4. thread' = [thread EXCEPT !.pc = "holding", !.event = Head(stream.wire)]
    BY <1>2 DEF ThreadReads
  <2> DEFINE e == Head(stream.wire)
  <2>5. thread' = [thread EXCEPT !.pc = "holding", !.event = e] /\ e \in Kinds
    BY <2>2, <2>4
  <2> HIDE DEF e
  <2>6. thread' \in ThreadShape /\ thread'.pc = "holding" /\ thread'.event = e
    BY <1>0, <2>5 DEF ThreadShape
  <2> QED BY <2>3, <2>5, <2>6, KindsAre DEF Holding
<1>3. CASE ThreadStops
  BY <1>0, <1>3 DEF ThreadStops, StreamShape, ThreadShape, Holding
<1>4. CASE ThreadBreaks
  BY <1>0, <1>4 DEF ThreadBreaks, StreamShape, ThreadShape, Holding, Error, Errors
<1>5. CASE ThreadPuts
  <2> DEFINE idle == [thread EXCEPT !.event = "none"]
             c1 == [idle EXCEPT !.pc = "finishing"]
             c2 == [idle EXCEPT !.pc = "reading"]
             c3 == [idle EXCEPT !.pc = "reading", !.items = Append(thread.items, thread.event)]
  <2>1. thread' = IF thread.closed THEN c1 ELSE IF ~IsOfSession(thread.event) THEN c2 ELSE c3
    BY <1>5 DEF ThreadPuts
  <2>2. idle \in ThreadShape BY <1>0 DEF ThreadShape
  <2>3. c1 \in ThreadShape /\ c2 \in ThreadShape BY <2>2 DEF ThreadShape
  <2>4. thread.event \in SessionKinds => Append(thread.items, thread.event) \in Seq(Items)
    BY KindsAre
  <2>5. thread.event \in SessionKinds => c3 \in ThreadShape
    BY <2>2, <2>4 DEF ThreadShape
  <2>6. stream' \in StreamShape /\ reader' = reader
    BY <1>0, <1>5 DEF ThreadPuts, StreamShape
  <2> HIDE DEF idle, c1, c2, c3
  <2>7. thread.event \in Kinds BY <1>0, <1>5 DEF ThreadPuts, Holding
  <2>8. IsOfSession(thread.event) => thread.event \in SessionKinds
    BY <2>7 DEF SessionKinds
  <2>9. thread' \in ThreadShape BY <2>1, <2>3, <2>5, <2>8
  <2>10. thread'.event = "none" /\ thread'.pc \in {"finishing", "reading"}
    BY <1>0, <2>1 DEF idle, c1, c2, c3, ThreadShape
  <2> QED BY <2>6, <2>9, <2>10 DEF Holding
<1>6. CASE ThreadFails
  <2>1. thread.error \in Items BY <1>0, <1>6 DEF ThreadFails, Items, Holding
  <2> DEFINE items == IF thread.closed THEN thread.items ELSE Append(thread.items, thread.error)
  <2>2. items \in Seq(Items) BY <2>1
  <2>3. thread' = [thread EXCEPT !.pc = "finishing", !.error = "none", !.items = items]
        /\ stream' = stream /\ reader' = reader
    BY <1>6 DEF ThreadFails
  <2> HIDE DEF items
  <2>4. thread' \in ThreadShape /\ thread'.pc = "finishing" /\ thread'.event = thread.event
    BY <1>0, <2>2, <2>3 DEF ThreadShape
  <2> QED BY <1>0, <1>6, <2>3, <2>4 DEF ThreadFails, Holding
<1>7. CASE ThreadFinishes
  <2>1. "finished" \in Items BY DEF Items
  <2> DEFINE items == Append(thread.items, "finished")
  <2>2. items \in Seq(Items) BY <2>1
  <2>3. thread' = [thread EXCEPT !.pc = "exiting", !.items = items]
        /\ stream' = stream /\ reader' = reader
    BY <1>7 DEF ThreadFinishes
  <2> HIDE DEF items
  <2>4. thread' \in ThreadShape /\ thread'.pc = "exiting" /\ thread'.event = thread.event
    BY <1>0, <2>2, <2>3 DEF ThreadShape
  <2> QED BY <1>0, <1>7, <2>3, <2>4 DEF ThreadFinishes, Holding
<1>8. CASE ThreadEnds
  BY <1>0, <1>8 DEF ThreadEnds, StreamShape, ThreadShape, Holding
<1> QED BY <1>1, <1>2, <1>3, <1>4, <1>5, <1>6, <1>7, <1>8 DEF ThreadStep

-----------------------------------------------------------------------------
(* The prompts.                                                            *)

Turns == [TurnIds -> [session : SessionIds, state : TurnStates]]

\* What a step may make of the turns: a steer that has run has run, and one
\* that was taken is not forgotten.
SteerStays ==
  /\ HasRun("steer") => HasRun("steer")'
  /\ turns["steer"].state # "none" => turns'["steer"].state # "none"

TurnsGoOn ==
  turns' \in Turns /\ SteerStays /\ turns'["prompt"].session = turns["prompt"].session

\* A prompt that is admitted has been taken.
LEMMA Admission ==
  ASSUME PromptShaped, NEW mapped \in BOOLEAN, AdmitPrompt("first", mapped)
  PROVE  /\ sessions' = sessions /\ TurnsGoOn
         /\ call' \in CallShape /\ call'.pc = "over"
         /\ call'.outcome \in {"admitted", "raised", "unsupported", "api"}
         /\ call'.outcome = "admitted" => turns'["steer"].state # "none"
<1> DEFINE before == turns["steer"].state # "none"
<1>1. PICK taken \in {before} \cup (IF Live("first") THEN {TRUE} ELSE {}) :
        \E answer \in AdmissionAnswers("first", taken) :
          /\ turns' = IF taken /\ ~before
                        THEN [turns EXCEPT !["steer"] = [session |-> "first", state |-> "queued"]]
                        ELSE turns
          /\ call' = [Over(AdmissionOutcome(answer, mapped)) EXCEPT !.session = "first"]
  BY DEF AdmitPrompt
<1>2. PICK answer \in AdmissionAnswers("first", taken) :
        /\ turns' = IF taken /\ ~before
                      THEN [turns EXCEPT !["steer"] = [session |-> "first", state |-> "queued"]]
                      ELSE turns
        /\ call' = [Over(AdmissionOutcome(answer, mapped)) EXCEPT !.session = "first"]
  BY <1>1
<1>3. turns \in Turns /\ call \in CallShape BY DEF PromptShaped, Turns
<1>4. TurnsGoOn /\ (taken => turns'["steer"].state # "none")
  <2>1. CASE taken /\ ~before
    BY <1>2, <1>3, <2>1 DEF TurnsGoOn, SteerStays, Turns, HasRun, TurnIds, SessionIds, TurnStates
  <2>2. CASE ~(taken /\ ~before)
    BY <1>2, <1>3, <2>2 DEF TurnsGoOn, SteerStays, Turns, HasRun
  <2> QED BY <2>1, <2>2
<1> DEFINE outcome == AdmissionOutcome(answer, mapped)
<1>5. outcome \in {"admitted", "raised", "unsupported", "api"}
  BY DEF AdmissionOutcome
<1>6. outcome = "admitted" => taken
  <2>1. outcome = "admitted" =>
          answer.kind = "ok" \/ (answer.kind = "conflict" /\ IsReplay(answer))
    BY DEF AdmissionOutcome
  <2>2. ASSUME ~taken
        PROVE  answer.kind # "ok" /\ ~(answer.kind = "conflict" /\ IsReplay(answer))
    <3>1. answer \in {Answer("unreachable"), Answer("lost"), Answer("dropped"),
                      Answer("unsupported"), Answer("error"),
                      Conflict("other", TRUE), Conflict("own", FALSE)}
      BY <2>2 DEF AdmissionAnswers
    <3> QED BY <3>1 DEF Answer, Conflict, IsReplay
  <2> QED BY <2>1, <2>2
<1>7. call' = [Over(outcome) EXCEPT !.session = "first"] BY <1>2
<1> HIDE DEF outcome
<1>8. call' = [call EXCEPT !.pc = "over", !.outcome = outcome, !.session = "first"]
  BY <1>3, <1>7 DEF Over, CallShape
<1>9. call' \in CallShape /\ call'.pc = "over" /\ call'.outcome = outcome
  BY <1>3, <1>5, <1>8 DEF CallShape, SessionIds
<1>10. sessions' = sessions BY DEF AdmitPrompt
<1> QED BY <1>4, <1>5, <1>6, <1>9, <1>10

LEMMA TurnsMove ==
  ASSUME turns \in Turns, NEW t \in TurnIds, NEW state \in TurnStates,
         turns' = Moved(t, state),
         t = "steer" => state # "none" /\ (HasRun(t) => state \in {"done", "failed", "stopped"})
  PROVE  TurnsGoOn
<1>1. turns' \in Turns /\ turns'["prompt"].session = turns["prompt"].session
  BY DEF Moved, Turns, TurnIds
<1>2. CASE t = "steer"
  <2>1. turns'["steer"].state = state BY <1>2 DEF Moved, Turns, TurnIds
  <2> QED BY <1>1, <1>2, <2>1 DEF TurnsGoOn, SteerStays, HasRun
<1>3. CASE t # "steer"
  <2>1. turns'["steer"] = turns["steer"] BY <1>3 DEF Moved, Turns, TurnIds
  <2> QED BY <1>1, <2>1 DEF TurnsGoOn, SteerStays, HasRun
<1> QED BY <1>2, <1>3

\* A session that ends takes its turns with it.
LEMMA TurnsEnd ==
  ASSUME turns \in Turns, NEW s, turns' = TurnsWithout(s)
  PROVE  /\ TurnsGoOn
         /\ turns["prompt"].session = s => turns'["prompt"].state # "running"
<1>1. ASSUME NEW t \in TurnIds
      PROVE  /\ turns'[t].session = turns[t].session
             /\ turns'[t] \in [session : SessionIds, state : TurnStates]
             /\ \/ turns'[t].state = turns[t].state
                \/ turns[t].state = "running" /\ turns'[t].state = "stopped"
                \/ turns[t].state = "queued" /\ turns'[t].state = "refused"
             /\ turns[t].session = s => turns'[t].state # "running"
  <2>1. turns[t] \in [session : SessionIds, state : TurnStates] BY DEF Turns
  <2>2. turns'[t] = IF turns[t].session # s THEN turns[t]
                    ELSE [turns[t] EXCEPT !.state =
                            IF turns[t].state = "running" THEN "stopped"
                            ELSE IF turns[t].state = "queued" THEN "refused"
                            ELSE turns[t].state]
    BY DEF TurnsWithout
  <2> DEFINE r == turns[t]
  <2>3. /\ r \in [session : SessionIds, state : TurnStates]
        /\ turns'[t] = IF r.session # s THEN r
                       ELSE [r EXCEPT !.state = IF r.state = "running" THEN "stopped"
                                                ELSE IF r.state = "queued" THEN "refused"
                                                ELSE r.state]
    BY <2>1, <2>2
  <2> HIDE DEF r
  <2>4. /\ turns'[t].session = r.session
        /\ turns'[t] \in [session : SessionIds, state : TurnStates]
        /\ \/ turns'[t].state = r.state
           \/ r.state = "running" /\ turns'[t].state = "stopped"
           \/ r.state = "queued" /\ turns'[t].state = "refused"
        /\ r.session = s => turns'[t].state # "running"
    BY <2>3 DEF TurnStates
  <2> QED BY <2>4 DEF r
<1>2. DOMAIN turns' = TurnIds /\ turns' = [t \in TurnIds |-> turns'[t]] BY DEF TurnsWithout
<1>3. turns' \in Turns BY <1>1, <1>2 DEF Turns
<1>4. "steer" \in TurnIds /\ "prompt" \in TurnIds BY DEF TurnIds
<1>5. SteerStays BY <1>1, <1>4 DEF SteerStays, HasRun
<1> QED BY <1>1, <1>3, <1>4, <1>5 DEF TurnsGoOn

LEMMA ServerSteps ==
  ASSUME PromptShaped, ServerStep
  PROVE  sessions' = sessions /\ call' = call /\ TurnsGoOn
<1>1. turns \in Turns BY DEF PromptShaped, Turns
<1> USE DEF TurnIds, TurnStates
<1>2. CASE PromptArrives
  <2>1. PICK state \in {"running", "refused"} : turns' = Moved("prompt", state)
    BY <1>2 DEF PromptArrives
  <2>2. TurnsGoOn BY <1>1, <2>1, TurnsMove
  <2> QED BY <1>2, <2>2 DEF PromptArrives
<1>3. CASE SteerRuns
  <2>1. ~HasRun("steer") BY <1>3 DEF SteerRuns, HasRun
  <2>2. turns' = Moved("steer", "running") BY <1>3 DEF SteerRuns
  <2>3. TurnsGoOn BY <1>1, <2>1, <2>2, TurnsMove
  <2> QED BY <1>3, <2>3 DEF SteerRuns
<1>4. CASE TurnEnds
  <2>1. PICK t \in TurnIds, how \in {"done", "failed"} : turns' = Moved(t, how)
    BY <1>4 DEF TurnEnds
  <2>2. TurnsGoOn BY <1>1, <2>1, TurnsMove
  <2> QED BY <1>4, <2>2 DEF TurnEnds
<1> QED BY <1>2, <1>3, <1>4 DEF ServerStep

\* An abort that is confirmed has stopped the turn.
ToldTruth ==
  call.outcome = "none" /\ call'.outcome = "timeout" /\ ~call'.abort_error
    => turns'["prompt"].state # "running"

LEMMA CallSteps ==
  ASSUME PromptShaped, Linked, CallStep
  PROVE  /\ sessions' = sessions /\ TurnsGoOn /\ call' \in CallShape /\ Linked' /\ ToldTruth
         /\ call'.outcome = "admitted" => call.outcome = "admitted"
<1>1. turns \in Turns /\ call \in CallShape BY DEF PromptShaped, Turns
<1>2. turns' = turns => TurnsGoOn BY <1>1 DEF TurnsGoOn, SteerStays, HasRun
<1>3. ASSUME NEW outcome \in {"provider", "api", "done", "raised"}, call' = Over(outcome),
             TurnsGoOn
      PROVE  /\ call' \in CallShape /\ Linked' /\ ToldTruth /\ call'.outcome # "admitted"
  BY <1>1, <1>3 DEF Over, CallShape, Linked, ToldTruth
<1>4. sessions' = sessions
  BY DEF CallStep, RunAnswered, ReplyAnswered, CallFails, CallTimesOut, CallDropped, AbortSession
<1>5. ASSUME NEW pc \in {"waiting", "aborting"}, InCall, call' = [call EXCEPT !.pc = pc],
             turns' = turns
      PROVE  /\ call' \in CallShape /\ Linked' /\ ToldTruth /\ call'.outcome = call.outcome
  BY <1>1, <1>5 DEF InCall, CallShape, Linked, ToldTruth
<1>6. CASE RunAnswered
  <2>1. turns' = turns /\ InCall BY <1>6 DEF RunAnswered, InCall
  <2> QED BY <1>2, <1>3, <1>4, <1>5, <1>6, <2>1 DEF RunAnswered
<1>7. CASE ReplyAnswered
  <2>1. PICK outcome \in ReplyOutcomes : call' = Over(outcome) BY <1>7 DEF ReplyAnswered
  <2>2. outcome \in {"provider", "api", "done", "raised"}
    <3>1. turns["prompt"].state = "done" => ReplyOutcomes = {"done", "provider"}
      BY DEF ReplyOutcomes
    <3>2. turns["prompt"].state \in {"failed", "stopped"} => ReplyOutcomes = {"provider", "api"}
      BY DEF ReplyOutcomes
    <3>3. turns["prompt"].state = "refused" => ReplyOutcomes = {"api"} BY DEF ReplyOutcomes
    <3>4. turns["prompt"].state \notin {"done", "failed", "stopped", "refused"} => ReplyOutcomes = {}
      BY DEF ReplyOutcomes
    <3> QED BY <3>1, <3>2, <3>3, <3>4
  <2>3. turns' = turns BY <1>7 DEF ReplyAnswered
  <2> QED BY <1>2, <1>3, <1>4, <2>1, <2>2, <2>3
<1>8. CASE CallFails
  <2>1. turns' = turns \/ turns' = Moved("prompt", "none") BY <1>8 DEF CallFails
  <2>2. TurnsGoOn BY <1>1, <1>2, <2>1, TurnsMove DEF TurnIds, TurnStates
  <2> QED BY <1>3, <1>4, <1>8, <2>2 DEF CallFails
<1>9. CASE CallTimesOut BY <1>2, <1>4, <1>5, <1>9 DEF CallTimesOut
<1>10. CASE CallDropped BY <1>2, <1>3, <1>4, <1>10 DEF CallDropped
<1>11. CASE AbortSession
  <2>1. PICK answer \in {"accepted", "denied", "unclear", "lost"}, stops \in BOOLEAN :
          /\ answer = "accepted" => stops
          /\ turns' = IF stops THEN TurnsWithout(call.session) ELSE turns
          /\ call' = [Over("timeout") EXCEPT !.abort_error = ~AbortConfirmed(answer)]
    BY <1>11 DEF AbortSession
  <2>2. turns["prompt"].session = call.session BY <1>11 DEF AbortSession, Linked
  <2>3. stops => TurnsGoOn /\ turns'["prompt"].state # "running"
    BY <1>1, <2>1, <2>2, TurnsEnd
  <2>4. AbortConfirmed(answer) => stops \/ answer = "denied"
    BY <2>1 DEF AbortConfirmed, AcceptanceIsExplicit
  <2>5. answer = "denied" => ~AbortConfirmed(answer) BY DEF AbortConfirmed, Accepted
  <2> DEFINE error == ~AbortConfirmed(answer)
  <2>6. error \in BOOLEAN /\ (~error => stops) BY <2>4, <2>5
  <2>7. call' = [Over("timeout") EXCEPT !.abort_error = error] BY <2>1
  <2> HIDE DEF error
  <2>8. /\ call' \in CallShape /\ call'.outcome = "timeout" /\ call'.pc = "over"
        /\ call'.abort_error = error
    BY <1>1, <2>6, <2>7 DEF Over, CallShape
  <2>9. TurnsGoOn BY <1>2, <2>1, <2>3
  <2>10. ToldTruth BY <2>3, <2>6, <2>8 DEF ToldTruth
  <2>11. Linked' BY <2>8 DEF Linked
  <2> QED BY <1>4, <2>8, <2>9, <2>10, <2>11
<1> QED BY <1>6, <1>7, <1>8, <1>9, <1>10, <1>11 DEF CallStep

-----------------------------------------------------------------------------
(* The deletion of sessions.                                               *)

LEMMA AmongTail ==
  ASSUME NEW T, NEW q \in Seq(T), q # <<>>
  PROVE  /\ Head(q) \in T /\ Head(q) \in Among(q) /\ Tail(q) \in Seq(T)
         /\ Among(Tail(q)) \subseteq Among(q) /\ Among(q) \subseteq Among(Tail(q)) \cup {Head(q)}
<1>1. Head(q) \in T /\ Tail(q) \in Seq(T) /\ 1 \in DOMAIN q /\ Head(q) = q[1] OBVIOUS
<1>2. \A i \in DOMAIN Tail(q) : i + 1 \in DOMAIN q /\ Tail(q)[i] = q[i + 1] OBVIOUS
<1>3. \A i \in DOMAIN q : i = 1 \/ (i - 1 \in DOMAIN Tail(q) /\ Tail(q)[i - 1] = q[i]) OBVIOUS
<1> DEFINE t == Tail(q)
           h == Head(q)
<1>4. /\ 1 \in DOMAIN q /\ h = q[1]
      /\ \A i \in DOMAIN t : i + 1 \in DOMAIN q /\ t[i] = q[i + 1]
      /\ \A i \in DOMAIN q : i = 1 \/ (i - 1 \in DOMAIN t /\ t[i - 1] = q[i])
  BY <1>1, <1>2, <1>3
<1> HIDE DEF t, h
<1>5. h \in Among(q) /\ Among(t) \subseteq Among(q) BY <1>4 DEF Among
<1>6. Among(q) \subseteq Among(t) \cup {h} BY <1>4 DEF Among
<1> QED BY <1>1, <1>5, <1>6 DEF t, h

LEMMA AmongAppend ==
  ASSUME NEW T, NEW q \in Seq(T), NEW s \in T
  PROVE  Among(Append(q, s)) = Among(q) \cup {s} /\ Append(q, s) # <<>>
<1> DEFINE t == Append(q, s)
<1>1. /\ Len(q) \in Nat /\ DOMAIN q = 1 .. Len(q) /\ DOMAIN t = 1 .. (Len(q) + 1)
      /\ \A i \in 1 .. Len(q) : t[i] = q[i]
      /\ t[Len(q) + 1] = s /\ t # <<>>
  OBVIOUS
<1> HIDE DEF t
<1>2. \A i \in DOMAIN t : i \in DOMAIN q \/ i = Len(q) + 1 BY <1>1
<1>3. DOMAIN q \subseteq DOMAIN t /\ Len(q) + 1 \in DOMAIN t BY <1>1
<1>4. Among(t) = Among(q) \cup {s} BY <1>1, <1>2, <1>3 DEF Among
<1> QED BY <1>1, <1>4 DEF t

\* What may become of a cleaner p in a step.
Follows(p, c) ==
  /\ c \in CleanerShape /\ c.plan = p.plan /\ c.pc # "idle"
  /\ Among(c.todo) \subseteq Among(p.todo) /\ (c.todo # <<>> => p.todo # <<>>)
  /\ ~c.failed => ~p.failed /\ Among(p.todo) \cup p.deleted \subseteq Among(c.todo) \cup c.deleted
  /\ c.pc = "verifying" => c.todo # <<>>
  /\ c.pc = "over" => c.todo = <<>>

LEMMA CleanerMoves ==
  ASSUME CleanShaped, NEW w \in Cleaners
  PROVE  /\ cleaners[w] \in CleanerShape
         /\ cleaners[w].todo # <<>> =>
              /\ Head(cleaners[w].todo) \in SessionIds
              /\ Head(cleaners[w].todo) \in Left(w)
              /\ Follows(cleaners[w], [cleaners[w] EXCEPT !.pc = "verifying"])
              /\ Follows(cleaners[w], Failed(w)) /\ Failed(w).deleted = cleaners[w].deleted
              /\ Follows(cleaners[w], [Next1(w) EXCEPT !.deleted = @ \cup {Head(cleaners[w].todo)}])
         /\ Follows(cleaners[w], Raised(w)) /\ Raised(w).deleted = cleaners[w].deleted
         /\ cleaners[w].todo = <<>> => Follows(cleaners[w], [cleaners[w] EXCEPT !.pc = "over"])
<1>1. PICK p \in CleanerShape : p = cleaners[w] BY DEF CleanShaped
<1> DEFINE todo == p.todo
           rest == Tail(todo)
           first == Head(todo)
<1>2. p.todo = todo /\ todo \in Seq(SessionIds) /\ p.deleted \in SUBSET SessionIds
  BY <1>1 DEF CleanerShape
<1>3. ASSUME todo # <<>>
      PROVE  /\ rest \in Seq(SessionIds) /\ first \in SessionIds /\ first \in Among(todo)
             /\ Among(rest) \subseteq Among(todo) /\ Among(todo) \subseteq Among(rest) \cup {first}
  BY <1>2, <1>3, AmongTail
<1>4. Raised(w) = [p EXCEPT !.pc = "raised", !.todo = <<>>, !.failed = TRUE]
  BY <1>1 DEF Raised
<1>5. Next1(w) = [p EXCEPT !.pc = "deleting", !.todo = rest] BY <1>1 DEF Next1
<1>6. Failed(w) = [p EXCEPT !.pc = "deleting", !.todo = rest, !.failed = TRUE]
  BY <1>1, <1>5 DEF Failed, CleanerShape
<1>7. [Next1(w) EXCEPT !.deleted = @ \cup {Head(cleaners[w].todo)}]
        = [p EXCEPT !.pc = "deleting", !.todo = rest, !.deleted = p.deleted \cup {first}]
  BY <1>1, <1>5 DEF CleanerShape
<1> HIDE DEF todo, rest, first
<1>8. Among(<<>>) = {} /\ <<>> \in Seq(SessionIds) BY DEF Among
<1>9. Follows(p, Raised(w)) /\ Raised(w).deleted = p.deleted
  BY <1>1, <1>2, <1>4, <1>8 DEF Follows, CleanerShape
<1>10. todo = <<>> => Follows(p, [p EXCEPT !.pc = "over"])
  BY <1>1, <1>2, <1>8 DEF Follows, CleanerShape
<1>11. ASSUME todo # <<>>
       PROVE  /\ Follows(p, [p EXCEPT !.pc = "verifying"])
              /\ Follows(p, Failed(w)) /\ Failed(w).deleted = p.deleted
              /\ Follows(p, [Next1(w) EXCEPT !.deleted = @ \cup {Head(cleaners[w].todo)}])
  <2>1. Follows(p, [p EXCEPT !.pc = "verifying"])
    BY <1>1, <1>2, <1>11 DEF Follows, CleanerShape
  <2>2. Follows(p, Failed(w)) /\ Failed(w).deleted = p.deleted
    BY <1>1, <1>2, <1>3, <1>6, <1>11 DEF Follows, CleanerShape
  <2> DEFINE c == [p EXCEPT !.pc = "deleting", !.todo = rest, !.deleted = p.deleted \cup {first}]
  <2>3. /\ c \in CleanerShape /\ c.plan = p.plan /\ c.pc = "deleting" /\ c.todo = rest
        /\ c.deleted = p.deleted \cup {first} /\ c.failed = p.failed
    BY <1>1, <1>2, <1>3, <1>11 DEF CleanerShape
  <2> HIDE DEF c
  <2>4. Follows(p, c) BY <1>2, <1>3, <1>11, <2>3 DEF Follows
  <2> QED BY <1>7, <2>1, <2>2, <2>4 DEF c
<1> QED BY <1>1, <1>2, <1>3, <1>9, <1>10, <1>11 DEF Left, todo, first

\* What is deleted stays so, and no session is made.
SessionsStay ==
  /\ sessions' \in [SessionIds -> {"none", "live", "deleted"}]
  /\ \A s \in SessionIds : sessions'[s] = sessions[s] \/ sessions'[s] = "deleted"

LEMMA CleanSteps ==
  ASSUME PromptShaped, CleanShaped, CleanersKnow, NEW w \in Cleaners, CleanStep(w)
  PROVE  /\ SessionsStay /\ TurnsGoOn /\ call' = call /\ created' = created /\ doc' = doc
         /\ cleaners' \in [Cleaners -> CleanerShape] /\ CleanersKnow'
         /\ \A v \in Cleaners \ {w} : cleaners'[v] = cleaners[v]
         /\ Follows(cleaners[w], cleaners'[w]) /\ cleaners[w].pc # "idle"
<1>1. turns \in Turns /\ sessions \in [SessionIds -> {"none", "live", "deleted"}]
  BY DEF PromptShaped, Turns
<1>2. turns' = turns => TurnsGoOn BY <1>1 DEF TurnsGoOn, SteerStays, HasRun
<1>3. sessions' = sessions => SessionsStay BY <1>1 DEF SessionsStay
<1>4. call' = call /\ created' = created /\ doc' = doc
  BY Zenon DEF CleanStep, DeleteSession, VerifySession, AllDeleted
<1>5. cleaners \in [Cleaners -> CleanerShape] BY DEF CleanShaped
<1>6. ASSUME NEW c, cleaners' = [cleaners EXCEPT ![w] = c], Follows(cleaners[w], c),
             SessionsStay,
             \A s \in c.deleted : s \in cleaners[w].deleted
                                    \/ (s \in created /\ sessions'[s] = "deleted")
      PROVE  /\ cleaners' \in [Cleaners -> CleanerShape] /\ CleanersKnow'
             /\ \A v \in Cleaners \ {w} : cleaners'[v] = cleaners[v]
             /\ Follows(cleaners[w], cleaners'[w])
  <2>1. /\ cleaners' \in [Cleaners -> CleanerShape] /\ cleaners'[w] = c
        /\ \A v \in Cleaners \ {w} : cleaners'[v] = cleaners[v]
    BY <1>5, <1>6 DEF Follows
  <2>2. \A s \in created : s \in SessionIds /\ sessions[s] # "none" /\ sessions'[s] # "none"
                             /\ (sessions[s] = "deleted" => sessions'[s] = "deleted")
    BY <1>6 DEF CleanShaped, CleanersKnow, SessionsStay
  <2>3. ASSUME NEW v \in Cleaners PROVE CleansOwn(v)'
    <3>1. CleansOwn(v) BY DEF CleanersKnow
    <3>2. CASE v = w
      <4>1. c.plan = cleaners[w].plan /\ Among(c.todo) \subseteq Left(w)
            /\ (c.todo # <<>> => cleaners[w].todo # <<>>)
            /\ (c.pc = "verifying" => c.todo # <<>>) /\ (c.pc = "over" => c.todo = <<>>)
        BY <1>6 DEF Follows, Left
      <4>2. \A s \in c.deleted : s \in created /\ sessions'[s] = "deleted"
        BY <1>6, <2>2, <3>1, <3>2 DEF CleansOwn
      <4> QED BY <1>4, <2>1, <3>1, <3>2, <4>1, <4>2 DEF CleansOwn, Left, RouteExists
    <3>3. CASE v # w
      <4>1. cleaners'[v] = cleaners[v] BY <2>1, <3>3
      <4> QED BY <1>4, <2>2, <3>1, <4>1 DEF CleansOwn, Left, RouteExists
    <3> QED BY <3>2, <3>3
  <2>4. CleanersKnow' BY <1>4, <2>2, <2>3 DEF CleanersKnow
  <2> QED BY <1>6, <2>1, <2>4
<1> DEFINE verifying == [cleaners[w] EXCEPT !.pc = "verifying"]
           verified == [Next1(w) EXCEPT !.deleted = @ \cup {Head(cleaners[w].todo)}]
           over == [cleaners[w] EXCEPT !.pc = "over"]
<1>7. /\ verifying.deleted = cleaners[w].deleted /\ over.deleted = cleaners[w].deleted
      /\ verified.deleted = cleaners[w].deleted \cup {Head(cleaners[w].todo)}
  BY <1>5 DEF CleanerShape, Next1
<1>8. /\ cleaners[w].todo # <<>> =>
           /\ Follows(cleaners[w], verifying) /\ Follows(cleaners[w], verified)
           /\ Follows(cleaners[w], Failed(w)) /\ Failed(w).deleted = cleaners[w].deleted
           /\ Head(cleaners[w].todo) \in SessionIds /\ Head(cleaners[w].todo) \in Left(w)
      /\ Follows(cleaners[w], Raised(w)) /\ Raised(w).deleted = cleaners[w].deleted
      /\ cleaners[w].todo = <<>> => Follows(cleaners[w], over)
  BY CleanerMoves
<1>9. CASE DeleteSession(w)
  <2> DEFINE s == Head(cleaners[w].todo)
  <2>1. cleaners[w].pc = "deleting" /\ cleaners[w].todo # <<>> BY <1>9 DEF DeleteSession
  <2>2. \/ turns' = turns /\ sessions' = sessions
        \/ turns' = TurnsWithout(s) /\ sessions' = [sessions EXCEPT ![s] = "deleted"]
    BY <1>9 DEF DeleteSession
  <2>3. PICK c \in {verifying, Failed(w), Raised(w)} : cleaners' = [cleaners EXCEPT ![w] = c]
    BY <1>9 DEF DeleteSession, Cleaner
  <2> HIDE DEF verifying, s
  <2>4. SessionsStay BY <1>1, <1>3, <2>2 DEF SessionsStay
  <2>5. TurnsGoOn BY <1>1, <1>2, <2>2, TurnsEnd
  <2>6. Follows(cleaners[w], c) /\ c.deleted = cleaners[w].deleted BY <1>7, <1>8, <2>1, <2>3
  <2> QED BY <1>4, <1>6, <2>1, <2>3, <2>4, <2>5, <2>6
<1>10. CASE VerifySession(w)
  <2>1. cleaners[w].pc = "verifying" /\ turns' = turns /\ sessions' = sessions
    BY <1>10, Zenon DEF VerifySession
  <2>2. CleansOwn(w) BY DEF CleanersKnow
  <2>3. cleaners[w].todo # <<>> BY <2>1, <2>2 DEF CleansOwn
  <2>4. SessionsStay BY <1>3, <2>1
  <2>5. PICK c \in {verified, Failed(w), Raised(w)} :
          cleaners' = [cleaners EXCEPT ![w] = c] /\ (c \notin {Failed(w), Raised(w)} => NotFound(w))
    <3>1. CASE Cleaner(w, Raised(w)) BY <3>1 DEF Cleaner
    <3>2. ASSUME NEW answer \in {IF NotFound(w) THEN "not found" ELSE "found", "error"},
                 Cleaner(w, IF Verified(answer) THEN verified ELSE Failed(w))
          PROVE  \E c \in {verified, Failed(w), Raised(w)} :
                   cleaners' = [cleaners EXCEPT ![w] = c]
                   /\ (c \notin {Failed(w), Raised(w)} => NotFound(w))
      <4>1. Verified(answer) => NotFound(w) BY Zenon DEF Verified
      <4> HIDE DEF verified
      <4> QED BY <3>2, <4>1, Zenon DEF Cleaner
    <3> QED BY <1>10, <3>1, <3>2, Zenon DEF VerifySession
  <2> HIDE DEF verified
  <2>6. NotFound(w) => sessions[Head(cleaners[w].todo)] = "deleted"
                         /\ Head(cleaners[w].todo) \in created
    <3> DEFINE h == Head(cleaners[w].todo)
    <3>1. h \in SessionIds /\ h \in created /\ RouteExists(cleaners[w].plan)
      BY <1>8, <2>2, <2>3 DEF CleansOwn
    <3>2. sessions[h] \in {"none", "live", "deleted"} /\ sessions[h] # "none"
      BY <1>1, <3>1 DEF CleanersKnow
    <3>3. NotFound(w) => sessions[h] # "live" BY <3>1 DEF NotFound, Live
    <3> QED BY <3>1, <3>2, <3>3
  <2>7. Follows(cleaners[w], c) BY <1>8, <2>3, <2>5
  <2>8. \A s \in c.deleted : s \in cleaners[w].deleted
                               \/ (s \in created /\ sessions'[s] = "deleted")
    BY <1>7, <1>8, <2>1, <2>3, <2>5, <2>6
  <2> QED BY <1>2, <1>4, <1>6, <2>1, <2>4, <2>5, <2>7, <2>8
<1>11. CASE AllDeleted(w)
  <2>1. /\ cleaners[w].pc = "deleting" /\ cleaners[w].todo = <<>>
        /\ cleaners' = [cleaners EXCEPT ![w] = over] /\ turns' = turns /\ sessions' = sessions
    BY <1>11 DEF AllDeleted, Cleaner
  <2> HIDE DEF over
  <2> QED BY <1>2, <1>3, <1>4, <1>6, <1>7, <1>8, <2>1
<1> QED BY <1>9, <1>10, <1>11 DEF CleanStep

-----------------------------------------------------------------------------
(* The command.                                                            *)

\* The same command, somewhere else.
Onward == {c \in CommandShape : c.mode = command.mode}

LEMMA CommandMoves ==
  ASSUME command \in CommandShape
  PROVE  /\ command \in Onward
         /\ \A pc \in Places : GoTo(pc) \in Onward
         /\ \A pc \in Places, seen \in SUBSET Paths : [GoTo(pc) EXCEPT !.seen = seen] \in Onward
         /\ \A pc \in Places, how \in Results : [GoTo(pc) EXCEPT !.result = how] \in Onward
         /\ [GoTo("detecting") EXCEPT !.retried = TRUE] \in Onward
         /\ \A how \in Exits : Exit(how) \in Onward
         /\ \A how \in Results : Fail(how) \in Onward /\ Leaves(how) \in Onward
         /\ \A e \in {"unknown", "yes", "no"} : Executed(e) \in Onward
<1>1. \A pc \in Places : GoTo(pc) \in CommandShape /\ GoTo(pc).mode = command.mode
  BY DEF GoTo, CommandShape
<1>2. \A pc \in Places, seen \in SUBSET Paths : [GoTo(pc) EXCEPT !.seen = seen] \in Onward
  BY <1>1 DEF CommandShape, Onward
<1>3. \A pc \in Places, how \in Results : [GoTo(pc) EXCEPT !.result = how] \in Onward
  BY <1>1 DEF CommandShape, Onward
<1>4. "detecting" \in Places BY DEF Places
<1>5. [GoTo("detecting") EXCEPT !.retried = TRUE] \in Onward
  BY <1>1, <1>4 DEF CommandShape, Onward
<1>6. \A how \in Exits : Exit(how) \in Onward BY DEF Exit, CommandShape, Places, Onward
<1>7. \A how \in Results : Fail(how) \in Onward BY DEF Fail, CommandShape, Places, Onward
<1>8. \A how \in Results : Leaves(how) \in Onward BY <1>6, <1>7 DEF Leaves, Exits
<1>9. \A e \in {"unknown", "yes", "no"} : Executed(e) \in Onward
  BY DEF Executed, CommandShape, Places, Onward
<1> QED BY <1>1, <1>2, <1>3, <1>5, <1>6, <1>7, <1>8, <1>9 DEF Onward

\* What each of the steps makes of the command.
LEMMA CommandSteps ==
  ASSUME Shaped, Next
  PROVE  command' \in Onward
<1>1. command \in CommandShape BY DEF Shaped
<1>2. doc \subseteq Paths BY ValidationAssumption DEF Shaped, CleanShaped
<1> USE <1>1, CommandMoves DEF Places, Results, Exits
<1>3. CASE DetectCapabilities
  <2>1. AfterDetection \in Places BY DEF AfterDetection
  <2>2. CASE command' \in {Leaves("failed"), Leaves("raised")} BY <2>2
  <2>3. CASE command' = Exit("timeout") BY <2>3
  <2>4. CASE \E seen \in {doc} \cup (IF command.mode \in {"run_blocking", "run_in_session"} THEN {} ELSE {{}}) :
               command' = IF Requirement(seen) THEN [GoTo(AfterDetection) EXCEPT !.seen = seen]
                          ELSE Leaves("unsupported")
    <3>1. PICK seen \in SUBSET Paths :
                 command' = IF Requirement(seen) THEN [GoTo(AfterDetection) EXCEPT !.seen = seen]
                          ELSE Leaves("unsupported")
      BY <1>2, <2>4
    <3> QED BY <2>1, <3>1
  <2> QED BY <1>3, <2>2, <2>3, <2>4 DEF DetectCapabilities
<1>4. CASE Create
  <2>1. PICK outcome \in CreateOutcomes : TrackSession(outcome) BY <1>4 DEF Create
  <2>2. AfterCreation \in Places BY DEF AfterCreation
  <2> QED BY <2>1, <2>2 DEF TrackSession
<1>5. CASE Steer
  <2>1. AfterSteering \in Onward BY DEF AfterSteering
  <2>2. AdmitPrompt("first", command.mode = "steer") BY <1>5 DEF Steer
  <2>3. call'.outcome \in {"admitted", "raised", "unsupported", "api"}
    <3> DEFINE mapped == command.mode = "steer"
    <3>1. mapped \in BOOLEAN /\ AdmitPrompt("first", mapped) BY <2>2
    <3> HIDE DEF mapped
    <3> QED BY <3>1, Admission DEF Shaped
  <2>4. \/ call'.outcome = "admitted" /\ command' = AfterSteering
        \/ command' \in {[GoTo("detecting") EXCEPT !.retried = TRUE], Leaves("failed")}
        \/ call'.outcome \notin {"api", "admitted"} /\ command' = Leaves(call'.outcome)
    BY ONLY <1>5 DEF Steer
  <2>6. \A r \in {"raised", "unsupported", "api"} : r # "api" => Leaves(r) \in Onward
    OBVIOUS
  <2>7. Leaves("failed") \in Onward OBVIOUS
  <2> QED BY <2>1, <2>3, <2>4, <2>6, <2>7
<1>6. CASE OpenWatcher BY <1>6 DEF OpenWatcher
<1>7. CASE BeginCollect BY <1>7 DEF BeginCollect
<1>8. CASE CollectEvents BY <1>8 DEF CollectEvents
<1>9. CASE CloseWatcher BY <1>9 DEF CloseWatcher
<1>10. CASE Collected BY <1>10 DEF Collected
<1>11. CASE ReadBlockers BY <1>11 DEF ReadBlockers
<1>12. CASE WaitForSteer BY <1>12 DEF WaitForSteer
<1>13. CASE ReadMessages BY <1>13 DEF ReadMessages
<1>14. CASE ObserveEvents BY <1>14 DEF ObserveEvents
<1>15. CASE Observed BY <1>15 DEF Observed
<1>16. CASE WatchEvents BY <1>16 DEF WatchEvents
<1>17. CASE WatchExits BY <1>17 DEF WatchExits
<1>18. CASE BeginPrompt BY <1>18 DEF BeginPrompt
<1>19. CASE Execute BY <1>19 DEF Execute
<1>20. CASE PromptOver BY <1>20 DEF PromptOver
<1>21. CASE CloseResources BY <1>21 DEF CloseResources
<1>22. CASE StartCleanup BY <1>22 DEF StartCleanup
<1>23. CASE Cleanup BY <1>23 DEF Cleanup
<1>24. CASE CleanedUp
  <2>1. PICK how \in Results : command' = Exit(how)
    BY <1>24 DEF CleanedUp, CommandShape
  <2> QED BY <2>1
<1>25. CASE Sweep BY <1>25 DEF Sweep
<1>26. CASE Watcher BY <1>26 DEF Watcher
<1>27. CASE Server BY <1>27 DEF Server
<1> QED
  BY <1>3, <1>4, <1>5, <1>6, <1>7, <1>8, <1>9, <1>10, <1>11, <1>12, <1>13, <1>14, <1>15, <1>16,
     <1>17, <1>18, <1>19, <1>20, <1>21, <1>22, <1>23, <1>24, <1>25, <1>26, <1>27
  DEF Next, CommandStep

-----------------------------------------------------------------------------
(* Where a command goes from where it is.                                  *)

\* Of a step that makes no session.
Goes ==
  /\ command' \in Onward
  /\ command'.exit # "none" => command'.pc = "exited"
  /\ command'.result # "none" => command'.pc \in {"closing", "cleaning", "exited"}
  /\ command'.exit = "ok" => Given \/ \A s \in created : sessions[s] = "deleted"
  /\ command'.pc = "creating" => ~Given
  /\ command'.pc = "steering" => command.mode \in {"smoke", "live_validate", "steer"}
  /\ ~Given /\ command'.pc = "detecting" => command.pc = "detecting"
  /\ ~Given /\ command'.pc = "creating" =>
       \/ command.pc \in {"detecting", "creating"}
       \/ command.mode = "live_validate" /\ command.pc \in Early
  /\ ~Given /\ command'.pc \in Early => command.pc \in Early
  /\ command'.result \in {"none", "ok"} /\ command'.exit \in {"none", "ok"}
       => command.result \in {"none", "ok"} /\ command.exit \in {"none", "ok"}
  /\ command.pc \in {"cleaning", "exited"} => command'.pc \in {"cleaning", "exited"}

LEMMA QuietGoes ==
  ASSUME Shaped, Tracked, Next, ~Create
  PROVE  Goes
<1>1. command \in CommandShape /\ command' \in Onward BY CommandSteps DEF Shaped
<1>2. command.mode \in AllModes /\ command'.mode = command.mode BY <1>1 DEF CommandShape, Onward
<1>3. ASSUME command' = command PROVE Goes
  BY <1>1, <1>3 DEF Goes, Tracked, CommandShape, Fresh, Early
<1>4. command.pc # "exited" => command.exit = "none" BY DEF Tracked
<1>5. command.pc \notin {"closing", "cleaning", "exited"} => command.result = "none"
  BY DEF Tracked
<1> USE DEF Goes, GoTo, Exit, Fail, Leaves, Executed, CommandShape, Given, AllModes, Early
<1>6. CASE DetectCapabilities
  <2>1. AfterDetection = IF command.mode \in {"smoke", "live_validate", "run_blocking"} THEN "creating"
                         ELSE IF command.mode = "run_in_session" THEN "prompting"
                         ELSE IF command.mode = "steer" THEN "steering" ELSE "observing"
    BY DEF AfterDetection
  <2>2. command.pc = "detecting" BY <1>6, Zenon DEF DetectCapabilities
  <2>3. \/ \E seen : command' = [GoTo(AfterDetection) EXCEPT !.seen = seen]
        \/ command' \in {Leaves("failed"), Leaves("raised"), Leaves("unsupported"), Exit("timeout")}
    BY <1>6, Zenon DEF DetectCapabilities
  <2> QED BY <1>1, <1>2, <1>4, <1>5, <2>1, <2>2, <2>3, ZenonT(30)
<1>7. CASE Steer
  <2>1. command.pc = "steering" BY <1>7 DEF Steer
  <2>2. command.mode \in {"smoke", "live_validate", "steer"} BY <2>1 DEF Tracked
  <2>3. call'.outcome \in {"admitted", "raised", "unsupported", "api"}
    <3> DEFINE mapped == command.mode = "steer"
    <3>1. mapped \in BOOLEAN /\ AdmitPrompt("first", mapped) BY <1>7 DEF Steer
    <3> HIDE DEF mapped
    <3> QED BY <3>1, Admission DEF Shaped
  <2>4. \/ call'.outcome = "admitted" /\ command' = AfterSteering
        \/ command.mode = "steer" /\ command' = [GoTo("detecting") EXCEPT !.retried = TRUE]
        \/ command' = Leaves("failed")
        \/ call'.outcome \notin {"api", "admitted"} /\ command' = Leaves(call'.outcome)
    BY ONLY <1>7 DEF Steer
  <2>5. PICK how \in {"raised", "unsupported", "failed"} :
          \/ command' = AfterSteering
          \/ command.mode = "steer" /\ command' = [GoTo("detecting") EXCEPT !.retried = TRUE]
          \/ command' = Leaves(how)
    BY <2>3, <2>4
  <2>6. AfterSteering = IF command.mode = "smoke" THEN GoTo("observing")
                        ELSE IF command.mode = "live_validate" THEN GoTo("waiting")
                        ELSE Exit("ok")
    BY DEF AfterSteering
  <2> QED BY <1>1, <1>4, <1>5, <2>1, <2>2, <2>5, <2>6, ZenonT(30)
<1>8. CASE OpenWatcher
  <2>1. At({"smoke"}, "opening") /\ command' \in {GoTo("steering"), command} BY <1>8 DEF OpenWatcher
  <2> QED BY <1>1, <1>3, <1>4, <1>5, <2>1 DEF At
<1>9. CASE BeginCollect \/ CollectEvents \/ CloseWatcher \/ ObserveEvents \/ WatchEvents \/ Execute
            \/ CloseResources \/ Cleanup \/ Sweep \/ Watcher \/ Server
  BY <1>3, <1>9 DEF BeginCollect, CollectEvents, CloseWatcher, ObserveEvents, WatchEvents, Execute,
                    CloseResources, Cleanup, Sweep, Watcher, Server
<1>10. CASE Collected
  <2>1. /\ command.mode = "smoke" /\ command.pc \in {"opening", "observing"}
        /\ command' \in {GoTo("blockers"), Fail("raised"), Fail("failed")}
    BY <1>10 DEF Collected, At
  <2> QED BY <1>1, <1>4, <1>5, <2>1
<1>11. CASE ReadBlockers BY <1>1, <1>4, <1>5, <1>11 DEF ReadBlockers, At
<1>12. CASE WaitForSteer
  <2>1. /\ command.mode = "live_validate" /\ command.pc = "waiting"
        /\ command' \in {GoTo("reading"), Executed("yes"), Executed("no"), Fail("raised")}
    BY <1>12 DEF WaitForSteer, At
  <2> QED BY <1>1, <1>4, <1>5, <2>1
<1>13. CASE ReadMessages
  <2>1. /\ command.mode = "live_validate" /\ command.pc = "reading"
        /\ command' \in {GoTo("observing"), Executed("yes"), Executed("unknown"), Fail("raised")}
    BY <1>13 DEF ReadMessages, At
  <2> QED BY <1>1, <1>4, <1>5, <2>1
<1>14. CASE Observed
  <2>1. /\ command.mode = "live_validate" /\ command.pc = "observing"
        /\ command' \in {Executed("yes"), Executed("unknown"), Fail("raised")}
    BY <1>14 DEF Observed, At
  <2> QED BY <1>1, <1>4, <1>5, <2>1
<1>15. CASE WatchExits
  <2>1. /\ command.mode = "watch" /\ command.pc = "observing"
        /\ command' \in {Exit("failed"), Exit("raised"), Exit("timeout"), Exit("aborted"), Exit("ok")}
    BY <1>15 DEF WatchExits, At
  <2> QED BY <1>1, <1>4, <1>5, <2>1
<1>16. CASE BeginPrompt BY <1>1, <1>4, <1>5, <1>16 DEF BeginPrompt
<1>17. CASE PromptOver
  <2>1. command.pc = "executing" BY <1>17 DEF PromptOver
  <2>2. \/ \E how \in {"ok", "failed"} : command' = [GoTo("closing") EXCEPT !.result = how]
        \/ \E how \in {"raised", "failed"} : command' = Fail(how)
        \/ command' = Exit("raised")
    BY <1>17 DEF PromptOver
  <2> QED BY <1>1, <1>4, <1>5, <2>1, <2>2
<1>18. CASE StartCleanup BY <1>1, <1>4, <1>5, <1>18 DEF StartCleanup
<1>19. CASE CleanedUp
  <2>1. /\ command.pc = "cleaning" /\ cleaners["command"].pc \in {"over", "raised"}
        /\ command' = Exit(IF cleaners["command"].pc = "raised" THEN "raised"
                           ELSE IF command.result = "ok" /\ cleaners["command"].failed THEN "failed"
                           ELSE command.result)
    BY <1>19 DEF CleanedUp
  <2> DEFINE how == IF cleaners["command"].pc = "raised" THEN "raised"
                    ELSE IF command.result = "ok" /\ cleaners["command"].failed THEN "failed"
                    ELSE command.result
  <2>2. /\ command' = Exit(how)
        /\ how = "ok" => /\ cleaners["command"].pc = "over" /\ command.result = "ok"
                         /\ ~cleaners["command"].failed
    BY <2>1
  <2> HIDE DEF how
  <2>3. ASSUME how = "ok", NEW s \in created PROVE sessions[s] = "deleted"
    <3>1. CleansOwn("command") BY DEF Tracked, CleanersKnow, Cleaners
    <3>2. cleaners["command"].todo = <<>> BY <2>2, <2>3, <3>1 DEF CleansOwn
    <3>3. Left("command") = {} BY <3>2 DEF Left, Among
    <3>4. s \in cleaners["command"].deleted
      BY <1>4, <2>1, <2>2, <2>3, <3>3 DEF Tracked, Knows
    <3> QED BY <3>1, <3>4 DEF CleansOwn
  <2> QED BY <1>1, <1>4, <2>1, <2>2, <2>3
<1> QED
  BY <1>6, <1>7, <1>8, <1>9, <1>10, <1>11, <1>12, <1>13, <1>14, <1>15, <1>16, <1>17, <1>18, <1>19
  DEF Next, CommandStep

-----------------------------------------------------------------------------
(* What is known of the sessions.                                          *)

\* A step that makes no session keeps it.
LEMMA TrackedStays ==
  ASSUME Shaped, Tracked, Goes, SessionsStay, created' = created, CleanersKnow',
         cleaners'["command"].pc # "idle" =>
           cleaners["command"].pc # "idle" \/ command'.pc = "cleaning",
         command.pc \in {"detecting", "creating"} \cup Early =>
           cleaners'["command"].todo = cleaners["command"].todo,
         ~cleaners'["command"].failed =>
           /\ ~cleaners["command"].failed
           /\ Left("command") \cup cleaners["command"].deleted
                \subseteq (Left("command") \cup cleaners["command"].deleted)'
  PROVE  Tracked'
<1>1. command'.mode = command.mode /\ (Given' <=> Given) BY DEF Goes, Onward, Given
<1>2. \A s \in created : sessions[s] = "deleted" => sessions'[s] = "deleted"
  BY DEF Shaped, CleanShaped, SessionsStay
<1>3. /\ command'.exit # "none" => command'.pc = "exited"
      /\ command'.result # "none" => command'.pc \in {"closing", "cleaning", "exited"}
      /\ command'.pc = "creating" => ~Given'
      /\ command'.pc = "steering" => command'.mode \in {"smoke", "live_validate", "steer"}
      /\ Given' => created' = {}
  BY <1>1 DEF Goes, Tracked
<1>4. cleaners'["command"].pc # "idle" => command'.pc \in {"cleaning", "exited"}
  BY DEF Goes, Tracked
<1>5. command'.exit = "ok" => \A s \in created' : sessions'[s] = "deleted"
  BY <1>2 DEF Goes, Tracked
<1>6. Fresh'
  <2>1. SUFFICES ASSUME ~Given
                 PROVE  /\ command'.pc = "detecting" =>
                             created = {} /\ cleaners'["command"].todo = <<>>
                        /\ command'.pc = "creating" =>
                             \/ created = {} /\ cleaners'["command"].todo = <<>>
                             \/ /\ command.mode = "live_validate"
                                /\ created = {"first"} /\ cleaners'["command"].todo = <<"first">>
                        /\ command'.pc \in Early =>
                             created = {"first"} /\ cleaners'["command"].todo = <<"first">>
    BY <1>1 DEF Fresh
  <2>2. Fresh BY DEF Tracked
  <2>3. CASE command'.pc = "detecting"
    <3>1. command.pc = "detecting" BY <2>1, <2>3 DEF Goes
    <3> QED BY <2>1, <2>2, <2>3, <3>1 DEF Fresh, Early
  <2>4. CASE command'.pc = "creating"
    <3>1. \/ command.pc \in {"detecting", "creating"}
          \/ command.mode = "live_validate" /\ command.pc \in Early
      BY <2>1, <2>4 DEF Goes
    <3> QED BY <2>1, <2>2, <2>4, <3>1 DEF Fresh, Early
  <2>5. CASE command'.pc \in Early
    <3>1. command.pc \in Early BY <2>1, <2>5 DEF Goes
    <3> QED BY <2>1, <2>2, <2>5, <3>1 DEF Fresh, Early
  <2> QED BY <2>3, <2>4, <2>5
<1>7. Knows' BY DEF Knows, Goes, Tracked
<1> QED BY <1>3, <1>4, <1>5, <1>6, <1>7 DEF Tracked

\* A session is made where there was none, and known if its id came.
LEMMA CreateTracked ==
  ASSUME Shaped, Tracked, Create
  PROVE  /\ Tracked' /\ CleanShaped'
         /\ sessions' \in [SessionIds -> {"none", "live", "deleted"}]
<1> DEFINE s == NextSession
<1>1. /\ command.pc = "creating" /\ ~Given /\ Fresh /\ command.exit = "none"
      /\ command.result = "none" /\ cleaners["command"].pc = "idle"
  BY DEF Create, Tracked
<1>2. \/ created = {} /\ cleaners["command"].todo = <<>> /\ s = "first"
      \/ /\ command.mode = "live_validate"
         /\ created = {"first"} /\ cleaners["command"].todo = <<"first">> /\ s = "second"
  BY <1>1, SMTT(30) DEF Fresh, NextSession
<1>3. s \in SessionIds /\ s \notin created BY <1>2 DEF SessionIds
<1>4. PICK outcome \in CreateOutcomes, made \in BOOLEAN :
        /\ made => RouteExists(PlannedSession)
        /\ outcome = "created" => made
        /\ sessions' = IF made THEN [sessions EXCEPT ![s] = "live"] ELSE sessions
        /\ created' = IF made THEN created \cup {s} ELSE created
        /\ TrackSession(outcome)
  BY Zenon DEF Create, CreateSession
<1> HIDE DEF s
<1>5. command \in CommandShape /\ cleaners["command"] \in CleanerShape /\ created \in SUBSET SessionIds
  BY DEF Shaped, CleanShaped, Cleaners
<1>6. sessions' \in [SessionIds -> {"none", "live", "deleted"}] /\ created' \in SUBSET SessionIds
  BY <1>3, <1>4, <1>5 DEF Shaped, PromptShaped
<1>7. /\ \A x \in created' : sessions'[x] # "none"
      /\ \A x \in created : x \in created' /\ sessions'[x] = sessions[x]
  BY <1>3, <1>4, <1>5 DEF Shaped, PromptShaped, Tracked, CleanersKnow
<1>8. doc' = doc BY DEF Create
<1>9. ASSUME NEW w \in Cleaners, cleaners'[w] = cleaners[w] PROVE CleansOwn(w)'
  <2>1. CleansOwn(w) BY DEF Tracked, CleanersKnow
  <2> QED BY <1>7, <1>8, <1>9, <2>1 DEF CleansOwn, Left, RouteExists
<1>10. CASE outcome = "created"
  <2> DEFINE p == cleaners["command"]
             todo == Append(p.todo, s)
  <2>1. p \in CleanerShape /\ todo \in Seq(SessionIds)
    BY <1>3, <1>5 DEF CleanerShape
  <2>2. Among(todo) = Among(p.todo) \cup {s} /\ todo # <<>>
    <3> DEFINE q == p.todo
    <3>1. q \in Seq(SessionIds) BY <1>5 DEF CleanerShape
    <3> HIDE DEF q
    <3>2. Among(Append(q, s)) = Among(q) \cup {s} /\ Append(q, s) # <<>>
      BY <1>3, <3>1, AmongAppend
    <3> QED BY <3>2 DEF q
  <2>3. PlannedSession \in Plans
    BY <1>5 DEF PlannedSession, Plans, PlanOf, CommandShape
  <2>4. /\ command' = GoTo(AfterCreation)
        /\ cleaners' = [cleaners EXCEPT !["command"] = [p EXCEPT !.todo = todo, !.plan = PlannedSession]]
    BY <1>4, <1>10 DEF TrackSession, Cleaner, s
  <2>5. s = "first" => todo = <<"first">>
    <3>1. s = "first" => p.todo = <<>> BY <1>2
    <3>2. Append(<<>>, "first") = <<"first">> OBVIOUS
    <3> QED BY <3>1, <3>2
  <2>6. AfterCreation = IF command.mode = "smoke" THEN "opening"
                        ELSE IF command.mode = "live_validate" /\ s = "first" THEN "steering"
                        ELSE "prompting"
    BY DEF AfterCreation, s
  <2>7. p.pc = "idle" /\ Left("command") = Among(p.todo) BY <1>1 DEF Left
  <2> DEFINE plan == PlannedSession
             c == [p EXCEPT !.todo = todo, !.plan = plan]
  <2>8. plan \in Plans /\ (RouteExists(plan)) BY <1>4, <1>10, <2>3
  <2>9. cleaners' = [cleaners EXCEPT !["command"] = c] BY <2>4
  <2> HIDE DEF p, todo, plan
  <2>10. /\ c \in CleanerShape /\ c.todo = todo /\ c.plan = plan /\ c.pc = "idle"
         /\ c.deleted = p.deleted /\ c.failed = p.failed
    BY <2>1, <2>7, <2>8 DEF CleanerShape
  <2> HIDE DEF c
  <2>11. /\ cleaners' \in [Cleaners -> CleanerShape] /\ cleaners'["command"] = c
         /\ \A w \in Cleaners : w # "command" => cleaners'[w] = cleaners[w]
    BY <2>9, <2>10 DEF Shaped, CleanShaped, Cleaners
  <2>12. s \in created' BY <1>4, <1>10
  <2>13. CleansOwn("command")'
    <3>1. CleansOwn("command") BY DEF Tracked, CleanersKnow, Cleaners
    <3>2. Among(todo) \subseteq created' BY <1>7, <2>2, <2>7, <2>12, <3>1 DEF CleansOwn
    <3>3. \A x \in c.deleted : x \in created' /\ sessions'[x] = "deleted"
      BY <1>7, <2>10, <3>1 DEF CleansOwn, p
    <3> QED BY <1>8, <2>2, <2>8, <2>10, <2>11, <3>2, <3>3 DEF CleansOwn, Left, RouteExists
  <2>14. CleanersKnow' BY <1>7, <1>9, <2>11, <2>13 DEF CleanersKnow
  <2>15. command'.mode = command.mode /\ command'.exit = "none" /\ command'.result = "none"
         /\ command'.pc = AfterCreation
    BY <1>1, <1>5, <2>4 DEF GoTo, CommandShape
  <2>16. Given' <=> Given BY <2>15 DEF Given
  <2>17. Fresh'
    <3>1. AfterCreation \in Early => s = "first" /\ created = {}
      BY <1>2, <2>6 DEF Early
    <3>2. AfterCreation \notin {"detecting", "creating"} BY <2>6
    <3>3. AfterCreation \in Early => created' = {"first"} /\ todo = <<"first">>
      BY <1>4, <1>10, <2>5, <3>1
    <3> QED BY <2>10, <2>11, <2>15, <3>2, <3>3 DEF Fresh
  <2>18. Knows'
    <3>1. ~p.failed => created \subseteq Among(p.todo) \cup p.deleted
      BY <1>1, <2>7 DEF Tracked, Knows, p
    <3>2. ~c.failed => created' \subseteq Among(todo) \cup c.deleted
      BY <1>4, <2>2, <2>10, <3>1
    <3> QED BY <2>10, <2>11, <3>2 DEF Knows, Left
  <2>19. /\ command'.pc # "creating" /\ (command'.pc = "steering" => command'.mode = "live_validate")
    BY <2>6, <2>15
  <2>20. cleaners'["command"].pc = "idle" BY <2>10, <2>11
  <2>21. Tracked'
    BY <1>1, <2>14, <2>15, <2>16, <2>17, <2>18, <2>19, <2>20 DEF Tracked
  <2>22. CleanShaped' BY <1>6, <1>8, <2>11 DEF CleanShaped, Shaped
  <2> QED BY <1>6, <2>21, <2>22
<1>11. CASE outcome # "created"
  <2>1. cleaners' = cleaners /\ command' \in {Leaves("raised"), Leaves("failed")}
    BY <1>4, <1>11 DEF TrackSession
  <2>2. /\ command'.mode = command.mode /\ command'.pc \in {"closing", "exited"}
        /\ command'.exit # "none" => command'.pc = "exited"
        /\ command'.result # "none" => command'.pc \in {"closing", "cleaning", "exited"}
        /\ ~(command'.result \in {"none", "ok"} /\ command'.exit \in {"none", "ok"})
        /\ command'.exit # "ok"
    BY <1>1, <1>5, <2>1 DEF Leaves, Fail, Exit, CommandShape
  <2>3. Given' <=> Given BY <2>2 DEF Given
  <2>4. CleanersKnow' BY <1>7, <1>9, <2>1 DEF CleanersKnow
  <2>5. Fresh' /\ Knows' BY <2>2 DEF Fresh, Early, Knows
  <2>6. Tracked' BY <1>1, <2>1, <2>2, <2>3, <2>4, <2>5 DEF Tracked
  <2>7. CleanShaped' BY <1>6, <1>8, <2>1 DEF Shaped, CleanShaped
  <2> QED BY <1>6, <2>6, <2>7
<1> QED BY <1>10, <1>11

\* Every step keeps what is known of the sessions.
LEMMA TrackedKept ==
  ASSUME Shaped, Tracked, Next
  PROVE  Tracked' /\ CleanShaped' /\ sessions' \in [SessionIds -> {"none", "live", "deleted"}]
<1>1. SUFFICES ASSUME ~Create
               PROVE  Tracked' /\ CleanShaped'
                      /\ sessions' \in [SessionIds -> {"none", "live", "deleted"}]
  BY CreateTracked
<1>2. Goes BY <1>1, QuietGoes
<1>3. /\ sessions \in [SessionIds -> {"none", "live", "deleted"}]
      /\ created \in SUBSET SessionIds /\ cleaners \in [Cleaners -> CleanerShape]
      /\ "command" \in Cleaners /\ "sweep" \in Cleaners /\ CleanersKnow
  BY DEF Shaped, PromptShaped, CleanShaped, Cleaners, Tracked
<1>4. ASSUME UNCHANGED <<sessions, doc, created, cleaners>>
      PROVE  SessionsStay /\ CleanersKnow' /\ CleanShaped'
  BY <1>3, <1>4 DEF SessionsStay, CleanersKnow, CleansOwn, Left, RouteExists, Shaped, CleanShaped
<1>5. ASSUME UNCHANGED <<sessions, doc, created, cleaners>>
      PROVE  Tracked' /\ CleanShaped'
  <2>1. Goes /\ SessionsStay /\ CleanersKnow' /\ CleanShaped' BY <1>2, <1>4, <1>5
  <2> QED BY <1>5, <2>1, TrackedStays DEF Left
<1>6. CASE StartCleanup
  <2> DEFINE c == [cleaners["command"] EXCEPT !.pc = "deleting"]
  <2>1. /\ command.pc = "closing" /\ command' = GoTo("cleaning") /\ UNCHANGED <<sessions, doc, created>>
        /\ cleaners' = [cleaners EXCEPT !["command"] = c]
    BY <1>6 DEF StartCleanup, Cleaner, promptVars
  <2>2. command'.pc = "cleaning" BY <2>1 DEF GoTo, Shaped, CommandShape
  <2>3. c \in CleanerShape /\ c = [cleaners["command"] EXCEPT !.pc = "deleting"]
        /\ c.plan = cleaners["command"].plan /\ c.todo = cleaners["command"].todo
        /\ c.deleted = cleaners["command"].deleted /\ c.failed = cleaners["command"].failed
        /\ c.pc = "deleting"
    BY <1>3 DEF CleanerShape
  <2> HIDE DEF c
  <2>4. /\ cleaners' \in [Cleaners -> CleanerShape] /\ cleaners'["command"] = c
        /\ \A w \in Cleaners : w # "command" => cleaners'[w] = cleaners[w]
    BY <1>3, <2>1, <2>3
  <2>7. SessionsStay BY <1>3, <2>1 DEF SessionsStay
  <2>8. CleanersKnow'
    <3>1. ASSUME NEW w \in Cleaners PROVE CleansOwn(w)'
      <4>1. CleansOwn(w) BY <1>3 DEF CleanersKnow
      <4>2. /\ cleaners'[w].todo = cleaners[w].todo /\ cleaners'[w].plan = cleaners[w].plan
            /\ cleaners'[w].deleted = cleaners[w].deleted
            /\ cleaners'[w].pc = cleaners[w].pc \/ cleaners'[w].pc = "deleting"
        BY <2>3, <2>4
      <4> QED BY <2>1, <4>1, <4>2 DEF CleansOwn, Left, RouteExists
    <3>2. \A s \in created' : sessions'[s] # "none" BY <1>3, <2>1 DEF CleanersKnow
    <3> QED BY <3>1, <3>2 DEF CleanersKnow
  <2>9. CleanShaped' BY <2>1, <2>4 DEF Shaped, CleanShaped
  <2>10. Left("command")' = Left("command") BY <2>3, <2>4 DEF Left
  <2>11. Tracked'
    <3>1. created' = created /\ command.pc \notin {"detecting", "creating"} \cup Early
      BY <2>1 DEF Early
    <3>2. ~cleaners'["command"].failed =>
            /\ ~cleaners["command"].failed
            /\ Left("command") \cup cleaners["command"].deleted
                 \subseteq (Left("command") \cup cleaners["command"].deleted)'
      BY <2>3, <2>4, <2>10
    <3> QED BY <1>2, <2>2, <2>7, <2>8, <3>1, <3>2, TrackedStays
  <2> QED BY <1>3, <2>1, <2>9, <2>11
<1>7. ASSUME NEW w \in Cleaners, CleanStep(w), command' = command,
             w = "command" => command.pc = "cleaning"
      PROVE  Tracked' /\ CleanShaped' /\ sessions' \in [SessionIds -> {"none", "live", "deleted"}]
  <2>1. /\ SessionsStay /\ created' = created /\ doc' = doc /\ CleanersKnow'
        /\ cleaners' \in [Cleaners -> CleanerShape]
        /\ \A v \in Cleaners \ {w} : cleaners'[v] = cleaners[v]
        /\ Follows(cleaners[w], cleaners'[w]) /\ cleaners[w].pc # "idle"
    BY <1>3, <1>7, CleanSteps DEF Shaped
  <2>3. CleanShaped' BY <2>1 DEF Shaped, CleanShaped
  <2>4. w # "command" => cleaners'["command"] = cleaners["command"] BY <1>3, <2>1
  <2>5. ~cleaners'["command"].failed =>
          /\ ~cleaners["command"].failed
          /\ Left("command") \cup cleaners["command"].deleted
               \subseteq (Left("command") \cup cleaners["command"].deleted)'
    <3>1. CASE w = "command" BY <2>1, <3>1 DEF Follows, Left
    <3>2. CASE w # "command" BY <2>4, <3>2 DEF Left
    <3> QED BY <3>1, <3>2
  <2>6. /\ cleaners'["command"].pc # "idle" => cleaners["command"].pc # "idle"
        /\ command.pc \in {"detecting", "creating"} \cup Early =>
             cleaners'["command"].todo = cleaners["command"].todo
    BY <1>7, <2>1, <2>4 DEF Early
  <2>7. Tracked' BY <1>2, <2>1, <2>5, <2>6, TrackedStays
  <2> QED BY <2>1, <2>3, <2>7 DEF SessionsStay
<1>8. CASE Cleanup
  <2>1. command.pc = "cleaning" /\ CleanStep("command") /\ command' = command
    BY <1>8 DEF Cleanup
  <2> QED BY <1>3, <1>7, <2>1
<1>9. CASE Sweep
  <2>1. command' = command BY <1>9 DEF Sweep
  <2>2. CASE CleanStep("sweep") BY <1>3, <1>7, <2>1, <2>2
  <2>3. CASE StartSweep(Harness)
    <3>1. PICK plan \in {RoutePlan(doc)["session"], DefaultPlan["session"]},
               todo \in {<<>>, <<"first">>, <<"second">>, <<"first", "second">>} :
            /\ RouteExists(plan)
            /\ {todo[i] : i \in DOMAIN todo} = {s \in created : Harness /\ Live(s)}
            /\ cleaners' = [cleaners EXCEPT !["sweep"] =
                              [NewCleaner EXCEPT !.pc = "deleting", !.plan = plan, !.todo = todo]]
      BY <2>3, Zenon DEF StartSweep, Cleaner
    <3> DEFINE c == [NewCleaner EXCEPT !.pc = "deleting", !.plan = plan, !.todo = todo]
    <3>2. todo \in Seq(SessionIds) /\ Among(todo) \subseteq created
      <4>1. Among(todo) \subseteq created
        <5>1. Among(todo) = {s \in created : Harness /\ Live(s)} BY <3>1 DEF Among
        <5> QED BY <5>1
      <4>2. /\ <<>> \in Seq(SessionIds) /\ <<"first">> \in Seq(SessionIds)
            /\ <<"second">> \in Seq(SessionIds) /\ <<"first", "second">> \in Seq(SessionIds)
        BY DEF SessionIds
      <4>3. todo \in {<<>>, <<"first">>, <<"second">>, <<"first", "second">>} OBVIOUS
      <4> QED BY <4>1, <4>2, <4>3
    <3>3. plan \in Plans
      <4>1. doc \in SUBSET Paths BY ValidationAssumption DEF Shaped, CleanShaped
      <4> QED BY <4>1 DEF Plans, PlanOf
    <3>4. /\ c.pc = "deleting" /\ c.plan = plan /\ c.todo = todo /\ c.deleted = {}
          /\ c \in CleanerShape
      BY <3>2, <3>3 DEF NewCleaner, CleanerShape
    <3>5. cleaners' = [cleaners EXCEPT !["sweep"] = c] BY <3>1
    <3> HIDE DEF c
    <3>6. /\ cleaners' \in [Cleaners -> CleanerShape] /\ cleaners'["sweep"] = c
          /\ \A w \in Cleaners : w # "sweep" => cleaners'[w] = cleaners[w]
      BY <1>3, <3>4, <3>5
    <3>7. UNCHANGED <<sessions, doc, created>> BY <2>3 DEF StartSweep
    <3>8. ASSUME NEW w \in Cleaners PROVE CleansOwn(w)'
      <4>1. CASE w = "sweep"
        <5>1. /\ cleaners'[w].pc = "deleting" /\ cleaners'[w].plan = plan
              /\ cleaners'[w].todo = todo /\ cleaners'[w].deleted = {}
          BY <3>4, <3>6, <4>1
        <5>2. created' = created /\ doc' = doc BY <3>7
        <5>3. RouteExists(plan) BY <3>1
        <5> HIDE DEF c
        <5> QED BY ONLY <3>2, <5>1, <5>2, <5>3 DEF CleansOwn, Left, RouteExists
      <4>2. CASE w # "sweep"
        <5>1. CleansOwn(w) /\ cleaners'[w] = cleaners[w] BY <1>3, <3>6, <4>2 DEF CleanersKnow
        <5> QED BY <3>7, <5>1 DEF CleansOwn, Left, RouteExists
      <4> QED BY <4>1, <4>2
    <3>9. \A s \in created' : sessions'[s] # "none" BY <1>3, <3>7 DEF CleanersKnow
    <3>10. CleanersKnow' BY <3>8, <3>9 DEF CleanersKnow
    <3>11. cleaners'["command"] = cleaners["command"] BY <1>3, <3>6
    <3>12. SessionsStay /\ CleanShaped' BY <1>3, <3>6, <3>7 DEF SessionsStay, Shaped, CleanShaped
    <3>13. Tracked' BY <1>2, <3>7, <3>10, <3>11, <3>12, TrackedStays DEF Left
    <3> QED BY <3>12, <3>13 DEF SessionsStay
  <2> QED BY <1>9, <2>2, <2>3 DEF Sweep
<1>10. ASSUME ~StartCleanup, ~Cleanup, ~Sweep
       PROVE  UNCHANGED <<sessions, doc, created, cleaners>>
  <2> USE DEF promptVars, cleanVars
  <2>1. CASE DetectCapabilities BY <2>1 DEF DetectCapabilities
  <2>2. CASE Steer BY <2>2 DEF Steer, AdmitPrompt
  <2>3. CASE OpenWatcher \/ BeginCollect \/ CollectEvents \/ CloseWatcher \/ Collected \/ ReadBlockers
    BY <2>3 DEF OpenWatcher, BeginCollect, CollectEvents, CloseWatcher, Collected, ReadBlockers
  <2>4. CASE WaitForSteer BY <2>4 DEF WaitForSteer
  <2>5. CASE ReadMessages BY <2>5 DEF ReadMessages
  <2>6. CASE ObserveEvents \/ Observed \/ WatchEvents \/ WatchExits
    BY <2>6 DEF ObserveEvents, Observed, WatchEvents, WatchExits
  <2>7. CASE BeginPrompt BY <2>7 DEF BeginPrompt, StartPrompt
  <2>8. CASE Execute
    BY <2>8 DEF Execute, CallStep, RunAnswered, ReplyAnswered, CallFails, CallTimesOut, CallDropped,
                AbortSession
  <2>9. CASE PromptOver BY <2>9 DEF PromptOver
  <2>10. CASE CloseResources \/ CleanedUp BY <2>10 DEF CloseResources, CleanedUp
  <2>11. CASE Watcher BY <2>11 DEF Watcher
  <2>12. CASE Server
    BY <2>12 DEF Server, ServerStep, PromptArrives, SteerRuns, TurnEnds
  <2> QED
    BY <1>1, <1>10, <2>1, <2>2, <2>3, <2>4, <2>5, <2>6, <2>7, <2>8, <2>9, <2>10, <2>11, <2>12
    DEF Next, CommandStep
<1> QED BY <1>3, <1>5, <1>6, <1>8, <1>9, <1>10

-----------------------------------------------------------------------------
(* Events move on.                                                         *)

LEMMA FitsBegins ==
  ASSUME NEW k, NEW q, NEW h, NEW w, NEW t, Fits(k, q, h, w, t)
  PROVE  Begins(k, t)
<1>1. k \o (q \o (h \o w)) = t /\ q \o (h \o w) \in Seq(SessionKinds) BY DEF Fits
<1> QED BY <1>1 DEF Begins

LEMMA FitsSend ==
  ASSUME NEW k, NEW q, NEW h, NEW w, NEW t, Fits(k, q, h, w, t), NEW e \in SessionKinds
  PROVE  Fits(k, q, h, Append(w, e), Append(t, e))
<1> DEFINE T == SessionKinds
<1>1. /\ k \in Seq(T) /\ q \in Seq(T) /\ h \in Seq(T) /\ w \in Seq(T) /\ t \in Seq(T) /\ e \in T
      /\ k \o (q \o (h \o w)) = t
  BY DEF Fits
<1> HIDE DEF T
<1> DEFINE a == h \o w
           b == q \o a
<1>2. h \o Append(w, e) = Append(a, e) /\ a \in Seq(T) BY <1>1
<1> HIDE DEF a
<1>3. q \o Append(a, e) = Append(b, e) /\ b \in Seq(T) BY <1>1, <1>2, SMTT(30)
<1>4. k \o b = t BY <1>1 DEF a
<1> HIDE DEF b
<1>5. k \o Append(b, e) = Append(k \o b, e) BY <1>1, <1>3, SMTT(30)
<1>6. Append(w, e) \in Seq(T) /\ Append(t, e) \in Seq(T) BY <1>1
<1> QED BY <1>1, <1>2, <1>3, <1>4, <1>5, <1>6 DEF Fits, T

LEMMA BeginsSend ==
  ASSUME NEW k \in Seq(SessionKinds), NEW t, Begins(k, t), NEW e \in SessionKinds
  PROVE  Begins(k, Append(t, e))
<1>1. PICK rest \in Seq(SessionKinds) : k \o rest = t BY DEF Begins
<1>2. k \o Append(rest, e) = Append(k \o rest, e) /\ Append(rest, e) \in Seq(SessionKinds)
  OBVIOUS
<1> QED BY <1>1, <1>2 DEF Begins

LEMMA FitsTake ==
  ASSUME NEW k, NEW q, NEW w \in Seq(SessionKinds), NEW t, NEW e \in SessionKinds,
         Fits(k, q, <<>>, <<e>> \o w, t)
  PROVE  Fits(k, q, <<e>>, w, t)
<1>1. <<>> \o (<<e>> \o w) = <<e>> \o w /\ <<e>> \in Seq(SessionKinds) OBVIOUS
<1> QED BY <1>1 DEF Fits

LEMMA FitsPut ==
  ASSUME NEW k, NEW q, NEW w, NEW t, NEW e \in SessionKinds, Fits(k, q, <<e>>, w, t)
  PROVE  Fits(k, Append(q, e), <<>>, w, t)
<1>1. q \in Seq(SessionKinds) /\ w \in Seq(SessionKinds) BY DEF Fits
<1>2. Append(q, e) \o (<<>> \o w) = q \o (<<e>> \o w) /\ Append(q, e) \in Seq(SessionKinds)
  BY <1>1
<1>3. <<>> \in Seq(SessionKinds) OBVIOUS
<1>4. {k, q, w, t} \subseteq Seq(SessionKinds) /\ k \o (q \o (<<e>> \o w)) = t BY DEF Fits
<1> QED BY <1>2, <1>3, <1>4 DEF Fits

LEMMA FitsCollect ==
  ASSUME NEW k, NEW q \in Seq(SessionKinds), NEW h, NEW w, NEW t, NEW e \in SessionKinds,
         Fits(k, <<e>> \o q, h, w, t)
  PROVE  Fits(Append(k, e), q, h, w, t)
<1> DEFINE r == h \o w
<1>1. /\ k \in Seq(SessionKinds) /\ r \in Seq(SessionKinds)
      /\ k \o ((<<e>> \o q) \o r) = t
  BY DEF Fits
<1> HIDE DEF r
<1>2. (<<e>> \o q) \o r = <<e>> \o (q \o r) /\ q \o r \in Seq(SessionKinds) BY <1>1
<1>3. Append(k, e) \o (q \o r) = k \o (<<e>> \o (q \o r)) /\ Append(k, e) \in Seq(SessionKinds)
  BY <1>1, <1>2, SMTT(30)
<1> QED BY <1>1, <1>2, <1>3 DEF Fits, r

LEMMA FitsRead ==
  ASSUME NEW k, NEW w \in Seq(SessionKinds), NEW t, NEW e \in SessionKinds,
         Fits(k, <<>>, <<>>, <<e>> \o w, t)
  PROVE  Fits(Append(k, e), <<>>, <<>>, w, t)
<1>1. /\ <<>> \o (<<>> \o (<<e>> \o w)) = (<<e>> \o <<>>) \o (<<>> \o w)
      /\ <<e>> \o <<>> \in Seq(SessionKinds) /\ <<>> \in Seq(SessionKinds)
      /\ <<>> \o w \in Seq(SessionKinds)
  OBVIOUS
<1>2. Fits(k, <<e>> \o <<>>, <<>>, w, t) BY <1>1 DEF Fits
<1> QED BY <1>1, <1>2, FitsCollect

LEMMA FitsFlat ==
  ASSUME NEW k, NEW q, NEW h, NEW w, NEW t, Fits(k, q, h, w, t)
  PROVE  k \o q \o h \o w = t
<1>1. {k, q, h, w, t} \subseteq Seq(SessionKinds) /\ k \o (q \o (h \o w)) = t BY DEF Fits
<1>2. PICK a : a = k \o q OBVIOUS
<1>3. a \in Seq(SessionKinds) BY <1>1, <1>2
<1>4. (a \o h) \o w = a \o (h \o w) BY <1>1, <1>3, SMTT(30)
<1>5. PICK b : b = h \o w OBVIOUS
<1>6. b \in Seq(SessionKinds) BY <1>1, <1>5
<1>7. (k \o q) \o b = k \o (q \o b) BY <1>1, <1>6, SMTT(30)
<1> QED BY <1>1, <1>2, <1>4, <1>5, <1>7, Zenon

\* What the parts are made of.
LEMMA PartsAre ==
  ASSUME WatchShaped
  PROVE  {Told, Kept, Queued, InHand, OnWire} \subseteq Seq(SessionKinds)
<1> USE Shapes, KindsAre
<1>1. Told \in Seq(SessionKinds) /\ OnWire \in Seq(SessionKinds)
  <2>1. Kinds \cap SessionKinds = SessionKinds OBVIOUS
  <2> QED BY <2>1, OnlyTyped DEF Told, OnWire
<1>2. Queued \in Seq(SessionKinds) BY OnlyTyped DEF Queued
<1>3. InHand \in Seq(SessionKinds)
  <2>1. thread.event \notin {"none", "other"} => thread.event \in SessionKinds
    BY DEF SessionKinds, IsOfSession
  <2> QED BY <2>1 DEF InHand
<1>4. Kept \in Seq(SessionKinds)
  <2>1. reader.pending \in Seq(SessionKinds) OBVIOUS
  <2> QED BY <2>1 DEF Kept
<1> QED BY <1>1, <1>2, <1>3, <1>4

\* The head of what is on the wire goes, to the one who reads.
LEMMA WireHead ==
  ASSUME WatchShaped, stream.wire # <<>>, stream'.wire = Tail(stream.wire)
  PROVE  /\ Head(stream.wire) \in Kinds /\ OnWire' \in Seq(SessionKinds)
         /\ OnWire = IF Head(stream.wire) \in SessionKinds THEN <<Head(stream.wire)>> \o OnWire'
                     ELSE OnWire'
<1>1. stream.wire \in Seq(Kinds) BY Shapes
<1>2. Head(stream.wire) \in Kinds /\ Tail(stream.wire) \in Seq(Kinds) BY <1>1
<1>3. OnWire' = Only(Tail(stream.wire), SessionKinds) BY DEF OnWire
<1> DEFINE t == Tail(stream.wire)
<1>4. Only(t, SessionKinds) \in Seq(Kinds \cap SessionKinds)
  <2>1. t \in Seq(Kinds) BY <1>2
  <2> HIDE DEF t
  <2> QED BY <2>1, OnlyTyped
<1>5. Kinds \cap SessionKinds = SessionKinds BY KindsAre
<1>6. OnWire = IF Head(stream.wire) \in SessionKinds
                 THEN <<Head(stream.wire)>> \o Only(t, SessionKinds)
               ELSE Only(t, SessionKinds)
  BY <1>1, OnlyHead DEF OnWire
<1> HIDE DEF t
<1> QED BY <1>2, <1>3, <1>4, <1>5, <1>6 DEF t

\* The steps of the thread.
LEMMA ThreadReadsOn ==
  ASSUME WatchShaped, Read, ThreadStep, command' = command
  PROVE  WatchShaped' /\ Read'
<1>1. WatchShaped' BY ThreadShaped DEF WatchShaped
<1>2. reader' = reader BY ThreadShaped
<1> USE DEF Thread, Put
<1>3. thread.pc # "new"
  BY Zenon DEF ThreadStep, ThreadOpens, ThreadReads, ThreadStops, ThreadBreaks, ThreadPuts, ThreadFails,
         ThreadFinishes, ThreadEnds
<1>4. command.mode = "smoke" BY <1>3 DEF Read, ReadsAlone, NewThread
<1>5. thread \in ThreadShape /\ stream \in StreamShape BY DEF WatchShaped
<1>6. thread'.closed = thread.closed
  <2>1. CASE ThreadPuts BY <1>5, <2>1 DEF ThreadPuts, ThreadShape
  <2>2. CASE ~ThreadPuts
    BY <1>5, <2>2, Zenon
      DEF ThreadStep, ThreadOpens, ThreadReads, ThreadStops, ThreadBreaks, ThreadFails,
                      ThreadFinishes, ThreadEnds, ThreadShape
  <2> QED BY <2>1, <2>2
<1>7. stream'.sent = stream.sent
  BY <1>5, Zenon
    DEF ThreadStep, ThreadOpens, ThreadReads, ThreadStops, ThreadBreaks, ThreadPuts,
              ThreadFails, ThreadFinishes, ThreadEnds, StreamShape
<1>8. ReadsAlone' BY <1>2, <1>3, <1>4, <1>6 DEF Read, ReadsAlone, NewThread
<1>9. Told' = Told /\ Kept' = Kept BY <1>2, <1>7 DEF Told, Kept
<1>10. ASSUME ~thread.closed, reader.result # "raised"
       PROVE  Fits(Kept, Queued', InHand', OnWire', Told)
  <2>1. Fits(Kept, Queued, InHand, OnWire, Told) BY <1>10 DEF Read, InOrder
  <2>2. ASSUME thread'.items = thread.items, thread'.event = thread.event,
               stream'.wire = stream.wire
        PROVE  Fits(Kept, Queued', InHand', OnWire', Told)
    BY <2>1, <2>2 DEF Queued, InHand, OnWire
  <2>3. CASE ThreadOpens \/ ThreadStops \/ ThreadBreaks \/ ThreadEnds
    BY <1>5, <2>2, <2>3, Zenon
      DEF ThreadOpens, ThreadStops, ThreadBreaks, ThreadEnds, ThreadShape, StreamShape
  <2>4. CASE ThreadReads
    <3> DEFINE e == Head(stream.wire)
    <3>1. stream.wire # <<>> /\ stream'.wire = Tail(stream.wire)
      BY <1>5, <2>4 DEF ThreadReads, Silent, StreamShape
    <3>2. e \in Kinds /\ OnWire' \in Seq(SessionKinds)
          /\ OnWire = IF e \in SessionKinds THEN <<e>> \o OnWire' ELSE OnWire'
      BY <3>1, WireHead
    <3>3. thread.event = "none" BY <2>4 DEF ThreadReads, WatchShaped, Holding
    <3>4. thread' = [thread EXCEPT !.pc = "holding", !.event = e] BY <2>4 DEF ThreadReads
    <3> HIDE DEF e
    <3>5. thread'.event = e /\ thread'.items = thread.items BY <1>5, <3>4 DEF ThreadShape
    <3>6. InHand = <<>> /\ Queued' = Queued BY <3>3, <3>5 DEF InHand, Queued
    <3>7. e \in SessionKinds <=> e # "other" BY <3>2 DEF SessionKinds, IsOfSession
    <3>8. e # "none" BY <3>2, KindsAre
    <3>9. InHand' = IF e \in SessionKinds THEN <<e>> ELSE <<>> BY <3>5, <3>7, <3>8 DEF InHand
    <3> QED BY <2>1, <3>2, <3>6, <3>9, FitsTake
  <2>5. CASE ThreadPuts
    <3>1. thread.event \in Kinds BY <1>5, <2>5 DEF ThreadPuts, WatchShaped, Holding, ThreadShape
    <3> DEFINE idle == [thread EXCEPT !.event = "none"]
    <3>2. thread' = IF ~IsOfSession(thread.event) THEN [idle EXCEPT !.pc = "reading"]
                    ELSE [idle EXCEPT !.pc = "reading", !.items = Append(thread.items, thread.event)]
      BY <1>10, <2>5 DEF ThreadPuts
    <3>3. thread'.event = "none" BY <1>5, <3>2 DEF ThreadShape
    <3>4. stream' = stream BY <1>10, <2>5 DEF ThreadPuts
    <3>5. InHand' = <<>> /\ OnWire' = OnWire BY <3>3, <3>4 DEF InHand, OnWire
    <3>6. CASE thread.event = "other"
      <4>1. thread'.items = thread.items BY <1>5, <3>2, <3>6 DEF ThreadShape, IsOfSession
      <4>2. InHand = <<>> /\ Queued' = Queued BY <3>6, <4>1 DEF InHand, Queued
      <4> QED BY <2>1, <3>5, <4>2
    <3>7. CASE thread.event # "other"
      <4>1. thread'.items = Append(thread.items, thread.event)
        BY <1>5, <3>2, <3>7 DEF ThreadShape, IsOfSession
      <4>2. thread.event \in SessionKinds /\ thread.event \in Items
        BY <3>1, <3>7, KindsAre DEF SessionKinds, IsOfSession
      <4>3. Queued' = Append(Queued, thread.event)
        <5>1. PICK e \in Items : e = thread.event BY <4>2
        <5>2. thread'.items = Append(thread.items, e) /\ e \in Kinds BY <3>1, <4>1, <5>1
        <5>3. Queued' = Append(Queued, e)
          BY <5>2, Shapes, OnlyAppend, SMTT(30) DEF Queued
        <5> QED BY <5>1, <5>3
      <4>4. InHand = <<thread.event>> BY <3>1, <3>7, KindsAre DEF InHand
      <4> QED BY <2>1, <3>5, <4>2, <4>3, <4>4, FitsPut
    <3> QED BY <3>6, <3>7
  <2>6. CASE ThreadFails \/ ThreadFinishes
    <3>1. PICK item \in Items \ Kinds : thread'.items = Append(thread.items, item)
      <4>1. CASE ThreadFails
        <5>1. thread.error \in Errors BY <4>1 DEF ThreadFails, WatchShaped, Holding
        <5>2. thread.error \in Items \ Kinds BY <5>1, KindsAre DEF Items
        <5> DEFINE items == IF thread.closed THEN thread.items ELSE Append(thread.items, thread.error)
        <5>3. thread' = [thread EXCEPT !.pc = "finishing", !.error = "none", !.items = items]
          BY <4>1 DEF ThreadFails
        <5>4. items = Append(thread.items, thread.error) BY <1>10
        <5> HIDE DEF items
        <5>5. thread'.items = items BY <1>5, <5>3 DEF ThreadShape
        <5> QED BY <5>2, <5>4, <5>5
      <4>2. CASE ThreadFinishes
        <5>1. "finished" \in Items \ Kinds BY KindsAre DEF Items
        <5> DEFINE items == Append(thread.items, "finished")
        <5>2. thread' = [thread EXCEPT !.pc = "exiting", !.items = items]
          BY <4>2 DEF ThreadFinishes
        <5> HIDE DEF items
        <5>3. thread'.items = items BY <1>5, <5>2 DEF ThreadShape
        <5> QED BY <5>1, <5>3 DEF items
      <4> QED BY <2>6, <4>1, <4>2
    <3>2. Queued' = Queued BY <3>1, Shapes, OnlyAppend DEF Queued
    <3>3. thread'.event = thread.event /\ stream' = stream
      BY <1>5, <2>6 DEF ThreadFails, ThreadFinishes, ThreadShape
    <3> QED BY <2>1, <3>2, <3>3 DEF InHand, OnWire
  <2> QED BY <2>3, <2>4, <2>5, <2>6 DEF ThreadStep
<1>11. InOrder' BY <1>2, <1>6, <1>9, <1>10 DEF Read, InOrder
<1> QED BY <1>1, <1>8, <1>11 DEF Read

\* The steps of the one who waits for the thread.
LEMMA WaiterReadsOn ==
  ASSUME WatchShaped, Read, command.mode = "smoke", command'.mode = command.mode,
         \/ StartWatcher \/ WaitOpen \/ WaitOpenTimesOut \/ Collect \/ CollectTimesOut \/ Decide
         \/ Close \/ Joined
         \/ reader.pc = "open" /\ UNCHANGED <<stream, thread>>
              /\ reader' \in {[reader EXCEPT !.pc = "collecting"], [reader EXCEPT !.pc = "closing"]}
         \/ reader.pc = "closed" /\ UNCHANGED <<stream, thread>>
              /\ reader' = [NewReader EXCEPT !.pc = "closed"]
  PROVE  WatchShaped' /\ Read'
<1>1. /\ reader \in ReaderShape /\ thread \in ThreadShape /\ stream \in StreamShape
      /\ reader.got \in Seq(SessionKinds) /\ reader.pending = <<>> /\ Kept = reader.got \o <<>>
  BY Zenon DEF WatchShaped, Read, ReadsAlone, ReaderShape, Kept
<1>2. Begins(Kept, Told) /\ (~thread.closed /\ reader.result # "raised"
                               => Fits(Kept, Queued, InHand, OnWire, Told))
  BY DEF Read, InOrder
<1>3. reader.result # "none" => reader.pc \in {"closing", "joining", "closed"}
  BY DEF Read, ReadsAlone
\* Nothing is read, and the thread told to stop at most.
<1>4. ASSUME stream' = stream, WatchShaped', ReadsAlone', reader'.got = reader.got,
             reader'.pending = <<>>, thread'.items = thread.items, thread'.event = thread.event,
             thread.closed => thread'.closed, reader.result = "raised" => reader'.result = "raised"
      PROVE  WatchShaped' /\ Read'
  <2>1. Kept' = Kept /\ Told' = Told /\ Queued' = Queued /\ InHand' = InHand /\ OnWire' = OnWire
    BY <1>1, <1>4 DEF Kept, Told, Queued, InHand, OnWire
  <2>2. InOrder' BY <1>2, <1>4, <2>1 DEF InOrder
  <2> QED BY <1>4, <2>2 DEF Read
<1>5. ASSUME NEW pc, reader' = [reader EXCEPT !.pc = pc], thread' = thread, stream' = stream,
             pc \in {"open", "collecting", "deciding", "closing"}, reader.pc \in {"opening", "open", "collecting"}
      PROVE  WatchShaped' /\ Read'
  <2>1. /\ reader' \in ReaderShape /\ reader'.got = reader.got /\ reader'.pending = <<>>
        /\ reader'.result = reader.result /\ reader'.pc = pc
    BY <1>1, <1>5, Zenon DEF ReaderShape
  <2>2. WatchShaped' BY <1>1, <1>5, <2>1 DEF WatchShaped, Holding
  <2>3. ReadsAlone' BY <1>3, <1>5, <2>1 DEF Read, ReadsAlone
  <2> QED BY <1>4, <1>5, <2>1, <2>2, <2>3
\* The result is given, and the watcher closed next.
<1>6. ASSUME NEW result \in Errors \cup {"not opened", "events", "timeout", "empty"},
             reader' = Leave(result), UNCHANGED <<stream, thread>>,
             reader.pc \in {"opening", "collecting", "deciding"}
      PROVE  WatchShaped' /\ Read'
  <2>1. /\ reader' \in ReaderShape /\ reader'.got = reader.got /\ reader'.pending = <<>>
        /\ reader'.pc = "closing"
    BY <1>1, <1>6, Zenon DEF ReaderShape, Leave
  <2>2. WatchShaped' BY <1>1, <1>6, <2>1, Zenon DEF WatchShaped, Holding
  <2>3. ReadsAlone' BY <1>3, <1>6, <2>1, Zenon DEF Read, ReadsAlone
  <2> QED BY <1>3, <1>4, <1>6, <2>1, <2>2, <2>3, Zenon
<1>7. CASE StartWatcher
  <2>1. /\ reader' = [reader EXCEPT !.pc = "opening"] /\ thread' = [thread EXCEPT !.pc = "opening"]
        /\ stream' = stream /\ reader.pc = "idle"
    BY <1>7 DEF StartWatcher, Reader
  <2>2. /\ reader' \in ReaderShape /\ reader'.got = reader.got /\ reader'.pending = <<>>
        /\ reader'.result = reader.result /\ reader'.pc = "opening"
    BY <1>1, <2>1, Zenon DEF ReaderShape
  <2>3. /\ thread' \in ThreadShape /\ thread'.items = thread.items /\ thread'.event = thread.event
        /\ thread'.closed = thread.closed /\ thread'.pc = "opening"
    BY <1>1, <2>1 DEF ThreadShape
  <2>4. ~thread.closed /\ reader.result = "none" BY <2>1 DEF Read, ReadsAlone, NewReader
  <2>5. thread.event = "none" BY <2>1 DEF Read, ReadsAlone, NewThread
  <2>6. WatchShaped' BY <1>1, <2>1, <2>2, <2>3, <2>5 DEF WatchShaped, Holding
  <2>7. ReadsAlone' BY <2>2, <2>3, <2>4 DEF Read, ReadsAlone
  <2> QED BY <1>4, <2>1, <2>2, <2>3, <2>6, <2>7
<1>8. CASE WaitOpen BY <1>5, <1>8 DEF WaitOpen, Reader
<1>9. CASE WaitOpenTimesOut
  <2>1. FirstError # <<>> => Head(FirstError) \in Errors
    <3>1. FirstError \in Seq(Items \cap Errors) BY Shapes, OnlyTyped DEF FirstError
    <3> QED BY <3>1
  <2> DEFINE result == IF FirstError = <<>> THEN "not opened" ELSE Head(FirstError)
  <2>2. result \in Errors \cup {"not opened"} BY <2>1, Zenon
  <2>3. reader' = Leave(result) /\ UNCHANGED <<stream, thread>> /\ reader.pc = "opening"
    BY <1>9, Zenon DEF WaitOpenTimesOut, Reader
  <2> HIDE DEF result
  <2> QED BY <1>6, <2>2, <2>3, Zenon
<1>10. CASE Collect
  <2> DEFINE item == Head(thread.items)
             more == [reader EXCEPT !.got = Append(@, item)]
             rest == Tail(thread.items)
  <2>1. /\ reader.pc = "collecting" /\ thread.items # <<>> /\ stream' = stream
        /\ thread' = [thread EXCEPT !.items = rest]
        /\ reader' = IF item \in Errors THEN Leave(item)
                     ELSE IF item = "finished" THEN [reader EXCEPT !.pc = "deciding"]
                     ELSE IF IsTerminal(item) \/ Len(more.got) = EventLimit
                       THEN [more EXCEPT !.pc = "deciding"]
                     ELSE more
    BY <1>10 DEF Collect, Reader
  <2>2. thread.items \in Seq(Items) BY Shapes
  <2>3. item \in Items /\ rest \in Seq(Items) BY <2>1, <2>2
  <2>4. Queued = IF item \in Kinds THEN <<item>> \o Only(rest, Kinds) ELSE Only(rest, Kinds)
    BY <2>1, <2>2, OnlyHead DEF Queued
  <2>5. ~thread.closed /\ reader.result = "none" BY <1>3, <2>1 DEF Read, ReadsAlone
  <2>6. Fits(Kept, Queued, InHand, OnWire, Told) BY <1>2, <2>5
  <2> HIDE DEF item, rest
  <2>7. /\ thread' \in ThreadShape /\ thread'.items = rest /\ thread'.event = thread.event
        /\ thread'.closed = thread.closed /\ thread'.pc = thread.pc /\ thread'.error = thread.error
    BY <1>1, <2>1, <2>3 DEF ThreadShape
  <2>8. Queued' = Only(rest, Kinds) /\ InHand' = InHand /\ OnWire' = OnWire /\ Told' = Told
    BY <2>1, <2>7 DEF Queued, InHand, OnWire, Told
  <2>9. Queued' \in Seq(SessionKinds)
    <3>1. Only(rest, Kinds) \in Seq(Items \cap Kinds) BY <2>3, OnlyTyped
    <3> QED BY <2>8, <3>1, KindsAre
  <2>10. ASSUME NEW got \in Seq(SessionKinds), NEW pc \in {"collecting", "deciding", "closing"},
                reader'.got = got, reader'.pc = pc, reader' \in ReaderShape,
                reader'.pending = <<>>, pc = "closing" \/ reader'.result = "none",
                Fits(got \o <<>>, Queued', InHand, OnWire, Told)
         PROVE  WatchShaped' /\ Read'
    <3>1. WatchShaped' BY <1>1, <2>1, <2>7, <2>10 DEF WatchShaped, Holding
    <3>2. ReadsAlone' BY <2>5, <2>7, <2>10 DEF Read, ReadsAlone
    <3>3. Kept' = got \o <<>> BY <2>10 DEF Kept
    <3>4. InOrder' BY <2>8, <2>10, <3>3, FitsBegins DEF InOrder
    <3> QED BY <3>1, <3>2, <3>4 DEF Read
  <2>11. CASE item \in Kinds
    <3>1. item \in SessionKinds /\ item \notin Errors /\ item # "finished"
      BY <2>3, <2>11, KindsAre
    <3> DEFINE got == Append(reader.got, item)
    <3>2. got \in Seq(SessionKinds) /\ got \o <<>> = Append(Kept, item) BY <1>1, <3>1
    <3>3. Fits(Append(Kept, item), Queued', InHand, OnWire, Told)
      BY <2>4, <2>6, <2>8, <2>9, <2>11, <3>1, FitsCollect
    <3>4. more = [reader EXCEPT !.got = got] OBVIOUS
    <3> HIDE DEF got, more
    <3>5. reader' \in {more, [more EXCEPT !.pc = "deciding"]} BY <2>1, <3>1
    <3>6. /\ reader' \in ReaderShape /\ reader'.got = got /\ reader'.pc \in {"collecting", "deciding"}
          /\ reader'.pending = <<>> /\ reader'.result = "none"
      BY <1>1, <2>1, <2>5, <3>2, <3>4, <3>5, Zenon DEF ReaderShape
    <3> QED BY <2>10, <3>2, <3>3, <3>6
  <2>12. CASE item \notin Kinds
    <3>1. item \in Errors \/ item = "finished" BY <2>3, <2>12, KindsAre DEF Items
    <3>3. Fits(reader.got \o <<>>, Queued', InHand, OnWire, Told) BY <1>1, <2>4, <2>6, <2>8, <2>12
    <3>4. CASE item \in Errors
      <4>1. reader' = [reader EXCEPT !.pc = "closing", !.result = item]
        BY <2>1, <3>4 DEF Leave
      <4>2. /\ reader' \in ReaderShape /\ reader'.got = reader.got /\ reader'.pc = "closing"
            /\ reader'.pending = <<>>
        BY <1>1, <3>4, <4>1, Zenon DEF ReaderShape
      <4> QED BY <1>1, <2>10, <3>3, <4>2
    <3>5. CASE item \notin Errors
      <4>1. reader' = [reader EXCEPT !.pc = "deciding"] BY <2>1, <3>1, <3>5
      <4>2. /\ reader' \in ReaderShape /\ reader'.got = reader.got /\ reader'.pc = "deciding"
            /\ reader'.pending = <<>> /\ reader'.result = "none"
        BY <1>1, <2>5, <4>1, Zenon DEF ReaderShape
      <4> QED BY <1>1, <2>10, <3>3, <4>2
    <3> QED BY <3>4, <3>5
  <2> QED BY <2>11, <2>12
<1>11. CASE CollectTimesOut BY <1>5, <1>11 DEF CollectTimesOut, Reader
<1>12. CASE Decide
  <2> DEFINE result == IF reader.got # <<>> THEN "events"
                       ELSE IF thread.pc # "ended" THEN "timeout" ELSE "empty"
  <2>1. result \in {"events", "timeout", "empty"} OBVIOUS
  <2>2. reader' = Leave(result) /\ UNCHANGED <<stream, thread>> /\ reader.pc = "deciding"
    BY <1>12 DEF Decide, Reader
  <2> HIDE DEF result
  <2> QED BY <1>6, <2>1, <2>2, Zenon
<1>13. CASE Close
  <2>1. /\ reader' = [reader EXCEPT !.pc = "joining"] /\ thread' = [thread EXCEPT !.closed = TRUE]
        /\ stream' = stream /\ reader.pc = "closing"
    BY <1>13 DEF Close, Reader
  <2>2. /\ reader' \in ReaderShape /\ reader'.got = reader.got /\ reader'.pending = <<>>
        /\ reader'.result = reader.result /\ reader'.pc = "joining"
    BY <1>1, <2>1, Zenon DEF ReaderShape
  <2>3. /\ thread' \in ThreadShape /\ thread'.items = thread.items /\ thread'.event = thread.event
        /\ thread'.closed /\ thread'.pc = thread.pc /\ thread'.error = thread.error
    BY <1>1, <2>1 DEF ThreadShape
  <2>4. WatchShaped' BY <1>1, <2>1, <2>2, <2>3 DEF WatchShaped, Holding
  <2>5. ReadsAlone' BY <2>2, <2>3 DEF Read, ReadsAlone
  <2> QED BY <1>4, <2>1, <2>2, <2>3, <2>4, <2>5
<1>14. CASE Joined
  <2>1. reader' = [reader EXCEPT !.pc = "closed"] /\ UNCHANGED <<stream, thread>> /\ reader.pc = "joining"
    BY <1>14 DEF Joined, Reader
  <2>2. /\ reader' \in ReaderShape /\ reader'.got = reader.got /\ reader'.pending = <<>>
        /\ reader'.result = reader.result /\ reader'.pc = "closed"
    BY <1>1, <2>1, Zenon DEF ReaderShape
  <2>3. WatchShaped' BY <1>1, <2>1, <2>2 DEF WatchShaped, Holding
  <2>4. ReadsAlone' BY <2>1, <2>2 DEF Read, ReadsAlone
  <2> QED BY <1>4, <2>1, <2>2, <2>3, <2>4
<1>15. CASE reader.pc = "open" /\ UNCHANGED <<stream, thread>>
            /\ reader' \in {[reader EXCEPT !.pc = "collecting"], [reader EXCEPT !.pc = "closing"]}
  BY <1>5, <1>15
<1>16. CASE reader.pc = "closed" /\ UNCHANGED <<stream, thread>>
            /\ reader' = [NewReader EXCEPT !.pc = "closed"]
  <2>1. /\ reader' \in ReaderShape /\ reader'.got = <<>> /\ reader'.pending = <<>>
        /\ reader'.result = "none" /\ reader'.pc = "closed"
    <3>1. <<>> \in Seq(SessionKinds) /\ <<>> \in Seq(SessionKinds \cap {"text"}) OBVIOUS
    <3> QED BY <1>16, <3>1, Zenon DEF NewReader, ReaderShape
  <2>2. WatchShaped' BY <1>1, <1>16, <2>1 DEF WatchShaped, Holding
  <2>3. thread.closed BY <1>16 DEF Read, ReadsAlone
  <2>4. ReadsAlone' BY <1>16, <2>1, <2>3 DEF Read, ReadsAlone
  <2>5. Told' = Told BY <1>16 DEF Told
  <2>6. Kept' = <<>> BY <2>1 DEF Kept
  <2>7. Begins(<<>>, Told)
    <3>1. Told \in Seq(SessionKinds) BY PartsAre
    <3>2. <<>> \o Told = Told BY <3>1
    <3> QED BY <3>1, <3>2 DEF Begins
  <2>8. InOrder' BY <1>16, <2>1, <2>3, <2>5, <2>6, <2>7 DEF InOrder
  <2> QED BY <2>2, <2>4, <2>8 DEF Read
<1> QED BY <1>7, <1>8, <1>9, <1>10, <1>11, <1>12, <1>13, <1>14, <1>15, <1>16

\* A text that is shown at once may be shown before the texts that wait.
LEMMA TextsAlike ==
  ASSUME NEW p \in Seq(SessionKinds \cap {"text"})
  PROVE  /\ p \in Seq(SessionKinds)
         /\ \A g \in Seq(SessionKinds) : "text" \in SessionKinds =>
              Append(g, "text") \o p = Append(g \o p, "text")
<1>1. p \in Seq(SessionKinds) /\ \A i \in 1 .. Len(p) : p[i] = "text" OBVIOUS
<1>2. ASSUME NEW g \in Seq(SessionKinds), "text" \in SessionKinds
      PROVE  Append(g, "text") \o p = Append(g \o p, "text")
  <2> DEFINE a == Append(g, "text") \o p
             b == Append(g \o p, "text")
  <2>1. a \in Seq(SessionKinds) /\ b \in Seq(SessionKinds) BY <1>1, <1>2
  <2>2. Len(a) = Len(g) + 1 + Len(p) /\ Len(b) = Len(g) + Len(p) + 1 BY <1>1, <1>2
  <2>3. ASSUME NEW i \in 1 .. Len(a) PROVE a[i] = b[i]
    <3>1. CASE i <= Len(g) BY <1>1, <1>2, <3>1
    <3>2. CASE i > Len(g)
      <4>1. b[i] = "text" BY <1>1, <1>2, <2>2, <3>2
      <4>2. a[i] = "text" BY <1>1, <1>2, <2>2, <3>2
      <4> QED BY <4>1, <4>2
    <3> QED BY <3>1, <3>2
  <2>4. Len(a) = Len(b) BY <1>1, <2>2
  <2> HIDE DEF a, b
  <2> QED BY <2>1, <2>3, <2>4, SeqEqual
<1> QED BY <1>1, <1>2

LEMMA FlushShape ==
  ASSUME NEW r \in ReaderShape
  PROVE  /\ Flush(r) \in ReaderShape /\ Flush(r).got = r.got \o r.pending
         /\ Flush(r).pending = <<>> /\ Flush(r).pc = r.pc /\ Flush(r).result = r.result
         /\ r.got \in Seq(SessionKinds) /\ r.pending \in Seq(SessionKinds)
         /\ r.pending \in Seq(SessionKinds \cap {"text"})
<1> DEFINE g == r.got
           p == r.pending
           k == g \o p
<1>1. g \in Seq(SessionKinds) /\ p \in Seq(SessionKinds \cap {"text"})
  BY Zenon DEF ReaderShape
<1> HIDE DEF g, p
<1>2. p \in Seq(SessionKinds) BY <1>1
<1>3. k \in Seq(SessionKinds) /\ <<>> \in Seq(SessionKinds \cap {"text"}) BY <1>1, <1>2
<1>4. Flush(r) = [r EXCEPT !.got = k, !.pending = <<>>] BY DEF Flush, g, p
<1> HIDE DEF k
<1> QED BY <1>1, <1>2, <1>3, <1>4, Zenon DEF ReaderShape, g, p, k

\* What watch makes of an event has it after all that came before.
LEMMA WatchedShape ==
  ASSUME reader \in ReaderShape, reader.result = "none", reader.pc = "reading",
         NEW e \in SessionKinds, NEW r \in Watched(e)
  PROVE  /\ r \in ReaderShape /\ r.got \o r.pending = Append(Kept, e)
         /\ r.pc = "closed" => r.pending = <<>>
         /\ r.pc \in {"reading", "closed"} /\ (r.result # "none" => r.pc = "closed")
         /\ r.result \notin {"raised", "executed"}
<1> DEFINE g == reader.got
           p == reader.pending
<1>1. /\ g \in Seq(SessionKinds) /\ p \in Seq(SessionKinds) /\ p \in Seq(SessionKinds \cap {"text"})
      /\ Kept = g \o p
  BY FlushShape DEF Kept
<1>2. ASSUME NEW q \in Emit(e)
      PROVE  /\ q \in ReaderShape /\ q.got \o q.pending = Append(Kept, e)
             /\ q.pc = "reading" /\ q.result = "none"
  <2>1. CASE e = "text" /\ q = [reader EXCEPT !.pending = Append(p, e)]
    <3> DEFINE p2 == Append(p, e)
    <3>1. p2 \in Seq(SessionKinds \cap {"text"}) /\ g \o p2 = Append(g \o p, e)
      <4> HIDE DEF g, p
      <4>1. p2 \in Seq(SessionKinds \cap {"text"}) BY <1>1, <2>1
      <4>2. g \o p2 = Append(g \o p, e) BY <1>1
      <4> QED BY <4>1, <4>2
    <3>2. q = [reader EXCEPT !.pending = p2] BY <2>1
    <3> HIDE DEF p2
    <3>3. q \in ReaderShape /\ q.got = g /\ q.pending = p2 /\ q.pc = "reading" /\ q.result = "none"
      BY <3>1, <3>2, Zenon DEF ReaderShape
    <3> QED BY <1>1, <3>1, <3>3
  <2>2. CASE e = "text" /\ q = [Flush(reader) EXCEPT !.pending = <<e>>]
    <3>1. PICK f \in ReaderShape : f = Flush(reader) /\ f.got = g \o p /\ f.pc = "reading"
                                     /\ f.result = "none"
      BY FlushShape
    <3>2. <<e>> \in Seq(SessionKinds \cap {"text"}) BY <2>2
    <3>3. q \in ReaderShape /\ q.got = g \o p /\ q.pending = <<e>> /\ q.pc = "reading"
          /\ q.result = "none"
      <4>1. q = [f EXCEPT !.pending = <<e>>] BY <2>2, <3>1
      <4> QED BY <3>1, <3>2, <4>1, Zenon DEF ReaderShape
    <3> DEFINE k == g \o p
    <3>4. k \in Seq(SessionKinds) BY <1>1
    <3> HIDE DEF k
    <3>5. k \o <<e>> = Append(k, e) BY <3>4
    <3> QED BY <1>1, <3>3, <3>5 DEF k
  <2>3. CASE e = "text" /\ q = Show(reader, e)
    <3> DEFINE g2 == Append(g, e)
    <3>1. g2 \in Seq(SessionKinds) BY <1>1
    <3>2. q = [reader EXCEPT !.got = g2] BY <2>3 DEF Show
    <3>3. g2 \o p = Append(g \o p, e) BY <1>1, <2>3, TextsAlike
    <3> HIDE DEF g2
    <3>4. q \in ReaderShape /\ q.got = g2 /\ q.pending = p /\ q.pc = "reading" /\ q.result = "none"
      BY <3>1, <3>2, Zenon DEF ReaderShape
    <3> QED BY <1>1, <3>3, <3>4
  <2>4. CASE e # "text" /\ q = Show(Flush(reader), e)
    <3> DEFINE k == g \o p
               g2 == Append(k, e)
    <3>1. k \in Seq(SessionKinds) BY <1>1
    <3>2. PICK f \in ReaderShape : f = Flush(reader) /\ f.got = k /\ f.pending = <<>>
                                     /\ f.pc = "reading" /\ f.result = "none"
      BY FlushShape
    <3>3. q = [f EXCEPT !.got = g2] BY <2>4, <3>2 DEF Show
    <3> HIDE DEF k
    <3>4. g2 \in Seq(SessionKinds) /\ g2 \o <<>> = g2 BY <3>1
    <3> HIDE DEF g2
    <3>5. q \in ReaderShape /\ q.got = g2 /\ q.pending = <<>> /\ q.pc = "reading" /\ q.result = "none"
      BY <3>2, <3>3, <3>4, Zenon DEF ReaderShape
    <3> QED BY <1>1, <3>4, <3>5 DEF g2, k
  <2> QED BY <2>1, <2>2, <2>3, <2>4 DEF Emit
<1>3. PICK q \in Emit(e) :
        r = IF IsTerminal(e) THEN [Flush(q) EXCEPT !.pc = "closed", !.result = e] ELSE q
  BY Zenon DEF Watched
<1> HIDE DEF g, p
<1>4. CASE IsTerminal(e)
  <2>1. e \in {"done", "prompt", "failed", "aborted"} BY <1>4 DEF IsTerminal
  <2>2. PICK f \in ReaderShape : f = Flush(q) /\ f.got = q.got \o q.pending /\ f.pending = <<>>
    BY <1>2, FlushShape
  <2>3. r = [f EXCEPT !.pc = "closed", !.result = e] BY <1>3, <1>4, <2>2
  <2>4. r \in ReaderShape /\ r.got = f.got /\ r.pending = <<>> /\ r.pc = "closed" /\ r.result = e
    BY <2>1, <2>2, <2>3, KindsAre, Zenon DEF ReaderShape
  <2> DEFINE k == f.got
  <2>5. k \in Seq(SessionKinds) BY Zenon DEF ReaderShape
  <2> HIDE DEF k
  <2>6. k \o <<>> = k BY <2>5
  <2> QED BY <1>2, <2>1, <2>2, <2>4, <2>6 DEF k
<1>5. CASE ~IsTerminal(e) BY <1>2, <1>3, <1>5
<1> QED BY <1>4, <1>5

\* What live_validate makes of it.
LEMMA ObservedShape ==
  ASSUME reader \in ReaderShape, reader.result = "none", reader.pc = "reading",
         reader.pending = <<>>, NEW e \in SessionKinds, NEW r \in Observe(e)
  PROVE  /\ r \in ReaderShape /\ r.got \o r.pending = Append(Kept, e) /\ r.pending = <<>>
         /\ r.pc \in {"reading", "closed"} /\ (r.result # "none" => r.pc = "closed")
         /\ r.result # "raised" /\ (r.result = "executed" => IsExecution(e))
<1> DEFINE g == reader.got
           g2 == Append(g, e)
           seen == [reader EXCEPT !.got = g2]
<1>1. g \in Seq(SessionKinds) BY Zenon DEF ReaderShape
<1>2. Kept = g \o <<>> BY DEF Kept
<1>3. r = IF IsExecution(e) THEN [seen EXCEPT !.pc = "closed", !.result = "executed"]
          ELSE IF IsTerminal(e) THEN [seen EXCEPT !.pc = "closed", !.result = "end"]
          ELSE seen
  BY DEF Observe
<1> HIDE DEF g
<1>4. g2 \in Seq(SessionKinds) /\ g2 \o <<>> = Append(g \o <<>>, e) BY <1>1
<1> HIDE DEF g2
<1>5. r \in ReaderShape /\ r.got = g2 /\ r.pending = <<>> /\ r.pc \in {"reading", "closed"}
      /\ (r.result # "none" => r.pc = "closed") /\ r.result # "raised"
      /\ (r.result = "executed" => IsExecution(e))
  BY <1>3, <1>4, Zenon DEF ReaderShape
<1> QED BY <1>2, <1>4, <1>5

\* The steps of one who reads the stream himself.
LEMMA ForegroundReadsOn ==
  ASSUME WatchShaped, Read, command.mode \in {"live_validate", "watch"},
         command'.mode = command.mode,
         \/ ForegroundOpens
         \/ command.mode = "live_validate" /\ ForegroundReads([e \in AllKinds |-> Observe(e)])
         \/ command.mode = "watch" /\ ForegroundReads([e \in AllKinds |-> Watched(e)])
         \/ command.mode = "live_validate" /\ ForegroundEnds(Ended("end"))
         \/ command.mode = "watch"
              /\ ForegroundEnds(IF stream.conn = "reset" THEN Ended("raised") ELSE Flush(Ended("end")))
         \/ command.mode = "live_validate" /\ ForegroundTimesOut(Ended("timeout"))
         \/ command.mode = "watch" /\ ForegroundTimesOut(Flush(Ended("timeout")))
  PROVE  /\ WatchShaped' /\ Read'
         /\ reader'.result = "executed" =>
              reader.result = "executed"
                \/ (stream.wire # <<>> /\ IsExecution(Head(stream.wire)))
         /\ stream'.wire = stream.wire
              \/ (stream.wire # <<>> /\ stream'.wire = Tail(stream.wire))
<1>1. /\ reader \in ReaderShape /\ thread \in ThreadShape /\ stream \in StreamShape
      /\ thread = NewThread /\ Holding
      /\ command.mode = "live_validate" => reader.pending = <<>>
  BY DEF WatchShaped, Read, ReadsAlone
<1>2. Queued = <<>> /\ InHand = <<>> BY <1>1, OnlyEmpty DEF Queued, InHand, NewThread
<1>3. Begins(Kept, Told) BY DEF Read, InOrder
<1>4. reader.result = "none" => Fits(Kept, <<>>, <<>>, OnWire, Told)
  BY <1>1, <1>2 DEF Read, InOrder, NewThread
<1>5. reader.pc \in {"idle", "reading"} => reader.result = "none" BY DEF Read, ReadsAlone
<1>6. ASSUME thread' = thread, stream' \in StreamShape, reader' \in ReaderShape,
             reader'.pc \in {"reading", "closed"}, reader'.result # "none" => reader'.pc = "closed",
             command.mode = "live_validate" => reader'.pending = <<>>,
             reader'.pc = "closed" /\ reader'.result # "raised" => reader'.pending = <<>>,
             Begins(Kept', Told'),
             reader'.result # "raised" => Fits(Kept', <<>>, <<>>, OnWire', Told')
      PROVE  WatchShaped' /\ Read'
  <2>1. WatchShaped' BY <1>1, <1>6 DEF WatchShaped, Holding
  <2>2. ReadsAlone' BY <1>1, <1>6 DEF ReadsAlone, NewThread
  <2>3. Queued' = <<>> /\ InHand' = <<>> BY <1>2, <1>6 DEF Queued, InHand
  <2>4. InOrder' BY <1>6, <2>3 DEF InOrder
  <2> QED BY <2>1, <2>2, <2>4 DEF Read
\* The reading is over; what was waiting is shown unless it broke.
<1>7. ASSUME NEW r \in ReaderShape, NEW result \in Errors \cup {"end", "timeout"},
             reader' = [r EXCEPT !.pc = "closed", !.result = result],
             reader.pc \in {"idle", "reading"},
             r = reader \/ r = Flush(reader),
             command.mode = "watch" /\ result # "raised" /\ reader.pc # "idle" => r = Flush(reader),
             thread' = thread, stream' = stream
      PROVE  /\ WatchShaped' /\ Read' /\ reader'.result # "executed"
  <2>1. /\ reader' \in ReaderShape /\ reader'.got = r.got /\ reader'.pending = r.pending
        /\ reader'.pc = "closed" /\ reader'.result = result
    BY <1>7, Zenon DEF ReaderShape, Errors
  <2>2. /\ Flush(reader).got = Kept /\ Flush(reader).pending = <<>> /\ Kept \in Seq(SessionKinds)
        /\ Kept = reader.got \o reader.pending
    BY <1>1, FlushShape, PartsAre DEF Kept
  <2>3. Kept' = Kept
    <3>1. Kept' = r.got \o r.pending BY <2>1 DEF Kept
    <3>2. CASE r = reader BY <2>2, <3>1, <3>2
    <3>3. CASE r = Flush(reader)
      <4> DEFINE k == Kept
      <4>1. k \in Seq(SessionKinds) /\ Kept' = k \o <<>> BY <2>2, <3>1, <3>3
      <4> HIDE DEF k
      <4>2. k \o <<>> = k BY <4>1
      <4> QED BY <4>1, <4>2 DEF k
    <3> QED BY <1>7, <3>2, <3>3
  <2>4. command.mode = "live_validate" => r.pending = <<>> BY <1>1, <1>7, <2>2
  <2>5. result # "raised" => r.pending = <<>>
    <3>1. reader.pc = "idle" => reader.pending = <<>> BY DEF Read, ReadsAlone, NewReader
    <3> QED BY <1>7, <2>2, <2>4, <3>1
  <2>6. Told' = Told /\ OnWire' = OnWire BY <1>7 DEF Told, OnWire
  <2> QED BY <1>1, <1>3, <1>4, <1>5, <1>6, <1>7, <2>1, <2>3, <2>4, <2>5, <2>6 DEF Errors
<1>8. /\ Ended("end") = [reader EXCEPT !.pc = "closed", !.result = "end"]
      /\ Ended("timeout") = [reader EXCEPT !.pc = "closed", !.result = "timeout"]
      /\ Ended("raised") = [reader EXCEPT !.pc = "closed", !.result = "raised"]
      /\ \A error \in Errors : Ended(error) = [reader EXCEPT !.pc = "closed", !.result = error]
  BY DEF Ended
<1>9. CASE ForegroundOpens
  <2>1. reader.pc = "idle" /\ reader = NewReader /\ thread' = thread
    BY <1>9 DEF ForegroundOpens, Read, ReadsAlone
  <2>2. CASE stream' = [stream EXCEPT !.conn = "open"] /\ reader' = [reader EXCEPT !.pc = "reading"]
    <3>1. stream' \in StreamShape /\ stream'.sent = stream.sent /\ stream'.wire = stream.wire
      BY <1>1, <2>2 DEF StreamShape
    <3>2. /\ reader' \in ReaderShape /\ reader'.got = reader.got /\ reader'.pending = reader.pending
          /\ reader'.pc = "reading" /\ reader'.result = reader.result
      BY <1>1, <2>2, Zenon DEF ReaderShape
    <3>3. Kept' = Kept /\ Told' = Told /\ OnWire' = OnWire BY <3>1, <3>2 DEF Kept, Told, OnWire
    <3> QED BY <1>1, <1>3, <1>4, <1>5, <1>6, <2>1, <3>1, <3>2, <3>3
  <2>3. ASSUME NEW error \in Errors, Reader(Ended(error))
        PROVE  WatchShaped' /\ Read' /\ reader'.result # "executed" /\ stream' = stream
    <3>1. reader' = [reader EXCEPT !.pc = "closed", !.result = error] /\ stream' = stream
      BY <1>8, <2>3, Zenon DEF Reader
    <3> QED BY <1>1, <1>7, <2>1, <3>1, Zenon
  <2> QED BY <1>9, <2>2, <2>3 DEF ForegroundOpens
<1>10. CASE \E used : ForegroundReads(used)
                 /\ \/ command.mode = "live_validate" /\ used = [e \in AllKinds |-> Observe(e)]
                    \/ command.mode = "watch" /\ used = [e \in AllKinds |-> Watched(e)]
  <2> DEFINE e == Head(stream.wire)
  <2>1. PICK used :
          /\ \/ command.mode = "live_validate" /\ used = [d \in AllKinds |-> Observe(d)]
             \/ command.mode = "watch" /\ used = [d \in AllKinds |-> Watched(d)]
          /\ reader.pc = "reading" /\ stream.wire # <<>> /\ thread' = thread
          /\ stream' = [stream EXCEPT !.wire = Tail(@)]
          /\ IF ~IsOfSession(e) THEN reader' = reader ELSE reader' \in used[e]
    BY <1>10 DEF ForegroundReads, Silent
  <2>2. stream.wire \in Seq(Kinds) BY Shapes DEF WatchShaped
  <2>3. stream' \in StreamShape /\ stream'.wire = Tail(stream.wire) /\ stream'.sent = stream.sent
    <3> DEFINE t == Tail(stream.wire)
    <3>1. t \in Seq(Kinds) BY <2>1, <2>2
    <3>2. stream' = [stream EXCEPT !.wire = t] BY <2>1
    <3> HIDE DEF t
    <3> QED BY <1>1, <3>1, <3>2 DEF StreamShape, t
  <2>4. e \in Kinds /\ OnWire' \in Seq(SessionKinds)
        /\ OnWire = IF e \in SessionKinds THEN <<e>> \o OnWire' ELSE OnWire'
    BY <2>1, <2>3, WireHead
  <2>5. e \in AllKinds /\ (IsOfSession(e) <=> e \in SessionKinds) BY <2>4, KindsAre DEF SessionKinds
  <2>6. reader.result = "none" /\ Fits(Kept, <<>>, <<>>, OnWire, Told) /\ Told' = Told
    BY <1>4, <1>5, <2>1, <2>3 DEF Told
  <2> HIDE DEF e
  <2>7. CASE e \notin SessionKinds
    <3>1. reader' = reader BY <2>1, <2>5, <2>7
    <3>2. Kept' = Kept /\ OnWire' = OnWire BY <2>4, <2>7, <3>1 DEF Kept
    <3> QED BY <1>1, <1>3, <1>6, <2>1, <2>3, <2>6, <2>7, <3>1, <3>2
  <2>8. CASE e \in SessionKinds
    <3>1. /\ reader' \in ReaderShape /\ reader'.got \o reader'.pending = Append(Kept, e)
          /\ reader'.pc = "closed" => reader'.pending = <<>>
          /\ reader'.pc \in {"reading", "closed"} /\ (reader'.result # "none" => reader'.pc = "closed")
          /\ reader'.result # "raised" /\ (reader'.result = "executed" => IsExecution(e))
          /\ command.mode = "live_validate" => reader'.pending = <<>>
      <4>1. CASE command.mode = "live_validate"
        <5>1. reader' \in Observe(e) BY <2>1, <2>5, <2>8, <4>1
        <5> QED BY <1>1, <2>1, <2>6, <2>8, <4>1, <5>1, ObservedShape
      <4>2. CASE command.mode = "watch"
        <5>1. reader' \in Watched(e) BY <2>1, <2>5, <2>8, <4>2
        <5> QED BY <1>1, <2>1, <2>6, <2>8, <4>2, <5>1, WatchedShape
      <4> QED BY <4>1, <4>2
    <3>2. Kept' = Append(Kept, e) BY <3>1 DEF Kept
    <3>3. Fits(Kept', <<>>, <<>>, OnWire', Told) BY <2>4, <2>6, <2>8, <3>2, FitsRead
    <3>4. Begins(Kept', Told) BY <3>3, FitsBegins
    <3> QED BY <1>1, <1>6, <2>1, <2>3, <2>6, <2>8, <3>1, <3>3, <3>4 DEF e
  <2> QED BY <2>7, <2>8
<1>11. ASSUME NEW x, NEW y
       PROVE  /\ [Ended(y) EXCEPT !.result = x] = [reader EXCEPT !.pc = "closed", !.result = x]
              /\ [Flush(Ended(y)) EXCEPT !.result = x]
                   = [Flush(reader) EXCEPT !.pc = "closed", !.result = x]
  BY <1>1, Zenon DEF Ended, Flush, ReaderShape
<1>12. Flush(reader) \in ReaderShape BY <1>1, FlushShape
<1>13. CASE command.mode = "live_validate" /\ ForegroundEnds(Ended("end"))
  <2>1. PICK result \in Errors \cup {"end"} : reader' = [Ended("end") EXCEPT !.result = result]
    BY <1>13 DEF ForegroundEnds, Reader, Error, Errors
  <2>2. reader.pc = "reading" /\ thread' = thread /\ stream' = stream
    BY <1>13 DEF ForegroundEnds, Reader
  <2> QED BY <1>1, <1>7, <1>11, <1>13, <2>1, <2>2, Zenon
<1>14. CASE command.mode = "watch"
            /\ ForegroundEnds(IF stream.conn = "reset" THEN Ended("raised") ELSE Flush(Ended("end")))
  <2>1. reader.pc = "reading" /\ thread' = thread /\ stream' = stream
    BY <1>14 DEF ForegroundEnds, Reader
  <2>2. CASE stream.conn = "reset"
    <3>1. reader' = [Ended("raised") EXCEPT !.result = "raised"]
      BY <1>14, <2>2 DEF ForegroundEnds, Reader, Error
    <3>2. "raised" \in Errors BY DEF Errors
    <3> QED BY <1>1, <1>7, <1>11, <2>1, <3>1, <3>2, Zenon
  <2>3. CASE stream.conn # "reset"
    <3>1. PICK result \in {"api", "end"} : reader' = [Flush(Ended("end")) EXCEPT !.result = result]
      BY <1>14, <2>3 DEF ForegroundEnds, Reader, Error
    <3>2. result \in Errors \cup {"end", "timeout"} BY DEF Errors
    <3> QED BY <1>7, <1>11, <1>12, <2>1, <3>1, <3>2, Zenon
  <2> QED BY <2>2, <2>3
<1>15. CASE command.mode = "live_validate" /\ ForegroundTimesOut(Ended("timeout"))
  <2>1. /\ reader' = [Ended("timeout") EXCEPT !.result = "timeout"]
        /\ reader.pc \in {"idle", "reading"} /\ thread' = thread /\ stream' = stream
    BY <1>15 DEF ForegroundTimesOut, Reader
  <2> QED BY <1>1, <1>7, <1>11, <1>15, <2>1, Zenon
<1>16. CASE command.mode = "watch" /\ ForegroundTimesOut(Flush(Ended("timeout")))
  <2>1. /\ reader' = [Flush(Ended("timeout")) EXCEPT !.result = "timeout"]
        /\ reader.pc \in {"idle", "reading"} /\ thread' = thread /\ stream' = stream
    BY <1>16 DEF ForegroundTimesOut, Reader
  <2> QED BY <1>7, <1>11, <1>12, <2>1, Zenon
<1> QED BY <1>9, <1>10, <1>13, <1>14, <1>15, <1>16

\* What the one who waits for the thread comes to is never an execution.
LEMMA WaiterResult ==
  ASSUME WatchShaped, reader'.result = "executed",
         StartWatcher \/ WaitOpen \/ WaitOpenTimesOut \/ Collect \/ CollectTimesOut \/ Decide
           \/ Close \/ Joined
  PROVE  reader.result = "executed" /\ stream' = stream
<1>1. reader \in ReaderShape /\ "executed" \notin Errors BY DEF WatchShaped, Errors
<1>2. CASE StartWatcher \/ WaitOpen \/ CollectTimesOut \/ Close \/ Joined
  BY <1>1, <1>2, Zenon
    DEF StartWatcher, WaitOpen, CollectTimesOut, Close, Joined, Reader, ReaderShape
<1>3. CASE WaitOpenTimesOut
  <2>1. FirstError # <<>> => Head(FirstError) \in Errors
    <3>1. FirstError \in Seq(Items \cap Errors) BY Shapes, OnlyTyped DEF FirstError
    <3> QED BY <3>1
  <2> DEFINE result == IF FirstError = <<>> THEN "not opened" ELSE Head(FirstError)
  <2>2. result # "executed" BY <1>1, <2>1
  <2>3. reader' = Leave(result) BY <1>3, Zenon DEF WaitOpenTimesOut, Reader
  <2> HIDE DEF result
  <2> QED BY <1>1, <2>2, <2>3, Zenon DEF Leave, ReaderShape
<1>4. CASE Collect
  <2> DEFINE item == Head(thread.items)
             more == [reader EXCEPT !.got = Append(@, item)]
  <2>1. /\ stream' = stream
        /\ reader' = IF item \in Errors THEN Leave(item)
                     ELSE IF item = "finished" THEN [reader EXCEPT !.pc = "deciding"]
                     ELSE IF IsTerminal(item) \/ Len(more.got) = EventLimit
                       THEN [more EXCEPT !.pc = "deciding"]
                     ELSE more
    BY <1>4 DEF Collect, Reader
  <2>2. more.result = reader.result /\ [more EXCEPT !.pc = "deciding"].result = reader.result
        /\ [reader EXCEPT !.pc = "deciding"].result = reader.result
        /\ (item \in Errors => Leave(item).result \in Errors)
    BY <1>1, Zenon DEF ReaderShape, Leave
  <2> HIDE DEF item, more
  <2> QED BY <1>1, <2>1, <2>2
<1>5. CASE Decide
  <2>1. PICK result \in {"events", "timeout", "empty"} : reader' = Leave(result)
    BY <1>5 DEF Decide, Reader
  <2> QED BY <1>1, <2>1, Zenon DEF Leave, ReaderShape
<1> QED BY <1>2, <1>3, <1>4, <1>5

\* What is on the wire and what was read of it tells of turns that have run.
WireTells ==
  /\ reader.result = "executed" => HasRun("steer")
  /\ (\E e \in Among(stream.wire) : IsExecution(e)) => HasRun("steer")

\* Every step keeps what is known of the events.
LEMMA ReadKept ==
  ASSUME Inv, Next
  PROVE  /\ WatchShaped' /\ Read'
         /\ reader'.result = "executed" => HasRun("steer")
         /\ (\E e \in Among(stream'.wire) : IsExecution(e)) => HasRun("steer")
<1>1. /\ WatchShaped /\ Read /\ WireTells /\ command'.mode = command.mode
      /\ stream \in StreamShape /\ stream.wire \in Seq(Kinds) /\ stream.sent \in Seq(Kinds)
  BY CommandSteps, Shapes DEF Inv, Shaped, WatchShaped, Known, WireTells, Onward
<1>2. ASSUME UNCHANGED watchVars PROVE WatchShaped' /\ Read'
  BY <1>1, <1>2 DEF watchVars, WatchShaped, Holding, Read, InOrder, ReadsAlone, Told, Kept, Queued,
                    InHand, OnWire
<1>3. ASSUME \/ stream'.wire = stream.wire
             \/ stream.wire # <<>> /\ stream'.wire = Tail(stream.wire)
      PROVE  (\E e \in Among(stream'.wire) : IsExecution(e)) => HasRun("steer")
  <2>1. stream.wire # <<>> => Among(Tail(stream.wire)) \subseteq Among(stream.wire)
    BY <1>1, AmongTail
  <2> QED BY <1>1, <1>3, <2>1 DEF WireTells
<1> DEFINE Goal ==
      /\ WatchShaped' /\ Read'
      /\ reader'.result = "executed" => HasRun("steer")
      /\ (\E e \in Among(stream'.wire) : IsExecution(e)) => HasRun("steer")
<1>4. ASSUME UNCHANGED watchVars PROVE Goal
  BY <1>1, <1>2, <1>3, <1>4 DEF watchVars, WireTells
<1>5. ASSUME command.mode = "smoke",
             StartWatcher \/ WaitOpen \/ WaitOpenTimesOut \/ Collect \/ CollectTimesOut \/ Decide
               \/ Close \/ Joined
      PROVE  Goal
  <2>1. WatchShaped' /\ Read' BY <1>1, <1>5, WaiterReadsOn
  <2>2. reader'.result = "executed" => reader.result = "executed" BY <1>1, <1>5, WaiterResult
  <2>3. stream' = stream
    BY <1>5, Zenon
      DEF StartWatcher, WaitOpen, WaitOpenTimesOut, Collect, CollectTimesOut, Decide, Close,
                Joined, Reader
  <2> QED BY <1>1, <1>3, <2>1, <2>2, <2>3 DEF WireTells
<1>6. CASE OpenWatcher BY <1>5, <1>6 DEF OpenWatcher, At
<1>7. CASE CollectEvents BY <1>5, <1>7 DEF CollectEvents, At
<1>8. CASE CloseWatcher BY <1>5, <1>8 DEF CloseWatcher, At
<1>9. CASE BeginCollect \/ CloseResources \/ Collected
  <2>1. /\ command.mode = "smoke" /\ UNCHANGED <<stream, thread>>
        /\ \/ reader.pc = "open"
                /\ reader' \in {[reader EXCEPT !.pc = "collecting"], [reader EXCEPT !.pc = "closing"]}
           \/ reader.pc = "closed" /\ reader' = [NewReader EXCEPT !.pc = "closed"]
    BY <1>9 DEF BeginCollect, CloseResources, Collected, Reader, At
  <2>2. WatchShaped' /\ Read' BY <1>1, <2>1, WaiterReadsOn
  <2>3. reader'.result = "executed" => reader.result = "executed"
    BY <1>1, <2>1, Zenon DEF WatchShaped, ReaderShape, NewReader
  <2> QED BY <1>1, <1>3, <2>1, <2>2, <2>3 DEF WireTells
<1>10. ASSUME \/ ObserveEvents \/ WatchEvents PROVE Goal
  <2>1. /\ command.mode \in {"live_validate", "watch"}
        /\ \/ ForegroundOpens
           \/ command.mode = "live_validate" /\ ForegroundReads([e \in AllKinds |-> Observe(e)])
           \/ command.mode = "watch" /\ ForegroundReads([e \in AllKinds |-> Watched(e)])
           \/ command.mode = "live_validate" /\ ForegroundEnds(Ended("end"))
           \/ command.mode = "watch"
                /\ ForegroundEnds(IF stream.conn = "reset" THEN Ended("raised") ELSE Flush(Ended("end")))
           \/ command.mode = "live_validate" /\ ForegroundTimesOut(Ended("timeout"))
           \/ command.mode = "watch" /\ ForegroundTimesOut(Flush(Ended("timeout")))
    BY <1>10 DEF ObserveEvents, WatchEvents, At
  <2>2. /\ WatchShaped' /\ Read'
        /\ reader'.result = "executed" =>
             reader.result = "executed"
               \/ (stream.wire # <<>> /\ IsExecution(Head(stream.wire)))
        /\ stream'.wire = stream.wire
             \/ (stream.wire # <<>> /\ stream'.wire = Tail(stream.wire))
    BY <1>1, <2>1, ForegroundReadsOn
  <2>3. stream.wire # <<>> => Head(stream.wire) \in Among(stream.wire) BY <1>1, AmongTail
  <2> QED BY <1>1, <1>3, <2>2, <2>3 DEF WireTells
<1>11. CASE Observed
  <2>1. /\ command.mode = "live_validate" /\ stream' = NoStream /\ reader' = NewReader
        /\ thread' = thread
    BY <1>11 DEF Observed, At
  <2>2. thread = NewThread BY <1>1, <2>1 DEF Read, ReadsAlone
  <2>3. /\ <<>> \in Seq(Kinds) /\ <<>> \in Seq(SessionKinds)
        /\ <<>> \in Seq(SessionKinds \cap {"text"}) /\ <<>> \o <<>> = <<>>
    OBVIOUS
  <2>4. WatchShaped'
    BY <1>1, <2>1, <2>3, Zenon
      DEF WatchShaped, Holding, StreamShape, ReaderShape, NoStream, NewReader
  <2>5. Told' = <<>> /\ OnWire' = <<>> /\ Kept' = <<>> /\ Queued' = <<>> /\ InHand' = <<>>
    BY <2>1, <2>2, <2>3, OnlyEmpty
    DEF Told, OnWire, Kept, Queued, InHand, NoStream, NewReader, NewThread
  <2>6. Fits(<<>>, <<>>, <<>>, <<>>, <<>>) BY <2>3 DEF Fits
  <2>7. InOrder' BY <2>1, <2>5, <2>6, FitsBegins DEF InOrder, NewReader
  <2>8. ReadsAlone' BY <1>1, <2>1, <2>2 DEF ReadsAlone, NewReader, NewThread
  <2>9. Among(stream'.wire) = {} /\ reader'.result = "none"
    BY <2>1 DEF Among, NoStream, NewReader
  <2> QED BY <2>4, <2>7, <2>8, <2>9 DEF Read
<1>12. CASE Watcher
  <2>1. ThreadStep /\ command' = command BY <1>12 DEF Watcher
  <2>2. WatchShaped' /\ Read' /\ reader' = reader BY <1>1, <2>1, ThreadReadsOn, ThreadShaped
  <2>3. stream'.wire = stream.wire \/ (stream.wire # <<>> /\ stream'.wire = Tail(stream.wire))
    BY <1>1, <2>1, Zenon
    DEF ThreadStep, ThreadOpens, ThreadReads, ThreadStops, ThreadBreaks, ThreadPuts, ThreadFails,
        ThreadFinishes, ThreadEnds, StreamShape, Silent
  <2> QED BY <1>1, <1>3, <2>2, <2>3 DEF WireTells
<1>13. ASSUME NEW e \in Kinds, IsExecution(e) => HasRun("steer"), SendEvent(e) PROVE Goal
  <2>1. /\ stream' = [stream EXCEPT !.sent = Append(@, e), !.wire = Append(@, e)]
        /\ thread' = thread /\ reader' = reader
    BY <1>13 DEF SendEvent
  <2> DEFINE sent == Append(stream.sent, e)
             wire == Append(stream.wire, e)
  <2>2. sent \in Seq(Kinds) /\ wire \in Seq(Kinds) BY <1>1
  <2>3. /\ OnWire' = Only(stream'.wire, SessionKinds) /\ Told' = Only(stream'.sent, SessionKinds)
        /\ Only(wire, SessionKinds) = IF e \in SessionKinds THEN Append(OnWire, e) ELSE OnWire
        /\ Only(sent, SessionKinds) = IF e \in SessionKinds THEN Append(Told, e) ELSE Told
    BY <1>1, OnlyAppend DEF OnWire, Told
  <2>4. Among(wire) = Among(stream.wire) \cup {e} BY <1>1, AmongAppend
  <2>5. stream' = [stream EXCEPT !.sent = sent, !.wire = wire] BY <2>1
  <2> HIDE DEF sent, wire
  <2>6. stream' \in StreamShape /\ stream'.sent = sent /\ stream'.wire = wire
    BY <1>1, <2>2, <2>5 DEF StreamShape
  <2>7. Kept' = Kept /\ Queued' = Queued /\ InHand' = InHand BY <2>1 DEF Kept, Queued, InHand
  <2>8. WatchShaped' BY <1>1, <2>1, <2>6 DEF WatchShaped, Holding
  <2>9. ReadsAlone' BY <1>1, <2>1 DEF Read, ReadsAlone
  <2>10. Begins(Kept, Told) /\ Kept \in Seq(SessionKinds) BY <1>1, PartsAre DEF Read, InOrder
  <2>11. InOrder'
    <3>1. CASE e \in SessionKinds
      <4>1. Begins(Kept, Append(Told, e)) BY <2>10, <3>1, BeginsSend
      <4>2. ~thread.closed /\ reader.result # "raised" =>
              Fits(Kept, Queued, InHand, Append(OnWire, e), Append(Told, e))
        BY <1>1, <3>1, FitsSend DEF Read, InOrder
      <4> QED BY <1>1, <2>1, <2>3, <2>6, <2>7, <3>1, <4>1, <4>2 DEF Read, InOrder
    <3>2. CASE e \notin SessionKinds
      BY <1>1, <2>1, <2>3, <2>6, <2>7, <3>2 DEF Read, InOrder
    <3> QED BY <3>1, <3>2
  <2> QED BY <1>1, <1>13, <2>1, <2>4, <2>6, <2>8, <2>9, <2>11 DEF Read, WireTells
<1>14. ASSUME EndStream PROVE Goal
  <2>1. PICK how \in {"ended", "reset", "invalid"} : stream' = [stream EXCEPT !.conn = how]
    BY <1>14 DEF EndStream
  <2>2. /\ stream' \in StreamShape /\ stream'.sent = stream.sent /\ stream'.wire = stream.wire
        /\ thread' = thread /\ reader' = reader
    BY <1>1, <1>14, <2>1 DEF StreamShape, EndStream
  <2>3. Kept' = Kept /\ Queued' = Queued /\ InHand' = InHand /\ OnWire' = OnWire /\ Told' = Told
    BY <2>2 DEF Kept, Queued, InHand, OnWire, Told
  <2>4. WatchShaped' /\ Read' BY <1>1, <2>2, <2>3 DEF WatchShaped, Holding, Read, InOrder, ReadsAlone
  <2> QED BY <1>1, <1>3, <2>2, <2>4 DEF WireTells
<1>15. CASE Server
  BY <1>4, <1>13, <1>14, <1>15 DEF Server
<1>16. CASE DetectCapabilities \/ Create \/ Steer \/ ReadBlockers \/ WaitForSteer \/ ReadMessages
             \/ WatchExits \/ BeginPrompt \/ Execute \/ PromptOver \/ StartCleanup \/ Cleanup
             \/ CleanedUp \/ Sweep
  <2> USE DEF watchVars
  <2>1. CASE DetectCapabilities BY <1>4, <2>1 DEF DetectCapabilities
  <2>2. CASE Create BY <1>4, <2>2 DEF Create
  <2>3. CASE Steer BY <1>4, <2>3 DEF Steer
  <2>4. CASE ReadBlockers \/ WatchExits \/ BeginPrompt \/ Execute
    BY <1>4, <2>4 DEF ReadBlockers, WatchExits, BeginPrompt, Execute
  <2>5. CASE WaitForSteer BY <1>4, <2>5 DEF WaitForSteer
  <2>6. CASE ReadMessages BY <1>4, <2>6 DEF ReadMessages
  <2>7. CASE PromptOver BY <1>4, <2>7 DEF PromptOver
  <2>8. CASE StartCleanup \/ Cleanup \/ CleanedUp \/ Sweep
    BY <1>4, <2>8 DEF StartCleanup, Cleanup, CleanedUp, Sweep
  <2> QED BY <1>16, <2>1, <2>2, <2>3, <2>4, <2>5, <2>6, <2>7, <2>8
<1> QED
  BY <1>6, <1>7, <1>8, <1>9, <1>10, <1>11, <1>12, <1>15, <1>16 DEF Next, CommandStep

-----------------------------------------------------------------------------
(* What is known of the turns.                                             *)

LEMMA PromptsKept ==
  ASSUME Shaped, Tracked, Linked, Next
  PROVE  /\ turns' \in Turns /\ call' \in CallShape /\ Linked' /\ ToldTruth /\ SteerStays
         /\ call'.outcome = "admitted" =>
              call.outcome = "admitted" \/ turns'["steer"].state # "none"
<1>1. turns \in Turns /\ call \in CallShape /\ PromptShaped /\ command \in CommandShape
  BY DEF Shaped, PromptShaped, Turns
<1> DEFINE Goal ==
      /\ turns' \in Turns /\ call' \in CallShape /\ Linked' /\ ToldTruth /\ SteerStays
      /\ call'.outcome = "admitted" =>
           call.outcome = "admitted" \/ turns'["steer"].state # "none"
<1>2. ASSUME turns' = turns, call' = call PROVE Goal
  BY <1>1, <1>2 DEF Linked, ToldTruth, SteerStays, HasRun
<1>3. ASSUME TurnsGoOn, call' = call PROVE Goal
  BY <1>1, <1>3 DEF TurnsGoOn, Linked, ToldTruth
<1>4. CASE Steer
  <2> DEFINE mapped == command.mode = "steer"
  <2>1. mapped \in BOOLEAN /\ AdmitPrompt("first", mapped) BY <1>4 DEF Steer
  <2> HIDE DEF mapped
  <2>2. /\ TurnsGoOn /\ call' \in CallShape /\ call'.pc = "over"
        /\ call'.outcome \in {"admitted", "raised", "unsupported", "api"}
        /\ call'.outcome = "admitted" => turns'["steer"].state # "none"
    BY <1>1, <2>1, Admission
  <2> QED BY <2>2 DEF TurnsGoOn, Linked, ToldTruth
<1>5. CASE BeginPrompt
  <2>1. PICK pc \in {"run", "waiting"} : call' = [NoCall EXCEPT !.session = PromptSession, !.pc = pc]
    BY <1>5 DEF BeginPrompt, StartPrompt
  <2>2. turns' = [turns EXCEPT !["prompt"] = [session |-> PromptSession, state |-> "sent"]]
    BY <1>5 DEF BeginPrompt, StartPrompt
  <2>3. PromptSession \in SessionIds BY DEF PromptSession, SessionIds
  <2>4. call' \in CallShape /\ call'.session = PromptSession /\ call'.outcome = "none"
    BY <2>1, <2>3 DEF NoCall, CallShape
  <2>5. /\ turns' \in Turns /\ turns'["prompt"].session = PromptSession
        /\ turns'["steer"] = turns["steer"]
    BY <1>1, <2>2, <2>3 DEF Turns, TurnIds, TurnStates
  <2> QED BY <2>4, <2>5 DEF Linked, ToldTruth, SteerStays, HasRun
<1>6. CASE Execute BY <1>1, <1>6, CallSteps DEF Execute, TurnsGoOn
<1>7. CASE PromptOver
  <2>1. call' = NoCall /\ turns' = turns BY <1>7 DEF PromptOver
  <2>2. call' \in CallShape /\ call'.pc = "idle" /\ call'.outcome = "none"
    BY <2>1 DEF NoCall, CallShape, SessionIds
  <2> QED BY <1>1, <2>1, <2>2 DEF Linked, ToldTruth, SteerStays, HasRun
<1>8. ASSUME NEW w \in Cleaners, CleanStep(w) PROVE Goal
  BY <1>1, <1>3, <1>8, CleanSteps DEF Shaped, Tracked
<1>9. CASE Cleanup \/ Sweep
  <2>1. "command" \in Cleaners /\ "sweep" \in Cleaners BY DEF Cleaners
  <2> QED BY <1>2, <1>8, <1>9, <2>1 DEF Cleanup, Sweep, StartSweep
<1>10. CASE Server
  <2>1. CASE ServerStep BY <1>1, <1>3, <2>1, ServerSteps
  <2>2. CASE UNCHANGED promptVars BY <1>2, <2>2 DEF promptVars
  <2> QED BY <1>10, <2>1, <2>2 DEF Server
<1>11. CASE Next /\ ~Steer /\ ~BeginPrompt /\ ~Execute /\ ~PromptOver /\ ~Cleanup /\ ~Sweep /\ ~Server
  <2> USE DEF promptVars
  <2>1. CASE DetectCapabilities BY <1>2, <2>1 DEF DetectCapabilities
  <2>2. CASE Create BY <1>2, <2>2 DEF Create
  <2>3. CASE OpenWatcher \/ BeginCollect \/ CollectEvents \/ CloseWatcher \/ Collected \/ ReadBlockers
    BY <1>2, <2>3 DEF OpenWatcher, BeginCollect, CollectEvents, CloseWatcher, Collected, ReadBlockers
  <2>4. CASE WaitForSteer BY <1>2, <2>4 DEF WaitForSteer
  <2>5. CASE ReadMessages BY <1>2, <2>5 DEF ReadMessages
  <2>6. CASE ObserveEvents \/ Observed \/ WatchEvents \/ WatchExits
    BY <1>2, <2>6 DEF ObserveEvents, Observed, WatchEvents, WatchExits
  <2>7. CASE CloseResources \/ StartCleanup \/ CleanedUp
    BY <1>2, <2>7 DEF CloseResources, StartCleanup, CleanedUp
  <2>8. CASE Watcher BY <1>2, <2>8 DEF Watcher
  <2> QED BY <1>11, <2>1, <2>2, <2>3, <2>4, <2>5, <2>6, <2>7, <2>8 DEF Next, CommandStep
<1> QED BY <1>4, <1>5, <1>6, <1>7, <1>9, <1>10, <1>11

\* A steer is said to be executed on evidence only.
LEMMA ExecutedKept ==
  ASSUME Shaped, WireTells, command.executed = "yes" => HasRun("steer"), Next
  PROVE  command'.executed = "yes" => HasRun("steer")
<1>1. command \in CommandShape BY DEF Shaped
<1> USE <1>1 DEF CommandShape, GoTo, Exit, Fail, Leaves, Executed
<1>2. CASE WaitForSteer
  <2>1. \/ command' = Executed("yes") /\ TurnStatus \in {"running", "done"}
        \/ command' \in {GoTo("reading"), Executed("no"), Fail("raised")}
    BY ONLY <1>2 DEF WaitForSteer
  <2> QED BY <2>1 DEF TurnStatus, HasRun
<1>3. CASE ReadMessages
  <2>1. \/ command' = Executed("yes") /\ \E role \in Messages : IsEvidence(role)
        \/ command' \in {GoTo("observing"), Executed("unknown"), Fail("raised")}
    BY ONLY <1>3 DEF ReadMessages
  <2>2. (\E role \in Messages : IsEvidence(role)) => HasRun("steer")
    BY ONLY TRUE DEF Messages, IsEvidence
  <2> QED BY <2>1, <2>2
<1>4. CASE Observed
  <2>1. \/ command' = Executed("yes") /\ reader.result = "executed"
        \/ command' \in {Executed("unknown"), Fail("raised")}
    BY ONLY <1>4 DEF Observed
  <2> QED BY <2>1 DEF WireTells
<1>5. CASE DetectCapabilities
  <2>1. \/ \E seen : command' = [GoTo(AfterDetection) EXCEPT !.seen = seen]
        \/ command' \in {Leaves("failed"), Leaves("raised"), Leaves("unsupported"), Exit("timeout")}
    BY ONLY <1>5, Zenon DEF DetectCapabilities
  <2> QED BY <2>1, Zenon
<1>6. CASE Create
  <2>1. command' \in {GoTo(AfterCreation), Leaves("raised"), Leaves("failed")}
    BY ONLY <1>6 DEF Create, TrackSession
  <2> QED BY <2>1
<1>7. CASE Steer
  <2>1. \/ command' = AfterSteering
        \/ command' \in {[GoTo("detecting") EXCEPT !.retried = TRUE], Leaves("failed")}
        \/ command' = Leaves(call'.outcome)
    BY ONLY <1>7 DEF Steer
  <2>2. AfterSteering \in {GoTo("observing"), GoTo("waiting"), Exit("ok")}
    BY ONLY TRUE DEF AfterSteering
  <2> QED BY <2>1, <2>2, ZenonT(30)
<1>8. CASE OpenWatcher
  <2>1. command' \in {GoTo("steering"), command} BY ONLY <1>8 DEF OpenWatcher
  <2> QED BY <2>1
<1>9. CASE BeginCollect \/ CollectEvents \/ CloseWatcher \/ ObserveEvents \/ WatchEvents \/ Execute
            \/ CloseResources \/ Cleanup \/ Sweep \/ Watcher \/ Server
  <2>1. command' = command
    BY ONLY <1>9 DEF BeginCollect, CollectEvents, CloseWatcher, ObserveEvents, WatchEvents, Execute,
                     CloseResources, Cleanup, Sweep, Watcher, Server
  <2> QED BY <2>1
<1>10. CASE Collected
  <2>1. command' \in {GoTo("blockers"), Fail("raised"), Fail("failed")}
    BY ONLY <1>10 DEF Collected
  <2> QED BY <2>1
<1>11. CASE ReadBlockers BY <1>11 DEF ReadBlockers
<1>12. CASE WatchExits
  <2>1. \E how : command' = Exit(how) BY ONLY <1>12, Zenon DEF WatchExits
  <2> QED BY <2>1
<1>13. CASE BeginPrompt \/ StartCleanup BY <1>13 DEF BeginPrompt, StartCleanup
<1>14. CASE PromptOver
  <2>1. \/ \E how : command' = [GoTo("closing") EXCEPT !.result = how] \/ command' = Fail(how)
        \/ command' = Exit("raised")
    BY ONLY <1>14, Zenon DEF PromptOver
  <2> QED BY <2>1, Zenon
<1>15. CASE CleanedUp BY <1>15 DEF CleanedUp
<1> QED
  BY <1>2, <1>3, <1>4, <1>5, <1>6, <1>7, <1>8, <1>9, <1>10, <1>11, <1>12, <1>13, <1>14, <1>15
  DEF Next, CommandStep

-----------------------------------------------------------------------------
(* The invariant.                                                          *)

LEMMA Starts == Init => Inv
<1> SUFFICES ASSUME Init PROVE Inv OBVIOUS
<1>1. PICK m \in Modes :
        /\ command = [mode |-> m, pc |-> "detecting", seen |-> {}, executed |-> "unknown",
                      result |-> "none", exit |-> "none", retried |-> FALSE]
        /\ sessions = [s \in SessionIds |->
                         IF s = "first" /\ m \in {"run_in_session", "steer", "watch"}
                           THEN "live" ELSE "none"]
        /\ turns = [t \in TurnIds |->
                      [session |-> "first",
                       state |-> IF t = "steer" /\ m = "watch" THEN "queued" ELSE "none"]]
  BY DEF Init
<1>2. /\ stream = NoStream /\ thread = NewThread /\ reader = NewReader /\ call = NoCall
      /\ created = {} /\ cleaners = [w \in Cleaners |-> NewCleaner] /\ doc \in Docs
  BY DEF Init
<1>3. /\ <<>> \in Seq(Kinds) /\ <<>> \in Seq(SessionKinds) /\ <<>> \in Seq(Items)
      /\ <<>> \in Seq(SessionKinds \cap {"text"}) /\ <<>> \in Seq(SessionIds)
      /\ <<>> \o <<>> = <<>>
  OBVIOUS
<1>4. m \in AllModes BY ValidationAssumption
<1>5. command \in CommandShape BY <1>1, <1>4 DEF CommandShape, Places, Results, Exits
<1>6. WatchShaped
  BY <1>2, <1>3 DEF WatchShaped, Holding, NoStream, NewThread, NewReader, StreamShape, ThreadShape,
                    ReaderShape
<1>7. PromptShaped
  <2>1. call \in CallShape BY <1>2 DEF NoCall, CallShape, SessionIds
  <2>2. sessions \in [SessionIds -> {"none", "live", "deleted"}] BY <1>1
  <2>3. turns \in [TurnIds -> [session : SessionIds, state : TurnStates]]
    BY <1>1 DEF SessionIds, TurnStates
  <2> QED BY <2>1, <2>2, <2>3 DEF PromptShaped
<1>8. CleanShaped
  <2>1. NewCleaner \in CleanerShape BY <1>3 DEF NewCleaner, CleanerShape, Plans
  <2> QED BY <1>2, <2>1 DEF CleanShaped
<1>9. Told = <<>> /\ Kept = <<>> /\ Queued = <<>> /\ InHand = <<>> /\ OnWire = <<>>
  BY <1>2, <1>3, OnlyEmpty DEF Told, Kept, Queued, InHand, OnWire, NoStream, NewReader, NewThread
<1>10. Fits(<<>>, <<>>, <<>>, <<>>, <<>>) BY <1>3 DEF Fits
<1>11. Read
  BY <1>2, <1>9, <1>10, FitsBegins DEF Read, InOrder, ReadsAlone, NewReader, NewThread
<1>12. Tracked
  <2>1. \A w \in Cleaners : CleansOwn(w)
    BY <1>2 DEF CleansOwn, Left, Among, NewCleaner
  <2>2. /\ command.pc = "detecting" /\ command.exit = "none" /\ command.result = "none"
        /\ cleaners["command"].todo = <<>> /\ cleaners["command"].pc = "idle"
    BY <1>1, <1>2 DEF NewCleaner, Cleaners
  <2> QED BY <1>2, <2>1, <2>2 DEF Tracked, CleanersKnow, Fresh, Knows, Early
<1>13. Known
  <2>1. Among(stream.wire) = {} BY <1>2 DEF Among, NoStream
  <2> QED BY <1>1, <1>2, <2>1 DEF Known, EvidenceIsReal, Linked, NoCall, NewReader
<1> QED BY <1>5, <1>6, <1>7, <1>8, <1>11, <1>12, <1>13 DEF Inv, Shaped

LEMMA Steps == Inv /\ [Next]_vars => Inv'
<1> SUFFICES ASSUME Inv, [Next]_vars PROVE Inv' OBVIOUS
<1>1. CASE Next
  <2>1. Shaped /\ Tracked /\ Known /\ Linked /\ WireTells BY DEF Inv, Known, WireTells
  <2>2. command' \in CommandShape BY <1>1, <2>1, CommandSteps DEF Onward
  <2>3. WatchShaped' /\ Read'
        /\ (reader'.result = "executed" => HasRun("steer"))
        /\ ((\E e \in Among(stream'.wire) : IsExecution(e)) => HasRun("steer"))
    BY <1>1, ReadKept
  <2>4. Tracked' /\ CleanShaped' /\ sessions' \in [SessionIds -> {"none", "live", "deleted"}]
    BY <1>1, <2>1, TrackedKept
  <2>5. /\ turns' \in Turns /\ call' \in CallShape /\ Linked' /\ SteerStays
        /\ call'.outcome = "admitted" =>
             call.outcome = "admitted" \/ turns'["steer"].state # "none"
    BY <1>1, <2>1, PromptsKept
  <2>6. command'.executed = "yes" => HasRun("steer")
    BY <1>1, <2>1, ExecutedKept DEF Known, EvidenceIsReal
  <2>7. Shaped' BY <2>2, <2>3, <2>4, <2>5 DEF Shaped, PromptShaped, Turns
  <2>8. Known'
    BY <2>1, <2>3, <2>5, <2>6 DEF Known, EvidenceIsReal, SteerStays
  <2> QED BY <2>3, <2>4, <2>7, <2>8 DEF Inv
<1>2. CASE UNCHANGED vars
  BY <1>2 DEF vars, Inv, Shaped, WatchShaped, PromptShaped, CleanShaped, Holding, Read, InOrder,
              ReadsAlone, Told, Kept, Queued, InHand, OnWire, Tracked, CleanersKnow, CleansOwn, Left,
              Fresh, Knows, Given, RouteExists, Known, EvidenceIsReal, Linked, HasRun
<1> QED BY <1>1, <1>2

\* The shape of the state, the account of the events, sessions and turns: in
\* every state of every execution.
THEOREM ValidationIsTracked == Spec => []Inv
BY Starts, Steps, PTL DEF Spec

\* The events a command has collected, printed or holds back are those the
\* server sent for the session, in order and each once (EventsInOrder).
THEOREM EventsAreInOrder == Spec => []EventsInOrder
<1>1. ASSUME Inv PROVE EventsInOrder
  <2>1. Read /\ WatchShaped /\ {Told, Kept, Queued, InHand, OnWire} \subseteq Seq(SessionKinds)
    BY <1>1, PartsAre DEF Inv, Shaped
  <2>2. SubSeq(Told, 1, Len(Kept)) = Kept
    <3>1. PICK rest \in Seq(SessionKinds) : Kept \o rest = Told
      BY <2>1 DEF Read, InOrder, Begins
    <3> DEFINE k == Kept
    <3>2. k \in Seq(SessionKinds) BY <2>1
    <3> HIDE DEF k
    <3>3. SubSeq(k \o rest, 1, Len(k)) = k BY <3>2, SubSeqOfConcat1, SubSeqFull
    <3> QED BY <3>1, <3>3 DEF k
  <2>3. ASSUME ~thread.closed, reader.result # "raised"
        PROVE  Kept \o Queued \o InHand \o OnWire = Told
    <3>1. Fits(Kept, Queued, InHand, OnWire, Told) BY <2>1, <2>3 DEF Read, InOrder
    <3> QED BY <3>1, FitsFlat
  <2>4. reader.pc = "closed" /\ reader.result # "raised" => reader.pending = <<>>
    BY <2>1 DEF Read, InOrder
  <2> QED BY <2>2, <2>3, <2>4 DEF EventsInOrder, Told, Kept, Queued, OnWire
<1> QED BY <1>1, ValidationIsTracked, PTL

\* What a cleanup says it deleted is gone, and a command that reports success
\* leaves no session behind (CleanupToldTruth).
THEOREM CleanupTellsTruth == Spec => []CleanupToldTruth
<1>1. ASSUME Inv PROVE CleanupToldTruth
  <2>1. Tracked BY <1>1 DEF Inv
  <2> QED BY <2>1 DEF Tracked, CleanersKnow, CleansOwn, CleanupToldTruth
<1> QED BY <1>1, ValidationIsTracked, PTL

\* A steer reported as admitted was taken, one reported as executed has run,
\* and so has one whose events are on the wire (EvidenceIsReal).
THEOREM EvidenceHolds == Spec => []EvidenceIsReal
<1>1. Inv => EvidenceIsReal BY DEF Inv, Known
<1> QED BY <1>1, ValidationIsTracked, PTL

\* An abort reported as confirmed has stopped the turn that was in its session
\* (TimeoutToldTruth).
THEOREM TimeoutTellsTruth == Spec => TimeoutToldTruth
<1> DEFINE Confirmed == [call.outcome = "none" /\ call'.outcome = "timeout" /\ ~call'.abort_error
                       => turns'["prompt"].state # "running"]_vars
<1>1. Inv /\ [Next]_vars => Confirmed
  <2> SUFFICES ASSUME Inv, [Next]_vars PROVE Confirmed OBVIOUS
  <2>1. CASE Next
    <3>1. ToldTruth BY <2>1, PromptsKept DEF Inv, Known
    <3> QED BY <3>1 DEF ToldTruth
  <2>2. CASE UNCHANGED vars BY <2>2
  <2> QED BY <2>1, <2>2
<1>2. Spec => []Inv /\ [][Next]_vars BY ValidationIsTracked, PTL DEF Spec
<1> QED BY <1>1, <1>2, PTL DEF TimeoutToldTruth

-----------------------------------------------------------------------------
(* The limit of smoke.                                                     *)

\* What smoke has collected: nothing before it collects, less than the limit
\* while it does.
Limited ==
  command.mode = "smoke" =>
    /\ reader.pc \in {"idle", "opening", "open"} => Len(reader.got) = 0
    /\ reader.pc = "collecting" => Len(reader.got) < EventLimit
    /\ Len(reader.got) <= EventLimit

LEMMA LimitStarts == Init => Limited
BY EventsAssumption DEF Init, Limited, NewReader

LEMMA LimitKept ==
  ASSUME Inv, Limited, [Next]_vars
  PROVE  Limited'
<1>1. reader \in ReaderShape /\ reader.got \in Seq(SessionKinds) /\ EventLimit \in Nat \ {0}
  BY EventsAssumption, Zenon DEF Inv, Shaped, WatchShaped, ReaderShape
<1>2. Len(reader.got) \in Nat BY <1>1
<1>3. ASSUME reader' = reader, command'.mode = command.mode PROVE Limited' BY <1>3 DEF Limited
<1>4. CASE Next
  <2>1. command'.mode = command.mode BY <1>4, CommandSteps DEF Inv, Onward
  <2>2. SUFFICES ASSUME command.mode = "smoke", reader' # reader PROVE Limited' BY <1>3, <2>1 DEF Limited
  <2>4. CASE Collect
    <3> DEFINE item == Head(thread.items)
    <3>1. reader.pc = "collecting" /\ Len(reader.got) < EventLimit
      BY <2>2, <2>4 DEF Collect, Limited
    <3>2. Len(Append(reader.got, item)) = Len(reader.got) + 1 BY <1>1
    <3> DEFINE more == [reader EXCEPT !.got = Append(@, item)]
    <3>3. /\ more.got = Append(reader.got, item) /\ more.pc = "collecting"
          /\ [more EXCEPT !.pc = "deciding"].got = more.got
      BY <1>1, <3>1, Zenon DEF ReaderShape
    <3>4. \/ reader' = Leave(item)
          \/ reader' = [reader EXCEPT !.pc = "deciding"]
          \/ reader' = [more EXCEPT !.pc = "deciding"]
          \/ reader' = more /\ Len(more.got) # EventLimit
      BY <2>4 DEF Collect, Reader
    <3> HIDE DEF item
    <3>5. \/ reader'.pc \in {"closing", "deciding"} /\ reader'.got = reader.got
          \/ reader'.pc = "deciding" /\ reader'.got = Append(reader.got, item)
          \/ /\ reader'.pc = "collecting" /\ reader'.got = Append(reader.got, item)
             /\ Len(reader'.got) # EventLimit
      BY <1>1, <3>3, <3>4, Zenon DEF ReaderShape, Leave
    <3> HIDE DEF more
    <3> QED BY <1>1, <1>2, <2>1, <3>1, <3>2, <3>5 DEF Limited
  <2>5. CASE StartWatcher \/ WaitOpen \/ WaitOpenTimesOut
    <3>1. /\ reader.pc \in {"idle", "opening"} /\ reader'.got = reader.got
          /\ reader'.pc \in {"opening", "open", "closing"}
      BY <1>1, <2>5, Zenon
        DEF StartWatcher, WaitOpen, WaitOpenTimesOut, Reader, Leave, ReaderShape
    <3> QED BY <1>1, <1>2, <2>1, <2>2, <3>1 DEF Limited
  <2>6. CASE CollectTimesOut \/ Decide \/ Close \/ Joined
    <3>1. reader'.got = reader.got /\ reader'.pc \in {"deciding", "closing", "joining", "closed"}
      BY <1>1, <2>6, Zenon
        DEF CollectTimesOut, Decide, Close, Joined, Reader, Leave, ReaderShape
    <3> QED BY <1>1, <1>2, <2>1, <2>2, <3>1 DEF Limited
  <2>7. CASE BeginCollect \/ CloseResources
    <3>1. /\ reader.pc = "open" /\ reader'.got = reader.got
          /\ reader'.pc \in {"collecting", "closing"}
      BY <1>1, <2>7, Zenon
        DEF BeginCollect, CloseResources, Reader, ReaderShape
    <3> QED BY <1>1, <1>2, <2>1, <2>2, <3>1 DEF Limited
  <2>8. CASE Collected
    <3>1. reader'.pc = "closed" /\ reader'.got = <<>> BY <2>8 DEF Collected, NewReader
    <3> QED BY <1>1, <2>1, <3>1 DEF Limited
  <2>9. CASE ObserveEvents \/ Observed \/ WatchEvents
    BY <2>2, <2>9 DEF ObserveEvents, Observed, WatchEvents, At
  <2>10. CASE OpenWatcher \/ CollectEvents \/ CloseWatcher
    BY <2>4, <2>5, <2>6, <2>10 DEF OpenWatcher, CollectEvents, CloseWatcher
  <2>11. CASE Watcher
    <3>1. WatchShaped /\ ThreadStep BY <2>11 DEF Inv, Shaped, Watcher
    <3> QED BY <2>2, <3>1, ThreadShaped
  <2>12. CASE Server
    <3>1. reader' = reader
      BY <2>12, Zenon DEF Server, watchVars, SendEvent, EndStream
    <3> QED BY <2>2, <3>1
  <2> USE DEF watchVars
  <2>13. CASE DetectCapabilities \/ Create \/ Steer \/ ReadBlockers \/ WaitForSteer \/ ReadMessages
    BY <2>2, <2>13 DEF DetectCapabilities, Create, Steer, ReadBlockers, WaitForSteer, ReadMessages
  <2>14. CASE WatchExits \/ BeginPrompt \/ Execute \/ PromptOver \/ StartCleanup \/ Cleanup
              \/ CleanedUp \/ Sweep
    BY <2>2, <2>14 DEF WatchExits, BeginPrompt, Execute, PromptOver, StartCleanup, Cleanup, CleanedUp,
                       Sweep
  <2> QED
    BY <1>4, <2>7, <2>8, <2>9, <2>10, <2>11, <2>12, <2>13, <2>14 DEF Next, CommandStep
<1>5. CASE UNCHANGED vars BY <1>3, <1>5 DEF vars
<1> QED BY <1>4, <1>5

\* The variables of the commands that use one session keep their types, smoke
\* collects no more events than its limit, and a cleanup deletes only sessions
\* made to be deleted (TypeOK).
THEOREM TypeCorrect == Spec => []TypeOK
<1>1. ASSUME Inv, Limited PROVE TypeOK
  <2>1. WatchShaped /\ PromptShaped /\ CleanShaped /\ EventLimit \in Nat
    BY <1>1, EventsAssumption DEF Inv, Shaped
  <2>2. reader.got \in Seq(SessionKinds) /\ reader.pending \in Seq({"text"})
    <3>1. reader.got \in Seq(SessionKinds) /\ reader.pending \in Seq(SessionKinds \cap {"text"})
      BY <2>1, Zenon DEF WatchShaped, ReaderShape
    <3>2. Seq(SessionKinds \cap {"text"}) \subseteq Seq({"text"}) OBVIOUS
    <3> QED BY <3>1, <3>2
  <2>3. Len(reader.got) > EventLimit => command.mode # "smoke" BY <1>1, <2>1, <2>2 DEF Limited
  <2>4. \A w \in Cleaners : cleaners[w].deleted \subseteq created
    BY <1>1 DEF Inv, Tracked, CleanersKnow, CleansOwn
  <2> QED
    BY <2>1, <2>2, <2>3, <2>4
    DEF WatchShaped, PromptShaped, CleanShaped, StreamShape, ThreadShape, Items, TypeOK
<1>2. Spec => []Inv BY ValidationIsTracked
<1>3. Inv /\ Limited /\ [Next]_vars => Limited' BY LimitKept
<1>4. Spec => []Limited BY <1>2, <1>3, LimitStarts, PTL DEF Spec
<1> QED BY <1>1, <1>2, <1>4, PTL
=============================================================================
