---------------------------- MODULE EventWatcher ----------------------------
(***************************************************************************)
(* Reading the event stream of a session.                                  *)
(*                                                                         *)
(* BackgroundSessionEventWatcher reads the stream in a thread and hands    *)
(* the events over in a queue; the thread is told to stop by an event it   *)
(* looks at between reads, and the one who waits for it gives up after a   *)
(* second.  The watch command and the live validation read the stream      *)
(* themselves, the first gathering text it has not printed yet.            *)
(*                                                                         *)
(* An event is what normalize_event makes of it, reduced to its kind and   *)
(* status: "text" stands for text, tool and step, "done" for a status done *)
(* or idle, "prompt" for a completed prompt, "other" is another session's. *)
(* The commands that use the watcher are in LiveValidation.                *)
(***************************************************************************)
EXTENDS Naturals, Sequences

CONSTANTS
  Kinds,       \* events the server may send
  EventLimit,  \* --event-limit
  MaxEvents    \* bound on the events sent

AllKinds == {"admission", "text", "active", "done", "prompt", "failed", "aborted", "other"}

ASSUME EventsAssumption ==
  Kinds \subseteq AllKinds /\ EventLimit \in Nat \ {0} /\ MaxEvents \in Nat

VARIABLES
  stream,  \* the connection, what was sent on it and what is still on the wire
  thread,  \* the reading thread
  reader   \* the one who uses the events

watchVars == <<stream, thread, reader>>

NoStream == [conn |-> "none", sent |-> <<>>, wire |-> <<>>]

\* items: the queue; opened, closed: the two events shared with the thread.
NewThread == [pc |-> "new", event |-> "none", error |-> "none",
              items |-> <<>>, opened |-> FALSE, closed |-> FALSE]

\* got: events collected or printed; pending: text not printed yet.
NewReader == [pc |-> "idle", got |-> <<>>, pending |-> <<>>, result |-> "none"]

IsTerminal(e) == e \in {"done", "prompt", "failed", "aborted"}

IsOfSession(e) == e # "other"

\* The items of s that are in S, in their order.
Only(s, S) ==
  LET first[n \in 0 .. Len(s)] ==  \* those among the first n
        IF n = 0 THEN <<>>
        ELSE IF s[n] \in S THEN Append(first[n - 1], s[n]) ELSE first[n - 1]
  IN first[Len(s)]

SessionKinds == {e \in Kinds : IsOfSession(e)}

-----------------------------------------------------------------------------
(* The server.                                                             *)

SendEvent(e) ==
  /\ stream.conn = "open" /\ Len(stream.sent) < MaxEvents
  /\ stream' = [stream EXCEPT !.sent = Append(@, e), !.wire = Append(@, e)]
  /\ UNCHANGED <<thread, reader>>

\* It ends the stream, drops the connection or sends what is no JSON.
EndStream ==
  /\ stream.conn = "open"
  /\ \E how \in {"ended", "reset", "invalid"} : stream' = [stream EXCEPT !.conn = how]
  /\ UNCHANGED <<thread, reader>>

Silent == stream.wire = <<>>
Errors == {"api", "raised"}
Error == IF stream.conn = "reset" THEN "raised" ELSE "api"

-----------------------------------------------------------------------------
(* The reading thread: _run, iter_events and _iter_response_lines_until_stop. *)

Thread(changed) == thread' = changed /\ UNCHANGED reader
Put(item) == Append(thread.items, item)

ThreadOpens ==
  /\ thread.pc = "opening"
  /\ \/ /\ stream' = [stream EXCEPT !.conn = "open"]
        /\ Thread([thread EXCEPT !.pc = "reading", !.opened = TRUE])
     \/ /\ \E error \in Errors : Thread([thread EXCEPT !.pc = "failing", !.error = error])
        /\ UNCHANGED stream

ThreadReads ==
  /\ thread.pc = "reading" /\ ~thread.closed /\ ~Silent
  /\ stream' = [stream EXCEPT !.wire = Tail(@)]
  /\ Thread([thread EXCEPT !.pc = "holding", !.event = Head(stream.wire)])

\* Stops as nobody but the server would make it.
StopsAtTheEnd == Silent /\ stream.conn = "ended"

\* A read ends after 0.2 s at the latest, then the thread looks at closed.
Stops == thread.closed \/ (Silent /\ stream.conn = "ended")

ThreadStops ==
  /\ thread.pc = "reading" /\ Stops
  /\ Thread([thread EXCEPT !.pc = "finishing"])
  /\ stream' = [stream EXCEPT !.conn = "ended"]

ThreadBreaks ==
  /\ thread.pc = "reading" /\ ~thread.closed /\ Silent
  /\ stream.conn \in {"reset", "invalid"}
  /\ Thread([thread EXCEPT !.pc = "failing", !.error = Error]) /\ UNCHANGED stream

\* The event it holds is dropped once closed is set, and with it the connection.
ThreadPuts ==
  /\ thread.pc = "holding"
  /\ LET e == thread.event
         idle == [thread EXCEPT !.event = "none"]
     IN Thread(IF thread.closed THEN [idle EXCEPT !.pc = "finishing"]
               ELSE IF ~IsOfSession(e) THEN [idle EXCEPT !.pc = "reading"]
               ELSE [idle EXCEPT !.pc = "reading", !.items = Put(e)])
  /\ stream' = IF thread.closed THEN [stream EXCEPT !.conn = "ended"] ELSE stream

ThreadFails ==
  /\ thread.pc = "failing"
  /\ Thread([thread EXCEPT !.pc = "finishing", !.error = "none",
                           !.items = IF thread.closed THEN @ ELSE Put(thread.error)])
  /\ UNCHANGED stream

\* It says it is done before it ends.
ThreadFinishes ==
  /\ thread.pc = "finishing"
  /\ Thread([thread EXCEPT !.pc = "exiting", !.items = Put("finished")])
  /\ UNCHANGED stream

ThreadEnds ==
  /\ thread.pc = "exiting"
  /\ Thread([thread EXCEPT !.pc = "ended"]) /\ UNCHANGED stream

ThreadStep ==
  \/ ThreadOpens \/ ThreadReads \/ ThreadStops \/ ThreadBreaks
  \/ ThreadPuts \/ ThreadFails \/ ThreadFinishes \/ ThreadEnds

-----------------------------------------------------------------------------
(* The one who waits for it.                                               *)

Reader(changed) == reader' = changed /\ UNCHANGED stream
Leave(result) == [reader EXCEPT !.pc = "closing", !.result = result]

StartWatcher ==
  /\ reader.pc = "idle" /\ Reader([reader EXCEPT !.pc = "opening"])
  /\ thread' = [thread EXCEPT !.pc = "opening"]

WaitOpen ==
  /\ reader.pc = "opening" /\ thread.opened
  /\ Reader([reader EXCEPT !.pc = "open"]) /\ UNCHANGED thread

FirstError == Only(thread.items, Errors)

WaitOpenTimesOut ==
  /\ reader.pc = "opening" /\ ~thread.opened
  /\ Reader(Leave(IF FirstError = <<>> THEN "not opened" ELSE Head(FirstError)))
  /\ UNCHANGED thread

\* collect takes an item and stops at its limit or at the end of the prompt.
Collect ==
  /\ reader.pc = "collecting" /\ thread.items # <<>>
  /\ LET item == Head(thread.items)
         more == [reader EXCEPT !.got = Append(@, item)]
     IN Reader(IF item \in Errors THEN Leave(item)
               ELSE IF item = "finished" THEN [reader EXCEPT !.pc = "deciding"]
               ELSE IF IsTerminal(item) \/ Len(more.got) = EventLimit
                 THEN [more EXCEPT !.pc = "deciding"]
               ELSE more)
  /\ thread' = [thread EXCEPT !.items = Tail(@)]

\* A get that waits for as long as the thread lives.
CollectTimesOutLate ==
  /\ reader.pc = "collecting" /\ thread.pc = "ended" /\ thread.items = <<>>
  /\ Reader([reader EXCEPT !.pc = "deciding"]) /\ UNCHANGED thread

CollectTimesOut ==
  /\ reader.pc = "collecting"
  /\ Reader([reader EXCEPT !.pc = "deciding"]) /\ UNCHANGED thread

\* Without events, a thread that is still alive means a timeout.
Decide ==
  /\ reader.pc = "deciding"
  /\ Reader(Leave(IF reader.got # <<>> THEN "events"
                  ELSE IF thread.pc # "ended" THEN "timeout" ELSE "empty"))
  /\ UNCHANGED thread

Close ==
  /\ reader.pc = "closing"
  /\ Reader([reader EXCEPT !.pc = "joining"])
  /\ thread' = [thread EXCEPT !.closed = TRUE]

\* The thread has ended, or the wait for it has.
Joined ==
  /\ reader.pc = "joining"
  /\ Reader([reader EXCEPT !.pc = "closed"]) /\ UNCHANGED thread

WaiterStep ==
  \/ WaitOpen \/ WaitOpenTimesOut \/ Collect \/ CollectTimesOut
  \/ Decide \/ Close \/ Joined

-----------------------------------------------------------------------------
(* Reading without a thread.                                               *)

Ended(result) == [reader EXCEPT !.pc = "closed", !.result = result]

ForegroundOpens ==
  /\ reader.pc = "idle" /\ UNCHANGED thread
  /\ \/ /\ stream' = [stream EXCEPT !.conn = "open"]
        /\ reader' = [reader EXCEPT !.pc = "reading"]
     \/ \E error \in Errors : Reader(Ended(error))

\* used[e]: what the user of the stream may make of the event e.
ForegroundReads(used) ==
  /\ reader.pc = "reading" /\ ~Silent /\ UNCHANGED thread
  /\ stream' = [stream EXCEPT !.wire = Tail(@)]
  /\ LET e == Head(stream.wire) IN
       IF ~IsOfSession(e) THEN UNCHANGED reader ELSE reader' \in used[e]

\* The stream is over, for one of the reasons it can be.
ForegroundEnds(over) ==
  /\ reader.pc = "reading" /\ Silent /\ stream.conn # "open" /\ UNCHANGED thread
  /\ Reader(IF stream.conn = "ended" THEN [over EXCEPT !.result = "end"]
            ELSE [over EXCEPT !.result = Error])

ForegroundTimesOut(over) ==
  /\ reader.pc \in {"idle", "reading"} /\ UNCHANGED thread
  /\ Reader([over EXCEPT !.result = "timeout"])
=============================================================================
