------------------------------- MODULE EventLog -------------------------------
(***************************************************************************)
(* DurableEventLog of lab08.py, and apply_mutable_snapshot, the baseline   *)
(* it is compared with.  Events arrive in any order and any number of      *)
(* times and are appended as they arrive; some may be wrong, and an append *)
(* may die half-way.  The log is opened and replayed at any time.          *)
(***************************************************************************)
EXTENDS Integers, FiniteSets, SequencesExt

CONSTANTS
  Event,        \* the events that may arrive: event_id, sequence and kind
  Torn,         \* a line that does not parse
  MaxArrivals   \* bound on the lines of the log

ASSUME EventParameters ==
  /\ \A e \in Event : DOMAIN e = {"event_id", "sequence", "kind"} /\ e.sequence \in Int
  /\ Torn \notin Event

ASSUME EventBounds == MaxArrivals \in Nat

VARIABLES
  log,          \* the file: what its lines read as
  terminated,   \* its last line ends with a newline
  acked,        \* history: the events whose append returned
  known         \* history: the state of the last replay that did not raise

vars == <<log, terminated, acked, known>>

Init == log = <<>> /\ terminated = TRUE /\ acked = {} /\ known = "pending"

\* Mutant of Glued: a line is read up to the end of its first event.
Glued_First(line) == line

\* What a line reads as once another event is written behind it.
Glued(line) == Torn

\* The lines after writing what reads as `line` at the end of the file.
Written(line) ==
  IF terminated THEN Append(log, line) ELSE [log EXCEPT ![Len(log)] = Glued(@)]

append(e) ==
  /\ Len(log) < MaxArrivals
  /\ log' = Written(e) /\ terminated' = TRUE
  /\ acked' = acked \cup {e}
  /\ UNCHANGED known

\* The writer dies: part of the line is in the file, or all of it but the newline.
AppendDies(e) ==
  /\ Len(log) < MaxArrivals
  /\ \E line \in {e, Torn} : log' = Written(line)
  /\ terminated' = FALSE
  /\ UNCHANGED <<acked, known>>

Raises == "raises"

\* Two different events arrived under one id.
Conflicting(arrivals) ==
  \E i, j \in DOMAIN arrivals :
    arrivals[i].event_id = arrivals[j].event_id /\ arrivals[i] # arrivals[j]

\* What sorted(..., key=sequence) may make of the distinct events: those that share a
\* number stay as they arrived.
Canonical(events) ==
  {c \in [1 .. Cardinality(events) -> events] :
     ToSet(c) = events /\ \A i, j \in DOMAIN c : i < j => c[i].sequence <= c[j].sequence}

\* Mutant of Contiguous: a log may begin anywhere.
Contiguous_AnyStart(events) ==
  \A i \in 2 .. Len(events) : events[i].sequence = events[i - 1].sequence + 1

Contiguous(events) == \A i \in DOMAIN events : events[i].sequence = i

\* Mutant of Reduce: a step may be started again.
Reduce_Restarts(state, e) ==
  CASE state # Raises /\ e.kind = "step_started" -> "running"
    [] state = "running" /\ e.kind = "step_completed" -> "completed"
    [] OTHER -> Raises

Reduce(state, e) ==
  CASE state = "pending" /\ e.kind = "step_started" -> "running"
    [] state = "running" /\ e.kind = "step_completed" -> "completed"
    [] OTHER -> Raises

\* The state after the loop over the events in this order.
Reduced(events) ==
  LET state[i \in 0 .. Len(events)] ==
        IF i = 0 THEN "pending" ELSE Reduce(state[i - 1], events[i])
  IN  state[Len(events)]

\* The state that replay returns, or that it raises an error.
replay(lines) ==
  LET canonical == {c \in Canonical(ToSet(lines)) : Contiguous(c)}
  IN  IF Torn \in ToSet(lines) \/ Conflicting(lines) \/ canonical = {}
      THEN Raises
      ELSE Reduced(CHOOSE c \in canonical : TRUE)

\* Somebody opens the log.
Replay ==
  /\ replay(log) # Raises
  /\ known' = replay(log)
  /\ UNCHANGED <<log, terminated, acked>>

\* The baseline believes the event that came last.
Snapshot(state, e) ==
  CASE state # Raises /\ e.kind = "step_started" -> "running"
    [] state # Raises /\ e.kind = "step_completed" -> "completed"
    [] OTHER -> Raises

apply_mutable_snapshot(arrivals) ==
  LET state[i \in 0 .. Len(arrivals)] ==
        IF i = 0 THEN "pending" ELSE Snapshot(state[i - 1], arrivals[i])
  IN  state[Len(arrivals)]

Next == Replay \/ \E e \in Event : append(e) \/ AppendDies(e)

Spec == Init /\ [][Next]_vars
-----------------------------------------------------------------------------
(* Properties                                                              *)

TypeOK ==
  /\ log \in Seq(Event \cup {Torn}) /\ Len(log) <= MaxArrivals
  /\ terminated \in BOOLEAN
  /\ acked \subseteq Event
  /\ known \in {"pending", "running", "completed"}

\* A replay that gives an answer has seen every event whose append returned: an
\* append that died, and one that wrote behind it, cannot hide another event.
NothingLost == replay(log) # Raises => acked \subseteq ToSet(log)

\* The well-formed state: types, and a log that is complete or refused.
LogInv == TypeOK /\ NothingLost

\* The only histories of a step: nothing yet, started, started and completed.
History(state, S) ==
  CASE state = "pending" -> S = {}
    [] state = "running" ->
         \E s \in S : S = {s} /\ s.sequence = 1 /\ s.kind = "step_started"
    [] state = "completed" ->
         \E s, c \in S :
           /\ S = {s, c} /\ s.event_id # c.event_id
           /\ s.sequence = 1 /\ s.kind = "step_started"
           /\ c.sequence = 2 /\ c.kind = "step_completed"

\* Replay is a function of the set of events that arrived: in whatever order and
\* however often they did, it returns the state of which they are the history, and
\* raises if they are none or a line is damaged (labs/08 QUESTION.md: duplicates and reordering).
ReplayIsReference ==
  \A state \in {"pending", "running", "completed"} :
    replay(log) = state <=> Torn \notin ToSet(log) /\ History(state, ToSet(log))

\* What a replay has told is never taken back by a later one, whatever arrives in
\* between: a step that was running is not pending again, a completed one is done.
StateNeverRegresses ==
  [][ /\ known = "running" => known' # "pending"
      /\ known = "completed" => known' = "completed" ]_vars

\* When replay accepts the log, the naive snapshot is right exactly if the last
\* arrival was the latest event of the step.
SnapshotFollowsLastArrival ==
  replay(log) # Raises /\ log # <<>> =>
    ( apply_mutable_snapshot(log) = replay(log)
        <=> \A e \in ToSet(log) : e.sequence <= Last(log).sequence )
=============================================================================
