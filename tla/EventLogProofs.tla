----------------------------- MODULE EventLogProofs -----------------------------
(***************************************************************************)
(* Proofs about EventLog, for every set of events and every length of the  *)
(* log: replay is the reference on every log of any arrivals, a torn or    *)
(* glued line hides no event, a state that was told stays, and the naive   *)
(* snapshot is as good as its last arrival.                                *)
(***************************************************************************)
EXTENDS EventLog, FiniteSetTheorems, WellFoundedInduction, TLAPS

-----------------------------------------------------------------------------
(* The inductive invariant                                                 *)

\* Once a line is damaged it stays so.  Until then the file has every event whose
\* append returned, and the history of the last state that was told.
Kept ==
  \/ Torn \in ToSet(log)
  \/ acked \subseteq ToSet(log) /\ \E S \in SUBSET ToSet(log) : History(known, S)

\* Only the end of a line can be missing.
EndsInLine == ~ terminated => Len(log) > 0

IInv == TypeOK /\ EndsInLine /\ Kept

-----------------------------------------------------------------------------
(* Loops over events                                                       *)

Answers == {"pending", "running", "completed"}
LoopStates == Answers \cup {Raises}

\* A set of numbers with zero and each successor has all numbers.
LEMMA SetInduction ==
  ASSUME NEW S, 0 \in S, \A n \in Nat : n \in S => n + 1 \in S
  PROVE  Nat \subseteq S
<1> SUFFICES ASSUME Nat \ S # {} PROVE FALSE
  OBVIOUS
<1>1. PICK m \in Nat \ S : \A k \in Nat \ S : ~ (<<k, m>> \in OpToRel(<, Nat))
  BY NatLessThanWellFounded, WFMin
<1>2. m # 0 /\ m - 1 \in Nat
  OBVIOUS
<1>3. <<m - 1, m>> \in OpToRel(<, Nat)
  BY <1>2 DEF OpToRel
<1>4. m - 1 \in S
  BY <1>1, <1>2, <1>3
<1> QED
  BY <1>2, <1>4

\* g are the states of a loop of n steps that begins in a.
LoopRuns(g, n, a, F) == \A i \in 0 .. n : g[i] = IF i = 0 THEN a ELSE F[i][g[i - 1]]

\* A loop of n steps has a state before and after each of them: what a recursive
\* definition needs to be one.
LEMMA LoopExists ==
  ASSUME NEW V, NEW a \in V, NEW F \in [Nat -> [V -> V]], NEW n \in Nat
  PROVE  \E g \in [0 .. n -> V] : LoopRuns(g, n, a, F)
<1> DEFINE Runs(m, g) == \A i \in 0 .. m : g[i] = IF i = 0 THEN a ELSE F[i][g[i - 1]]
           P == {m \in Nat : \E g \in [0 .. m -> V] : Runs(m, g)}
<1>1. 0 \in P
  <2>1. [i \in 0 .. 0 |-> a] \in [0 .. 0 -> V] /\ Runs(0, [i \in 0 .. 0 |-> a])
    OBVIOUS
  <2> QED
    BY <2>1
<1>2. ASSUME NEW m \in Nat, m \in P
      PROVE  m + 1 \in P
  <2>1. PICK g \in [0 .. m -> V] : Runs(m, g)
    BY <1>2
  <2> DEFINE h == [i \in 0 .. m + 1 |-> IF i = m + 1 THEN F[m + 1][g[m]] ELSE g[i]]
  <2>2. h \in [0 .. m + 1 -> V]
    OBVIOUS
  <2>3. ASSUME NEW i \in 0 .. m + 1
        PROVE  h[i] = IF i = 0 THEN a ELSE F[i][h[i - 1]]
    <3>1. CASE i = m + 1
      BY <3>1
    <3>2. CASE i \in 0 .. m
      BY <2>1, <3>2
    <3> QED
      BY <3>1, <3>2
  <2> HIDE DEF h
  <2> QED
    BY <2>2, <2>3
<1> HIDE DEF P
<1>3. n \in P
  BY <1>1, <1>2, SetInduction
<1> QED
  BY <1>3 DEF P, LoopRuns

\* The states of replay's last loop.
Reductions(events) ==
  LET state[i \in 0 .. Len(events)] ==
        IF i = 0 THEN "pending" ELSE Reduce(state[i - 1], events[i])
  IN  state

\* The states of the loop of apply_mutable_snapshot.
Snapshots(events) ==
  LET state[i \in 0 .. Len(events)] ==
        IF i = 0 THEN "pending" ELSE Snapshot(state[i - 1], events[i])
  IN  state

\* replay's loop reduces one event after the other.
LEMMA ReductionFacts ==
  ASSUME NEW events, Len(events) \in Nat
  PROVE  /\ Reduced(events) = Reductions(events)[Len(events)]
         /\ Reductions(events)[0] = "pending"
         /\ \A i \in 1 .. Len(events) :
              Reductions(events)[i] = Reduce(Reductions(events)[i - 1], events[i])
         /\ \A i \in 0 .. Len(events) : Reductions(events)[i] \in LoopStates
<1> DEFINE n == Len(events)
           Body(f) == [i \in 0 .. n |-> IF i = 0 THEN "pending" ELSE Reduce(f[i - 1], events[i])]
           F == [i \in Nat |-> [state \in LoopStates |-> Reduce(state, events[i])]]
<1>1. /\ Reduced(events) = Reductions(events)[n]
      /\ Reductions(events) = CHOOSE f : f = Body(f)
  BY DEF Reduced, Reductions
<1>2. F \in [Nat -> [LoopStates -> LoopStates]] /\ "pending" \in LoopStates
  BY DEF Reduce, LoopStates, Answers
<1>3. \A i \in Nat : \A state \in LoopStates : F[i][state] = Reduce(state, events[i])
  OBVIOUS
<1> HIDE DEF F, n
<1>4. n \in Nat
  BY DEF n
<1>5. PICK g \in [0 .. n -> LoopStates] : LoopRuns(g, n, "pending", F)
  BY <1>2, <1>4, LoopExists
<1>6. ASSUME NEW i \in 0 .. n
      PROVE  g[i] = IF i = 0 THEN "pending" ELSE Reduce(g[i - 1], events[i])
  <2>1. i # 0 => g[i - 1] \in LoopStates /\ i \in Nat
    BY <1>4, <1>5
  <2> QED
    BY <1>3, <1>5, <2>1 DEF LoopRuns
<1>7. g = Body(g)
  BY <1>6
<1>8. Reductions(events) = Body(Reductions(events))
  BY <1>1, <1>7
<1> HIDE DEF Body
<1>9. \A i \in 0 .. n : Reductions(events)[i] =
        IF i = 0 THEN "pending" ELSE Reduce(Reductions(events)[i - 1], events[i])
  BY <1>8 DEF Body
<1>10. \A i \in 0 .. n : Reductions(events)[i] \in LoopStates
  BY <1>9 DEF Reduce, LoopStates, Answers
<1> QED
  BY <1>1, <1>4, <1>9, <1>10 DEF n

\* So does the loop of the snapshot.
LEMMA SnapshotFacts ==
  ASSUME NEW events, Len(events) \in Nat
  PROVE  /\ apply_mutable_snapshot(events) = Snapshots(events)[Len(events)]
         /\ Snapshots(events)[0] = "pending"
         /\ \A i \in 1 .. Len(events) :
              Snapshots(events)[i] = Snapshot(Snapshots(events)[i - 1], events[i])
         /\ \A i \in 0 .. Len(events) : Snapshots(events)[i] \in LoopStates
<1> DEFINE n == Len(events)
           Body(f) == [i \in 0 .. n |-> IF i = 0 THEN "pending" ELSE Snapshot(f[i - 1], events[i])]
           F == [i \in Nat |-> [state \in LoopStates |-> Snapshot(state, events[i])]]
<1>1. /\ apply_mutable_snapshot(events) = Snapshots(events)[n]
      /\ Snapshots(events) = CHOOSE f : f = Body(f)
  BY DEF apply_mutable_snapshot, Snapshots
<1>2. F \in [Nat -> [LoopStates -> LoopStates]] /\ "pending" \in LoopStates
  BY DEF Snapshot, LoopStates, Answers
<1>3. \A i \in Nat : \A state \in LoopStates : F[i][state] = Snapshot(state, events[i])
  OBVIOUS
<1> HIDE DEF F, n
<1>4. n \in Nat
  BY DEF n
<1>5. PICK g \in [0 .. n -> LoopStates] : LoopRuns(g, n, "pending", F)
  BY <1>2, <1>4, LoopExists
<1>6. ASSUME NEW i \in 0 .. n
      PROVE  g[i] = IF i = 0 THEN "pending" ELSE Snapshot(g[i - 1], events[i])
  <2>1. i # 0 => g[i - 1] \in LoopStates /\ i \in Nat
    BY <1>4, <1>5
  <2> QED
    BY <1>3, <1>5, <2>1 DEF LoopRuns
<1>7. g = Body(g)
  BY <1>6
<1>8. Snapshots(events) = Body(Snapshots(events))
  BY <1>1, <1>7
<1> HIDE DEF Body
<1>9. \A i \in 0 .. n : Snapshots(events)[i] =
        IF i = 0 THEN "pending" ELSE Snapshot(Snapshots(events)[i - 1], events[i])
  BY <1>8 DEF Body
<1>10. \A i \in 0 .. n : Snapshots(events)[i] \in LoopStates
  BY <1>9 DEF Snapshot, LoopStates, Answers
<1> QED
  BY <1>1, <1>4, <1>9, <1>10 DEF n
\* replay's loop never leaves an error.
LEMMA RaisesStays ==
  ASSUME NEW events, Len(events) \in Nat, NEW i \in 0 .. Len(events), Reductions(events)[i] = Raises
  PROVE  Reductions(events)[Len(events)] = Raises
<1> DEFINE n == Len(events)
           P == {k \in Nat : i + k <= n => Reductions(events)[i + k] = Raises}
<1>1. 0 \in P
  OBVIOUS
<1>2. ASSUME NEW k \in Nat, k \in P
      PROVE  k + 1 \in P
  <2> SUFFICES ASSUME i + (k + 1) <= n PROVE Reductions(events)[i + (k + 1)] = Raises
    OBVIOUS
  <2>1. /\ i + (k + 1) \in 1 .. n /\ (i + (k + 1)) - 1 = i + k
        /\ Reductions(events)[i + k] = Raises
    BY <1>2
  <2>2. Reductions(events)[i + (k + 1)] = Reduce(Raises, events[i + (k + 1)])
    BY <2>1, ReductionFacts
  <2> QED
    BY <2>2 DEF Reduce, Raises
<1> HIDE DEF P
<1>3. n - i \in P
  BY <1>1, <1>2, SetInduction
<1> QED
  BY <1>3 DEF P

\* What replay's loop makes of the canonical events: only a start, or a start and a
\* completion, are accepted.
LEMMA ReductionEnds ==
  ASSUME NEW events, Len(events) \in Nat
  PROVE  /\ Reduced(events) \in LoopStates
         /\ Reduced(events) = "pending" <=> Len(events) = 0
         /\ Reduced(events) = "running" <=> Len(events) = 1 /\ events[1].kind = "step_started"
         /\ Reduced(events) = "completed" <=>
              /\ Len(events) = 2
              /\ events[1].kind = "step_started" /\ events[2].kind = "step_completed"
<1> DEFINE n == Len(events)
           state == Reductions(events)
<1>1. /\ Reduced(events) = state[n] /\ state[0] = "pending"
      /\ \A i \in 1 .. n : state[i] = Reduce(state[i - 1], events[i])
      /\ \A i \in 0 .. n : state[i] \in LoopStates
  BY ReductionFacts
<1>2. \A i \in 0 .. n : state[i] = Raises => state[n] = Raises
  BY RaisesStays
<1> HIDE DEF state
<1>3. n >= 1 => state[1] = IF events[1].kind = "step_started" THEN "running" ELSE Raises
  <2> SUFFICES ASSUME n >= 1 PROVE state[1] = Reduce("pending", events[1])
    BY DEF Reduce
  <2> QED
    BY <1>1
<1>4. n >= 2 => state[2] = IF events[1].kind = "step_started" /\ events[2].kind = "step_completed"
                           THEN "completed" ELSE Raises
  <2> SUFFICES ASSUME n >= 2 PROVE state[2] = Reduce(state[1], events[2])
    BY <1>3 DEF Reduce, Raises
  <2> QED
    BY <1>1
<1>5. n >= 3 => state[3] = Raises
  <2> SUFFICES ASSUME n >= 3 PROVE state[3] = Reduce(state[2], events[3])
    BY <1>4 DEF Reduce, Raises
  <2> QED
    BY <1>1
<1>6. n >= 3 => state[n] = Raises
  BY <1>2, <1>5
<1>7. state[n] \in LoopStates
  BY <1>1
<1>8. n \in Nat
  OBVIOUS
<1>9. Reduced(events) = state[n]
  BY <1>1
<1> HIDE DEF n
<1>10. n = 0 \/ n = 1 \/ n = 2 \/ n >= 3
  BY <1>8
<1>11. n = 0 => state[n] = "pending"
  BY <1>1
<1>12. /\ state[n] = "pending" <=> n = 0
       /\ state[n] = "running" <=> n = 1 /\ events[1].kind = "step_started"
       /\ state[n] = "completed" <=>
            n = 2 /\ events[1].kind = "step_started" /\ events[2].kind = "step_completed"
  BY <1>3, <1>4, <1>6, <1>8, <1>10, <1>11 DEF Raises
<1> QED
  BY <1>7, <1>9, <1>12 DEF n

\* The snapshot's loop raises for unknown kinds only, and ends in the state of the
\* last event.
LEMMA SnapshotEnds ==
  ASSUME NEW events, Len(events) \in Nat \ {0},
         \A i \in 1 .. Len(events) : events[i].kind \in {"step_started", "step_completed"}
  PROVE  apply_mutable_snapshot(events) =
           IF events[Len(events)].kind = "step_started" THEN "running" ELSE "completed"
<1> DEFINE n == Len(events)
           state == Snapshots(events)
           P == {k \in Nat : k <= n => state[k] # Raises}
<1>1. /\ apply_mutable_snapshot(events) = state[n] /\ state[0] = "pending"
      /\ \A i \in 1 .. n : state[i] = Snapshot(state[i - 1], events[i])
  BY SnapshotFacts
<1> HIDE DEF state
<1>2. 0 \in P
  BY <1>1 DEF Raises
<1>3. ASSUME NEW k \in Nat, k \in P
      PROVE  k + 1 \in P
  <2> SUFFICES ASSUME k + 1 <= n PROVE state[k + 1] # Raises
    OBVIOUS
  <2>1. k + 1 \in 1 .. n /\ (k + 1) - 1 = k /\ state[k] # Raises
    BY <1>3
  <2>2. state[k + 1] = Snapshot(state[k], events[k + 1])
    BY <1>1, <2>1
  <2>3. events[k + 1].kind \in {"step_started", "step_completed"}
    BY <2>1
  <2> QED
    BY <2>1, <2>2, <2>3 DEF Snapshot, Raises
<1>4. n - 1 \in P
  <2> HIDE DEF P
  <2> QED
    BY <1>2, <1>3, SetInduction
<1>5. state[n] = Snapshot(state[n - 1], events[n]) /\ state[n - 1] # Raises
  BY <1>1, <1>4
<1>6. events[n].kind \in {"step_started", "step_completed"}
  OBVIOUS
<1> QED
  BY <1>1, <1>5, <1>6 DEF Snapshot
-----------------------------------------------------------------------------
(* Replay                                                                  *)

Lines == Event \cup {Torn}

\* A log has finitely many distinct lines, and all are events unless one is torn.
LEMMA LineFacts ==
  ASSUME NEW lines \in Seq(Lines)
  PROVE  /\ IsFiniteSet(ToSet(lines)) /\ Cardinality(ToSet(lines)) \in Nat
         /\ ToSet(lines) \subseteq Lines
         /\ Torn \notin ToSet(lines) => ToSet(lines) \subseteq Event
<1>1. DOMAIN lines = 1 .. Len(lines) /\ Len(lines) \in Nat
  OBVIOUS
<1>2. lines \in Surjection(1 .. Len(lines), ToSet(lines))
  BY <1>1 DEF Surjection, ToSet
<1>3. IsFiniteSet(1 .. Len(lines))
  BY <1>1, FS_Interval
<1>4. IsFiniteSet(ToSet(lines))
  BY <1>2, <1>3, FS_Surjection
<1>5. Cardinality(ToSet(lines)) \in Nat
  BY <1>4, FS_CardinalityType
<1> QED
  BY <1>1, <1>4, <1>5 DEF ToSet, Lines

\* A canonical order of the events that replay accepts has each of them, at the place
\* its number says.
LEMMA CanonicalFacts ==
  ASSUME NEW S, Cardinality(S) \in Nat, NEW c \in Canonical(S), Contiguous(c)
  PROVE  /\ Len(c) = Cardinality(S) /\ Len(c) \in Nat /\ DOMAIN c = 1 .. Len(c)
         /\ S = {c[i] : i \in 1 .. Len(c)}
         /\ \A i \in 1 .. Len(c) : c[i] \in S /\ c[i].sequence = i
<1>1. c \in [1 .. Cardinality(S) -> S] /\ {c[i] : i \in DOMAIN c} = S
  BY DEF Canonical, ToSet
<1>2. c \in Seq(S) /\ Len(c) = Cardinality(S) /\ DOMAIN c = 1 .. Len(c)
  BY <1>1
<1> QED
  BY <1>1, <1>2 DEF Contiguous

\* What replay tells is the end of its loop over some accepted order of the events.
LEMMA ReplayRuns ==
  ASSUME NEW lines
  PROVE  \/ replay(lines) = Raises
         \/ /\ Torn \notin ToSet(lines) /\ ~ Conflicting(lines)
            /\ \E c \in Canonical(ToSet(lines)) : Contiguous(c) /\ replay(lines) = Reduced(c)
<1> DEFINE canonical == {c \in Canonical(ToSet(lines)) : Contiguous(c)}
           chosen == CHOOSE c \in canonical : TRUE
<1> SUFFICES ASSUME replay(lines) # Raises
             PROVE  /\ Torn \notin ToSet(lines) /\ ~ Conflicting(lines)
                    /\ \E c \in canonical : replay(lines) = Reduced(c)
  OBVIOUS
<1>1. Torn \notin ToSet(lines) /\ ~ Conflicting(lines) /\ canonical # {}
  BY DEF replay
<1>2. replay(lines) = Reduced(chosen)
  BY <1>1 DEF replay
<1>3. chosen \in canonical
  BY <1>1
<1> HIDE DEF chosen, canonical
<1> QED
  BY <1>1, <1>2, <1>3

\* A history is accepted: no two of its events conflict, and they have an order.
LEMMA HistoryIsAccepted ==
  ASSUME NEW lines \in Seq(Lines), Torn \notin ToSet(lines),
         NEW state \in Answers, History(state, ToSet(lines))
  PROVE  /\ ~ Conflicting(lines)
         /\ \E c \in Canonical(ToSet(lines)) : Contiguous(c)
<1> DEFINE S == ToSet(lines)
<1>1. /\ \A i \in DOMAIN lines : lines[i] \in S
      /\ History(state, S)
  BY DEF ToSet
<1> HIDE DEF S
<1>2. CASE state = "pending"
  <2>1. S = {}
    BY <1>1, <1>2 DEF History
  <2>2. Cardinality(S) = 0
    BY <2>1, FS_EmptySet
  <2> DEFINE c == [i \in {} |-> i]
  <2>3. 1 .. Cardinality(S) = {}
    BY <2>2
  <2>4. c \in [1 .. Cardinality(S) -> S] /\ DOMAIN c = {} /\ ToSet(c) = S
    BY <2>1, <2>3 DEF ToSet
  <2> HIDE DEF c
  <2>5. c \in Canonical(S) /\ Contiguous(c)
    BY <2>4 DEF Canonical, Contiguous
  <2> QED
    BY <1>1, <2>1, <2>5 DEF Conflicting, S
<1>3. CASE state = "running"
  <2>1. PICK s \in S : S = {s} /\ s.sequence = 1
    BY <1>1, <1>3 DEF History
  <2>2. Cardinality(S) = 1
    BY <2>1, FS_Singleton
  <2> DEFINE c == [i \in 1 .. 1 |-> s]
  <2>3. c \in [1 .. 1 -> S] /\ DOMAIN c = 1 .. 1 /\ \A i \in 1 .. 1 : c[i] = s /\ i = 1
    BY <2>1
  <2> HIDE DEF c
  <2>4. ToSet(c) = S
    BY <2>1, <2>3 DEF ToSet
  <2>5. c \in [1 .. Cardinality(S) -> S]
    BY <2>2, <2>3
  <2>6. \A i \in 1 .. 1 : c[i].sequence = i
    BY <2>1, <2>3
  <2>7. c \in Canonical(S) /\ Contiguous(c)
    BY <2>3, <2>4, <2>5, <2>6 DEF Canonical, Contiguous
  <2> QED
    BY <1>1, <2>1, <2>7 DEF Conflicting, S
<1>4. CASE state = "completed"
  <2>1. PICK s \in S, d \in S :
          S = {s, d} /\ s.event_id # d.event_id /\ s.sequence = 1 /\ d.sequence = 2
    BY <1>1, <1>4 DEF History
  <2>2. Cardinality(S) = 2
    <3>1. IsFiniteSet({s}) /\ Cardinality({s}) = 1
      BY FS_Singleton
    <3>2. d \notin {s} /\ S = {s} \cup {d}
      BY <2>1
    <3>3. Cardinality({s} \cup {d}) = Cardinality({s}) + 1
      BY <3>1, <3>2, FS_AddElement
    <3>4. Cardinality({s} \cup {d}) = 2
      BY <3>1, <3>3
    <3> HIDE DEF S
    <3> QED
      BY <3>2, <3>4
  <2> DEFINE c == [i \in 1 .. 2 |-> IF i = 1 THEN s ELSE d]
  <2>3. /\ c \in [1 .. 2 -> S] /\ DOMAIN c = 1 .. 2 /\ c[1] = s /\ c[2] = d
        /\ \A i \in 1 .. 2 : i = 1 \/ i = 2
    BY <2>1
  <2> HIDE DEF c
  <2>4. ToSet(c) = S
    BY <2>1, <2>3 DEF ToSet
  <2>5. \A i \in 1 .. 2 : c[i].sequence = i
    BY <2>1, <2>3
  <2>6. c \in Canonical(S) /\ Contiguous(c)
    BY <2>2, <2>3, <2>4, <2>5 DEF Canonical, Contiguous
  <2> QED
    BY <1>1, <2>1, <2>6 DEF Conflicting, S
<1> QED
  BY <1>2, <1>3, <1>4 DEF Answers

\* An accepted order of the events ends in a state exactly if they are its history.
LEMMA LoopTellsHistory ==
  ASSUME NEW lines \in Seq(Lines), Torn \notin ToSet(lines), ~ Conflicting(lines),
         NEW c \in Canonical(ToSet(lines)), Contiguous(c), NEW state \in Answers
  PROVE  Reduced(c) = state <=> History(state, ToSet(lines))
<1> DEFINE S == ToSet(lines)
<1>1. /\ Len(c) \in Nat /\ S = {c[i] : i \in 1 .. Len(c)}
      /\ \A i \in 1 .. Len(c) : c[i] \in S /\ c[i].sequence = i
  BY LineFacts, CanonicalFacts
<1>2. \A e, f \in S : e.event_id = f.event_id => e = f
  BY DEF Conflicting, ToSet
<1> HIDE DEF S
<1>3. CASE state = "pending"
  <2>1. Len(c) = 0 <=> S = {}
    <3>1. CASE Len(c) = 0
      BY <1>1, <3>1
    <3>2. CASE Len(c) # 0
      <4>1. 1 \in 1 .. Len(c)
        BY <1>1, <3>2
      <4> QED
        BY <1>1, <3>2, <4>1
    <3> QED
      BY <3>1, <3>2
  <2> QED
    BY <1>1, <1>3, <2>1, ReductionEnds DEF History, S
<1>4. CASE state = "running"
  <2>1. ASSUME Len(c) = 1, c[1].kind = "step_started"
        PROVE  History(state, S)
    <3>1. c[1] \in S /\ c[1].sequence = 1 /\ S = {c[1]}
      BY <1>1, <2>1
    <3> QED
      BY <1>4, <2>1, <3>1 DEF History
  <2>2. ASSUME History(state, S)
        PROVE  Len(c) = 1 /\ c[1].kind = "step_started"
    <3>1. PICK s \in S : S = {s} /\ s.sequence = 1 /\ s.kind = "step_started"
      BY <1>4, <2>2 DEF History
    <3>2. \A i \in 1 .. Len(c) : c[i] = s /\ i = 1
      BY <1>1, <3>1
    <3>3. Len(c) # 0
      BY <1>1, <3>1
    <3>4. Len(c) = 1
      <4>1. Len(c) \in 1 .. Len(c)
        BY <1>1, <3>3
      <4> QED
        BY <3>2, <4>1
    <3> QED
      BY <3>1, <3>2, <3>4
  <2> QED
    BY <1>1, <1>4, <2>1, <2>2, ReductionEnds DEF S
<1>5. CASE state = "completed"
  <2>1. ASSUME Len(c) = 2, c[1].kind = "step_started", c[2].kind = "step_completed"
        PROVE  History(state, S)
    <3>1. /\ c[1] \in S /\ c[1].sequence = 1 /\ c[2] \in S /\ c[2].sequence = 2
          /\ S = {c[1], c[2]}
      BY <1>1, <2>1
    <3>2. c[1].event_id # c[2].event_id
      BY <1>2, <3>1
    <3> QED
      BY <1>5, <2>1, <3>1, <3>2 DEF History
  <2>2. ASSUME History(state, S)
        PROVE  Len(c) = 2 /\ c[1].kind = "step_started" /\ c[2].kind = "step_completed"
    <3>1. PICK s \in S, d \in S :
            /\ S = {s, d} /\ s.sequence = 1 /\ s.kind = "step_started"
            /\ d.sequence = 2 /\ d.kind = "step_completed"
      BY <1>5, <2>2 DEF History
    <3>2. ASSUME NEW i \in 1 .. Len(c)
          PROVE  (c[i] = s /\ i = 1) \/ (c[i] = d /\ i = 2)
      <4>1. c[i] \in {s, d} /\ c[i].sequence = i
        BY <1>1, <3>1
      <4> QED
        BY <3>1, <4>1
    <3>3. \E i \in 1 .. Len(c) : c[i] = d
      BY <1>1
    <3>4. 2 \in 1 .. Len(c)
      BY <3>1, <3>2, <3>3
    <3>5. Len(c) = 2
      <4>1. PICK n \in Nat : n = Len(c)
        BY <1>1
      <4>2. n \in 1 .. n /\ n >= 2
        BY <3>4, <4>1
      <4>3. \A m \in 1 .. n : m = 1 \/ m = 2
        BY <3>2, <4>1
      <4>4. n = 1 \/ n = 2
        BY <4>2, <4>3
      <4> QED
        BY <4>1, <4>2, <4>4
    <3> QED
      BY <3>1, <3>2, <3>5
  <2> QED
    BY <1>1, <1>5, <2>1, <2>2, ReductionEnds DEF S
<1> QED
  BY <1>3, <1>4, <1>5 DEF Answers

\* Replay is the reference, on every log.
LEMMA ReplayTells ==
  ASSUME NEW lines \in Seq(Lines), NEW state \in Answers
  PROVE  replay(lines) = state <=> Torn \notin ToSet(lines) /\ History(state, ToSet(lines))
<1>1. state # Raises
  BY DEF Answers, Raises
<1>2. ASSUME replay(lines) = state
      PROVE  Torn \notin ToSet(lines) /\ History(state, ToSet(lines))
  BY <1>1, <1>2, ReplayRuns, LoopTellsHistory
<1>3. ASSUME Torn \notin ToSet(lines), History(state, ToSet(lines))
      PROVE  replay(lines) = state
  <2> DEFINE canonical == {c \in Canonical(ToSet(lines)) : Contiguous(c)}
             chosen == CHOOSE c \in canonical : TRUE
  <2>1. ~ Conflicting(lines) /\ canonical # {}
    BY <1>3, HistoryIsAccepted
  <2>2. replay(lines) = Reduced(chosen)
    BY <1>3, <2>1 DEF replay
  <2>3. chosen \in Canonical(ToSet(lines)) /\ Contiguous(chosen)
    BY <2>1
  <2> HIDE DEF chosen, canonical
  <2> QED
    BY <1>3, <2>1, <2>2, <2>3, LoopTellsHistory
<1> QED
  BY <1>2, <1>3

\* It tells nothing else.
LEMMA ReplayAnswers ==
  ASSUME NEW lines \in Seq(Lines)
  PROVE  replay(lines) # Raises => replay(lines) \in Answers
<1> SUFFICES ASSUME replay(lines) # Raises PROVE replay(lines) \in Answers
  OBVIOUS
<1>1. PICK c \in Canonical(ToSet(lines)) : Contiguous(c) /\ replay(lines) = Reduced(c)
  BY ReplayRuns
<1>2. Len(c) \in Nat
  BY <1>1, LineFacts, CanonicalFacts
<1> QED
  BY <1>1, <1>2, ReductionEnds DEF LoopStates
-----------------------------------------------------------------------------
(* The log                                                                 *)

\* Writing adds its line behind the others, or damages the unfinished one.
LEMMA WrittenFacts ==
  ASSUME TypeOK, EndsInLine, Len(log) < MaxArrivals, NEW line \in Lines
  PROVE  /\ Written(line) \in Seq(Lines)
         /\ Len(Written(line)) <= MaxArrivals /\ Len(Written(line)) > 0
         /\ \/ ToSet(Written(line)) = ToSet(log) \cup {line}
            \/ Torn \in ToSet(Written(line))
         /\ Torn \in ToSet(log) => Torn \in ToSet(Written(line))
<1>1. /\ log \in Seq(Lines) /\ Len(log) \in Nat /\ DOMAIN log = 1 .. Len(log)
      /\ Torn \in Lines /\ MaxArrivals \in Nat
  <2>1. log \in Seq(Lines)
    BY DEF TypeOK, Lines
  <2> QED
    BY <2>1, EventBounds DEF Lines
<1>2. CASE terminated
  <2>1. Written(line) = Append(log, line)
    BY <1>2 DEF Written
  <2>2. /\ Append(log, line) \in Seq(Lines) /\ Len(Append(log, line)) = Len(log) + 1
        /\ DOMAIN Append(log, line) = 1 .. Len(log) + 1
        /\ \A i \in 1 .. Len(log) : Append(log, line)[i] = log[i]
        /\ Append(log, line)[Len(log) + 1] = line
    BY <1>1
  <2>3. ToSet(Append(log, line)) = ToSet(log) \cup {line}
    BY <1>1, <2>2 DEF ToSet
  <2> QED
    BY <1>1, <2>1, <2>2, <2>3
<1>3. CASE ~ terminated
  <2>1. Len(log) > 0
    BY <1>3 DEF EndsInLine
  <2>2. Written(line) = [log EXCEPT ![Len(log)] = Torn]
    BY <1>3 DEF Written, Glued
  <2>3. /\ Written(line) \in Seq(Lines) /\ Len(Written(line)) = Len(log)
        /\ DOMAIN Written(line) = 1 .. Len(log)
        /\ Written(line)[Len(log)] = Torn
    BY <1>1, <2>1, <2>2
  <2>4. Torn \in ToSet(Written(line))
    BY <1>1, <2>1, <2>3 DEF ToSet
  <2> QED
    BY <1>1, <2>1, <2>3, <2>4
<1> QED
  BY <1>2, <1>3 DEF TypeOK

\* A log that got longer keeps what it has and tells.
LEMMA KeptByWriting ==
  ASSUME IInv, Len(log) < MaxArrivals, NEW line \in Lines, log' = Written(line), known' = known,
         terminated' \in BOOLEAN, acked' = acked \/ (line \in Event /\ acked' = acked \cup {line})
  PROVE  IInv'
<1> USE DEF IInv
<1>1. /\ log' \in Seq(Lines) /\ Len(log') <= MaxArrivals /\ Len(log') > 0
      /\ ToSet(log') = ToSet(log) \cup {line} \/ Torn \in ToSet(log')
      /\ Torn \in ToSet(log) => Torn \in ToSet(log')
  BY WrittenFacts
<1>2. TypeOK' /\ EndsInLine'
  BY <1>1 DEF TypeOK, EndsInLine, Lines
<1>3. Kept'
  <2> SUFFICES ASSUME Torn \notin ToSet(log')
               PROVE  acked' \subseteq ToSet(log') /\ \E S \in SUBSET ToSet(log') : History(known', S)
    BY DEF Kept
  <2>1. ToSet(log') = ToSet(log) \cup {line} /\ Torn \notin ToSet(log)
    BY <1>1
  <2>2. acked \subseteq ToSet(log) /\ \E S \in SUBSET ToSet(log) : History(known, S)
    BY <2>1 DEF Kept
  <2>3. acked' \subseteq ToSet(log')
    BY <2>1, <2>2
  <2>4. PICK S \in SUBSET ToSet(log) : History(known, S)
    BY <2>2
  <2>5. S \in SUBSET ToSet(log') /\ History(known', S)
    BY <2>1, <2>4
  <2> QED
    BY <2>3, <2>5
<1> QED
  BY <1>2, <1>3

\* An empty file is the history of a step that has not started.
LEMMA InitIInv == Init => IInv
<1> SUFFICES ASSUME Init PROVE IInv
  OBVIOUS
<1>1. log = <<>> /\ terminated = TRUE /\ acked = {} /\ known = "pending"
  BY DEF Init
<1>2. TypeOK /\ EndsInLine
  BY <1>1, EventBounds DEF TypeOK, EndsInLine
<1>3. Kept
  BY <1>1 DEF Kept, History
<1> QED
  BY <1>2, <1>3 DEF IInv

\* What replay tells of the log is the history of all its lines.
LEMMA LogTells ==
  ASSUME TypeOK, replay(log) # Raises
  PROVE  /\ replay(log) \in Answers /\ Torn \notin ToSet(log)
         /\ History(replay(log), ToSet(log))
<1>1. log \in Seq(Lines)
  BY DEF TypeOK, Lines
<1> QED
  BY <1>1, ReplayTells, ReplayAnswers

\* Every step keeps the strengthening.
LEMMA StepKeeps == IInv /\ [Next]_vars => IInv'
<1> SUFFICES ASSUME IInv, [Next]_vars PROVE IInv'
  OBVIOUS
<1>1. CASE Replay
  <2>1. /\ UNCHANGED <<log, terminated, acked>> /\ known' = replay(log)
        /\ known' \in Answers /\ History(known', ToSet(log))
    BY <1>1, LogTells DEF Replay, IInv
  <2> QED
    BY <2>1 DEF IInv, TypeOK, EndsInLine, Kept, Answers
<1>2. ASSUME NEW e \in Event, append(e)
      PROVE  IInv'
  <2>1. e \in Lines
    BY DEF Lines
  <2>2. /\ Len(log) < MaxArrivals /\ log' = Written(e) /\ terminated' = TRUE
        /\ acked' = acked \cup {e} /\ known' = known
    BY <1>2 DEF append
  <2> QED
    BY <2>1, <2>2, KeptByWriting
<1>3. ASSUME NEW e \in Event, AppendDies(e)
      PROVE  IInv'
  <2>1. PICK line \in {e, Torn} : log' = Written(line)
    BY <1>3 DEF AppendDies
  <2>2. line \in Lines
    BY <2>1 DEF Lines
  <2>3. Len(log) < MaxArrivals /\ terminated' = FALSE /\ acked' = acked /\ known' = known
    BY <1>3 DEF AppendDies
  <2> QED
    BY <2>1, <2>2, <2>3, KeptByWriting
<1>4. CASE UNCHANGED vars
  BY <1>4 DEF vars, IInv, TypeOK, EndsInLine, Kept
<1> QED
  BY <1>1, <1>2, <1>3, <1>4 DEF Next

-----------------------------------------------------------------------------
(* Theorems                                                                *)

\* The inductive invariant holds in every reachable state.
THEOREM InductiveInvariant == Spec => []IInv
  BY InitIInv, StepKeeps, PTL DEF Spec

\* A replay that gives an answer has seen every event whose append returned, whatever
\* appends died before and between (DurableEventLog.append, read_arrival_order).
THEOREM NoEventIsHidden == Spec => []LogInv
<1>1. IInv => LogInv
  BY LogTells DEF IInv, Kept, LogInv, NothingLost
<1> QED
  BY <1>1, InductiveInvariant, PTL

\* For every log of any events, in any order and any number of copies, replay tells
\* the state of which they are the history, and raises if they are none
\* (DurableEventLog.replay).
THEOREM ReplayIsFunctionOfSet == Spec => []ReplayIsReference
<1>1. TypeOK => ReplayIsReference
  <2> SUFFICES ASSUME TypeOK, NEW state \in Answers
               PROVE  replay(log) = state <=> Torn \notin ToSet(log) /\ History(state, ToSet(log))
    BY DEF ReplayIsReference, Answers
  <2>1. log \in Seq(Lines)
    BY DEF TypeOK, Lines
  <2> QED
    BY <2>1, ReplayTells
<1> QED
  BY <1>1, InductiveInvariant, PTL DEF IInv

\* What a replay has told is never taken back: of two answers the later is not earlier
\* in the life of the step.
THEOREM AnswersStay == Spec => StateNeverRegresses
<1> DEFINE Stays == /\ known = "running" => known' # "pending"
                    /\ known = "completed" => known' = "completed"
<1>1. IInv /\ [Next]_vars => [Stays]_vars
  <2> SUFFICES ASSUME IInv, Next PROVE Stays
    OBVIOUS
  <2>1. CASE Replay
    <3> DEFINE L == ToSet(log)
    <3>1. known' \in Answers /\ History(known', L) /\ Torn \notin L
      BY <2>1, LogTells DEF Replay, IInv
    <3>2. PICK S \in SUBSET L : History(known, S)
      BY <3>1 DEF IInv, Kept
    <3> HIDE DEF L
    <3>3. known' = "pending" => L = {}
      BY <3>1 DEF History
    <3>4. known' = "running" => \E s \in L : L = {s}
      BY <3>1 DEF History
    <3>5. known = "running" => S # {}
      BY <3>2 DEF History
    <3>6. known = "completed" => \E s, c \in S : s.sequence = 1 /\ c.sequence = 2
      BY <3>2 DEF History
    <3>7. known = "running" => known' # "pending"
      BY <3>3, <3>5
    <3>8. known = "completed" => known' # "pending" /\ known' # "running"
      BY <3>3, <3>4, <3>6
    <3> QED
      BY <3>1, <3>7, <3>8 DEF Answers
  <2>2. CASE \E e \in Event : append(e) \/ AppendDies(e)
    <3>1. known' = known
      BY <2>2 DEF append, AppendDies
    <3> QED
      BY <3>1
  <2> QED
    BY <2>1, <2>2 DEF Next
<1> QED
  BY <1>1, InductiveInvariant, PTL DEF Spec, StateNeverRegresses

\* On a log that replay accepts, apply_mutable_snapshot agrees with replay exactly if
\* no event that arrived is later in the step than the last arrival.
THEOREM SnapshotIsLastArrival == Spec => []SnapshotFollowsLastArrival
<1>1. TypeOK => SnapshotFollowsLastArrival
  <2> SUFFICES ASSUME TypeOK, replay(log) # Raises, log # <<>>
               PROVE  apply_mutable_snapshot(log) = replay(log)
                        <=> \A e \in ToSet(log) : e.sequence <= log[Len(log)].sequence
    BY DEF SnapshotFollowsLastArrival, Last
  <2> DEFINE S == ToSet(log)
             last == log[Len(log)]
  <2>1. log \in Seq(Lines) /\ Len(log) \in Nat \ {0} /\ DOMAIN log = 1 .. Len(log)
    <3>1. log \in Seq(Lines)
      BY DEF TypeOK, Lines
    <3> QED
      BY <3>1
  <2>2. \A i \in 1 .. Len(log) : log[i] \in S
    BY <2>1 DEF ToSet
  <2>3. last \in S
    BY <2>1, <2>2
  <2>4. replay(log) \in Answers /\ History(replay(log), S)
    BY LogTells
  <2>5. replay(log) # "pending"
    BY <2>3, <2>4 DEF History
  <2> HIDE DEF S, last
  <2>6. CASE replay(log) = "running"
    <3>1. PICK s \in S : S = {s} /\ s.sequence = 1 /\ s.kind = "step_started"
      BY <2>4, <2>6 DEF History
    <3>2. last = s /\ \A i \in 1 .. Len(log) : log[i].kind = "step_started"
      BY <2>2, <2>3, <3>1
    <3>3. apply_mutable_snapshot(log) = "running"
      BY <2>1, <3>1, <3>2, SnapshotEnds DEF last
    <3>4. \A e \in S : e.sequence <= last.sequence
      BY <3>1, <3>2
    <3> QED
      BY <2>6, <3>3, <3>4 DEF S, last
  <2>7. CASE replay(log) = "completed"
    <3>1. PICK s \in S, c \in S :
            /\ S = {s, c} /\ s.sequence = 1 /\ s.kind = "step_started"
            /\ c.sequence = 2 /\ c.kind = "step_completed"
      BY <2>4, <2>7 DEF History
    <3>2. /\ last = s \/ last = c
          /\ \A i \in 1 .. Len(log) : log[i].kind \in {"step_started", "step_completed"}
      BY <2>2, <2>3, <3>1
    <3>3. apply_mutable_snapshot(log) = IF last.kind = "step_started" THEN "running" ELSE "completed"
      BY <2>1, <3>2, SnapshotEnds DEF last
    <3>4. (\A e \in S : e.sequence <= last.sequence) <=> last = c
      BY <3>1, <3>2
    <3>5. last.kind = "step_started" <=> last # c
      BY <3>1, <3>2
    <3> QED
      BY <2>7, <3>3, <3>4, <3>5 DEF S, last
  <2> QED
    BY <2>4, <2>5, <2>6, <2>7 DEF Answers
<1> QED
  BY <1>1, InductiveInvariant, PTL DEF IInv
=============================================================================
