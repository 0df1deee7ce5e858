---------------------------- MODULE AnalyzeProofs ----------------------------
(***************************************************************************)
(* The depth counters of Analyze are those of the table of commands in     *)
(* flight, for any set of commands, any files and any trace.  For one file *)
(* the table is what the trace says, and so are the warnings, the          *)
(* distributions of queue-depth percent, the samples of the queue depths   *)
(* and the bytes of the throughput.                                        *)
(***************************************************************************)
EXTENDS Analyze, EventSequences, FiniteSetTheorems, TLAPS

\* What the counters' argument needs of the types.
Typed ==
    /\ trace \in Seq(Record)
    /\ unread \subseteq 1..Len(trace)
    /\ DOMAIN inFlight \subseteq Keys
    /\ globalDepth \in Nat
    /\ queueDepth \in [Queues -> Nat]

\* In flight in queue q.
Held(q) == {k \in DOMAIN inFlight : QueueOf[k] = q}

\* Before an analysis has been chosen nothing is in flight.
Counted ==
    /\ analysis \in {"none", "depth", "percent"} =>
          /\ globalDepth = Cardinality(DOMAIN inFlight)
          /\ \A q \in Queues : queueDepth[q] = Cardinality(Held(q))
    /\ phase = "record" => analysis = "none"

\* A set with an element more has a cardinality one higher.
LEMMA CardinalityAdd ==
    ASSUME NEW S, IsFiniteSet(S), NEW x, x \notin S
    PROVE  Cardinality(S \cup {x}) = Cardinality(S) + 1
BY FS_AddElement

\* A set with an element less has a cardinality one lower, and it was not zero.
LEMMA CardinalityRemove ==
    ASSUME NEW S, IsFiniteSet(S), NEW x \in S
    PROVE  /\ Cardinality(S \ {x}) = Cardinality(S) - 1
           /\ Cardinality(S) \in Nat \ {0}
<1>1. Cardinality(S) \in Nat /\ S # {}
  BY FS_CardinalityType
<1>2. Cardinality(S) # 0
  BY <1>1, FS_EmptySet
<1> QED
  BY <1>1, <1>2, FS_RemoveElement

\* The step of one record on the typed part of the state.
LEMMA RecordTyped ==
    ASSUME Typed, NEW i \in unread, Track(i), Count(i), UNCHANGED trace, unread' = unread \ {i}
    PROVE  Typed'
<1>1. i \in 1..Len(trace) /\ trace[i] \in Record
  BY DEF Typed
<1>2. trace[i].key \in Keys /\ QueueOf[trace[i].key] \in Queues
  BY <1>1, AnalyzeAssumption DEF Record
<1>3. (DOMAIN inFlight \subseteq Keys)'
  BY <1>2 DEF Track, Typed
<1>4. globalDepth' \in Nat /\ queueDepth' \in [Queues -> Nat]
  BY <1>2 DEF Count, Typed, Minus, depthVars
<1> QED
  BY <1>3, <1>4 DEF Typed

\* The step of one record on the counters: a submission that is not in the table
\* adds one to both, a completion that is takes one away, any other leaves the
\* table's keys and the counters alone.
LEMMA RecordCounted ==
    ASSUME Typed, NEW i \in unread, Track(i), Count(i), UNCHANGED trace,
           globalDepth = Cardinality(DOMAIN inFlight),
           \A q \in Queues : queueDepth[q] = Cardinality(Held(q))
    PROVE  /\ globalDepth' = Cardinality(DOMAIN inFlight')
           /\ \A q \in Queues : queueDepth'[q] = Cardinality(Held(q)')
<1> DEFINE key == trace[i].key
           home == QueueOf[key]
<1>1. i \in 1..Len(trace) /\ key \in Keys /\ home \in Queues
  <2>1. i \in 1..Len(trace) /\ trace[i] \in Record
    BY DEF Typed
  <2>2. key \in Keys
    BY <2>1 DEF Record
  <2> QED
    BY <2>1, <2>2, AnalyzeAssumption
<1>2. IsFiniteSet(DOMAIN inFlight)
  BY AnalyzeAssumption, FS_Subset DEF Typed
<1>3. ASSUME NEW q \in Queues PROVE IsFiniteSet(Held(q))
  BY <1>2, FS_Subset DEF Held
<1>4. CASE IsSubmit(i) /\ ~Found(i)
  <2>1. DOMAIN inFlight' = DOMAIN inFlight \cup {key} /\ key \notin DOMAIN inFlight
    BY <1>4 DEF Track, Found
  <2>2. globalDepth' = globalDepth + 1 /\ queueDepth' = [queueDepth EXCEPT ![home] = @ + 1]
    BY <1>4 DEF Count
  <2>3. Held(home)' = Held(home) \cup {key} /\ key \notin Held(home)
    BY <2>1 DEF Held
  <2>4. \A q \in Queues \ {home} : Held(q)' = Held(q)
    BY <2>1 DEF Held
  <2>5. Cardinality(DOMAIN inFlight') = Cardinality(DOMAIN inFlight) + 1
    BY <1>2, <2>1, CardinalityAdd
  <2>6. Cardinality(Held(home)') = Cardinality(Held(home)) + 1
    BY <1>1, <1>3, <2>3, CardinalityAdd
  <2> QED
    BY <1>1, <2>2, <2>4, <2>5, <2>6 DEF Typed
<1>5. CASE ~IsSubmit(i) /\ Found(i)
  <2>1. DOMAIN inFlight' = DOMAIN inFlight \ {key} /\ key \in DOMAIN inFlight
    BY <1>5 DEF Track, Found
  <2>2. globalDepth' = Minus(globalDepth, 1) /\ queueDepth' = [queueDepth EXCEPT ![home] = Minus(@, 1)]
    BY <1>5 DEF Count
  <2>3. Held(home)' = Held(home) \ {key} /\ key \in Held(home)
    BY <2>1 DEF Held
  <2>4. \A q \in Queues \ {home} : Held(q)' = Held(q)
    BY <2>1 DEF Held
  <2>5. Cardinality(DOMAIN inFlight') = Cardinality(DOMAIN inFlight) - 1
        /\ Cardinality(DOMAIN inFlight) \in Nat \ {0}
    BY <1>2, <2>1, CardinalityRemove
  <2>6. Cardinality(Held(home)') = Cardinality(Held(home)) - 1
        /\ Cardinality(Held(home)) \in Nat \ {0}
    BY <1>1, <1>3, <2>3, CardinalityRemove
  <2> QED
    BY <1>1, <2>2, <2>4, <2>5, <2>6 DEF Typed, Minus
<1>6. CASE IsSubmit(i) = Found(i)
  <2>1. UNCHANGED <<globalDepth, queueDepth>>
    BY <1>6 DEF Count, depthVars
  <2>2. DOMAIN inFlight' = DOMAIN inFlight
    BY <1>6 DEF Track, Found
  <2> QED
    BY <2>1, <2>2 DEF Held
<1> QED
  BY <1>4, <1>5, <1>6 DEF IsSubmit, Found

\* An empty table has depth zero on every queue.
LEMMA InitCounted == Init => Typed /\ Counted
<1> SUFFICES ASSUME Init PROVE Typed /\ Counted
  OBVIOUS
<1>1. DOMAIN inFlight = {}
  BY DEF Init, Empty
<1>2. Typed
  BY <1>1 DEF Init, Typed
<1>3. Cardinality({}) = 0
  BY FS_EmptySet
<1>4. \A q \in Queues : Held(q) = {}
  BY <1>1 DEF Held
<1> QED
  BY <1>1, <1>2, <1>3, <1>4 DEF Init, Counted

\* What is recorded is a record.
LEMMA SomethingHappens ==
    ASSUME Typed, HappenNext
    PROVE  \E r \in Record : Happen(r)
<1>1. PICK key \in Keys, file \in 1..Files, ts \in 0..MaxTs :
          \/ \E d \in Opcodes[key] : Happen(RecordOf("submit", key, d, file, ts))
          \/ Happen(RecordOf("complete", key, "other", file, ts))
  BY DEF HappenNext
<1>2. Len(trace) + 1 \in Nat
  BY DEF Typed
<1>3. CASE Happen(RecordOf("complete", key, "other", file, ts))
  <2>1. RecordOf("complete", key, "other", file, ts) \in Record
    BY <1>2 DEF RecordOf, Record, Directions
  <2> QED
    BY <1>3, <2>1
<1>4. CASE \E d \in Opcodes[key] : Happen(RecordOf("submit", key, d, file, ts))
  <2>1. PICK d \in Opcodes[key] : Happen(RecordOf("submit", key, d, file, ts))
    BY <1>4
  <2>2. RecordOf("submit", key, d, file, ts) \in Record
    BY <1>2, AnalyzeAssumption DEF RecordOf, Record
  <2> QED
    BY <2>1, <2>2
<1> QED
  BY <1>1, <1>3, <1>4

\* Each record moves the counters exactly as it moves the table of commands in flight.
LEMMA NextCounted == Typed /\ Counted /\ [Next]_vars => Typed' /\ Counted'
<1> SUFFICES ASSUME Typed, Counted, [Next]_vars PROVE Typed' /\ Counted'
  OBVIOUS
<1> USE DEF readVars, throughputVars, sampleVars, percentVars
<1>1. ASSUME NEW r \in Record, Happen(r)
      PROVE  Typed' /\ Counted'
  <2>1. r \in Record
    OBVIOUS
  <2>2. trace' \in Seq(Record) /\ Len(trace') = Len(trace) + 1
    BY <1>1, <2>1 DEF Happen, Typed
  <2>3. UNCHANGED <<analysis, phase, unread, inFlight, globalDepth, queueDepth>>
    BY <1>1 DEF Happen, depthVars
  <2> QED
    BY <2>2, <2>3 DEF Typed, Counted, Held
<1>2. ASSUME NEW a \in {"throughput", "depth", "percent"}, Load(a) PROVE Typed' /\ Counted'
  BY <1>2 DEF Load, Typed, Counted, Held, depthVars
<1>3. CASE LoadFails
  BY <1>3 DEF LoadFails, Typed, Counted, Held, depthVars
<1>4. ASSUME NEW i \in unread, ThroughputRecord(i) PROVE Typed' /\ Counted'
  <2>0. trace[i] \in Record
    BY DEF Typed
  <2>1. trace[i].key \in Keys
    BY <2>0 DEF Record
  <2>2. DOMAIN inFlight' \subseteq Keys
    BY <1>4, <2>1 DEF ThroughputRecord, Track, Typed
  <2> QED
    BY <1>4, <2>2 DEF ThroughputRecord, Consume, Typed, Counted, depthVars
<1>5. ASSUME NEW i \in unread, DepthRecord(i) \/ PercentRecord(i) PROVE Typed' /\ Counted'
  <2>1. Track(i) /\ Count(i) /\ UNCHANGED <<trace, analysis, phase>> /\ unread' = unread \ {i}
    BY <1>5 DEF DepthRecord, PercentRecord, Consume
  <2>2. analysis \in {"depth", "percent"}
    BY <1>5 DEF DepthRecord, PercentRecord, Consume
  <2>3. Typed'
    BY <2>1, RecordTyped
  <2>4. globalDepth' = Cardinality(DOMAIN inFlight')
        /\ \A q \in Queues : queueDepth'[q] = Cardinality(Held(q)')
    BY <2>1, <2>2, RecordCounted DEF Counted
  <2> QED
    BY <2>1, <2>3, <2>4 DEF Counted
<1>6. CASE ThroughputDone \/ DepthDone \/ PercentDone
  BY <1>6 DEF ThroughputDone, DepthDone, PercentDone, Typed, Counted, Held, depthVars
<1>7. CASE UNCHANGED vars
  BY <1>7 DEF vars, Typed, Counted, Held, depthVars
<1> QED
  BY <1>1, <1>2, <1>3, <1>4, <1>5, <1>6, <1>7, SomethingHappens DEF Next, Analyse

\* For every trace, whatever it repeats or misses, the depths that are sampled are the
\* numbers of commands in flight: no subtraction of apply_record saturates.
THEOREM DepthsAlwaysCount == Spec => []DepthsCount
<1>1. Typed /\ Counted => DepthsCount
  BY DEF Counted, DepthsCount, Held
<1> QED
  BY InitCounted, NextCounted, <1>1, PTL DEF Spec

-----------------------------------------------------------------------------
(* One file: the table against the trace.                                  *)

\* How often the elements of S have each value of f.
Histogram(S, f) == [d \in {f[i] : i \in S} |-> Cardinality({i \in S : f[i] = d})]

\* The depths the records find, in total and in one queue.
DepthFound == [i \in 1..Len(trace) |-> Cardinality(OpenKeys(i - 1))]
DepthFoundIn(q) == [i \in 1..Len(trace) |-> Cardinality(OpenIn(q, i - 1))]

Submits(m) == {i \in 1..m : IsSubmit(i)}
SubmitsIn(q, m) == {i \in 1..m : IsSubmit(i) /\ QueueOf[trace[i].key] = q}

\* The keys in the table are those the first m records leave open.
TableAfter(m) == \A k \in Keys : k \in DOMAIN inFlight <=> OpenSubmits(k, m) # {}

WarnedAfter(m) ==
    /\ duplicate \subseteq 1..m /\ unmatched \subseteq 1..m
    /\ \A i \in 1..m :
          /\ i \in unmatched <=> ~IsSubmit(i) /\ OpenSubmits(trace[i].key, i - 1) = {}
          /\ i \in duplicate <=> IsSubmit(i) /\ OpenSubmits(trace[i].key, i - 1) # {}

CountedAfter(m) ==
    /\ globalDist = Histogram(Submits(m), DepthFound)
    /\ \A q \in Queues : queueDist[q] = Histogram(SubmitsIn(q, m), DepthFoundIn(q))

\* The first m records have been analysed.
After1File(m) ==
    /\ unread = (m + 1)..Len(trace)
    /\ TableAfter(m)
    /\ WarnedAfter(m)
    /\ analysis = "percent" => CountedAfter(m)

Fresh ==
    /\ DOMAIN inFlight = {} /\ duplicate = {} /\ unmatched = {}
    /\ globalDist = Empty
    /\ queueDist = [q \in Queues |-> Empty]

InStep ==
    /\ phase = "record" => Fresh
    /\ phase \in {"read", "done"} => \E m \in 0..Len(trace) : After1File(m)
    /\ phase = "done" => unread = {}
    /\ DOMAIN queueDist = Queues

\* What one record does to the open submissions of a command: its submission is one
\* more of them, its completion closes all, and another record changes nothing.
LEMMA OpenStep ==
    ASSUME Typed, NEW m \in Nat, m < Len(trace), NEW k
    PROVE  /\ SubmitOfAt(k, m + 1) => OpenSubmits(k, m + 1) = OpenSubmits(k, m) \cup {m + 1}
           /\ CompleteOfAt(k, m + 1) => OpenSubmits(k, m + 1) = {}
           /\ trace[m + 1].key # k => OpenSubmits(k, m + 1) = OpenSubmits(k, m)
<1>1. ASSUME SubmitOfAt(k, m + 1)
      PROVE  OpenSubmits(k, m + 1) = OpenSubmits(k, m) \cup {m + 1}
  <2>1. ~CompleteOfAt(k, m + 1)
    BY <1>1 DEF SubmitOfAt, CompleteOfAt
  <2>2. \A s \in 1..m : (\A j \in (s + 1)..(m + 1) : ~CompleteOfAt(k, j))
                           <=> (\A j \in (s + 1)..m : ~CompleteOfAt(k, j))
    BY <2>1
  <2>3. m + 1 \in OpenSubmits(k, m + 1)
    BY <1>1 DEF OpenSubmits
  <2> QED
    BY <2>2, <2>3 DEF OpenSubmits
<1>2. ASSUME CompleteOfAt(k, m + 1) PROVE OpenSubmits(k, m + 1) = {}
  <2>1. ~SubmitOfAt(k, m + 1)
    BY <1>2 DEF SubmitOfAt, CompleteOfAt
  <2>2. \A s \in 1..m : m + 1 \in (s + 1)..(m + 1)
    OBVIOUS
  <2> QED
    BY <1>2, <2>1, <2>2 DEF OpenSubmits
<1>3. ASSUME trace[m + 1].key # k PROVE OpenSubmits(k, m + 1) = OpenSubmits(k, m)
  <2>1. ~CompleteOfAt(k, m + 1) /\ ~SubmitOfAt(k, m + 1)
    BY <1>3 DEF SubmitOfAt, CompleteOfAt
  <2>2. \A s \in 1..m : (\A j \in (s + 1)..(m + 1) : ~CompleteOfAt(k, j))
                           <=> (\A j \in (s + 1)..m : ~CompleteOfAt(k, j))
    BY <2>1
  <2> QED
    BY <2>1, <2>2 DEF OpenSubmits
<1> QED
  BY <1>1, <1>2, <1>3

\* With one file the next record is the next one of the trace.
LEMMA NextIsNext ==
    ASSUME Typed, Files = 1, NEW m \in 0..Len(trace), unread = (m + 1)..Len(trace),
           NEW i \in unread, FirstUnread(i)
    PROVE  i = m + 1 /\ m < Len(trace)
<1>1. m + 1 \in unread /\ \A j \in unread : j \in 1..Len(trace)
  OBVIOUS
<1>2. \A j \in 1..Len(trace) : trace[j] \in Record
  BY DEF Typed
<1>3. \A j \in unread : trace[j].file = 1
  BY <1>1, <1>2 DEF Record
<1>4. SUFFICES ASSUME i # m + 1 PROVE FALSE
  OBVIOUS
<1>5. ReadBefore(i, m + 1)
  BY <1>1, <1>4 DEF FirstUnread
<1> QED
  BY <1>1, <1>3, <1>5 DEF ReadBefore

\* One record more: the table.
LEMMA TableStep ==
    ASSUME Typed, NEW m \in Nat, m < Len(trace), TableAfter(m), Track(m + 1), UNCHANGED trace
    PROVE  TableAfter(m + 1)'
<1> DEFINE key == trace[m + 1].key
<1>1. trace[m + 1] \in Record
  BY DEF Typed
<1>2. key \in Keys /\ trace[m + 1].kind \in {"submit", "complete"}
  BY <1>1 DEF Record
<1>3. ASSUME NEW k \in Keys
      PROVE  k \in DOMAIN inFlight' <=> OpenSubmits(k, m + 1) # {}
  <2>1. CASE k # key
    <3>1. OpenSubmits(k, m + 1) = OpenSubmits(k, m)
      BY <2>1, OpenStep
    <3>2. k \in DOMAIN inFlight' <=> k \in DOMAIN inFlight
      BY <2>1 DEF Track
    <3> QED
      BY <3>1, <3>2 DEF TableAfter
  <2>2. CASE k = key /\ IsSubmit(m + 1)
    <3>1. OpenSubmits(k, m + 1) = OpenSubmits(k, m) \cup {m + 1}
      BY <2>2, OpenStep DEF SubmitOfAt, IsSubmit
    <3>2. k \in DOMAIN inFlight'
      BY <2>2 DEF Track
    <3> QED
      BY <3>1, <3>2
  <2>3. CASE k = key /\ ~IsSubmit(m + 1)
    <3>1. OpenSubmits(k, m + 1) = {}
      BY <2>3, <1>2, OpenStep DEF CompleteOfAt, IsSubmit
    <3>2. k \notin DOMAIN inFlight'
      BY <2>3 DEF Track
    <3> QED
      BY <3>1, <3>2
  <2> QED
    BY <2>1, <2>2, <2>3
<1>4. \A k \in Keys : OpenSubmits(k, m + 1)' = OpenSubmits(k, m + 1)
  BY DEF OpenSubmits, SubmitOfAt, CompleteOfAt
<1> QED
  BY <1>3, <1>4 DEF TableAfter

\* One record more: the warnings.
LEMMA WarnStep ==
    ASSUME Typed, NEW m \in Nat, m < Len(trace), TableAfter(m), WarnedAfter(m), Warn(m + 1),
           UNCHANGED trace
    PROVE  WarnedAfter(m + 1)'
<1>1. trace[m + 1] \in Record
  BY DEF Typed
<1>2. trace[m + 1].key \in Keys
  BY <1>1 DEF Record
<1>3. Found(m + 1) <=> OpenSubmits(trace[m + 1].key, m) # {}
  BY <1>2 DEF Found, TableAfter
<1>4. m + 1 \notin duplicate /\ m + 1 \notin unmatched
  BY DEF WarnedAfter
<1>5. /\ m + 1 \in unmatched' <=> ~IsSubmit(m + 1) /\ OpenSubmits(trace[m + 1].key, m) = {}
      /\ m + 1 \in duplicate' <=> IsSubmit(m + 1) /\ OpenSubmits(trace[m + 1].key, m) # {}
  BY <1>3, <1>4 DEF Warn
<1>6. /\ duplicate' \subseteq 1..(m + 1) /\ unmatched' \subseteq 1..(m + 1)
      /\ \A i \in 1..m : (i \in unmatched' <=> i \in unmatched) /\ (i \in duplicate' <=> i \in duplicate)
  BY DEF Warn, WarnedAfter
<1>7. \A i \in 1..(m + 1) :
        /\ i \in unmatched' <=> ~IsSubmit(i) /\ OpenSubmits(trace[i].key, i - 1) = {}
        /\ i \in duplicate' <=> IsSubmit(i) /\ OpenSubmits(trace[i].key, i - 1) # {}
  <2>1. \A i \in 1..(m + 1) : i = m + 1 \/ i \in 1..m
    OBVIOUS
  <2>2. (m + 1) - 1 = m
    OBVIOUS
  <2> QED
    BY <1>5, <1>6, <2>1, <2>2 DEF WarnedAfter
<1> QED
  BY <1>6, <1>7 DEF WarnedAfter, OpenSubmits, SubmitOfAt, CompleteOfAt, IsSubmit

\* Counting one element more adds one at its value.
LEMMA BumpHistogram ==
    ASSUME NEW S, IsFiniteSet(S), NEW x, x \notin S, NEW f
    PROVE  Bump(Histogram(S, f), f[x]) = Histogram(S \cup {x}, f)
<1> DEFINE T == S \cup {x}
           With(A, d) == {i \in A : f[i] = d}
<1>1. DOMAIN Histogram(S, f) = {f[i] : i \in S} /\ DOMAIN Histogram(T, f) = {f[i] : i \in T}
  BY DEF Histogram
<1>2. DOMAIN Bump(Histogram(S, f), f[x]) = DOMAIN Histogram(T, f)
  BY <1>1 DEF Bump
<1>3. ASSUME NEW d \in {f[i] : i \in T}
      PROVE  Bump(Histogram(S, f), f[x])[d] = Cardinality(With(T, d))
  <2>0. IsFiniteSet(With(S, d)) /\ Cardinality(With(S, d)) \in Nat
    BY FS_Subset, FS_CardinalityType
  <2>1. Bump(Histogram(S, f), f[x])[d] =
           (IF d \in {f[i] : i \in S} THEN Cardinality(With(S, d)) ELSE 0) + (IF d = f[x] THEN 1 ELSE 0)
    BY DEF Bump, Histogram
  <2>2. CASE d # f[x]
    <3>1. With(T, d) = With(S, d) /\ d \in {f[i] : i \in S}
      BY <2>2
    <3> QED
      BY <2>0, <2>1, <2>2, <3>1
  <2>3. CASE d = f[x] /\ d \in {f[i] : i \in S}
    <3>1. With(T, d) = With(S, d) \cup {x} /\ x \notin With(S, d)
      BY <2>3
    <3>2. Cardinality(With(T, d)) = Cardinality(With(S, d)) + 1
      BY <2>0, <3>1, CardinalityAdd
    <3> QED
      BY <2>0, <2>1, <2>3, <3>2
  <2>4. CASE d = f[x] /\ d \notin {f[i] : i \in S}
    <3>1. With(T, d) = {} \cup {x} /\ x \notin {}
      BY <2>4
    <3>2. Cardinality(With(T, d)) = 0 + 1
      BY <3>1, CardinalityAdd, FS_EmptySet
    <3> QED
      BY <2>1, <2>4, <3>2
  <2> QED
    BY <2>2, <2>3, <2>4
<1>4. \A d \in {f[i] : i \in T} : Histogram(T, f)[d] = Cardinality(With(T, d))
  BY DEF Histogram
<1> QED
  BY <1>1, <1>2, <1>3, <1>4 DEF Bump, Histogram

\* One record more: the distributions.  The depths that are sampled are those the
\* trace has, by the counters and the table.
LEMMA DistributionStep ==
    ASSUME Typed, Counted, analysis = "percent", DOMAIN queueDist = Queues,
           NEW m \in Nat, m < Len(trace), TableAfter(m), CountedAfter(m),
           PercentRecord(m + 1)
    PROVE  CountedAfter(m + 1)' /\ DOMAIN queueDist' = Queues
<1> DEFINE i == m + 1
           home == QueueOf[trace[i].key]
<1>1. i \in 1..Len(trace) /\ trace[i] \in Record /\ i - 1 = m
  BY DEF Typed
<1>2. home \in Queues
  <2>1. trace[i].key \in Keys
    BY <1>1 DEF Record
  <2> QED
    BY <2>1, AnalyzeAssumption
<1>3. OpenKeys(m) = DOMAIN inFlight /\ \A q \in Queues : OpenIn(q, m) = Held(q)
  BY DEF OpenKeys, OpenIn, Held, TableAfter, Typed
<1>4. globalDepth = DepthFound[i] /\ queueDepth[home] = DepthFoundIn(home)[i]
  BY <1>1, <1>2, <1>3 DEF Counted, DepthFound, DepthFoundIn
<1>5. UNCHANGED trace
  BY DEF PercentRecord, Consume
<1>6. DepthFound' = DepthFound /\ \A q \in Queues : DepthFoundIn(q)' = DepthFoundIn(q)
  BY <1>5 DEF DepthFound, DepthFoundIn, OpenIn, OpenKeys, OpenSubmits, SubmitOfAt, CompleteOfAt
<1>7. Submits(i)' = Submits(i) /\ \A q \in Queues : SubmitsIn(q, i)' = SubmitsIn(q, i)
  BY <1>5 DEF Submits, SubmitsIn, IsSubmit
<1>8. /\ IsFiniteSet(Submits(m)) /\ i \notin Submits(m)
      /\ \A q \in Queues : IsFiniteSet(SubmitsIn(q, m)) /\ i \notin SubmitsIn(q, m)
  <2>1. IsFiniteSet(1..m)
    BY FS_Interval
  <2>2. Submits(m) \subseteq 1..m /\ \A q \in Queues : SubmitsIn(q, m) \subseteq 1..m
    BY DEF Submits, SubmitsIn
  <2> QED
    BY <2>1, <2>2, FS_Subset
<1>9. CASE IsSubmit(i)
  <2>1. /\ Submits(i) = Submits(m) \cup {i}
        /\ SubmitsIn(home, i) = SubmitsIn(home, m) \cup {i}
        /\ \A q \in Queues \ {home} : SubmitsIn(q, i) = SubmitsIn(q, m)
    BY <1>9 DEF Submits, SubmitsIn
  <2>2. globalDist' = Bump(globalDist, globalDepth)
        /\ queueDist' = [queueDist EXCEPT ![home] = Bump(@, queueDepth[home])]
    BY <1>9 DEF PercentRecord
  <2>3. globalDist' = Histogram(Submits(i), DepthFound)
    <3>1. Bump(Histogram(Submits(m), DepthFound), DepthFound[i]) = Histogram(Submits(m) \cup {i}, DepthFound)
      BY <1>8, BumpHistogram
    <3> QED
      BY <1>4, <2>1, <2>2, <3>1 DEF CountedAfter
  <2>4. queueDist'[home] = Histogram(SubmitsIn(home, i), DepthFoundIn(home))
    <3>1. Bump(Histogram(SubmitsIn(home, m), DepthFoundIn(home)), DepthFoundIn(home)[i])
             = Histogram(SubmitsIn(home, m) \cup {i}, DepthFoundIn(home))
      BY <1>2, <1>8, BumpHistogram
    <3> QED
      BY <1>2, <1>4, <2>1, <2>2, <3>1 DEF CountedAfter
  <2>5. \A q \in Queues \ {home} : queueDist'[q] = Histogram(SubmitsIn(q, i), DepthFoundIn(q))
    BY <1>2, <2>1, <2>2 DEF CountedAfter
  <2>6. DOMAIN queueDist' = Queues
    BY <2>2
  <2>7. \A q \in Queues : Histogram(SubmitsIn(q, i), DepthFoundIn(q))' = Histogram(SubmitsIn(q, i), DepthFoundIn(q))
    BY <1>6, <1>7 DEF Histogram
  <2>8. Histogram(Submits(i), DepthFound)' = Histogram(Submits(i), DepthFound)
    BY <1>6, <1>7 DEF Histogram
  <2> QED
    BY <2>3, <2>4, <2>5, <2>6, <2>7, <2>8 DEF CountedAfter
<1>10. CASE ~IsSubmit(i)
  <2>1. Submits(i) = Submits(m) /\ \A q \in Queues : SubmitsIn(q, i) = SubmitsIn(q, m)
    BY <1>10 DEF Submits, SubmitsIn
  <2>2. UNCHANGED <<globalDist, queueDist>>
    BY <1>10 DEF PercentRecord
  <2>3. \A q \in Queues : Histogram(SubmitsIn(q, i), DepthFoundIn(q))' = Histogram(SubmitsIn(q, m), DepthFoundIn(q))
    BY <1>6, <1>7, <2>1 DEF Histogram
  <2>4. Histogram(Submits(i), DepthFound)' = Histogram(Submits(m), DepthFound)
    BY <1>6, <1>7, <2>1 DEF Histogram
  <2> QED
    BY <2>2, <2>3, <2>4 DEF CountedAfter
<1> QED
  BY <1>9, <1>10

\* No record has been analysed when the analysis begins.
LEMMA LoadInStep ==
    ASSUME Typed, Fresh, NEW a, Load(a)
    PROVE  After1File(0)' /\ Len(trace)' \in Nat
<1>1. unread' = 1..Len(trace) /\ UNCHANGED <<trace, inFlight, duplicate, unmatched, globalDist, queueDist>>
  BY DEF Load, percentVars
<1>2. Len(trace) \in Nat
  BY DEF Typed
<1>3. \A k \in Keys : OpenSubmits(k, 0)' = {}
  BY DEF OpenSubmits
<1>4. TableAfter(0)'
  BY <1>1, <1>3 DEF TableAfter, Fresh
<1>5. WarnedAfter(0)'
  BY <1>1 DEF WarnedAfter, Fresh
<1>6. /\ Histogram(Submits(0), DepthFound)' = Empty
      /\ \A q \in Queues : Histogram(SubmitsIn(q, 0), DepthFoundIn(q))' = Empty
  <2>1. Submits(0)' = {} /\ \A q \in Queues : SubmitsIn(q, 0)' = {}
    BY DEF Submits, SubmitsIn
  <2> QED
    BY <2>1 DEF Histogram, Empty
<1>7. CountedAfter(0)'
  BY <1>1, <1>6 DEF CountedAfter, Fresh
<1> QED
  BY <1>1, <1>2, <1>4, <1>5, <1>7 DEF After1File

\* A record takes the analysis of one file from m to m + 1.
LEMMA RecordInStep ==
    ASSUME Typed, Counted, InStep, Files = 1, NEW i \in unread, Analyse(i)
    PROVE  InStep'
<1>1. /\ phase = "read" /\ FirstUnread(i) /\ unread' = unread \ {i}
      /\ UNCHANGED <<trace, analysis, phase>> /\ Warn(i) /\ Track(i)
  BY DEF Analyse, ThroughputRecord, DepthRecord, PercentRecord, Consume
<1>2. PICK m \in 0..Len(trace) : After1File(m)
  BY <1>1 DEF InStep
<1>3. i = m + 1 /\ m < Len(trace) /\ Len(trace) \in Nat
  BY <1>1, <1>2, NextIsNext DEF After1File, Typed
<1>4. TableAfter(m + 1)'
  BY <1>1, <1>2, <1>3, TableStep DEF After1File
<1>5. WarnedAfter(m + 1)'
  BY <1>1, <1>2, <1>3, WarnStep DEF After1File
<1>6. unread' = ((m + 1) + 1)..Len(trace')
  BY <1>1, <1>2, <1>3 DEF After1File
<1>7. /\ analysis' = "percent" => CountedAfter(m + 1)'
      /\ DOMAIN queueDist' = Queues
  <2>1. CASE PercentRecord(i)
    <3>1. analysis = "percent"
      BY <2>1 DEF PercentRecord, Consume
    <3> QED
      BY <1>2, <1>3, <2>1, <3>1, DistributionStep DEF After1File, InStep
  <2>2. CASE ThroughputRecord(i) \/ DepthRecord(i)
    BY <1>1, <2>2 DEF ThroughputRecord, DepthRecord, Consume, percentVars, InStep
  <2> QED
    BY <2>1, <2>2 DEF Analyse
<1>8. After1File(m + 1)'
  BY <1>4, <1>5, <1>6, <1>7 DEF After1File
<1>9. m + 1 \in 0..Len(trace')
  BY <1>1, <1>3
<1> QED
  BY <1>1, <1>7, <1>8, <1>9 DEF InStep

\* A step that leaves the trace, the table and the results alone.
LEMMA SameStep ==
    ASSUME UNCHANGED <<trace, analysis, unread, inFlight, duplicate, unmatched, globalDist, queueDist>>,
           NEW m \in Nat, After1File(m)
    PROVE  After1File(m)'
<1>1. \A k, n : OpenSubmits(k, n)' = OpenSubmits(k, n)
  BY DEF OpenSubmits, SubmitOfAt, CompleteOfAt
<1>2. DepthFound' = DepthFound /\ \A q \in Queues : DepthFoundIn(q)' = DepthFoundIn(q)
  BY <1>1 DEF DepthFound, DepthFoundIn, OpenIn, OpenKeys
<1>3. Submits(m)' = Submits(m) /\ \A q \in Queues : SubmitsIn(q, m)' = SubmitsIn(q, m)
  BY DEF Submits, SubmitsIn, IsSubmit
<1>4. TableAfter(m)'
  BY <1>1 DEF TableAfter, After1File
<1>5. WarnedAfter(m)'
  <2>1. \A i : IsSubmit(i)' <=> IsSubmit(i)
    BY DEF IsSubmit
  <2>2. \A i : OpenSubmits(trace[i].key, i - 1)' = OpenSubmits(trace[i].key, i - 1)
    BY <1>1
  <2> QED
    BY <2>1, <2>2 DEF WarnedAfter, After1File
<1>6. ASSUME CountedAfter(m) PROVE CountedAfter(m)'
  <2>1. Histogram(Submits(m), DepthFound)' = Histogram(Submits(m), DepthFound)
    BY <1>2, <1>3 DEF Histogram
  <2>2. \A q \in Queues :
           Histogram(SubmitsIn(q, m), DepthFoundIn(q))' = Histogram(SubmitsIn(q, m), DepthFoundIn(q))
    BY <1>2, <1>3 DEF Histogram
  <2> QED
    BY <1>6, <2>1, <2>2 DEF CountedAfter
<1> QED
  BY <1>4, <1>5, <1>6 DEF After1File

\* A file is read in step with its trace.
LEMMA NextInStep ==
    ASSUME Files = 1, Typed, Counted, InStep, [Next]_vars
    PROVE  InStep'
<1> USE DEF readVars, throughputVars, sampleVars, percentVars, depthVars
<1>1. ASSUME NEW r \in Record, Happen(r)
      PROVE  InStep'
  <2>1. phase = "record" /\ UNCHANGED <<phase, inFlight, duplicate, unmatched, globalDist, queueDist>>
    BY <1>1 DEF Happen
  <2> QED
    BY <2>1 DEF InStep, Fresh
<1>2. ASSUME NEW a \in {"throughput", "depth", "percent"}, Load(a) PROVE InStep'
  <2>1. phase = "record" /\ phase' = "read" /\ UNCHANGED queueDist
    BY <1>2 DEF Load
  <2>2. After1File(0)' /\ Len(trace)' \in Nat
    BY <1>2, <2>1, LoadInStep DEF InStep
  <2> QED
    BY <2>1, <2>2 DEF InStep
<1>3. CASE LoadFails
  BY <1>3 DEF LoadFails, InStep
<1>4. ASSUME NEW i \in unread, Analyse(i) PROVE InStep'
  BY <1>4, RecordInStep
<1>5. CASE ThroughputDone \/ DepthDone \/ PercentDone
  <2>1. /\ phase = "read" /\ phase' = "done" /\ unread = {}
        /\ UNCHANGED <<trace, analysis, unread, inFlight, duplicate, unmatched, globalDist, queueDist>>
    BY <1>5 DEF ThroughputDone, DepthDone, PercentDone
  <2>2. PICK m \in 0..Len(trace) : After1File(m)
    BY <2>1 DEF InStep
  <2>3. After1File(m)'
    BY <2>1, <2>2, SameStep
  <2> QED
    BY <2>1, <2>2, <2>3 DEF InStep
<1>6. CASE UNCHANGED vars
  <2>1. UNCHANGED <<phase, trace, analysis, unread, inFlight, duplicate, unmatched, globalDist, queueDist>>
    BY <1>6 DEF vars
  <2>2. ASSUME NEW m \in 0..Len(trace), After1File(m) PROVE After1File(m)'
    BY <2>1, <2>2, SameStep
  <2> QED
    BY <2>1, <2>2 DEF InStep, Fresh
<1> QED
  BY <1>1, <1>2, <1>3, <1>4, <1>5, <1>6, SomethingHappens DEF Next

\* The analysis of one file is in step with its trace from beginning to end.
LEMMA AlwaysInStep ==
    ASSUME Files = 1
    PROVE  Spec => [](Typed /\ InStep)
<1>1. Init => InStep
  BY DEF Init, InStep, Fresh, Empty
<1>2. Typed /\ Counted /\ InStep /\ [Next]_vars => InStep'
  BY NextInStep
<1> QED
  BY InitCounted, NextCounted, <1>1, <1>2, PTL DEF Spec

\* For one file, of any length and however incomplete, the warnings are true and none
\* is missing (analyze.rs 474-500).
THEOREM WarningsAreTrue ==
    ASSUME Files = 1
    PROVE  Spec => []WarningsTrue
<1>1. ASSUME Typed, InStep PROVE WarningsTrue
  <2>1. CASE phase \in {"read", "done"}
    <3>1. PICK m \in 0..Len(trace) : After1File(m)
      BY <1>1, <2>1 DEF InStep
    <3>2. (1..Len(trace)) \ unread = 1..m
      BY <1>1, <3>1 DEF After1File, Typed
    <3> QED
      BY <2>1, <3>1, <3>2 DEF WarningsTrue, Read, After1File, WarnedAfter
  <2>2. CASE phase \notin {"read", "done"}
    BY <2>2 DEF WarningsTrue, Read
  <2> QED
    BY <2>1, <2>2
<1> QED
  BY <1>1, AlwaysInStep, PTL

\* For one file the distributions of queue-depth percent count every submission once, at
\* the depth the trace had when it was made.
THEOREM DistributionsAreRight == Spec => []PercentRight
<1>1. ASSUME Typed, InStep PROVE PercentRight
  <2> SUFFICES ASSUME phase = "done", analysis = "percent"
               PROVE  /\ globalDist = Histogram(Submits(Len(trace)), DepthFound)
                      /\ \A q \in Queues :
                            queueDist[q] = Histogram(SubmitsIn(q, Len(trace)), DepthFoundIn(q))
    <3> DEFINE S == {i \in 1..Len(trace) : IsSubmit(i)}
               Of(q) == {i \in S : QueueOf[trace[i].key] = q}
    <3>1. Submits(Len(trace)) = S /\ \A q \in Queues : SubmitsIn(q, Len(trace)) = Of(q)
      BY DEF Submits, SubmitsIn
    <3>2. \A i \in S : DepthFound[i] = Cardinality(OpenKeys(i - 1))
      BY DEF DepthFound
    <3>3. \A q \in Queues : \A i \in Of(q) : DepthFoundIn(q)[i] = Cardinality(OpenIn(q, i - 1))
      BY DEF DepthFoundIn
    <3>4. Histogram(S, DepthFound) = [d \in {Cardinality(OpenKeys(i - 1)) : i \in S} |->
              Cardinality({i \in S : Cardinality(OpenKeys(i - 1)) = d})]
      <4>1. {DepthFound[i] : i \in S} = {Cardinality(OpenKeys(i - 1)) : i \in S}
        BY <3>2
      <4>2. \A d : {i \in S : DepthFound[i] = d} = {i \in S : Cardinality(OpenKeys(i - 1)) = d}
        BY <3>2
      <4> HIDE DEF S
      <4> QED
        BY <4>1, <4>2 DEF Histogram
    <3>5. \A q \in Queues : Histogram(Of(q), DepthFoundIn(q)) =
              [d \in {Cardinality(OpenIn(q, i - 1)) : i \in Of(q)} |->
                  Cardinality({i \in Of(q) : Cardinality(OpenIn(q, i - 1)) = d})]
      <4> TAKE q \in Queues
      <4>1. {DepthFoundIn(q)[i] : i \in Of(q)} = {Cardinality(OpenIn(q, i - 1)) : i \in Of(q)}
        BY <3>3
      <4>2. \A d : {i \in Of(q) : DepthFoundIn(q)[i] = d} = {i \in Of(q) : Cardinality(OpenIn(q, i - 1)) = d}
        BY <3>3
      <4> HIDE DEF Of
      <4> QED
        BY <4>1, <4>2 DEF Histogram
    <3> QED
      BY <3>1, <3>4, <3>5 DEF PercentRight
  <2>1. PICK m \in 0..Len(trace) : After1File(m)
    BY <1>1 DEF InStep
  <2>2. m = Len(trace)
    <3>1. unread = {} /\ unread = (m + 1)..Len(trace) /\ Len(trace) \in Nat
      BY <1>1, <2>1 DEF InStep, After1File, Typed
    <3>2. m < Len(trace) => Len(trace) \in (m + 1)..Len(trace)
      BY <3>1
    <3> QED
      BY <3>1, <3>2
  <2> QED
    BY <2>1, <2>2 DEF After1File, CountedAfter
<1>2. CASE Files = 1
  BY <1>1, <1>2, AlwaysInStep, PTL
<1>3. CASE Files # 1
  <2>1. Files # 1 => PercentRight
    BY DEF PercentRight
  <2> QED
    BY <1>3, <2>1, PTL
<1> QED
  BY <1>2, <1>3

-----------------------------------------------------------------------------
(* Types.                                                                  *)

\* The current offset is that of a record.
AllTyped == TypeOK /\ Typed /\ (current # None => current \in 0..MaxTs)

\* The samples that are due end before the limit, so the next time is a u64.
LEMMA AfterType ==
    ASSUME NEW next \in 0..MaxU64, NEW limit \in 0..MaxTs, NEW inclusive \in BOOLEAN
    PROVE  After(next, Due(next, limit, inclusive)) \in 0..MaxU64
<1> DEFINE n == Due(next, limit, inclusive)
           x == limit - next - (IF inclusive THEN 0 ELSE 1)
<1>0. Scale \in Nat \ {0} /\ MaxU64 \in Nat /\ MaxTs \in Nat /\ MaxTs <= MaxU64
  BY AnalyzeAssumption
<1>1. CASE n = 0
  <2>1. After(next, n) = next + 0 * Scale \/ After(next, n) = next
    BY <1>1 DEF After
  <2> QED
    BY <1>0, <2>1
<1>2. CASE n # 0
  <2>1. n = (x \div Scale) + 1 /\ x \in Nat
    BY <1>0, <1>2 DEF Due
  <2> DEFINE d == x \div Scale
  <2>2. d \in Nat /\ d * Scale <= x /\ d * Scale \in Nat
    BY <1>0, <2>1, SMTT(30)
  <2> HIDE DEF n
  <2>3. \/ After(next, n) = next + n * Scale /\ next + n * Scale <= MaxU64
        \/ After(next, n) = next + (n - 1) * Scale
    BY <1>2 DEF After
  <2>4. n - 1 = d /\ n \in Nat
    BY <2>1, <2>2
  <2>5. n * Scale \in Nat
    BY <1>0, <2>4
  <2>6. next + d * Scale <= limit
    BY <1>0, <2>1, <2>2
  <2> HIDE DEF d, x
  <2> QED
    <3>1. After(next, n) \in 0..MaxU64
      BY <1>0, <2>2, <2>3, <2>4, <2>5, <2>6
    <3> QED
      BY <3>1 DEF n
<1> QED
  BY <1>1, <1>2

\* What the three analyses have in common.
LEMMA ConsumeTyped ==
    ASSUME AllTyped, NEW i \in unread, NEW a, Consume(a, i), Warn(i), Track(i)
    PROVE  /\ trace' \in Seq(Record) /\ unread' \subseteq 1..Len(trace')
           /\ analysis' = analysis /\ phase' = phase
           /\ base' \in Nat /\ Offset(i) \in 0..MaxTs
           /\ DOMAIN inFlight' \subseteq Keys
           /\ \A k \in DOMAIN inFlight' : inFlight'[k] \in 1..Len(trace')
           /\ duplicate' \subseteq 1..Len(trace') /\ unmatched' \subseteq 1..Len(trace')
<1>1. i \in 1..Len(trace) /\ trace[i] \in Record
  BY DEF AllTyped, Typed
<1>2. trace[i].key \in Keys /\ trace[i].ts \in 0..MaxTs
  BY <1>1 DEF Record
<1>3. UNCHANGED <<trace, analysis, phase>> /\ unread' = unread \ {i} /\ base' = Base(i)
  BY DEF Consume
<1>4. Base(i) \in Nat
  BY <1>2, AnalyzeAssumption DEF Base, AllTyped, TypeOK
<1>5. Offset(i) \in 0..MaxTs
  BY <1>2, <1>4, AnalyzeAssumption DEF Offset, Minus
<1>6. DOMAIN inFlight' \subseteq Keys /\ \A k \in DOMAIN inFlight' : inFlight'[k] \in 1..Len(trace)
  BY <1>1, <1>2 DEF Track, AllTyped, TypeOK
<1>7. duplicate' \subseteq 1..Len(trace) /\ unmatched' \subseteq 1..Len(trace)
  BY <1>1 DEF Warn, AllTyped, TypeOK
<1> QED
  BY <1>3, <1>4, <1>5, <1>6, <1>7 DEF AllTyped, TypeOK

\* A bucket is in whole multiples of the scale and holds bytes.
LEMMA ThroughputTyped ==
    ASSUME AllTyped, NEW i \in unread, ThroughputRecord(i)
    PROVE  AllTyped'
<1>1. Consume("throughput", i) /\ Warn(i) /\ Track(i)
  BY DEF ThroughputRecord
<1> DEFINE b == (Offset(i) \div Scale) * Scale
           key == trace[i].key
           bytes == Add(BytesOf(b), inFlight[key])
<1>2. Offset(i) \in Nat
  BY <1>1, ConsumeTyped, AnalyzeAssumption
<1>3. b \in Nat
  <2>1. Offset(i) \div Scale \in Nat /\ Scale \in Nat
    BY <1>2, AnalyzeAssumption
  <2> QED
    BY <2>1
<1> HIDE DEF b
<1>4. last' \in Nat
  BY <1>2 DEF ThroughputRecord, AllTyped, TypeOK
<1>5. ASSUME Found(i) PROVE bytes \in [read : Nat, write : Nat]
  <2>1. key \in DOMAIN inFlight /\ inFlight[key] \in 1..Len(trace)
    BY <1>5 DEF Found, AllTyped, TypeOK
  <2> DEFINE s == inFlight[key]
  <2>2. trace[s] \in Record
    BY <2>1 DEF AllTyped, TypeOK
  <2>3. trace[s].len \in Nat
    BY <2>2 DEF Record
  <2>4. trace[s].direction \in {"read", "write", "other"}
    BY <2>2 DEF Record, Directions
  <2>5. BytesOf(b) \in [read : Nat, write : Nat]
    BY DEF BytesOf, NoBytes, AllTyped, TypeOK
  <2> HIDE DEF s
  <2> SUFFICES Add(BytesOf(b), s) \in [read : Nat, write : Nat]
    BY DEF s
  <2> QED
    BY <2>3, <2>4, <2>5 DEF Add
<1>6. DOMAIN buckets' \subseteq Nat /\ \A c \in DOMAIN buckets' : buckets'[c] \in [read : Nat, write : Nat]
  <2>1. buckets' = IF IsSubmit(i) \/ ~Found(i) THEN buckets
                   ELSE [c \in DOMAIN buckets \cup {b} |-> IF c = b THEN bytes ELSE buckets[c]]
    BY DEF ThroughputRecord, b
  <2> HIDE DEF bytes
  <2> QED
    BY <1>3, <1>5, <2>1 DEF AllTyped, TypeOK
<1>7. UNCHANGED <<globalDepth, queueDepth, known, current, nextSample, globalDist, queueDist>>
  BY DEF ThroughputRecord, depthVars, sampleVars, percentVars
<1>8. TypeOK'
  BY <1>1, <1>4, <1>6, <1>7, ConsumeTyped DEF AllTyped, TypeOK
<1> QED
  BY <1>7, <1>8 DEF AllTyped, TypeOK, Typed

\* The depths are natural numbers and the times are u64.
LEMMA DepthTyped ==
    ASSUME AllTyped, NEW i \in unread, DepthRecord(i)
    PROVE  AllTyped'
<1>1. Consume("depth", i) /\ Warn(i) /\ Track(i) /\ Count(i) /\ SampleUpTo(Offset(i))
  BY DEF DepthRecord
<1>2. Offset(i) \in 0..MaxTs
  BY <1>1, ConsumeTyped
<1>3. UNCHANGED trace /\ unread' = unread \ {i}
  BY <1>1 DEF Consume
<1>4. Typed'
  BY <1>1, <1>3, RecordTyped DEF AllTyped
<1>5. nextSample' \in 0..MaxU64
  <2> DEFINE moved == current # None /\ Offset(i) # current
             n1 == IF moved THEN Due(nextSample, current, TRUE) ELSE 0
             next == After(nextSample, n1)
             n2 == IF moved THEN Due(next, Offset(i), FALSE) ELSE 0
  <2>0. nextSample \in 0..MaxU64 /\ Scale \in Nat /\ MaxU64 \in Nat
    BY AnalyzeAssumption DEF AllTyped, TypeOK
  <2>1. \A t \in 0..MaxU64 : After(t, 0) = t
    BY <2>0 DEF After
  <2>2. next \in 0..MaxU64
    <3>1. CASE moved
      BY <2>0, <3>1, AfterType DEF AllTyped
    <3>2. CASE ~moved
      BY <2>0, <2>1, <3>2
    <3> QED
      BY <3>1, <3>2
  <2>3. nextSample' = After(next, n2)
    BY <1>1 DEF SampleUpTo
  <2> HIDE DEF next
  <2>4. CASE moved
    BY <1>2, <2>2, <2>3, <2>4, AfterType
  <2>5. CASE ~moved
    BY <2>1, <2>2, <2>3, <2>5
  <2> QED
    BY <2>4, <2>5
<1>6. current' = Offset(i) /\ known' \subseteq Queues
  <2>1. trace[i] \in Record
    BY DEF AllTyped, Typed
  <2>2. trace[i].key \in Keys
    BY <2>1 DEF Record
  <2>3. QueueOf[trace[i].key] \in Queues
    BY <2>2, AnalyzeAssumption
  <2> QED
    BY <2>3 DEF DepthRecord, AllTyped, TypeOK
<1>7. UNCHANGED <<last, buckets, globalDist, queueDist>>
  BY DEF DepthRecord, throughputVars, percentVars
<1>8. current' \in Nat
  BY <1>2, <1>6, AnalyzeAssumption
<1>9. TypeOK'
  BY <1>1, <1>4, <1>5, <1>6, <1>7, <1>8, ConsumeTyped DEF AllTyped, TypeOK, Typed
<1> QED
  BY <1>2, <1>4, <1>6, <1>9 DEF AllTyped

\* The distributions are over depths.
LEMMA PercentTyped ==
    ASSUME AllTyped, NEW i \in unread, PercentRecord(i)
    PROVE  AllTyped'
<1>1. Consume("percent", i) /\ Warn(i) /\ Track(i) /\ Count(i)
  BY DEF PercentRecord
<1>2. UNCHANGED trace /\ unread' = unread \ {i}
  BY <1>1 DEF Consume
<1>3. Typed'
  BY <1>1, <1>2, RecordTyped DEF AllTyped
<1>4. DOMAIN globalDist' \subseteq Nat /\ DOMAIN queueDist' = Queues
  BY DEF PercentRecord, Bump, AllTyped, TypeOK
<1>5. UNCHANGED <<last, buckets, known, current, nextSample>>
  BY DEF PercentRecord, throughputVars, sampleVars
<1>6. TypeOK'
  BY <1>1, <1>3, <1>4, <1>5, ConsumeTyped DEF AllTyped, TypeOK, Typed
<1> QED
  BY <1>3, <1>5, <1>6 DEF AllTyped

\* Every step keeps the types.
LEMMA NextTyped == AllTyped /\ [Next]_vars => AllTyped'
<1> SUFFICES ASSUME AllTyped, [Next]_vars PROVE AllTyped'
  OBVIOUS
<1> USE DEF readVars, throughputVars, sampleVars, percentVars, depthVars
<1>1. ASSUME NEW r \in Record, Happen(r)
      PROVE  AllTyped'
  <2>1. r \in Record
    OBVIOUS
  <2>2. trace' \in Seq(Record) /\ Len(trace') = Len(trace) + 1 /\ Len(trace) \in Nat
    BY <1>1, <2>1 DEF Happen, AllTyped, Typed
  <2>3. \A S \in SUBSET (1..Len(trace)) : S \subseteq 1..Len(trace')
    BY <2>2
  <2>4. UNCHANGED <<analysis, phase, readVars, throughputVars, depthVars, sampleVars, percentVars>>
    BY <1>1 DEF Happen
  <2>5. \A k \in DOMAIN inFlight : inFlight[k] \in 1..Len(trace')
    BY <2>2 DEF AllTyped, TypeOK
  <2> QED
    BY <2>2, <2>3, <2>4, <2>5 DEF AllTyped, TypeOK, Typed
<1>2. ASSUME NEW a \in {"throughput", "depth", "percent"}, Load(a) PROVE AllTyped'
  BY <1>2 DEF Load, AllTyped, TypeOK, Typed
<1>3. CASE LoadFails
  BY <1>3 DEF LoadFails, AllTyped, TypeOK, Typed
<1>4. ASSUME NEW i \in unread, Analyse(i) PROVE AllTyped'
  BY <1>4, ThroughputTyped, DepthTyped, PercentTyped DEF Analyse
<1>5. CASE ThroughputDone
  BY <1>5 DEF ThroughputDone, AllTyped, TypeOK, Typed
<1>6. CASE DepthDone
  <2> DEFINE n == IF current = None THEN 0 ELSE Due(nextSample, current, TRUE)
  <2>1. nextSample' = After(nextSample, n)
    BY <1>6 DEF DepthDone
  <2>2. nextSample \in 0..MaxU64 /\ Scale \in Nat /\ MaxU64 \in Nat
    BY AnalyzeAssumption DEF AllTyped, TypeOK
  <2>3. After(nextSample, n) \in 0..MaxU64
    <3>1. CASE current = None
      BY <2>2, <3>1 DEF After
    <3>2. CASE current # None
      BY <2>2, <3>2, AfterType DEF AllTyped
    <3> QED
      BY <3>1, <3>2
  <2> QED
    BY <1>6, <2>1, <2>3 DEF DepthDone, AllTyped, TypeOK, Typed
<1>7. CASE PercentDone
  BY <1>7 DEF PercentDone, AllTyped, TypeOK, Typed
<1>8. CASE UNCHANGED vars
  BY <1>8 DEF vars, AllTyped, TypeOK, Typed
<1> QED
  BY <1>1, <1>2, <1>3, <1>4, <1>5, <1>6, <1>7, <1>8, SomethingHappens DEF Next, AllTyped

\* Every reachable state is well typed, for any files, scale and clock: the table holds
\* submissions of the trace, a bucket holds bytes, and a sample's time is a u64.
THEOREM TypeCorrect == Spec => []TypeOK
<1>1. Init => AllTyped
  BY AnalyzeAssumption DEF Init, AllTyped, TypeOK, Typed, Empty
<1>2. AllTyped => TypeOK
  BY DEF AllTyped
<1> QED
  BY <1>1, <1>2, NextTyped, PTL DEF Spec
-----------------------------------------------------------------------------
(* One file: the times.                                                    *)

Ordered == \A i, j \in 1..Len(trace) : i <= j => trace[i].ts <= trace[j].ts

\* The first m records have been read, and times count from the first.
ReadUpTo(m) ==
    /\ unread = (m + 1)..Len(trace)
    /\ base = IF m = 0 THEN None ELSE trace[1].ts

InTime ==
    /\ Ordered
    /\ phase = "record" => base = None
    /\ phase \in {"read", "done"} => \E m \in 0..Len(trace) : ReadUpTo(m)

\* What the analysis of one file keeps, whichever it is.
FileInv == Typed /\ Counted /\ InStep /\ InTime

\* A position is told by what is left to read.
LEMMA OnePosition ==
    ASSUME NEW l \in Nat, NEW m \in 0..l, NEW p \in 0..l, (m + 1)..l = (p + 1)..l
    PROVE  m = p
<1>1. m < l => m + 1 \in (p + 1)..l
  OBVIOUS
<1>2. p < l => p + 1 \in (m + 1)..l
  OBVIOUS
<1> QED
  BY <1>1, <1>2

\* The time of a record is the offset the program computes.
LEMMA Times ==
    ASSUME Typed, Ordered
    PROVE  /\ Len(trace) \in Nat
           /\ \A i \in 1..Len(trace) : Time(i) \in 0..MaxTs
           /\ \A i, j \in 1..Len(trace) : i <= j => Time(i) <= Time(j)
<1>1. Len(trace) \in Nat /\ \A i \in 1..Len(trace) : trace[i] \in Record
  BY DEF Typed
<1>2. \A i \in 1..Len(trace) : trace[i].ts \in 0..MaxTs
  BY <1>1 DEF Record
<1>3. ASSUME NEW i \in 1..Len(trace), NEW j \in 1..Len(trace), i <= j
      PROVE  Time(i) \in 0..MaxTs /\ Time(i) <= Time(j)
  <2>1. 1 \in 1..Len(trace) /\ 1 <= i
    BY <1>1
  <2>2. trace[1].ts <= trace[i].ts /\ trace[i].ts <= trace[j].ts
    BY <1>3, <2>1 DEF Ordered
  <2>3. trace[1].ts \in 0..MaxTs /\ trace[i].ts \in 0..MaxTs /\ trace[j].ts \in 0..MaxTs
    BY <1>2, <2>1
  <2> QED
    BY <2>2, <2>3, AnalyzeAssumption DEF Time
<1>4. \A i \in 1..Len(trace) : Time(i) \in 0..MaxTs
  <2> TAKE i \in 1..Len(trace)
  <2>1. i <= i
    OBVIOUS
  <2> QED
    BY <1>3, <2>1
<1> QED
  BY <1>1, <1>3, <1>4

LEMMA OffsetIsTime ==
    ASSUME Typed, Ordered, NEW m \in Nat, m < Len(trace), ReadUpTo(m)
    PROVE  Offset(m + 1) = Time(m + 1) /\ Base(m + 1) = trace[1].ts
<1>1. Len(trace) \in Nat /\ m + 1 \in 1..Len(trace) /\ 1 \in 1..Len(trace)
  BY DEF Typed
<1>2. trace[m + 1] \in Record /\ trace[1] \in Record
  BY <1>1 DEF Typed
<1>3. trace[m + 1].ts \in Nat /\ trace[1].ts \in Nat
  BY <1>2, AnalyzeAssumption DEF Record
<1>4. Base(m + 1) = trace[1].ts
  BY <1>3 DEF Base, ReadUpTo, None
<1>5. trace[1].ts <= trace[m + 1].ts
  BY <1>1 DEF Ordered
<1> QED
  BY <1>3, <1>4, <1>5 DEF Offset, Minus, Time

\* A record takes the reader one place further.
LEMMA RecordInTime ==
    ASSUME Typed, Ordered, Files = 1, NEW m \in 0..Len(trace), ReadUpTo(m),
           NEW i \in unread, NEW a, Consume(a, i)
    PROVE  /\ i = m + 1 /\ m \in Nat /\ m < Len(trace) /\ m + 1 \in 0..Len(trace)
           /\ ReadUpTo(m + 1)'
<1>1. i = m + 1 /\ m < Len(trace)
  BY NextIsNext DEF Consume, ReadUpTo
<1>2. Len(trace) \in Nat /\ m \in Nat /\ m + 1 \in 0..Len(trace)
  BY <1>1 DEF Typed
<1>3. unread' = unread \ {m + 1} /\ base' = Base(m + 1) /\ UNCHANGED trace
  BY <1>1 DEF Consume
<1>4. base' = trace'[1].ts
  BY <1>1, <1>2, <1>3, OffsetIsTime
<1>5. unread' = ((m + 1) + 1)..Len(trace')
  BY <1>2, <1>3 DEF ReadUpTo
<1> QED
  BY <1>1, <1>2, <1>4, <1>5 DEF ReadUpTo

\* The clock does not go back while the trace is recorded.
LEMMA OrderedWhenRecording ==
    ASSUME Typed, Ordered, NEW r \in Record, Happen(r)
    PROVE  Ordered'
<1>1. trace \in Seq(Record) /\ trace' = Append(trace, r) /\ \A i \in 1..Len(trace) : trace[i].ts <= r.ts
  BY DEF Typed, Happen
<1>2. /\ Len(trace) \in Nat /\ Len(trace') = Len(trace) + 1 /\ trace'[Len(trace) + 1] = r
      /\ \A i \in 1..Len(trace) : trace'[i] = trace[i]
  BY <1>1
<1>3. r.ts \in Int
  BY AnalyzeAssumption DEF Record
<1> SUFFICES ASSUME NEW i \in 1..Len(trace'), NEW j \in 1..Len(trace'), i <= j
             PROVE  trace'[i].ts <= trace'[j].ts
  BY DEF Ordered
<1>4. CASE j \in 1..Len(trace)
  <2>1. i \in 1..Len(trace)
    BY <1>2, <1>4
  <2> QED
    BY <1>2, <1>4, <2>1 DEF Ordered
<1>5. CASE j = Len(trace) + 1 /\ i \in 1..Len(trace)
  BY <1>1, <1>2, <1>5
<1>6. CASE j = Len(trace) + 1 /\ i = Len(trace) + 1
  BY <1>2, <1>3, <1>6
<1> QED
  BY <1>2, <1>4, <1>5, <1>6

LEMMA NextInTime ==
    ASSUME Files = 1, Typed, InTime, [Next]_vars
    PROVE  InTime'
<1> USE DEF readVars
<1>1. ASSUME NEW r \in Record, Happen(r)
      PROVE  InTime'
  <2>1. r \in Record
    OBVIOUS
  <2>2. phase = "record" /\ UNCHANGED <<phase, base>>
    BY <1>1 DEF Happen
  <2>3. Happen(r)
    BY <1>1
  <2>4. Ordered'
    BY <2>1, <2>3, OrderedWhenRecording DEF InTime
  <2> QED
    BY <2>2, <2>4 DEF InTime
<1>2. ASSUME NEW a \in {"throughput", "depth", "percent"}, Load(a) PROVE InTime'
  <2>1. phase = "record" /\ phase' = "read" /\ unread' = 1..Len(trace) /\ UNCHANGED <<trace, base>>
    BY <1>2 DEF Load
  <2>2. ReadUpTo(0)' /\ Len(trace) \in Nat
    BY <2>1 DEF ReadUpTo, InTime, Typed
  <2> QED
    BY <2>1, <2>2 DEF InTime, Ordered
<1>3. CASE LoadFails
  BY <1>3 DEF LoadFails, InTime, Ordered
<1>4. ASSUME NEW i \in unread, Analyse(i) PROVE InTime'
  <2>1. PICK a : Consume(a, i)
    BY <1>4 DEF Analyse, ThroughputRecord, DepthRecord, PercentRecord
  <2>2. phase = "read" /\ UNCHANGED <<phase, trace>>
    BY <2>1 DEF Consume
  <2>3. PICK m \in 0..Len(trace) : ReadUpTo(m)
    BY <2>2 DEF InTime
  <2>4. m + 1 \in 0..Len(trace) /\ ReadUpTo(m + 1)'
    BY <2>1, <2>3, RecordInTime DEF InTime
  <2> QED
    BY <2>2, <2>4 DEF InTime, Ordered
<1>5. CASE ThroughputDone \/ DepthDone \/ PercentDone
  <2>1. phase = "read" /\ phase' = "done" /\ UNCHANGED <<trace, unread, base>>
    BY <1>5 DEF ThroughputDone, DepthDone, PercentDone
  <2> QED
    BY <2>1 DEF InTime, Ordered, ReadUpTo
<1>6. CASE UNCHANGED vars
  BY <1>6 DEF vars, InTime, Ordered, ReadUpTo
<1> QED
  BY <1>1, <1>2, <1>3, <1>4, <1>5, <1>6, SomethingHappens DEF Next

LEMMA FileInvInit == Init => FileInv
<1>1. Init => InStep
  BY DEF Init, InStep, Fresh, Empty
<1>2. Init => InTime
  BY DEF Init, InTime, Ordered
<1> QED
  BY <1>1, <1>2, InitCounted DEF FileInv

LEMMA FileInvStep ==
    ASSUME Files = 1, FileInv, [Next]_vars
    PROVE  FileInv'
BY NextCounted, NextInStep, NextInTime DEF FileInv
-----------------------------------------------------------------------------
(* One file: the samples.                                                  *)

Sample == [time : Nat, global : Nat, queues : UNION {[S -> Nat] : S \in SUBSET Queues}]

\* What SamplesRight says of the n-th sample s.
RightAt(s, n) ==
    LET t == (n - 1) * Scale IN
    /\ s.time = t
    /\ s.global = Cardinality(OpenKeys(UpTo(t)))
    /\ DOMAIN s.queues = {QueueOf[trace[i].key] : i \in {j \in 1..UpTo(t) : IsSubmit(j)}}
    /\ \A q \in DOMAIN s.queues : s.queues[q] = Cardinality(OpenIn(q, UpTo(t)))

AllRight(s) == s \in Seq(Sample) /\ \A n \in 1..Len(s) : RightAt(s[n], n)

\* The records before the current one have been sampled: the next sample is the first
\* that is due at its time or after it.
SampledUpTo(m) ==
    /\ current = IF m = 0 THEN None ELSE Time(m)
    /\ known = {QueueOf[trace[i].key] : i \in {j \in 1..m : IsSubmit(j)}}
    /\ nextSample = Len(samples) * Scale
    /\ m = 0 => samples = <<>>
    /\ m # 0 => Time(m) <= nextSample /\ nextSample < Time(m) + Scale

SampleParts ==
    /\ AllRight(samples)
    /\ phase = "record" => current = None /\ known = {} /\ nextSample = 0
    /\ phase \in {"record", "err"} \/ analysis # "depth" => samples = <<>>
    /\ phase = "read" /\ analysis = "depth" =>
          \E m \in 0..Len(trace) : ReadUpTo(m) /\ SampledUpTo(m)
    /\ phase = "done" /\ analysis = "depth" /\ trace # <<>> =>
          Len(samples) = Time(Len(trace)) \div Scale + 1

\* The records that have happened up to t are those before the first after t.
LEMMA UpToIs ==
    ASSUME Typed, Ordered, NEW m \in 1..Len(trace), NEW t \in Nat,
           Time(m) <= t, m < Len(trace) => t < Time(m + 1)
    PROVE  UpTo(t) = m
<1>1. /\ Len(trace) \in Nat
      /\ \A i \in 1..Len(trace) : Time(i) \in 0..MaxTs
      /\ \A i, j \in 1..Len(trace) : i <= j => Time(i) <= Time(j)
  BY Times
<1>2. \A i \in 1..Len(trace) : Time(i) \in Int
  BY <1>1
<1>3. ASSUME NEW i \in 1..Len(trace) PROVE Time(i) <= t <=> i <= m
  <2>1. CASE i <= m
    <3>1. Time(i) <= Time(m) /\ Time(i) \in Int /\ Time(m) \in Int
      BY <1>1, <1>2, <2>1
    <3> QED
      BY <2>1, <3>1
  <2>2. CASE m < i
    <3>1. m + 1 \in 1..Len(trace) /\ m + 1 <= i
      BY <1>1, <2>2
    <3>2. Time(m + 1) <= Time(i) /\ Time(i) \in Int /\ Time(m + 1) \in Int /\ t < Time(m + 1)
      BY <1>1, <1>2, <2>2, <3>1
    <3> QED
      BY <2>2, <3>2
  <2> QED
    BY <1>1, <2>1, <2>2
<1>4. {i \in 1..Len(trace) : Time(i) <= t} = 1..m
  BY <1>1, <1>3
<1>5. Cardinality(1..m) = m
  BY FS_Interval
<1> QED
  BY <1>4, <1>5 DEF UpTo

\* The loop of emit_due_samples runs for the times from next up to the limit.
LEMMA DueSays ==
    ASSUME NEW next \in Nat, NEW limit \in Nat, NEW inclusive \in BOOLEAN
    PROVE  LET n == Due(next, limit, inclusive) IN
           /\ n \in Nat
           /\ \A k \in 1..n : next + (k - 1) * Scale <= limit - (IF inclusive THEN 0 ELSE 1)
           /\ limit - (IF inclusive THEN 0 ELSE 1) < next + n * Scale
           /\ n # 0 => next + n * Scale <= limit - (IF inclusive THEN 0 ELSE 1) + Scale
           /\ n * Scale \in Nat
<1> DEFINE n == Due(next, limit, inclusive)
           e == IF inclusive THEN 0 ELSE 1
           x == limit - next - e
<1>0. Scale \in Nat \ {0} /\ e \in {0, 1}
  BY AnalyzeAssumption
<1>1. CASE ~(next < limit \/ (inclusive /\ next = limit))
  <2>1. n = 0
    BY <1>1 DEF Due
  <2>2. 0 * Scale = 0
    BY <1>0
  <2>3. limit - e < next
    BY <1>1
  <2> HIDE DEF n
  <2> QED
    BY <2>1, <2>2, <2>3 DEF n
<1>2. CASE next < limit \/ (inclusive /\ next = limit)
  <2>1. n = (x \div Scale) + 1 /\ x \in Nat
    BY <1>2 DEF Due
  <2> DEFINE d == x \div Scale
  <2>2. d \in Nat /\ x = (Scale * d) + (x % Scale) /\ x % Scale \in Nat /\ x % Scale < Scale /\ Scale * d \in Nat
    BY <1>0, <2>1, DivMod
  <2>3. n = d + 1 /\ n \in Nat
    BY <2>1, <2>2
  <2> HIDE DEF d, n
  <2>4. n * Scale = (Scale * d) + Scale
    BY <1>0, <2>2, <2>3, SMTT(30)
  <2>5. ASSUME NEW k \in 1..n PROVE next + (k - 1) * Scale <= limit - e
    <3>1. (k - 1) * Scale <= d * Scale /\ (k - 1) * Scale \in Int
      BY <1>0, <2>2, <2>3, MulMono
    <3>2. d * Scale = Scale * d
      BY <1>0, <2>2, SMTT(30)
    <3> DEFINE y == (k - 1) * Scale
               z == Scale * d
               r == x % Scale
    <3>3. y <= z /\ y \in Int /\ z \in Nat /\ x = z + r /\ r \in Nat
      BY <2>2, <3>1, <3>2
    <3> HIDE DEF y, z, r
    <3>4. next + y <= limit - e
      BY <1>0, <3>3
    <3> QED
      BY <3>4 DEF y
  <2>6. limit - e < next + n * Scale /\ next + n * Scale <= limit - e + Scale /\ n * Scale \in Nat
    <3> DEFINE y == n * Scale
               z == Scale * d
               r == x % Scale
    <3>3. y = z + Scale /\ z \in Nat /\ x = z + r /\ r \in Nat /\ r < Scale
      BY <2>2, <2>4
    <3> HIDE DEF y, z, r
    <3>4. limit - e < next + y /\ next + y <= limit - e + Scale /\ y \in Nat
      BY <1>0, <3>3
    <3> QED
      BY <3>4 DEF y
  <2> QED
    BY <2>3, <2>5, <2>6 DEF n
<1> QED
  BY <1>1, <1>2

\* As long as the times are u64, next_sample goes on from the last sample.
LEMMA AfterIs ==
    ASSUME MaxTs + Scale <= MaxU64, NEW next \in Nat, NEW limit \in 0..MaxTs, NEW inclusive \in BOOLEAN
    PROVE  LET n == Due(next, limit, inclusive) IN After(next, n) = next + n * Scale
<1> DEFINE n == Due(next, limit, inclusive)
           y == n * Scale
<1>1. /\ limit \in Nat /\ MaxTs \in Nat /\ Scale \in Nat /\ MaxU64 \in Nat
  BY AnalyzeAssumption
<1>2. (n # 0 => next + y <= limit - (IF inclusive THEN 0 ELSE 1) + Scale) /\ y \in Nat /\ n \in Nat
  BY <1>1, DueSays
<1> HIDE DEF y, n
<1>3. n # 0 => next + y <= MaxU64
  BY <1>1, <1>2
<1>4. After(next, n) = next + y
  BY <1>3 DEF After, y
<1> QED
  BY <1>4 DEF y, n

LEMMA RightOnes ==
    ASSUME NEW s, AllRight(s), NEW r \in Seq(Sample), \A k \in 1..Len(r) : RightAt(r[k], Len(s) + k)
    PROVE  AllRight(s \o r)
<1>1. s \in Seq(Sample) /\ Len(s) \in Nat /\ Len(r) \in Nat
  BY DEF AllRight
<1>2. s \o r \in Seq(Sample) /\ Len(s \o r) = Len(s) + Len(r)
  BY <1>1
<1>3. ASSUME NEW n \in 1..Len(s \o r) PROVE RightAt((s \o r)[n], n)
  <2>1. CASE n \in 1..Len(s)
    <3>1. (s \o r)[n] = s[n]
      BY <1>1, <2>1
    <3> QED
      BY <2>1, <3>1 DEF AllRight
  <2>2. CASE n \notin 1..Len(s)
    <3> DEFINE k == n - Len(s)
    <3>1. k \in 1..Len(r) /\ n = Len(s) + k
      BY <1>1, <1>2, <2>2
    <3>2. (s \o r)[n] = r[k]
      BY <1>1, <1>2, <2>2
    <3> HIDE DEF k
    <3>3. RightAt(r[k], Len(s) + k)
      BY <3>1
    <3> QED
      BY <3>1, <3>2, <3>3
  <2> QED
    BY <2>1, <2>2
<1> QED
  BY <1>2, <1>3 DEF AllRight

\* The depths are those of the trace between one record and the next.
LEMMA RowsRight ==
    ASSUME FileInv, analysis = "depth", NEW m \in 1..Len(trace), After1File(m),
           known = {QueueOf[trace[i].key] : i \in {j \in 1..m : IsSubmit(j)}},
           NEW l \in Nat, NEW n \in Nat,
           \A k \in 1..n : LET t == l * Scale + (k - 1) * Scale IN
                              Time(m) <= t /\ (m < Len(trace) => t < Time(m + 1))
    PROVE  /\ Rows(l * Scale, n) \in Seq(Sample) /\ Len(Rows(l * Scale, n)) = n
           /\ \A k \in 1..n : RightAt(Rows(l * Scale, n)[k], l + k)
<1>0. Typed /\ Ordered /\ Counted /\ Scale \in Nat \ {0} /\ l * Scale \in Nat
  BY AnalyzeAssumption DEF FileInv, InTime
<1>1. known \subseteq Queues
  <2>1. ASSUME NEW j \in 1..m PROVE QueueOf[trace[j].key] \in Queues
    <3>1. j \in 1..Len(trace)
      BY <1>0 DEF Typed
    <3>2. trace[j] \in Record
      BY <1>0, <3>1 DEF Typed
    <3>3. trace[j].key \in Keys
      BY <3>2 DEF Record
    <3> QED
      BY <3>3, AnalyzeAssumption
  <2> QED
    BY <2>1
<1>2. globalDepth \in Nat /\ [q \in known |-> queueDepth[q]] \in [known -> Nat]
  BY <1>0, <1>1 DEF Typed
<1>3. OpenKeys(m) = DOMAIN inFlight /\ \A q \in Queues : OpenIn(q, m) = Held(q)
  BY <1>0 DEF OpenKeys, OpenIn, Held, TableAfter, After1File, Typed
<1>4. globalDepth = Cardinality(OpenKeys(m)) /\ \A q \in known : queueDepth[q] = Cardinality(OpenIn(q, m))
  BY <1>0, <1>1, <1>3 DEF Counted
<1> DEFINE row(k) == [time |-> l * Scale + (k - 1) * Scale, global |-> globalDepth,
                      queues |-> [q \in known |-> queueDepth[q]]]
<1>5. ASSUME NEW k \in 1..n PROVE (k - 1) * Scale \in Nat /\ row(k) \in Sample
  <2>1. k - 1 \in Nat /\ (k - 1) * Scale \in Nat
    <3>1. k - 1 \in Nat
      OBVIOUS
    <3> QED
      BY <1>0, <3>1
  <2>2. l * Scale + (k - 1) * Scale \in Nat
    <3> DEFINE y == (k - 1) * Scale
               z == l * Scale
    <3>1. y \in Nat /\ z \in Nat
      BY <1>0, <2>1
    <3> HIDE DEF y, z
    <3>2. z + y \in Nat
      BY <3>1
    <3> QED
      BY <3>2 DEF y, z
  <2>3. [q \in known |-> queueDepth[q]] \in UNION {[S -> Nat] : S \in SUBSET Queues}
    BY <1>1, <1>2
  <2> QED
    BY <1>2, <2>1, <2>2, <2>3 DEF Sample
<1>6. Rows(l * Scale, n) = [k \in 1..n |-> row(k)]
  BY DEF Rows
<1>7. ASSUME NEW k \in 1..n PROVE RightAt(row(k), l + k)
  <2> DEFINE t == l * Scale + (k - 1) * Scale
             s == row(k)
  <2>1. t \in Nat /\ Time(m) <= t /\ (m < Len(trace) => t < Time(m + 1))
    <3>1. s \in Sample /\ s.time = t
      BY <1>5
    <3>2. t \in Nat
      <4> HIDE DEF s, t
      <4> QED
        BY <3>1 DEF Sample
    <3> QED
      BY <3>2
  <2>2. ((l + k) - 1) * Scale = t
    BY <1>0, SMTT(30)
  <2>3. s.time = t /\ s.global = globalDepth /\ s.queues = [q \in known |-> queueDepth[q]]
    OBVIOUS
  <2> HIDE DEF t, s
  <2>4. UpTo(t) = m
    BY <1>0, <2>1, UpToIs
  <2>5. RightAt(s, l + k)
    BY <1>4, <2>2, <2>3, <2>4 DEF RightAt
  <2> QED
    BY <2>5 DEF s
<1> HIDE DEF row
<1>8. Rows(l * Scale, n) \in Seq(Sample) /\ Len(Rows(l * Scale, n)) = n
  <2>1. \A k \in 1..n : row(k) \in Sample
    BY <1>5
  <2>2. [k \in 1..n |-> row(k)] \in Seq(Sample) /\ Len([k \in 1..n |-> row(k)]) = n
    BY <2>1
  <2> QED
    BY <1>6, <2>2
<1>9. ASSUME NEW k \in 1..n PROVE Rows(l * Scale, n)[k] = row(k)
  <2>1. [j \in 1..n |-> row(j)][k] = row(k)
    OBVIOUS
  <2> QED
    BY <1>6, <2>1
<1> QED
  BY <1>7, <1>8, <1>9

LEMMA NoRows == ASSUME NEW next \in Nat PROVE Rows(next, 0) = <<>> /\ After(next, 0) = next
<1>1. Scale \in Nat
  BY AnalyzeAssumption
<1>2. 0 * Scale = 0
  BY <1>1
<1>3. Rows(next, 0) = <<>>
  BY DEF Rows
<1> QED
  BY <1>2, <1>3 DEF After

\* A sample is judged by the trace alone.
LEMMA RightStays ==
    ASSUME UNCHANGED trace
    PROVE  \A s : AllRight(s)' <=> AllRight(s)
<1>1. \A k, n : OpenSubmits(k, n)' = OpenSubmits(k, n)
  BY DEF OpenSubmits, SubmitOfAt, CompleteOfAt
<1>2. \A n : OpenKeys(n)' = OpenKeys(n)
  BY <1>1 DEF OpenKeys
<1>3. \A q, n : OpenIn(q, n)' = OpenIn(q, n)
  BY <1>2 DEF OpenIn
<1>4. \A t : UpTo(t)' = UpTo(t)
  BY DEF UpTo, Time
<1>5. \A i : IsSubmit(i)' <=> IsSubmit(i)
  BY DEF IsSubmit
<1>6. ASSUME NEW s, NEW n PROVE RightAt(s, n)' <=> RightAt(s, n)
  <2> DEFINE t == (n - 1) * Scale
  <2>1. {QueueOf[trace'[i].key] : i \in {j \in 1..UpTo(t) : IsSubmit(j)'}} =
        {QueueOf[trace[i].key] : i \in {j \in 1..UpTo(t) : IsSubmit(j)}}
    BY <1>5
  <2> QED
    BY <1>2, <1>3, <1>4, <2>1 DEF RightAt
<1> QED
  BY <1>6 DEF AllRight, Sample

\* A record: samples up to the time of the one before, then those before its own.
LEMMA SamplesWhenReading ==
    ASSUME Files = 1, MaxTs + Scale <= MaxU64, FileInv, SampleParts, NEW i \in unread, DepthRecord(i)
    PROVE  SampleParts'
<1>1. /\ Consume("depth", i) /\ SampleUpTo(Offset(i)) /\ current' = Offset(i)
      /\ known' = IF IsSubmit(i) THEN known \cup {QueueOf[trace[i].key]} ELSE known
  BY DEF DepthRecord
<1>2. phase = "read" /\ analysis = "depth" /\ UNCHANGED <<trace, analysis, phase>>
  BY <1>1 DEF Consume
<1>3. /\ Typed /\ Ordered /\ InStep /\ AllRight(samples) /\ Scale \in Nat \ {0}
      /\ Len(trace) \in Nat /\ Len(samples) \in Nat
  BY AnalyzeAssumption DEF FileInv, InTime, SampleParts, Typed, AllRight
<1>4. PICK m \in 0..Len(trace) : ReadUpTo(m) /\ SampledUpTo(m)
  BY <1>2 DEF SampleParts
<1>5. i = m + 1 /\ m \in Nat /\ m < Len(trace) /\ m + 1 \in 0..Len(trace) /\ ReadUpTo(m + 1)'
  BY <1>1, <1>3, <1>4, RecordInTime
<1>6. After1File(m)
  <2>1. PICK p \in 0..Len(trace) : After1File(p)
    BY <1>2, <1>3 DEF InStep
  <2>2. p = m
    BY <1>3, <1>4, <2>1, OnePosition DEF After1File, ReadUpTo
  <2> QED
    BY <2>1, <2>2
<1> DEFINE o == Time(m + 1)
           c == Time(m)
           L == Len(samples)
<1>7. Offset(i) = o /\ o \in 0..MaxTs /\ current' = o /\ o \in Nat
  <2>1. Offset(i) = o
    BY <1>3, <1>4, <1>5, OffsetIsTime
  <2>2. o \in 0..MaxTs /\ MaxTs \in Nat
    <3>1. m + 1 \in 1..Len(trace)
      BY <1>3, <1>5
    <3> QED
      BY <1>3, <3>1, Times, AnalyzeAssumption
  <2> QED
    BY <1>1, <2>1, <2>2
<1>8. known' = {QueueOf[trace[k].key] : k \in {j \in 1..(m + 1) : IsSubmit(j)}}
  <2>1. \A j \in 1..(m + 1) : j \in 1..m \/ j = m + 1
    BY <1>5
  <2>2. m + 1 \in 1..(m + 1) /\ \A j \in 1..m : j \in 1..(m + 1)
    BY <1>5
  <2>3. known = {QueueOf[trace[k].key] : k \in {j \in 1..m : IsSubmit(j)}}
    BY <1>4 DEF SampledUpTo
  <2> QED
    BY <1>1, <1>5, <2>1, <2>2, <2>3
<1>9. nextSample = L * Scale /\ nextSample \in Nat
  BY <1>3, <1>4 DEF SampledUpTo
<1>10. /\ AllRight(samples') /\ nextSample' = Len(samples') * Scale
       /\ o <= nextSample' /\ nextSample' < o + Scale
  <2>1. CASE ~(current # None /\ Offset(i) # current)
    <3>1. /\ samples' = samples \o Rows(nextSample, 0) \o Rows(After(nextSample, 0), 0)
          /\ nextSample' = After(After(nextSample, 0), 0)
      BY <1>1, <2>1 DEF SampleUpTo
    <3>2. samples' = samples /\ nextSample' = nextSample
      <4>1. samples \o <<>> = samples
        BY <1>3 DEF AllRight
      <4> QED
        BY <1>9, <3>1, <4>1, NoRows
    <3>3. o <= nextSample /\ nextSample < o + Scale
      <4>1. CASE m = 0
        <5>1. L = 0 /\ o = 0 /\ 0 * Scale = 0
          <6>1. trace[1] \in Record
            BY <1>3, <1>5 DEF Typed
          <6>2. trace[1].ts \in Nat
            BY <6>1, AnalyzeAssumption DEF Record
          <6>3. samples = <<>> /\ 0 + 1 = 1
            BY <1>4, <4>1 DEF SampledUpTo
          <6> QED
            BY <1>3, <4>1, <6>2, <6>3 DEF Time
        <5> QED
          BY <1>3, <1>9, <5>1
      <4>2. CASE m # 0
        <5>1. current = c /\ c <= nextSample /\ nextSample < c + Scale
          BY <1>4, <4>2 DEF SampledUpTo
        <5>2. c \in Nat
          BY <1>3, <1>5, <4>2, Times
        <5>3. o = c
          BY <1>7, <2>1, <5>1, <5>2 DEF None
        <5> QED
          BY <5>1, <5>3
      <4> QED
        BY <4>1, <4>2
    <3> QED
      BY <1>3, <1>9, <3>2, <3>3
  <2>2. CASE current # None /\ Offset(i) # current
    <3>1. /\ m \in 1..Len(trace) /\ current = c /\ c \in 0..MaxTs /\ c \in Nat /\ c < o
          /\ c <= nextSample /\ nextSample < c + Scale
      <4>1. m # 0 /\ m \in 1..Len(trace) /\ m + 1 \in 1..Len(trace)
        BY <1>3, <1>4, <1>5, <2>2 DEF SampledUpTo
      <4>2. current = c /\ c <= nextSample /\ nextSample < c + Scale
        BY <1>4, <4>1 DEF SampledUpTo
      <4>3. c \in 0..MaxTs /\ c <= o /\ MaxTs \in Nat
        <5>1. m <= m + 1
          BY <1>5
        <5> QED
          BY <1>3, <4>1, <5>1, Times, AnalyzeAssumption
      <4> QED
        BY <1>7, <2>2, <4>1, <4>2, <4>3
    <3> DEFINE n1 == Due(nextSample, c, TRUE)
               next == After(nextSample, n1)
               n2 == Due(next, o, FALSE)
    <3>2. /\ samples' = samples \o Rows(nextSample, n1) \o Rows(next, n2)
          /\ nextSample' = After(next, n2)
      BY <1>1, <1>7, <2>2, <3>1 DEF SampleUpTo
    <3>3. /\ n1 \in Nat /\ n1 * Scale \in Nat
          /\ \A k \in 1..n1 : nextSample + (k - 1) * Scale <= c
          /\ c < nextSample + n1 * Scale
          /\ n1 # 0 => nextSample + n1 * Scale <= c + Scale
          /\ next = nextSample + n1 * Scale
      <4> HIDE DEF c
      <4>1. /\ n1 \in Nat /\ n1 * Scale \in Nat
            /\ \A k \in 1..n1 : nextSample + (k - 1) * Scale <= c - 0
            /\ c - 0 < nextSample + n1 * Scale
            /\ n1 # 0 => nextSample + n1 * Scale <= c - 0 + Scale
        BY <1>9, <3>1, DueSays
      <4>2. next = nextSample + n1 * Scale
        BY <1>9, <3>1, AfterIs
      <4>3. c - 0 = c
        BY <3>1
      <4> HIDE DEF n1, next
      <4> QED
        BY <4>1, <4>2, <4>3
    <3>4. next \in Nat
      <4> HIDE DEF n1, next
      <4> QED
        BY <1>9, <3>3
    <3> HIDE DEF n1, next
    <3>5. /\ n2 \in Nat /\ n2 * Scale \in Nat
          /\ \A k \in 1..n2 : next + (k - 1) * Scale <= o - 1
          /\ o - 1 < next + n2 * Scale
          /\ n2 # 0 => next + n2 * Scale <= o - 1 + Scale
          /\ After(next, n2) = next + n2 * Scale
      <4>1. FALSE \in BOOLEAN
        OBVIOUS
      <4> HIDE DEF o
      <4> QED
        BY <1>7, <3>4, <4>1, DueSays, AfterIs
    <3> HIDE DEF n2
    <3>6. next = (L + n1) * Scale /\ (L + n1 + n2) * Scale = next + n2 * Scale /\ L + n1 \in Nat
      <4> HIDE DEF L
      <4>1. (L + n1) * Scale = L * Scale + n1 * Scale
        BY <1>3, <3>3, SMTT(30) DEF L
      <4>2. (L + n1 + n2) * Scale = (L + n1) * Scale + n2 * Scale
        BY <1>3, <3>3, <3>5, SMTT(30) DEF L
      <4>3. L \in Nat /\ next = L * Scale + n1 * Scale /\ L + n1 \in Nat
        BY <1>3, <1>9, <3>3 DEF L
      <4>4. next = (L + n1) * Scale
        BY <4>1, <4>3
      <4>5. (L + n1 + n2) * Scale = next + n2 * Scale
        BY <4>2, <4>4
      <4> QED
        BY <4>3, <4>4, <4>5
    <3>7. known = {QueueOf[trace[k].key] : k \in {j \in 1..m : IsSubmit(j)}}
      BY <1>4 DEF SampledUpTo
    <3>8. /\ Rows(nextSample, n1) \in Seq(Sample) /\ Len(Rows(nextSample, n1)) = n1
          /\ \A k \in 1..n1 : RightAt(Rows(nextSample, n1)[k], L + k)
      <4>1. ASSUME NEW k \in 1..n1
            PROVE  LET t == L * Scale + (k - 1) * Scale IN Time(m) <= t /\ t < Time(m + 1)
        <5> DEFINE y == (k - 1) * Scale
        <5>1. nextSample + y <= c /\ y \in Nat
          <6>1. k - 1 \in Nat
            BY <3>3
          <6> QED
            BY <1>3, <3>3, <6>1
        <5> HIDE DEF y, L
        <5>2. c <= nextSample + y /\ nextSample + y < o
          BY <1>7, <1>9, <3>1, <5>1
        <5> QED
          BY <1>9, <5>2 DEF y
      <4>2. L \in Nat /\ m \in 1..Len(trace) /\ n1 \in Nat /\ nextSample = L * Scale
        BY <1>3, <1>9, <3>1, <3>3
      <4>3. analysis = "depth"
        BY <1>2
      <4> HIDE DEF L
      <4>4. /\ Rows(L * Scale, n1) \in Seq(Sample) /\ Len(Rows(L * Scale, n1)) = n1
            /\ \A k \in 1..n1 : RightAt(Rows(L * Scale, n1)[k], L + k)
        BY <1>2, <1>6, <3>7, <4>1, <4>2, <4>3, RowsRight
      <4> QED
        BY <4>2, <4>4, Zenon
    <3>9. /\ Rows(next, n2) \in Seq(Sample) /\ Len(Rows(next, n2)) = n2
          /\ \A k \in 1..n2 : RightAt(Rows(next, n2)[k], (L + n1) + k)
      <4>1. ASSUME NEW k \in 1..n2
            PROVE  LET t == (L + n1) * Scale + (k - 1) * Scale IN Time(m) <= t /\ t < Time(m + 1)
        <5> DEFINE y == (k - 1) * Scale
        <5>1. next + y <= o - 1 /\ y \in Nat
          <6>1. k - 1 \in Nat
            BY <3>5
          <6> QED
            BY <1>3, <3>5, <6>1
        <5> HIDE DEF y, L
        <5>2. c <= next + y /\ next + y < o
          BY <1>7, <3>1, <3>3, <3>4, <5>1
        <5> QED
          BY <3>6, <5>2 DEF y
      <4> HIDE DEF L
      <4> QED
        <5>1. L + n1 \in Nat /\ m \in 1..Len(trace) /\ n2 \in Nat /\ next = (L + n1) * Scale
          BY <3>1, <3>5, <3>6
        <5>2. analysis = "depth"
          BY <1>2
        <5>3. /\ Rows((L + n1) * Scale, n2) \in Seq(Sample) /\ Len(Rows((L + n1) * Scale, n2)) = n2
              /\ \A k \in 1..n2 : RightAt(Rows((L + n1) * Scale, n2)[k], (L + n1) + k)
          BY <1>2, <1>6, <3>7, <4>1, <5>1, <5>2, RowsRight
        <5> QED
          BY <5>1, <5>3, Zenon
    <3>10. AllRight(samples \o Rows(nextSample, n1)) /\ Len(samples \o Rows(nextSample, n1)) = L + n1
      <4>1. samples \in Seq(Sample)
        BY <1>3 DEF AllRight
      <4>2. Len(samples \o Rows(nextSample, n1)) = L + n1
        BY <3>8, <4>1
      <4> QED
        BY <1>3, <3>8, <4>2, RightOnes
    <3>11. AllRight(samples') /\ Len(samples') = L + n1 + n2
      <4> DEFINE s == samples \o Rows(nextSample, n1)
                 r == Rows(next, n2)
      <4>1. s \in Seq(Sample) /\ AllRight(s) /\ Len(s) = L + n1 /\ r \in Seq(Sample) /\ Len(r) = n2 /\ samples' = s \o r
        BY <3>2, <3>9, <3>10 DEF AllRight
      <4>2. \A k \in 1..Len(r) : RightAt(r[k], Len(s) + k)
        BY <3>9, <4>1
      <4> HIDE DEF s, r, L
      <4>3. AllRight(s \o r)
        BY <4>1, <4>2, RightOnes
      <4>4. Len(s \o r) = Len(s) + Len(r)
        BY <4>1, ConcatProperties
      <4> QED
        BY <4>1, <4>3, <4>4
    <3>12. nextSample' = (L + n1 + n2) * Scale /\ nextSample' = next + n2 * Scale
      BY <3>2, <3>5, <3>6
    <3>13. o <= nextSample' /\ nextSample' < o + Scale
      <4> DEFINE y == n2 * Scale
                 x == n1 * Scale
      <4>1. /\ nextSample' = next + y /\ y \in Nat /\ x \in Nat /\ o - 1 < next + y
            /\ n2 # 0 => next + y <= o - 1 + Scale
            /\ n2 = 0 => y = 0
            /\ next = nextSample + x /\ (n1 = 0 => x = 0) /\ (n1 # 0 => nextSample + x <= c + Scale)
        BY <1>3, <3>3, <3>5, <3>12
      <4> HIDE DEF x, y, c, o
      <4> QED
        BY <1>3, <1>7, <1>9, <3>1, <3>4, <4>1
    <3> QED
      BY <3>11, <3>12, <3>13
  <2> QED
    BY <2>1, <2>2
<1>11. AllRight(samples)'
  BY <1>2, <1>10, RightStays
<1>12. SampledUpTo(m + 1)'
  <2>1. o' = o /\ \A j : IsSubmit(j)' <=> IsSubmit(j)
    BY <1>2 DEF Time, IsSubmit
  <2>2. m + 1 # 0
    BY <1>5
  <2> QED
    BY <1>2, <1>7, <1>8, <1>10, <2>1, <2>2 DEF SampledUpTo
<1> QED
  BY <1>2, <1>5, <1>11, <1>12 DEF SampleParts

\* The end of the trace: the sample that is due at the time of the last record.
LEMMA SamplesWhenDone ==
    ASSUME Files = 1, MaxTs + Scale <= MaxU64, FileInv, SampleParts, DepthDone
    PROVE  SampleParts'
<1> DEFINE n == IF current = None THEN 0 ELSE Due(nextSample, current, TRUE)
           L == Len(samples)
           c == Time(Len(trace))
<1>1. /\ phase = "read" /\ analysis = "depth" /\ unread = {} /\ phase' = "done"
      /\ UNCHANGED <<trace, analysis>> /\ samples' = samples \o Rows(nextSample, n)
  BY DEF DepthDone
<1>2. /\ Typed /\ Ordered /\ InStep /\ AllRight(samples) /\ Scale \in Nat \ {0}
      /\ Len(trace) \in Nat /\ L \in Nat /\ samples \in Seq(Sample)
  BY AnalyzeAssumption DEF FileInv, InTime, SampleParts, Typed, AllRight
<1>3. PICK m \in 0..Len(trace) : ReadUpTo(m) /\ SampledUpTo(m)
  BY <1>1 DEF SampleParts
<1>4. After1File(m)
  <2>1. PICK p \in 0..Len(trace) : After1File(p)
    BY <1>1, <1>2 DEF InStep
  <2>2. p = m
    BY <1>2, <1>3, <2>1, OnePosition DEF After1File, ReadUpTo
  <2> QED
    BY <2>1, <2>2
<1>5. m = Len(trace)
  <2>1. unread = (m + 1)..Len(trace)
    BY <1>3 DEF ReadUpTo
  <2>2. m < Len(trace) => Len(trace) \in (m + 1)..Len(trace)
    BY <1>2
  <2> QED
    BY <1>1, <1>2, <2>1, <2>2
<1>6. nextSample = L * Scale /\ nextSample \in Nat
  BY <1>2, <1>3 DEF SampledUpTo
<1>7. AllRight(samples') /\ (trace # <<>> => Len(samples') = (c \div Scale) + 1)
  <2>1. CASE m = 0
    <3>1. current = None /\ trace = <<>>
      BY <1>2, <1>3, <1>5, <2>1, EmptySeq DEF SampledUpTo, Typed
    <3>2. samples' = samples \o <<>>
      BY <1>1, <1>6, <3>1, NoRows
    <3> QED
      BY <1>2, <3>1, <3>2
  <2>2. CASE m # 0
    <3>1. m \in 1..Len(trace) /\ current = c /\ c <= nextSample /\ nextSample < c + Scale
      BY <1>2, <1>3, <1>5, <2>2 DEF SampledUpTo
    <3>2. c \in Nat
      BY <1>2, <1>5, <3>1, Times
    <3>3. n = Due(nextSample, c, TRUE)
      <4>1. current # None
        <5>1. \A x \in Nat : x # None
          BY DEF None
        <5> QED
          BY <3>1, <3>2, <5>1
      <4> HIDE DEF c
      <4> QED
        BY <3>1, <4>1
    <3> HIDE DEF c
    <3>4. /\ n \in Nat /\ n * Scale \in Nat
          /\ \A k \in 1..n : nextSample + (k - 1) * Scale <= c
          /\ c < nextSample + n * Scale
          /\ n # 0 => nextSample + n * Scale <= c + Scale
      <4>1. /\ n \in Nat /\ n * Scale \in Nat
            /\ \A k \in 1..n : nextSample + (k - 1) * Scale <= c - 0
            /\ c - 0 < nextSample + n * Scale
            /\ n # 0 => nextSample + n * Scale <= c - 0 + Scale
        <5> HIDE DEF n
        <5> QED
          BY <1>6, <3>2, <3>3, DueSays
      <4>2. c - 0 = c
        BY <3>2
      <4> HIDE DEF n
      <4> QED
        BY <4>1, <4>2
    <3> HIDE DEF n
    <3>5. known = {QueueOf[trace[k].key] : k \in {j \in 1..m : IsSubmit(j)}}
      BY <1>3 DEF SampledUpTo
    <3>6. /\ Rows(nextSample, n) \in Seq(Sample) /\ Len(Rows(nextSample, n)) = n
          /\ \A k \in 1..n : RightAt(Rows(nextSample, n)[k], L + k)
      <4>1. ASSUME NEW k \in 1..n
            PROVE  LET t == L * Scale + (k - 1) * Scale IN
                      Time(m) <= t /\ (m < Len(trace) => t < Time(m + 1))
        <5> DEFINE y == (k - 1) * Scale
        <5>1. y \in Nat
          <6>1. k - 1 \in Nat
            BY <3>4
          <6> QED
            BY <1>2, <6>1
        <5> HIDE DEF y, L
        <5>2. c <= nextSample + y
          BY <1>6, <3>1, <3>2, <5>1
        <5> QED
          BY <1>2, <1>5, <1>6, <5>2 DEF y, c
      <4> HIDE DEF L
      <4> QED
        BY <1>1, <1>2, <1>4, <1>6, <3>1, <3>4, <3>5, <4>1, RowsRight
    <3>7. AllRight(samples') /\ Len(samples') = L + n
      <4> DEFINE r == Rows(nextSample, n)
      <4>1. r \in Seq(Sample) /\ Len(r) = n /\ samples' = samples \o r
        BY <1>1, <3>6
      <4>2. \A k \in 1..Len(r) : RightAt(r[k], Len(samples) + k)
        BY <3>6, <4>1
      <4> HIDE DEF r
      <4>3. AllRight(samples \o r)
        BY <1>2, <4>1, <4>2, RightOnes
      <4>4. Len(samples \o r) = Len(samples) + Len(r)
        BY <1>2, <4>1, ConcatProperties
      <4> QED
        BY <4>1, <4>3, <4>4
    <3> DEFINE K == L + n
    <3>8. K \in Nat /\ K * Scale = nextSample + n * Scale
      <4>1. (L + n) * Scale = L * Scale + n * Scale
        <5> HIDE DEF L
        <5> QED
          BY <1>2, <3>4, SMTT(30)
      <4> QED
        BY <1>2, <1>6, <3>4, <4>1
    <3>9. c < K * Scale /\ K * Scale <= c + Scale /\ K * Scale \in Nat
      <4> DEFINE y == n * Scale
      <4>1. n = 0 => y = 0
        BY <1>2
      <4>2. c < nextSample + y /\ y \in Nat /\ (n # 0 => nextSample + y <= c + Scale)
        BY <3>4
      <4> HIDE DEF y, L
      <4>3. c < nextSample + y /\ nextSample + y <= c + Scale /\ nextSample + y \in Nat
        BY <1>2, <1>6, <3>1, <3>2, <4>1, <4>2
      <4> QED
        BY <3>8, <4>3 DEF y
    <3> HIDE DEF K, L
    <3>10. K - 1 = c \div Scale
      <4> DEFINE k == K - 1
                 w == Scale * k
                 r == c - w
                 q == c \div Scale
                 t == c % Scale
      <4>1. w = K * Scale - Scale /\ w \in Int /\ k \in Int
        BY <1>2, <3>8, SMTT(30)
      <4> HIDE DEF w
      <4>2. r \in 0..(Scale - 1) /\ w + r = c
        <5> DEFINE z == K * Scale
        <5>1. c < z /\ z <= c + Scale /\ z \in Nat /\ w = z - Scale
          BY <3>9, <4>1
        <5> HIDE DEF z
        <5> QED
          BY <1>2, <3>2, <4>1, <5>1
      <4>3. q \in Int /\ t \in 0..(Scale - 1) /\ c = (Scale * q) + t
        <5>1. q \in Nat /\ t \in Nat /\ t < Scale /\ c = (Scale * q) + t
          BY <1>2, <3>2, DivMod
        <5> HIDE DEF q, t
        <5> QED
          BY <1>2, <5>1
      <4> HIDE DEF r, q, t, k
      <4>4. Scale * k + r = Scale * q + t
        BY <4>2, <4>3 DEF w
      <4>5. k = q
        BY <1>2, <4>1, <4>2, <4>3, <4>4, DivUnique
      <4> QED
        BY <4>5 DEF k, q
    <3>11. Len(samples') = (c \div Scale) + 1
      <4>1. Len(samples') = K
        BY <3>7 DEF K
      <4> QED
        BY <3>8, <3>10, <4>1
    <3> QED
      BY <3>7, <3>11
  <2> QED
    BY <2>1, <2>2
<1>8. AllRight(samples)'
  BY <1>1, <1>7, RightStays
<1>9. c' = c
  BY <1>1 DEF Time
<1> QED
  BY <1>1, <1>7, <1>8, <1>9 DEF SampleParts

LEMMA SamplesStep ==
    ASSUME Files = 1, MaxTs + Scale <= MaxU64, FileInv, SampleParts, [Next]_vars
    PROVE  SampleParts'
<1> USE DEF sampleVars
<1>0. AllRight(<<>>)'
  BY DEF AllRight
<1>1. ASSUME NEW r \in Record, Happen(r)
      PROVE  SampleParts'
  <2>1. phase = "record" /\ UNCHANGED <<phase, current, known, nextSample, samples>>
    BY <1>1 DEF Happen
  <2>2. samples' = <<>>
    BY <2>1 DEF SampleParts
  <2> QED
    BY <1>0, <2>1, <2>2 DEF SampleParts
<1>2. ASSUME NEW a \in {"throughput", "depth", "percent"}, Load(a) PROVE SampleParts'
  <2>1. /\ phase = "record" /\ phase' = "read" /\ unread' = 1..Len(trace)
        /\ UNCHANGED <<trace, base, current, known, nextSample, samples>>
    BY <1>2 DEF Load
  <2>2. /\ samples = <<>> /\ current = None /\ known = {} /\ nextSample = 0 /\ base = None
        /\ Len(trace) \in Nat /\ Scale \in Nat
    BY <2>1, AnalyzeAssumption DEF SampleParts, FileInv, InTime, Typed
  <2>3. ReadUpTo(0)'
    BY <2>1, <2>2 DEF ReadUpTo
  <2>4. SampledUpTo(0)'
    <3>1. {QueueOf[trace[i].key] : i \in {j \in 1..0 : IsSubmit(j)}}' = {}
      OBVIOUS
    <3>2. Len(<<>>) * Scale = 0
      BY <2>2
    <3> QED
      BY <2>1, <2>2, <3>1, <3>2 DEF SampledUpTo
  <2> QED
    BY <1>0, <2>1, <2>2, <2>3, <2>4 DEF SampleParts
<1>3. CASE LoadFails
  BY <1>0, <1>3 DEF LoadFails, SampleParts
<1>4. ASSUME NEW i \in unread, ThroughputRecord(i) \/ PercentRecord(i) PROVE SampleParts'
  <2>1. /\ phase = "read" /\ analysis \in {"throughput", "percent"}
        /\ UNCHANGED <<phase, analysis, samples>>
    BY <1>4 DEF ThroughputRecord, PercentRecord, Consume
  <2> QED
    BY <1>0, <2>1 DEF SampleParts
<1>5. CASE ThroughputDone \/ PercentDone
  <2>1. /\ phase = "read" /\ analysis \in {"throughput", "percent"} /\ phase' = "done"
        /\ UNCHANGED <<analysis, samples>>
    BY <1>5 DEF ThroughputDone, PercentDone
  <2> QED
    BY <1>0, <2>1 DEF SampleParts
<1>6. CASE UNCHANGED vars
  <2>1. UNCHANGED <<trace, analysis, phase, unread, base, current, known, nextSample, samples>>
    BY <1>6 DEF vars, readVars
  <2>2. AllRight(samples)'
    BY <2>1, RightStays DEF SampleParts
  <2>3. \A m : (ReadUpTo(m)' <=> ReadUpTo(m)) /\ (SampledUpTo(m)' <=> SampledUpTo(m))
    BY <2>1 DEF ReadUpTo, SampledUpTo, Time, IsSubmit
  <2> QED
    BY <2>1, <2>2, <2>3 DEF SampleParts, Time
<1> QED
  BY <1>1, <1>2, <1>3, <1>4, <1>5, <1>6, SamplesWhenReading, SamplesWhenDone, SomethingHappens DEF Next, Analyse, FileInv

\* For one file, of any length and however incomplete, and every scale: the samples are
\* the depths of the trace at 0, Scale, 2 * Scale ... and none is missing or repeated.
THEOREM SamplesAreRight == Spec => []SamplesRight
<1> DEFINE Inv == FileInv /\ SampleParts
<1>1. ASSUME Files = 1, MaxTs + Scale <= MaxU64 PROVE Spec => []SamplesRight
  <2>1. Init => Inv
    <3>1. Init => SampleParts
      BY DEF Init, SampleParts, AllRight
    <3> QED
      BY <3>1, FileInvInit
  <2>2. Inv /\ [Next]_vars => Inv'
    BY <1>1, FileInvStep, SamplesStep
  <2>3. Inv => SamplesRight
    BY DEF SampleParts, AllRight, RightAt, SamplesRight
  <2> QED
    BY <2>1, <2>2, <2>3, PTL DEF Spec
<1>2. CASE ~(Files = 1 /\ MaxTs + Scale <= MaxU64)
  <2>1. SamplesRight
    BY <1>2 DEF SamplesRight
  <2> QED
    BY <2>1, PTL
<1> QED
  BY <1>1, <1>2
-----------------------------------------------------------------------------
(* One file: the bytes.                                                    *)

\* The length of the submission that a completion belongs to.
Length == [j \in 1..Len(trace) |-> Submission(j).len]

\* As many things as f says of each element of S.
Stack(S, f) == UNION {{j} \X (1..f[j]) : j \in S}

MatchedUpTo(d, b, m) == Matched(d, b) \cap (1..m)

\* The table holds the latest of the submissions that are open.
LatestAfter(m) ==
    \A k \in DOMAIN inFlight :
        inFlight[k] \in OpenSubmits(k, m) /\ \A s \in OpenSubmits(k, m) : s <= inFlight[k]

\* The first m records have been summed up.
SummedUpTo(m) ==
    /\ last = IF m = 0 THEN 0 ELSE Time(m)
    /\ LatestAfter(m)
    /\ DOMAIN buckets = {b \in 0..MaxTs : \E d \in Directions : MatchedUpTo(d, b, m) # {}}
    /\ \A b \in DOMAIN buckets : \A d \in {"read", "write"} :
          buckets[b][d] = Cardinality(Stack(MatchedUpTo(d, b, m), Length))

BytesParts ==
    /\ phase = "record" => last = 0 /\ DOMAIN buckets = {}
    /\ phase \in {"read", "done"} /\ analysis = "throughput" =>
          \E m \in 0..Len(trace) : ReadUpTo(m) /\ SummedUpTo(m)
    /\ phase = "done" /\ analysis = "throughput" =>
          rows = {[time |-> b, bytes |-> buckets[b], duration |-> Duration(b)] : b \in DOMAIN buckets}

LEMMA IsMax ==
    ASSUME NEW S, S \subseteq Nat, NEW x \in S, \A y \in S : y <= x
    PROVE  Max(S) = x
<1>1. \A y \in S : x >= y
  OBVIOUS
<1>2. Max(S) \in S /\ \A y \in S : Max(S) >= y
  BY <1>1, Zenon DEF Max
<1>3. Max(S) >= x /\ Max(S) <= x /\ Max(S) \in Nat /\ x \in Nat
  BY <1>2
<1> QED
  BY <1>3

\* One element more, and as many things more as it stands for.
LEMMA StackMore ==
    ASSUME NEW S, IsFiniteSet(S), NEW f, \A i \in S : f[i] \in Nat, NEW j, j \notin S, f[j] \in Nat
    PROVE  Cardinality(Stack(S, f)) \in Nat /\
           Cardinality(Stack(S \cup {j}, f)) = Cardinality(Stack(S, f)) + f[j]
<1> DEFINE P(i) == {i} \X (1..f[i])
           T == {P(i) : i \in S}
<1>1. ASSUME NEW i, f[i] \in Nat PROVE IsFiniteSet(P(i)) /\ Cardinality(P(i)) = f[i]
  <2>1. IsFiniteSet({i}) /\ Cardinality({i}) = 1
    BY FS_Singleton
  <2>2. IsFiniteSet(1..f[i]) /\ Cardinality(1..f[i]) = f[i]
    <3> DEFINE x == f[i]
    <3>1. x \in Nat
      BY <1>1
    <3> HIDE DEF x
    <3>2. IsFiniteSet(1..x) /\ Cardinality(1..x) = IF 1 > x THEN 0 ELSE x - 1 + 1
      BY <3>1, FS_Interval
    <3>3. IsFiniteSet(1..x) /\ Cardinality(1..x) = x
      BY <3>1, <3>2
    <3> QED
      BY <3>3 DEF x
  <2>3. IsFiniteSet(P(i)) /\ Cardinality(P(i)) = Cardinality({i}) * Cardinality(1..f[i])
    BY <2>1, <2>2, FS_Product
  <2>4. 1 * f[i] = f[i]
    BY <1>1
  <2> QED
    BY <2>1, <2>2, <2>3, <2>4
<1>2. IsFiniteSet(T)
  <2> DEFINE g == [i \in S |-> P(i)]
  <2>1. g \in Surjection(S, T)
    BY DEF Surjection
  <2> HIDE DEF g, T
  <2> QED
    BY <2>1, FS_Surjection
<1>3. IsFiniteSet(UNION T)
  <2>1. \A t \in T : IsFiniteSet(t)
    <3> SUFFICES ASSUME NEW i \in S PROVE IsFiniteSet(P(i))
      OBVIOUS
    <3> QED
      BY <1>1
  <2> HIDE DEF T
  <2> QED
    BY <1>2, <2>1, FS_UNION
<1>4. Stack(S, f) = UNION T /\ Stack(S \cup {j}, f) = (UNION T) \cup P(j)
  BY DEF Stack
<1>5. (UNION T) \cap P(j) = {}
  OBVIOUS
<1>6. IsFiniteSet(P(j)) /\ Cardinality(P(j)) = f[j]
  BY <1>1
<1> HIDE DEF T, P
<1>7. Cardinality((UNION T) \cup P(j)) = Cardinality(UNION T) + Cardinality(P(j)) - Cardinality({})
  BY <1>3, <1>5, <1>6, FS_Union
<1>8. Cardinality(UNION T) \in Nat /\ Cardinality({}) = 0
  BY <1>3, FS_CardinalityType, FS_EmptySet
<1>9. Cardinality((UNION T) \cup P(j)) = Cardinality(UNION T) + f[j]
  BY <1>6, <1>7, <1>8
<1> QED
  BY <1>4, <1>8, <1>9, Zenon

\* What is said of the trace does not change with the rest.
LEMMA TraceStays ==
    ASSUME UNCHANGED trace
    PROVE  /\ \A k, n : OpenSubmits(k, n)' = OpenSubmits(k, n)
           /\ \A d, b, m : MatchedUpTo(d, b, m)' = MatchedUpTo(d, b, m)
           /\ Length' = Length
           /\ \A i : Time(i)' = Time(i)
<1>1. \A k, n : OpenSubmits(k, n)' = OpenSubmits(k, n)
  BY DEF OpenSubmits, SubmitOfAt, CompleteOfAt
<1>2. \A i : Time(i)' = Time(i) /\ (IsSubmit(i)' <=> IsSubmit(i))
  BY DEF Time, IsSubmit
<1>3. \A j : OpenSubmits(trace[j].key, j - 1)' = OpenSubmits(trace[j].key, j - 1)
  BY <1>1
<1>4. \A d, b : Matched(d, b)' = Matched(d, b)
  BY <1>2, <1>3 DEF Matched, Submission
<1>5. Length' = Length
  BY <1>3 DEF Length, Submission
<1> QED
  BY <1>1, <1>2, <1>4, <1>5 DEF MatchedUpTo

LEMMA LatestStep ==
    ASSUME Typed, NEW m \in Nat, m < Len(trace), LatestAfter(m), Track(m + 1), UNCHANGED trace
    PROVE  LatestAfter(m + 1)'
<1> DEFINE key == trace[m + 1].key
<1>1. trace[m + 1] \in Record
  BY DEF Typed
<1>2. trace[m + 1].kind \in {"submit", "complete"}
  BY <1>1 DEF Record
<1>3. ASSUME NEW k \in DOMAIN inFlight'
      PROVE  inFlight'[k] \in OpenSubmits(k, m + 1) /\ \A s \in OpenSubmits(k, m + 1) : s <= inFlight'[k]
  <2>1. CASE k # key
    <3>1. OpenSubmits(k, m + 1) = OpenSubmits(k, m)
      BY <2>1, OpenStep
    <3>2. k \in DOMAIN inFlight /\ inFlight'[k] = inFlight[k]
      BY <1>3, <2>1 DEF Track
    <3> QED
      BY <3>1, <3>2 DEF LatestAfter
  <2>2. CASE k = key /\ IsSubmit(m + 1)
    <3>1. OpenSubmits(k, m + 1) = OpenSubmits(k, m) \cup {m + 1}
      BY <2>2, OpenStep DEF SubmitOfAt, IsSubmit
    <3>2. inFlight'[k] = m + 1
      BY <2>2 DEF Track
    <3>3. \A s \in OpenSubmits(k, m) : s <= m + 1
      BY DEF OpenSubmits
    <3> QED
      BY <3>1, <3>2, <3>3
  <2>3. CASE k = key /\ ~IsSubmit(m + 1)
    BY <1>3, <2>3 DEF Track
  <2> QED
    BY <2>1, <2>2, <2>3
<1>4. \A k, n : OpenSubmits(k, n)' = OpenSubmits(k, n)
  BY TraceStays
<1> QED
  BY <1>3, <1>4 DEF LatestAfter

\* One record more: a matched completion belongs to the bucket of its time, at the
\* submission that the table holds.
LEMMA MatchedStep ==
    ASSUME Typed, Ordered, NEW m \in Nat, m < Len(trace), TableAfter(m), LatestAfter(m)
    PROVE  LET j == m + 1
               b == (Time(j) \div Scale) * Scale
               hit == ~IsSubmit(j) /\ Found(j)
           IN  /\ b \in 0..MaxTs
               /\ \A d, c : MatchedUpTo(d, c, j) = MatchedUpTo(d, c, m) \cup
                               (IF hit /\ d = trace[inFlight[trace[j].key]].direction /\ c = b
                                THEN {j} ELSE {})
               /\ hit => /\ inFlight[trace[j].key] \in 1..m
                         /\ Length[j] = trace[inFlight[trace[j].key]].len
<1> DEFINE j == m + 1
           key == trace[j].key
           b == (Time(j) \div Scale) * Scale
           hit == ~IsSubmit(j) /\ Found(j)
<1>1. Len(trace) \in Nat /\ j \in 1..Len(trace) /\ trace[j] \in Record /\ j - 1 = m
  BY DEF Typed
<1>2. key \in Keys
  BY <1>1 DEF Record
<1>3. Found(j) <=> OpenSubmits(key, m) # {}
  BY <1>2 DEF Found, TableAfter
<1>4. b \in 0..MaxTs
  <2> DEFINE t == Time(j)
  <2>1. t \in 0..MaxTs
    BY <1>1, Times
  <2>2. t \in Nat /\ MaxTs \in Nat /\ Scale \in Nat \ {0}
    BY <2>1, AnalyzeAssumption
  <2> HIDE DEF t
  <2>3. t = (Scale * (t \div Scale)) + (t % Scale) /\ t % Scale \in Nat /\ Scale * (t \div Scale) \in Nat
        /\ t \div Scale \in Nat
    BY <2>2, DivMod
  <2>4. (t \div Scale) * Scale = Scale * (t \div Scale)
    BY <2>2, <2>3, SMTT(30)
  <2>5. (t \div Scale) * Scale \in 0..MaxTs
    BY <2>1, <2>2, <2>3, <2>4
  <2> QED
    BY <2>5 DEF t
<1>5. ASSUME hit
      PROVE  /\ inFlight[key] \in 1..m
             /\ Submission(j) = trace[inFlight[key]] /\ Length[j] = Submission(j).len
  <2>1. key \in DOMAIN inFlight
    BY <1>5 DEF Found
  <2> DEFINE s == inFlight[key]
             S == OpenSubmits(key, m)
  <2>2. s \in S /\ \A x \in S : x <= s
    BY <2>1 DEF LatestAfter
  <2>3. S \subseteq 1..m /\ S \subseteq Nat
    BY DEF OpenSubmits
  <2> HIDE DEF s, S
  <2>4. Max(S) = s
    BY <2>2, <2>3, IsMax
  <2>5. Submission(j) = trace[Max(S)]
    BY <1>1 DEF Submission, S
  <2>6. Length[j] = Submission(j).len
    BY <1>1 DEF Length
  <2> QED
    BY <2>2, <2>3, <2>4, <2>5, <2>6 DEF s
<1>6. ASSUME NEW d, NEW c
      PROVE  MatchedUpTo(d, c, j) = MatchedUpTo(d, c, m) \cup
                (IF hit /\ d = trace[inFlight[key]].direction /\ c = b THEN {j} ELSE {})
  <2>1. j \in Matched(d, c) <=> hit /\ Submission(j).direction = d /\ c = b
    BY <1>1, <1>3 DEF Matched
  <2>2. j \in Matched(d, c) <=> hit /\ d = trace[inFlight[key]].direction /\ c = b
    <3> HIDE DEF hit, b, key, j
    <3> QED
      BY <1>5, <2>1
  <2>3. 1..j = (1..m) \cup {j}
    BY <1>1
  <2> HIDE DEF hit, b, key, j
  <2> QED
    BY <2>2, <2>3 DEF MatchedUpTo
<1> QED
  BY <1>4, <1>5, <1>6

\* A record: its bytes go to the bucket of its time.
LEMMA SummedWhenReading ==
    ASSUME Files = 1, FileInv, AllTyped, BytesParts, NEW i \in unread, ThroughputRecord(i)
    PROVE  BytesParts'
<1>1. Consume("throughput", i) /\ Track(i) /\ last' = IF last < Offset(i) THEN Offset(i) ELSE last
  BY DEF ThroughputRecord
<1>2. phase = "read" /\ analysis = "throughput" /\ UNCHANGED <<trace, analysis, phase>>
  BY <1>1 DEF Consume
<1>3. Typed /\ Ordered /\ InStep /\ Len(trace) \in Nat
  BY DEF FileInv, InTime, Typed
<1>4. PICK m \in 0..Len(trace) : ReadUpTo(m) /\ SummedUpTo(m)
  BY <1>2 DEF BytesParts
<1>5. i = m + 1 /\ m \in Nat /\ m < Len(trace) /\ m + 1 \in 0..Len(trace) /\ ReadUpTo(m + 1)'
  BY <1>1, <1>3, <1>4, RecordInTime
<1>6. TableAfter(m) /\ LatestAfter(m)
  <2>1. PICK p \in 0..Len(trace) : After1File(p)
    BY <1>2, <1>3 DEF InStep
  <2>2. p = m
    BY <1>3, <1>4, <2>1, OnePosition DEF After1File, ReadUpTo
  <2> QED
    BY <1>4, <2>1, <2>2 DEF After1File, SummedUpTo
<1> DEFINE j == m + 1
           key == trace[j].key
           b == (Time(j) \div Scale) * Scale
           hit == ~IsSubmit(j) /\ Found(j)
           home == trace[inFlight[key]].direction
           M(d, c, n) == MatchedUpTo(d, c, n)
<1>7. /\ b \in 0..MaxTs
      /\ \A d, c : M(d, c, j) = M(d, c, m) \cup (IF hit /\ d = home /\ c = b THEN {j} ELSE {})
      /\ hit => /\ inFlight[key] \in 1..m
                /\ Length[j] = trace[inFlight[key]].len
  BY <1>3, <1>5, <1>6, MatchedStep
<1>8. Offset(i) = Time(j) /\ Time(j) \in 0..MaxTs
  <2>1. j \in 1..Len(trace)
    BY <1>3, <1>5
  <2> QED
    BY <1>3, <1>4, <1>5, <2>1, Times, OffsetIsTime
<1>9. last' = Time(j)
  <2>1. CASE m = 0
    <3>1. last = 0
      BY <1>4, <2>1 DEF SummedUpTo
    <3> HIDE DEF j
    <3> QED
      BY <1>1, <1>8, <3>1, AnalyzeAssumption
  <2>2. CASE m # 0
    <3>1. last = Time(m)
      BY <1>4, <2>2 DEF SummedUpTo
    <3>2. m \in 1..Len(trace) /\ j \in 1..Len(trace) /\ m <= j
      BY <1>3, <1>5, <2>2
    <3>3. Time(m) <= Time(j) /\ Time(m) \in 0..MaxTs
      BY <1>3, <3>2, Times
    <3> HIDE DEF j
    <3> QED
      BY <1>1, <1>8, <3>1, <3>3, AnalyzeAssumption
  <2> QED
    BY <2>1, <2>2
<1>10. /\ DOMAIN buckets = {c \in 0..MaxTs : \E d \in Directions : M(d, c, m) # {}}
       /\ \A c \in DOMAIN buckets : \A d \in {"read", "write"} :
             buckets[c][d] = Cardinality(Stack(M(d, c, m), Length))
       /\ \A c \in DOMAIN buckets : buckets[c] \in [read : Nat, write : Nat]
  BY <1>4 DEF SummedUpTo, AllTyped, TypeOK
<1>11. ASSUME hit PROVE home \in Directions
  <2> DEFINE s == inFlight[key]
  <2>1. s \in 1..m
    BY <1>7, <1>11
  <2> HIDE DEF s
  <2>2. trace[s] \in Record
    BY <1>3, <1>5, <2>1 DEF Typed
  <2>3. trace[s].direction \in Directions
    BY <2>2 DEF Record
  <2> QED
    BY <2>3 DEF s
<1>12. /\ DOMAIN buckets' = {c \in 0..MaxTs : \E d \in Directions : M(d, c, j) # {}}
       /\ \A c \in DOMAIN buckets' : \A d \in {"read", "write"} :
             buckets'[c][d] = Cardinality(Stack(M(d, c, j), Length))
  <2>1. CASE ~hit
    <3>1. buckets' = buckets
      BY <1>5, <2>1 DEF ThroughputRecord
    <3>2. \A d, c : M(d, c, j) = M(d, c, m)
      BY <1>7, <2>1
    <3> HIDE DEF j, hit, M
    <3> QED
      BY <1>10, <3>1, <3>2
  <2>2. CASE hit
    <3>0. home \in Directions
      BY <1>11, <2>2
    <3> DEFINE bytes == Add(BytesOf(b), inFlight[key])
    <3>1. buckets' = [c \in DOMAIN buckets \cup {b} |-> IF c = b THEN bytes ELSE buckets[c]]
      BY <1>5, <1>8, <2>2 DEF ThroughputRecord
    <3>2. M(home, b, j) = M(home, b, m) \cup {j}
      BY <1>7, <2>2
    <3>3. \A d, c : d # home \/ c # b => M(d, c, j) = M(d, c, m)
      BY <1>7
    <3>4. DOMAIN buckets' = DOMAIN buckets \cup {b}
      BY <3>1
    <3>5. DOMAIN buckets' = {c \in 0..MaxTs : \E d \in Directions : M(d, c, j) # {}}
      <4> HIDE DEF M, b, home, key, bytes
      <4>1. M(home, b, j) # {} /\ home \in Directions
        BY <3>0, <3>2
      <4>2. \A d, c : c # b => M(d, c, j) = M(d, c, m)
        BY <3>3
      <4> HIDE DEF j
      <4>3. ASSUME NEW c \in 0..MaxTs
            PROVE  c \in DOMAIN buckets' <=> \E d \in Directions : M(d, c, j) # {}
        <5>1. CASE c = b
          BY <3>4, <4>1, <5>1
        <5>2. CASE c # b
          <6>1. \A d \in Directions : M(d, c, j) = M(d, c, m)
            BY <4>2, <5>2
          <6>2. c \in DOMAIN buckets' <=> c \in DOMAIN buckets
            BY <3>4, <5>2
          <6> QED
            BY <1>10, <6>1, <6>2
        <5> QED
          BY <5>1, <5>2
      <4>4. DOMAIN buckets' \subseteq 0..MaxTs
        BY <1>7, <1>10, <3>4
      <4> QED
        BY <4>3, <4>4
    <3>6. ASSUME NEW d \in {"read", "write"}
          PROVE  BytesOf(b)[d] = Cardinality(Stack(M(d, b, m), Length)) /\ BytesOf(b) \in [read : Nat, write : Nat]
      <4>1. CASE b \in DOMAIN buckets
        <5>1. BytesOf(b) = buckets[b]
          BY <4>1 DEF BytesOf
        <5> HIDE DEF b, M
        <5> QED
          BY <1>10, <4>1, <5>1
      <4>2. CASE b \notin DOMAIN buckets
        <5>1. M(d, b, m) = {}
          <6>1. d \in Directions
            BY DEF Directions
          <6> HIDE DEF b, M
          <6> QED
            BY <1>7, <1>10, <4>2, <6>1
        <5>2. Stack({}, Length) = {} /\ Cardinality({}) = 0
          BY FS_EmptySet DEF Stack
        <5>3. BytesOf(b) = [read |-> 0, write |-> 0]
          BY <4>2 DEF BytesOf, NoBytes
        <5>4. BytesOf(b)[d] = 0 /\ BytesOf(b) \in [read : Nat, write : Nat]
          BY <5>3
        <5> HIDE DEF M
        <5> QED
          BY <5>1, <5>2, <5>4
      <4> QED
        BY <4>1, <4>2
    <3>7. bytes = IF home = "other" THEN BytesOf(b) ELSE [BytesOf(b) EXCEPT ![home] = @ + Length[j]]
      <4>1. trace[inFlight[key]].direction = home /\ trace[inFlight[key]].len = Length[j]
        BY <1>7, <2>2
      <4> QED
        BY <4>1 DEF Add
    <3>8. ASSUME NEW d \in {"read", "write"}
          PROVE  bytes[d] = Cardinality(Stack(M(d, b, j), Length))
      <4>0. BytesOf(b) \in [read : Nat, write : Nat] /\ BytesOf(b)[d] = Cardinality(Stack(M(d, b, m), Length))
        BY <3>6
      <4>1. CASE d # home
        <5>1. M(d, b, j) = M(d, b, m)
          BY <3>3, <4>1
        <5>2. bytes[d] = BytesOf(b)[d]
          <6> HIDE DEF bytes, b, home
          <6> QED
            BY <3>0, <3>7, <4>0, <4>1 DEF Directions
        <5> HIDE DEF M, bytes
        <5> QED
          BY <4>0, <5>1, <5>2
      <4>2. CASE d = home
        <5>1. \A x \in M(d, b, m) \cup {j} : Length[x] \in Nat
          <6>1. ASSUME NEW x \in M(d, b, m) PROVE Length[x] \in Nat
            <7>1. x \in 1..Len(trace) /\ OpenSubmits(trace[x].key, x - 1) # {}
              BY DEF MatchedUpTo, Matched
            <7> DEFINE S == OpenSubmits(trace[x].key, x - 1)
            <7>2. S \subseteq 1..(x - 1) /\ S \subseteq Nat /\ S # {} /\ x - 1 \in Nat /\ \A y \in S : y <= x - 1
              BY <7>1 DEF OpenSubmits
            <7> HIDE DEF S
            <7>3. PICK s \in S : \A y \in S : y <= s
              BY <7>2, GreatestNatural
            <7>4. Max(S) = s
              BY <7>2, <7>3, IsMax
            <7>5. s \in 1..Len(trace)
              BY <1>3, <7>1, <7>2, <7>3
            <7>6. trace[s] \in Record
              BY <1>3, <7>5 DEF Typed
            <7>7. trace[s].len \in Nat
              BY <7>6 DEF Record
            <7> QED
              BY <7>1, <7>4, <7>7 DEF Length, Submission, S
          <6>2. Length[j] \in Nat
            <7> DEFINE s == inFlight[key]
            <7>1. s \in 1..Len(trace) /\ Length[j] = trace[s].len
              <8>1. s \in 1..m /\ Length[j] = trace[s].len
                BY <1>7, <2>2
              <8> HIDE DEF s
              <8> QED
                BY <1>3, <1>5, <8>1
            <7> HIDE DEF s
            <7>2. trace[s] \in Record
              BY <1>3, <7>1 DEF Typed
            <7>3. trace[s].len \in Nat
              BY <7>2 DEF Record
            <7> QED
              BY <7>1, <7>3
          <6> QED
            BY <6>1, <6>2
        <5>2. IsFiniteSet(M(d, b, m)) /\ j \notin M(d, b, m)
          <6>1. IsFiniteSet(1..m) /\ M(d, b, m) \subseteq 1..m
            BY <1>5, FS_Interval DEF MatchedUpTo
          <6>2. j \notin 1..m
            BY <1>5
          <6> HIDE DEF M, j
          <6> QED
            BY <6>1, <6>2, FS_Subset
        <5>3. Cardinality(Stack(M(d, b, m) \cup {j}, Length)) = Cardinality(Stack(M(d, b, m), Length)) + Length[j]
          <6> HIDE DEF M, j, b
          <6> QED
            BY <5>1, <5>2, StackMore
        <5>4. M(d, b, j) = M(d, b, m) \cup {j}
          BY <3>2, <4>2
        <5>5. bytes[d] = BytesOf(b)[d] + Length[j]
          <6> HIDE DEF bytes, b, home, j
          <6> QED
            BY <3>0, <3>7, <4>0, <4>2 DEF Directions
        <5> HIDE DEF M, bytes, b, j
        <5> QED
          BY <4>0, <5>3, <5>4, <5>5
      <4> QED
        BY <4>1, <4>2
    <3>9. ASSUME NEW c \in DOMAIN buckets', NEW d \in {"read", "write"}
          PROVE  buckets'[c][d] = Cardinality(Stack(M(d, c, j), Length))
      <4>1. CASE c = b
        <5>1. buckets'[c] = bytes
          BY <3>1, <4>1
        <5> HIDE DEF M, bytes, b, j
        <5> QED
          BY <3>8, <4>1, <5>1
      <4>2. CASE c # b
        <5>1. c \in DOMAIN buckets /\ buckets'[c] = buckets[c]
          <6> HIDE DEF bytes, b
          <6> QED
            BY <3>1, <3>9, <4>2
        <5>2. M(d, c, j) = M(d, c, m)
          BY <3>3, <4>2
        <5> HIDE DEF M, j
        <5> QED
          BY <1>10, <5>1, <5>2
      <4> QED
        BY <4>1, <4>2
    <3> QED
      BY <3>5, <3>9
  <2> QED
    BY <2>1, <2>2
<1>13. LatestAfter(m + 1)'
  BY <1>1, <1>2, <1>3, <1>5, <1>6, LatestStep
<1>14. SummedUpTo(m + 1)'
  <2>1. /\ \A d, c, n : MatchedUpTo(d, c, n)' = MatchedUpTo(d, c, n)
        /\ Length' = Length /\ Time(j)' = Time(j)
    BY <1>2, TraceStays
  <2>2. j # 0
    BY <1>5
  <2>3. last' = IF j = 0 THEN 0 ELSE Time(j)'
    BY <1>9, <2>1, <2>2
  <2>4. \A d, c : Stack(MatchedUpTo(d, c, j), Length)' = Stack(MatchedUpTo(d, c, j), Length)
    BY <2>1 DEF Stack
  <2>5. DOMAIN buckets' = {c \in 0..MaxTs : \E d \in Directions : MatchedUpTo(d, c, j)' # {}}
    BY <1>12, <2>1
  <2>6. \A c \in DOMAIN buckets' : \A d \in {"read", "write"} :
             buckets'[c][d] = Cardinality(Stack(MatchedUpTo(d, c, j), Length)')
    BY <1>12, <2>4
  <2> QED
    BY <1>13, <2>3, <2>5, <2>6 DEF SummedUpTo
<1> QED
  BY <1>2, <1>5, <1>14 DEF BytesParts

LEMMA BytesStep ==
    ASSUME Files = 1, FileInv, AllTyped, BytesParts, [Next]_vars
    PROVE  BytesParts'
<1> USE DEF throughputVars
<1>1. ASSUME NEW r \in Record, Happen(r)
      PROVE  BytesParts'
  <2>1. phase = "record" /\ UNCHANGED <<phase, last, buckets>>
    BY <1>1 DEF Happen
  <2> QED
    BY <2>1 DEF BytesParts
<1>2. ASSUME NEW a \in {"throughput", "depth", "percent"}, Load(a) PROVE BytesParts'
  <2>1. /\ phase = "record" /\ phase' = "read" /\ unread' = 1..Len(trace)
        /\ UNCHANGED <<trace, base, inFlight, last, buckets>>
    BY <1>2 DEF Load
  <2>2. /\ last = 0 /\ DOMAIN buckets = {} /\ base = None /\ DOMAIN inFlight = {}
        /\ Len(trace) \in Nat
    BY <2>1 DEF BytesParts, FileInv, InTime, InStep, Fresh, Empty, Typed
  <2>3. ReadUpTo(0)'
    BY <2>1, <2>2 DEF ReadUpTo
  <2>4. SummedUpTo(0)'
    <3>1. \A d, b : MatchedUpTo(d, b, 0)' = {}
      BY DEF MatchedUpTo
    <3> QED
      BY <2>1, <2>2, <3>1 DEF SummedUpTo, LatestAfter
  <2> QED
    BY <2>1, <2>2, <2>3, <2>4 DEF BytesParts
<1>3. CASE LoadFails
  BY <1>3 DEF LoadFails, BytesParts
<1>4. ASSUME NEW i \in unread, DepthRecord(i) \/ PercentRecord(i) PROVE BytesParts'
  <2>1. phase = "read" /\ analysis \in {"depth", "percent"} /\ UNCHANGED <<phase, analysis>>
    BY <1>4 DEF DepthRecord, PercentRecord, Consume
  <2> QED
    BY <2>1 DEF BytesParts
<1>5. CASE DepthDone \/ PercentDone
  <2>1. phase = "read" /\ analysis \in {"depth", "percent"} /\ phase' = "done" /\ UNCHANGED analysis
    BY <1>5 DEF DepthDone, PercentDone
  <2> QED
    BY <2>1 DEF BytesParts
<1>6. ASSUME UNCHANGED <<trace, unread, base, inFlight, last, buckets>>
      PROVE  \A m : (ReadUpTo(m)' <=> ReadUpTo(m)) /\ (SummedUpTo(m)' <=> SummedUpTo(m))
  <2>1. /\ \A k, n : OpenSubmits(k, n)' = OpenSubmits(k, n)
        /\ \A d, b, m : MatchedUpTo(d, b, m)' = MatchedUpTo(d, b, m)
        /\ Length' = Length /\ \A i : Time(i)' = Time(i)
    BY <1>6, TraceStays
  <2>2. \A d, b, m : Stack(MatchedUpTo(d, b, m), Length)' = Stack(MatchedUpTo(d, b, m), Length)
    BY <2>1 DEF Stack
  <2>3. \A m : ReadUpTo(m)' <=> ReadUpTo(m)
    BY <1>6 DEF ReadUpTo
  <2>4. ASSUME NEW m PROVE SummedUpTo(m)' <=> SummedUpTo(m)
    <3>1. LatestAfter(m)' <=> LatestAfter(m)
      BY <1>6, <2>1 DEF LatestAfter
    <3>2. {b \in 0..MaxTs : \E d \in Directions : MatchedUpTo(d, b, m)' # {}}
             = {b \in 0..MaxTs : \E d \in Directions : MatchedUpTo(d, b, m) # {}}
      BY <2>1
    <3> QED
      BY <1>6, <2>1, <2>2, <3>1, <3>2 DEF SummedUpTo
  <2> QED
    BY <2>3, <2>4
<1>7. CASE ThroughputDone
  <2>1. /\ phase = "read" /\ analysis = "throughput" /\ phase' = "done"
        /\ UNCHANGED <<trace, analysis, unread, base, inFlight, last, buckets>>
        /\ rows' = {[time |-> b, bytes |-> buckets[b], duration |-> Duration(b)] : b \in DOMAIN buckets}
    BY <1>7 DEF ThroughputDone, readVars
  <2>2. \A b : Duration(b)' = Duration(b)
    BY <2>1 DEF Duration
  <2> QED
    BY <1>6, <2>1, <2>2 DEF BytesParts
<1>8. CASE UNCHANGED vars
  <2>1. UNCHANGED <<trace, analysis, phase, unread, base, inFlight, last, buckets, rows>>
    BY <1>8 DEF vars, readVars
  <2>2. \A b : Duration(b)' = Duration(b)
    BY <2>1 DEF Duration
  <2> QED
    BY <1>6, <2>1, <2>2 DEF BytesParts
<1> QED
  BY <1>1, <1>2, <1>3, <1>4, <1>5, <1>7, <1>8, SummedWhenReading, SomethingHappens DEF Next, Analyse, AllTyped

\* When all has been read, the rows are those of the trace.
LEMMA RowsOfTheTrace ==
    ASSUME FileInv, AllTyped, BytesParts, phase = "done", analysis = "throughput"
    PROVE  /\ {r.time : r \in rows} = {b \in 0..MaxTs : \E d \in Directions : Matched(d, b) # {}}
           /\ \A r \in rows :
                 /\ r.bytes = [d \in {"read", "write"} |-> BytesDone(d, r.time)]
                 /\ r.duration \in 1..Scale
                 /\ r.duration = 1 \/ r.time + r.duration <= Time(Len(trace))
<1>1. Typed /\ Ordered /\ InStep /\ Len(trace) \in Nat
  BY DEF FileInv, InTime, Typed
<1>2. PICK m \in 0..Len(trace) : ReadUpTo(m) /\ SummedUpTo(m)
  BY DEF BytesParts
<1>3. m = Len(trace)
  <2>1. (m + 1)..Len(trace) = {}
    BY <1>1, <1>2 DEF InStep, ReadUpTo
  <2> QED
    BY <1>1, <2>1
<1>4. \A d, b : MatchedUpTo(d, b, m) = Matched(d, b)
  BY <1>3 DEF MatchedUpTo, Matched
<1>5. /\ DOMAIN buckets = {b \in 0..MaxTs : \E d \in Directions : Matched(d, b) # {}}
      /\ \A b \in DOMAIN buckets : \A d \in {"read", "write"} :
             buckets[b][d] = Cardinality(Stack(Matched(d, b), Length))
  BY <1>2, <1>4 DEF SummedUpTo
<1>6. \A d, b : BytesDone(d, b) = Cardinality(Stack(Matched(d, b), Length))
  <2>1. \A d, b : \A j \in Matched(d, b) : Length[j] = Submission(j).len
    BY DEF Length, Matched, Submission
  <2>2. \A d, b : Stack(Matched(d, b), Length) =
           UNION {{j} \X (1..Submission(j).len) : j \in Matched(d, b)}
    BY <2>1 DEF Stack
  <2> QED
    BY <2>2 DEF BytesDone
<1>7. \A b \in DOMAIN buckets : buckets[b] \in [read : Nat, write : Nat]
  BY DEF AllTyped, TypeOK
<1>8. rows = {[time |-> b, bytes |-> buckets[b], duration |-> Duration(b)] : b \in DOMAIN buckets}
  BY DEF BytesParts
<1>9. {r.time : r \in rows} = DOMAIN buckets
  <2> DEFINE row(b) == [time |-> b, bytes |-> buckets[b], duration |-> Duration(b)]
  <2>1. \A b \in DOMAIN buckets : row(b).time = b
    OBVIOUS
  <2>2. rows = {row(b) : b \in DOMAIN buckets}
    BY <1>8
  <2> HIDE DEF row
  <2> QED
    BY <2>1, <2>2
<1>10. ASSUME NEW b \in DOMAIN buckets
       PROVE  /\ buckets[b] = [d \in {"read", "write"} |-> BytesDone(d, b)]
              /\ Duration(b) \in 1..Scale
              /\ Duration(b) = 1 \/ b + Duration(b) <= Time(Len(trace))
  <2>1. buckets[b] = [d \in {"read", "write"} |-> BytesDone(d, b)]
    <3> DEFINE e == buckets[b]
    <3>1. e \in [read : Nat, write : Nat]
      BY <1>7
    <3>2. e["read"] = BytesDone("read", b) /\ e["write"] = BytesDone("write", b)
      BY <1>5, <1>6
    <3> HIDE DEF e
    <3>3. e = [d \in {"read", "write"} |-> e[d]]
      BY <3>1
    <3>4. e = [d \in {"read", "write"} |-> BytesDone(d, b)]
      BY <3>2, <3>3
    <3> QED
      BY <3>4 DEF e
  <2>2. b \in 0..MaxTs /\ \E d \in Directions : Matched(d, b) # {}
    BY <1>5
  <2>3. Len(trace) # 0
    BY <2>2 DEF Matched
  <2>4. last = Time(Len(trace)) /\ Time(Len(trace)) \in 0..MaxTs
    <3>1. Len(trace) \in 1..Len(trace)
      BY <1>1, <2>3
    <3> QED
      BY <1>1, <1>2, <1>3, <2>3, <3>1, Times DEF SummedUpTo
  <2>5. Scale \in Nat /\ Scale >= 1 /\ MaxTs \in Nat
    BY AnalyzeAssumption
  <2> DEFINE t == Time(Len(trace))
  <2>6. Duration(b) = LET d == IF t < b THEN 0 ELSE t - b
                      IN  IF d < 1 THEN 1 ELSE IF d > Scale THEN Scale ELSE d
    BY <2>4 DEF Duration, Minus
  <2>7. t \in 0..MaxTs
    BY <2>4
  <2> HIDE DEF t
  <2>8. Duration(b) \in 1..Scale /\ (Duration(b) = 1 \/ b + Duration(b) <= t)
    BY <2>2, <2>5, <2>6, <2>7
  <2> QED
    BY <2>1, <2>8 DEF t
<1>11. \A r \in rows : \E b \in DOMAIN buckets :
          r.time = b /\ r.bytes = buckets[b] /\ r.duration = Duration(b)
  BY <1>8
<1>12. ASSUME NEW r \in rows
       PROVE  /\ r.bytes = [d \in {"read", "write"} |-> BytesDone(d, r.time)]
              /\ r.duration \in 1..Scale
              /\ r.duration = 1 \/ r.time + r.duration <= Time(Len(trace))
  <2>1. PICK b \in DOMAIN buckets : r.time = b /\ r.bytes = buckets[b] /\ r.duration = Duration(b)
    BY <1>11
  <2> QED
    BY <1>10, <2>1
<1> QED
  BY <1>5, <1>9, <1>12

\* For one file, of any length and however incomplete, and every scale: a row for each
\* bucket with a matched completion, with the bytes of the submissions those belong to.
THEOREM ThroughputIsRight == Spec => []ThroughputRight
<1> DEFINE Inv == FileInv /\ AllTyped /\ BytesParts
<1>1. ASSUME Files = 1 PROVE Spec => []ThroughputRight
  <2>1. Init => Inv
    <3>1. Init => BytesParts
      BY DEF Init, BytesParts, Empty
    <3>2. Init => AllTyped
      BY AnalyzeAssumption DEF Init, AllTyped, TypeOK, Typed, Empty
    <3> QED
      BY <3>1, <3>2, FileInvInit
  <2>2. Inv /\ [Next]_vars => Inv'
    BY <1>1, FileInvStep, NextTyped, BytesStep
  <2>3. Inv => ThroughputRight
    BY RowsOfTheTrace DEF ThroughputRight, Directions
  <2> QED
    BY <2>1, <2>2, <2>3, PTL DEF Spec
<1>2. CASE Files # 1
  <2>1. ThroughputRight
    BY <1>2 DEF ThroughputRight
  <2> QED
    BY <2>1, PTL
<1> QED
  BY <1>1, <1>2

=============================================================================
