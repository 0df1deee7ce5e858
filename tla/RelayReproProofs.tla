-------------------------- MODULE RelayReproProofs --------------------------
(***************************************************************************)
(* RelayRepro, for every size of the ring, of the read buffer and of the   *)
(* log channel, and every period of seq: the log, what the reader finds    *)
(* unread in the ring, and its alarms, which stand for lost races.         *)
(***************************************************************************)
EXTENDS RelayRepro, EventSequences, FiniteSetTheorems, TLAPS

-----------------------------------------------------------------------------
(* Types.                                                                  *)

\* A place of the ring holds a record or garbage.
LEMMA MemType ==
    ASSUME TypeOK, NEW k \in Int
    PROVE  Mem(k) \in Nat \cup {Garbage}
<1> DEFINE J == {j \in DOMAIN written : j % Ring = k % Ring /\ Len(written) < j + Ring}
<1>1. CASE J = {}
  BY <1>1 DEF Mem
<1>2. CASE J # {}
  <2>1. (CHOOSE j \in J : TRUE) \in DOMAIN written
    BY <1>2
  <2>2. written[CHOOSE j \in J : TRUE] \in Nat
    BY <2>1 DEF TypeOK
  <2> QED
    BY <1>2, <2>2 DEF Mem
<1> QED
  BY <1>1, <1>2

\* The scan keeps its variables in their types.
LEMMA ScanType ==
    ASSUME TypeOK, NEW chunk \in Seq(Nat \cup {Garbage}), Scan(chunk)
    PROVE  /\ dups' \in Nat /\ corrupt' \in BOOLEAN /\ again' \in BOOLEAN
           /\ last' \in Seq(Nat) /\ Len(last') <= 1
           /\ seen' \subseteq Nat
<1> DEFINE run  == last \o chunk
           good == {i \in DOMAIN run : run[i] # Garbage}
           Follows(j, i) == i < j /\ \A k \in good : k <= i \/ j <= k
           D    == {j \in good : \E i \in good : Follows(j, i) /\ IsDup(run[i], run[j])}
<1>1. run \in Seq(Nat \cup {Garbage})
  <2>1. last \in Seq(Nat \cup {Garbage})
    BY SeqMonotonic, Zenon DEF TypeOK
  <2> QED
    BY <2>1
<1>2. \A i \in good : run[i] \in Nat
  BY <1>1
<1>3. dups' = dups + Cardinality(D)
  BY DEF Scan, Before
<1>4. Cardinality(D) \in Nat
  <2>1. DOMAIN run = 1..Len(run) /\ Len(run) \in Nat
    BY <1>1
  <2>2. IsFiniteSet(1..Len(run))
    BY <2>1, FS_Interval
  <2>3. D \subseteq 1..Len(run)
    BY <2>1
  <2>4. IsFiniteSet(D)
    BY <2>2, <2>3, FS_Subset, Zenon
  <2> QED
    BY <2>4, FS_CardinalityType, Zenon
<1>5. dups' \in Nat
  <2> HIDE DEF D
  <2> QED BY <1>3, <1>4 DEF TypeOK
<1>6. last' = last \/ \E i \in good : last' = <<run[i]>>
  BY DEF Scan, Before
<1>7. last' \in Seq(Nat) /\ Len(last') <= 1
  <2>1. CASE last' = last
    BY <2>1 DEF TypeOK
  <2>2. ASSUME NEW i \in good, last' = <<run[i]>> PROVE last' \in Seq(Nat) /\ Len(last') <= 1
    <3> HIDE DEF run, good
    <3> QED BY <1>2, <2>2
  <2> QED
    BY <1>6, <2>1, <2>2
<1>8. corrupt' \in BOOLEAN /\ again' \in BOOLEAN
  BY DEF Scan, TypeOK
<1>9. seen' \subseteq Nat
  <2>1. Range(chunk) \ {Garbage} \subseteq Nat
    BY DEF Range
  <2>2. seen' = seen \cup (Range(chunk) \ {Garbage})
    BY DEF Scan
  <2> QED
    BY <2>1, <2>2 DEF TypeOK
<1> QED
  BY <1>5, <1>7, <1>8, <1>9

\* The channel stays within its bound.
LEMMA TrySendType ==
    ASSUME TypeOK, TrySend
    PROVE  channel' \in Seq(Nat) /\ Len(channel') <= LogCap /\ accepted' \in Nat
<1>1. CASE client = "rust_log" /\ logger # "failed" /\ Len(channel) < LogCap
  <2>1. channel' = Append(channel, accepted + 1) /\ accepted' = accepted + 1
    BY <1>1, Zenon DEF TrySend
  <2>2. LogCap \in Nat
    BY RelayAssumption
  <2> QED
    BY <1>1, <2>1, <2>2 DEF TypeOK
<1>2. CASE ~(client = "rust_log" /\ logger # "failed" /\ Len(channel) < LogCap)
  <2>1. channel' = channel /\ accepted' = accepted
    BY <1>2, Zenon DEF TrySend, logVars
  <2> QED
    BY <2>1 DEF TypeOK
<1> QED
  BY <1>1, <1>2

\* A read that returned a chunk keeps the types.
LEMMA ChunkType ==
    ASSUME TypeOK, NEW chunk \in Seq(Nat \cup {Garbage}), GotChunk(chunk),
           pos' \in Nat, races' \in Nat, ReaderOnly, stop' = stop
    PROVE  TypeOK'
<1>1. Scan(chunk) /\ TrySend /\ pc' = "loop"
  BY DEF GotChunk
<1>2. UNCHANGED <<next, written, switch, client, logger, held, logFile, torn>>
  BY DEF ReaderOnly, ringVars, fileVars
<1> QED
  BY <1>1, <1>2, ScanType, TrySendType DEF TypeOK

\* Two numbers of the ring, as naturals.
LEMMA Sizes ==
    /\ SubbufSize \in Nat \ {0} /\ NSubbufs \in Nat \ {0} /\ ReadCap \in Nat \ {0}
    /\ LogCap \in Nat \ {0} /\ Ring \in Nat
BY RelayAssumption DEF Ring

LEMMA WriterType ==
    ASSUME TypeOK, Writer
    PROVE  TypeOK'
<1> USE DEF TypeOK, RingUnchanged, scanVars, logVars, fileVars
<1>1. CASE Write
  <2>1. next' \in Nat /\ written' \in Seq(Nat)
    BY <1>1 DEF Write, Make, Put
  <2> QED
    BY <1>1, <2>1 DEF Write
<1>2. CASE Publish
  BY <1>2 DEF Publish
<1>3. CASE SubbufStart
  <2>1. next' \in Nat
    BY <1>3 DEF SubbufStart, Make
  <2>2. written' \in Seq(Nat) /\ switch' \in {"refused", "none"}
    <3>1. Append(written, next) \in Seq(Nat)
      BY AppendProperties, Zenon
    <3> QED
      BY <1>3, <3>1, Zenon DEF SubbufStart, Put
  <2> QED
    BY <1>3, <2>1, <2>2 DEF SubbufStart
<1> QED
  BY <1>1, <1>2, <1>3 DEF Writer

LEMMA ClientType ==
    ASSUME TypeOK, Client
    PROVE  TypeOK'
<1>1. CASE TestStop \/ ReadNothing \/ ReadFails
  BY <1>1 DEF TestStop, ReadNothing, ReadFails, TypeOK, ReaderOnly, ringVars, scanVars, logVars, fileVars
<1>2. CASE Join
  BY <1>2 DEF Join, TypeOK, ReaderOnly, ringVars, scanVars, logVars, fileVars
<1>3. CASE ReadStale
  BY <1>3 DEF ReadStale, TypeOK, ReaderOnly, ringVars, scanVars, logVars, fileVars
<1>4. CASE Read
  <2>1. PICK n \in 1..ReadCap : GotChunk([j \in 1..n |-> Mem(pos + j)]) /\ pos' = pos + n
    BY <1>4 DEF Read
  <2>2. n \in Nat
    BY Sizes
  <2>3. [j \in 1..n |-> Mem(pos + j)] \in Seq(Nat \cup {Garbage})
    <3>1. \A j \in 1..n : Mem(pos + j) \in Nat \cup {Garbage}
      BY MemType DEF TypeOK
    <3> QED
      BY <2>2, <3>1
  <2>4. pos' \in Nat /\ races' \in Nat /\ ReaderOnly /\ stop' = stop
    BY <1>4, <2>1, <2>2 DEF Read, TypeOK
  <2> QED
    BY <2>1, <2>3, <2>4, ChunkType
<1>5. CASE ReadCut
  <2> DEFINE whole == [j \in 1..ReadCap |-> Mem(pos + j)]
  <2>1. GotChunk(Append(whole, Garbage)) /\ pos' = pos + ReadCap + 1
    BY <1>5 DEF ReadCut
  <2>2. whole \in Seq(Nat \cup {Garbage})
    <3>1. \A j \in 1..ReadCap : Mem(pos + j) \in Nat \cup {Garbage}
      BY MemType, Sizes DEF TypeOK
    <3> QED
      BY Sizes, <3>1
  <2>3. Append(whole, Garbage) \in Seq(Nat \cup {Garbage})
    <3> HIDE DEF whole
    <3> QED BY <2>2
  <2>4. pos' \in Nat /\ races' \in Nat /\ ReaderOnly /\ stop' = stop
    BY <1>5, <2>1, Sizes DEF ReadCut, TypeOK
  <2> QED
    BY <2>1, <2>3, <2>4, ChunkType
<1>6. CASE CopyStale
  <2>1. GotChunk([j \in 1..SubbufSize |-> Mem(pos + j)])
    BY <1>6 DEF CopyStale
  <2>2. [j \in 1..SubbufSize |-> Mem(pos + j)] \in Seq(Nat \cup {Garbage})
    <3>1. \A j \in 1..SubbufSize : Mem(pos + j) \in Nat \cup {Garbage}
      BY MemType, Sizes DEF TypeOK
    <3> QED
      BY Sizes, <3>1
  <2>3. pos' \in Nat
    <3>1. Produced \in Int
      BY Sizes DEF Produced, TypeOK
    <3>2. Oldest \in Nat
      BY <3>1, Sizes DEF Oldest
    <3>3. Oldest * SubbufSize \in Nat /\ pos + SubbufSize \in Nat
      BY <3>2, Sizes DEF TypeOK
    <3> QED
      BY <1>6, <3>3 DEF CopyStale, Resume
  <2>4. races' \in Nat /\ ReaderOnly /\ stop' = stop
    BY <1>6 DEF CopyStale, TypeOK
  <2> QED
    BY <2>1, <2>2, <2>3, <2>4, ChunkType
<1> QED
  BY <1>1, <1>2, <1>3, <1>4, <1>5, <1>6 DEF Client

LEMMA LoggerType ==
    ASSUME TypeOK, Logger
    PROVE  TypeOK'
<1> USE DEF TypeOK, LoggerOnly, ringVars, scanVars
<1>1. CASE CreateLog
  BY <1>1 DEF CreateLog
<1>2. CASE Receive
  BY <1>2, Sizes DEF Receive
<1>3. CASE WriteChunk
  <2>1. held' = <<>> /\ held' \in Seq(Nat)
    BY <1>3 DEF WriteChunk
  <2>2. logFile' \in Seq(Nat) /\ logger' \in {"recv", "failed"} /\ torn' \in BOOLEAN
    <3>1. CASE logger' = "recv" /\ logFile' = logFile \o held /\ torn' = torn
      <4>1. logFile \o held \in Seq(Nat)
        BY ConcatProperties, Zenon
      <4> QED
        BY <3>1, <4>1
    <3>2. CASE logger' = "failed" /\ logFile' = logFile /\ torn' \in BOOLEAN
      BY <3>2
    <3> QED
      BY <1>3, <3>1, <3>2 DEF WriteChunk
  <2> QED
    BY <1>3, <2>1, <2>2 DEF WriteChunk
<1>4. CASE LogEnd
  BY <1>4 DEF LogEnd
<1> QED
  BY <1>1, <1>2, <1>3, <1>4 DEF Logger

LEMMA NextType ==
    ASSUME TypeOK, [Next]_vars
    PROVE  TypeOK'
<1>1. CASE Signal
  BY <1>1 DEF Signal, TypeOK, ringVars, scanVars, logVars, fileVars
<1>2. CASE UNCHANGED vars
  BY <1>2 DEF vars, TypeOK, ringVars, scanVars, logVars, fileVars
<1> QED
  BY <1>1, <1>2, WriterType, ClientType, LoggerType DEF Next

LEMMA InitType == Init => TypeOK
<1> SUFFICES ASSUME Init PROVE TypeOK
  OBVIOUS
<1>1. logger \in {"none", "create"}
  BY Zenon DEF Init
<1>2. <<>> \in Seq(Nat) /\ Len(<<>>) = 0
  OBVIOUS
<1>3. /\ written \in Seq(Nat) /\ last \in Seq(Nat) /\ Len(last) <= 1 /\ channel \in Seq(Nat)
      /\ Len(channel) <= LogCap /\ held \in Seq(Nat) /\ logFile \in Seq(Nat)
  BY <1>2, Sizes DEF Init
<1>4. torn \in BOOLEAN
  BY Zenon DEF Init
<1> QED
  BY <1>1, <1>3, <1>4 DEF Init, TypeOK

\* Every variable keeps its type, and the log channel its bound, for every size.
THEOREM TypeCorrect == Spec => []TypeOK
<1> QED
  BY InitType, NextType, PTL DEF Spec

-----------------------------------------------------------------------------
(* The log.                                                                *)

\* What the client and the log thread keep between them: the log, the chunk in
\* hand and the channel are the chunks accepted, in order, until the thread
\* fails; a thread that has ended well has drained the channel, which no sender
\* fills any more.
LogParts ==
    /\ logger = "write" => held = <<Len(logFile) + 1>>
    /\ logger # "write" => held = <<>>
    /\ logger # "failed" =>
          /\ Len(logFile) + Len(held) + Len(channel) = accepted
          /\ \A i \in 1..Len(channel) : channel[i] = Len(logFile) + Len(held) + i
    /\ \A i \in 1..Len(logFile) : logFile[i] = i
    /\ logger = "done" => channel = <<>> /\ SenderDropped
    /\ client = "rust_log" <=> logger # "none"
    /\ client # "rust_log" => accepted = 0 /\ logFile = <<>>
    /\ pc = "ok" /\ client = "rust_log" => logger = "done"
    /\ torn => logger = "failed"

LogInv == TypeOK /\ LogParts

\* What the log thread's state consists of, but for the client's part in it.
LEMMA LogWhenSending ==
    ASSUME LogInv, TrySend, UNCHANGED <<logger, held, logFile, torn, client>>,
           ~SenderDropped, pc' # "ok"
    PROVE  LogParts'
<1> USE DEF LogInv, LogParts, TypeOK
<1>1. logger # "done" /\ logger' # "done"
  OBVIOUS
<1>2. CASE client = "rust_log" /\ logger # "failed" /\ Len(channel) < LogCap
  <2>1. channel' = Append(channel, accepted + 1) /\ accepted' = accepted + 1
    BY <1>2, Zenon DEF TrySend
  <2>2. /\ Len(channel') = Len(channel) + 1
        /\ \A i \in 1..Len(channel) : channel'[i] = channel[i]
        /\ channel'[Len(channel) + 1] = accepted + 1
    BY <2>1
  <2>3. Len(held) \in Nat /\ Len(logFile) \in Nat /\ Len(channel) \in Nat
    OBVIOUS
  <2>0. /\ Len(logFile) + Len(held) + Len(channel) = accepted
        /\ \A i \in 1..Len(channel) : channel[i] = Len(logFile) + Len(held) + i
    BY <1>2
  <2> HIDE DEF LogInv, LogParts, TypeOK
  <2>4. Len(logFile) + Len(held) + Len(channel') = accepted'
    BY <2>1, <2>2, <2>3, <2>0
  <2>5. \A i \in 1..Len(channel') : channel'[i] = Len(logFile) + Len(held) + i
    <3> SUFFICES ASSUME NEW i \in 1..Len(channel')
                 PROVE  channel'[i] = Len(logFile) + Len(held) + i
      OBVIOUS
    <3>1. CASE i \in 1..Len(channel)
      BY <2>2, <2>0, <3>1
    <3>2. CASE i = Len(channel) + 1
      BY <2>2, <2>3, <2>0, <3>2
    <3> QED
      BY <2>2, <2>3, <3>1, <3>2
  <2> QED
    BY <1>1, <1>2, <2>4, <2>5 DEF LogInv, LogParts, TypeOK
<1>3. CASE ~(client = "rust_log" /\ logger # "failed" /\ Len(channel) < LogCap)
  <2>1. channel' = channel /\ accepted' = accepted
    BY <1>3, Zenon DEF TrySend, logVars
  <2> QED
    BY <1>1, <2>1
<1> QED
  BY <1>2, <1>3

\* Sends apart, the client only moves its program counter.
LEMMA LogWhenClientMoves ==
    ASSUME LogInv, Client
    PROVE  LogParts'
<1>1. CASE Read \/ ReadCut \/ CopyStale
  <2>1. TrySend /\ pc' = "loop" /\ ReaderOnly /\ pc \in {"read", "copy"}
    BY <1>1 DEF Read, ReadCut, CopyStale, GotChunk
  <2> QED
    BY <2>1, LogWhenSending DEF ReaderOnly, fileVars, SenderDropped
<1>2. CASE TestStop \/ ReadNothing \/ ReadFails \/ ReadStale
  <2>1. UNCHANGED <<client, channel, accepted, logger, held, logFile, torn>>
    BY <1>2 DEF TestStop, ReadNothing, ReadFails, ReadStale, ReaderOnly, logVars, fileVars
  <2>2. ~SenderDropped /\ (client = "rust_log" => pc' # "ok")
    BY <1>2 DEF TestStop, ReadNothing, ReadFails, ReadStale, SenderDropped
  <2>3. logger # "done"
    BY <2>2 DEF LogInv, LogParts
  <2> QED
    BY <2>1, <2>2, <2>3 DEF LogInv, LogParts
<1>3. CASE Join
  <2>1. UNCHANGED <<client, channel, accepted, logger, held, logFile, torn>>
    BY <1>3 DEF Join, ReaderOnly, logVars, fileVars
  <2>2. SenderDropped' /\ (client = "rust_log" /\ pc' = "ok" => logger = "done")
    BY <1>3 DEF Join, SenderDropped, LogEnded
  <2> QED
    BY <2>1, <2>2 DEF LogInv, LogParts
<1> QED
  BY <1>1, <1>2, <1>3 DEF Client

\* Every step of the log thread moves chunks on, in order, or fails.
LEMMA LogWhenLoggerMoves ==
    ASSUME LogInv, Logger
    PROVE  LogParts'
<1> USE DEF LogInv, LogParts, TypeOK
<1>0. client' = client /\ pc' = pc /\ accepted' = accepted
  BY DEF Logger, CreateLog, Receive, WriteChunk, LogEnd, LoggerOnly
<1>1. CASE CreateLog
  BY <1>0, <1>1 DEF CreateLog
<1>2. CASE Receive
  <2>1. /\ held' = <<Head(channel)>> /\ channel' = Tail(channel)
        /\ logFile' = logFile /\ torn' = torn /\ logger' = "write"
    BY <1>2 DEF Receive
  <2>2. logger = "recv" /\ channel # <<>> /\ held = <<>> /\ Len(held) = 0
    BY <1>2 DEF Receive
  <2>3. Len(channel) \in Nat \ {0}
    BY <2>2
  <2>4. Head(channel) = Len(logFile) + 1
    BY <2>2, <2>3
  <2>5. /\ Len(channel') = Len(channel) - 1
        /\ \A i \in 1..Len(channel') : channel'[i] = channel[i + 1]
    BY <2>1, <2>2
  <2>6. held' = <<Len(logFile) + 1>> /\ Len(held') = 1
    BY <2>1, <2>4
  <2>7. \A i \in 1..Len(channel') : channel'[i] = Len(logFile) + 1 + i
    BY <2>2, <2>3, <2>5
  <2>8. Len(logFile) + 1 + Len(channel') = accepted
    <3>1. Len(logFile) + 0 + Len(channel) = accepted /\ Len(logFile) \in Nat
      BY <2>2
    <3> HIDE DEF LogInv, LogParts, TypeOK
    <3> QED
      BY <2>3, <2>5, <3>1
  <2> QED
    BY <1>0, <2>1, <2>2, <2>6, <2>7, <2>8
<1>3. CASE WriteChunk
  <2>1. logger = "write" /\ held = <<Len(logFile) + 1>> /\ held' = <<>> /\ channel' = channel
    BY <1>3 DEF WriteChunk
  <2>2. CASE logger' = "failed" /\ logFile' = logFile
    BY <1>0, <2>1, <2>2
  <2>3. CASE logger' = "recv" /\ logFile' = logFile \o held /\ torn' = torn
    <3>1. /\ Len(logFile') = Len(logFile) + 1
          /\ \A i \in 1..Len(logFile) : logFile'[i] = logFile[i]
          /\ logFile'[Len(logFile) + 1] = Len(logFile) + 1
      BY <2>1, <2>3
    <3>2. Len(held) = 1 /\ Len(held') = 0
      BY <2>1
    <3>3. \A i \in 1..Len(logFile') : logFile'[i] = i
      <4> SUFFICES ASSUME NEW i \in 1..Len(logFile') PROVE logFile'[i] = i
        OBVIOUS
      <4>1. i \in 1..Len(logFile) \/ i = Len(logFile) + 1
        BY <3>1
      <4> QED
        BY <3>1, <4>1
    <3>4. /\ Len(logFile) + 1 + Len(channel) = accepted /\ Len(logFile) \in Nat
          /\ \A i \in 1..Len(channel) : channel[i] = Len(logFile) + 1 + i
      BY <2>1, <3>2
    <3>5. /\ Len(logFile') + 0 + Len(channel') = accepted'
          /\ \A i \in 1..Len(channel') : channel'[i] = Len(logFile') + 0 + i
      <4> HIDE DEF LogInv, LogParts, TypeOK
      <4> QED
        BY <1>0, <2>1, <3>1, <3>4
    <3>6. logger' = "recv" /\ client = "rust_log" /\ pc # "ok"
      BY <2>1, <2>3
    <3>7. ~torn'
      BY <2>1, <2>3
    <3> QED
      BY <1>0, <2>1, <3>2, <3>3, <3>5, <3>6, <3>7
  <2> QED
    BY <1>3, <2>2, <2>3 DEF WriteChunk
<1>4. CASE LogEnd
  BY <1>0, <1>4 DEF LogEnd, SenderDropped
<1> QED
  BY <1>1, <1>2, <1>3, <1>4 DEF Logger

LEMMA LogInvStep ==
    ASSUME LogInv, [Next]_vars
    PROVE  LogInv'
<1>1. TypeOK'
  BY NextType DEF LogInv
<1>2. LogParts'
  <2>1. CASE Writer \/ Signal \/ UNCHANGED vars
    <3>1. UNCHANGED <<client, pc, channel, accepted, logger, held, logFile, torn>>
      BY <2>1 DEF Writer, Write, Publish, SubbufStart, RingUnchanged, Signal, vars, logVars, fileVars
    <3> QED
      BY <3>1 DEF LogInv, LogParts, SenderDropped
  <2> QED
    BY <2>1, LogWhenClientMoves, LogWhenLoggerMoves DEF Next
<1> QED
  BY <1>1, <1>2 DEF LogInv

LEMMA LogInvInit == Init => LogInv
<1> SUFFICES ASSUME Init PROVE LogInv
  OBVIOUS
<1>1. Len(logFile) = 0 /\ Len(held) = 0 /\ Len(channel) = 0 /\ accepted = 0
  BY DEF Init
<1>2. client = "rust_log" <=> logger # "none"
  BY DEF Init
<1>3. logger # "write" /\ logger # "done" /\ logger # "failed" /\ pc # "ok"
  BY DEF Init
<1> QED
  BY <1>1, <1>2, <1>3, InitType DEF Init, LogInv, LogParts

\* The log holds the accepted chunks in order, and all of them when run returns
\* Ok, for every capacity of the channel.
THEOREM LogIsKept == Spec => []LogKeepsAccepted
<1>1. LogInv => LogKeepsAccepted
  <2> SUFFICES ASSUME LogInv PROVE LogKeepsAccepted
    OBVIOUS
  <2>1. logFile = [i \in 1..Len(logFile) |-> i]
    BY DEF LogInv, LogParts, TypeOK
  <2>2. ASSUME pc = "ok" PROVE Len(logFile) = accepted /\ ~torn
    <3>1. CASE client = "rust_log"
      BY <2>2, <3>1 DEF LogInv, LogParts, TypeOK
    <3>2. CASE client # "rust_log"
      BY <3>2 DEF LogInv, LogParts
    <3> QED
      BY <3>1, <3>2
  <2> QED
    BY <2>1, <2>2 DEF LogKeepsAccepted
<1> QED
  BY <1>1, LogInvInit, LogInvStep, PTL DEF Spec

-----------------------------------------------------------------------------
(* The places of the ring.                                                 *)

\* Two places less than the ring apart that share a slot are one.
LEMMA SameSlot ==
    ASSUME NEW a \in Nat, NEW b \in Nat, NEW s \in Nat \ {0},
           a % s = b % s, a < b + s, b < a + s
    PROVE  a = b
<1>1. /\ a = (s * (a \div s)) + (a % s) /\ b = (s * (b \div s)) + (b % s)
      /\ a \div s \in Nat /\ b \div s \in Nat /\ a % s \in Nat
      /\ s * (a \div s) \in Nat /\ s * (b \div s) \in Nat
  BY DivMod
<1>2. ASSUME NEW p \in Nat, NEW q \in Nat, p < q, s * q < s * p + s PROVE FALSE
  <2>1. (p + 1) * s <= q * s
    BY <1>2, MulMono
  <2>2. (p + 1) * s = s * p + s /\ q * s = s * q
    BY SMTT(30)
  <2>3. s * q \in Int /\ s * p \in Int
    OBVIOUS
  <2> QED
    BY <1>2, <2>1, <2>2, <2>3
<1>3. s * (a \div s) < s * (b \div s) + s /\ s * (b \div s) < s * (a \div s) + s
  BY <1>1
<1>4. a \div s = b \div s
  BY <1>1, <1>2, <1>3
<1> QED
  BY <1>1, <1>4

\* One more record: it stays in its sub-buffer or fills it.
LEMMA NextPlace ==
    ASSUME NEW n \in Nat, NEW s \in Nat \ {0}
    PROVE  \/ (n + 1) % s = 0 /\ n + 1 = (s * (n \div s)) + s
           \/ (n + 1) % s # 0 /\ (n + 1) \div s = n \div s
<1>1. /\ n \div s \in Nat /\ n % s \in Nat /\ n % s < s /\ s * (n \div s) \in Nat
      /\ n = (s * (n \div s)) + (n % s)
  BY DivMod
<1>2. /\ (n + 1) \div s \in Nat /\ (n + 1) % s \in 0..(s - 1)
      /\ s * ((n + 1) \div s) \in Nat
      /\ n + 1 = (s * ((n + 1) \div s)) + ((n + 1) % s)
  BY DivMod
<1>3. CASE (n % s) + 1 = s
  <2>1. s * ((n \div s) + 1) = (s * (n \div s)) + s
    BY <1>1, SMTT(30)
  <2>2. s * ((n \div s) + 1) + 0 = s * ((n + 1) \div s) + ((n + 1) % s)
    BY <1>1, <1>2, <1>3, <2>1
  <2>3. (n \div s) + 1 \in Int /\ (n + 1) \div s \in Int /\ 0 \in 0..(s - 1)
    BY <1>1, <1>2
  <2>4. (n + 1) % s = 0
    <3> DEFINE q == (n \div s) + 1
               p == (n + 1) \div s
               t == (n + 1) % s
    <3>1. q \in Int /\ p \in Int /\ t \in 0..(s - 1) /\ s * q + 0 = s * p + t
      BY <1>2, <2>2, <2>3
    <3> HIDE DEF q, p, t
    <3>2. 0 = t
      BY <2>3, <3>1, DivUnique
    <3> QED
      BY <3>2 DEF t
  <2> QED
    BY <1>1, <1>3, <2>4
<1>4. CASE (n % s) + 1 # s
  <2>1. (n % s) + 1 \in 0..(s - 1) /\ n \div s \in Int
    BY <1>1, <1>4
  <2>2. s * (n \div s) + ((n % s) + 1) = s * ((n + 1) \div s) + ((n + 1) % s)
    BY <1>1, <1>2
  <2>3. (n + 1) \div s = n \div s /\ (n + 1) % s = (n % s) + 1
    BY <1>2, <2>1, <2>2, DivUnique
  <2> QED
    BY <1>1, <2>3
<1> QED
  BY <1>3, <1>4

-----------------------------------------------------------------------------
(* Where the reader is, and what the ring holds for it.                    *)

\* The sub-buffer that is written to ends no further than the ring from the reader.
WithinRing ==
    IF AtEnd THEN Len(written) <= pos + Ring
    ELSE SubbufSize * (Len(written) \div SubbufSize) + SubbufSize <= pos + Ring

\* The reader stays behind the writer by the ring at most, a lost race included.
\* While it copies a stale sub-buffer, the writer has not yet left the place at which
\* the reader stopped, or has gone on from there.
RingParts ==
    /\ switch # "none" => AtEnd
    /\ WithinRing
    /\ pc = "copy" => /\ races # 0
                      /\ pos <= Len(written) /\ pos % SubbufSize = 0
                      /\ switch = "none" => pos < Len(written)

RingInv == TypeOK /\ RingParts

LEMMA RingIsPositive == Ring \in Nat \ {0} /\ SubbufSize <= Ring
<1>1. 1 * SubbufSize <= NSubbufs * SubbufSize /\ NSubbufs * SubbufSize = Ring
      /\ 1 * SubbufSize = SubbufSize
  BY Sizes, MulMono DEF Ring
<1> QED
  BY <1>1, Sizes

\* The end of the sub-buffer that is written to is a ring from the reader, at most.
LEMMA AtMostARing ==
    ASSUME RingInv
    PROVE  Len(written) <= pos + Ring
<1>1. pos \in Nat /\ Len(written) \in Nat /\ Ring \in Nat
  BY Sizes DEF RingInv, TypeOK
<1>2. /\ Len(written) = (SubbufSize * (Len(written) \div SubbufSize)) + (Len(written) % SubbufSize)
      /\ Len(written) % SubbufSize < SubbufSize /\ Len(written) % SubbufSize \in Nat
      /\ SubbufSize * (Len(written) \div SubbufSize) \in Nat
  BY <1>1, Sizes, DivMod
<1>3. CASE AtEnd
  BY <1>3 DEF RingInv, RingParts, WithinRing
<1>4. CASE ~AtEnd
  <2> DEFINE q == SubbufSize * (Len(written) \div SubbufSize)
             r == Len(written) % SubbufSize
             n == Len(written)
  <2>1. n = q + r /\ r < SubbufSize /\ r \in Nat /\ q \in Nat /\ n \in Nat /\ q + SubbufSize <= pos + Ring
    BY <1>1, <1>2, <1>4 DEF RingInv, RingParts, WithinRing
  <2> HIDE DEF q, r, n
  <2>2. n <= pos + Ring
    BY <1>1, <2>1, Sizes
  <2> QED
    BY <2>2 DEF n
<1> QED
  BY <1>3, <1>4

\* Every unread place holds the record that was written there.
LEMMA UnreadIsIntact ==
    ASSUME RingInv, NEW k \in (pos + 1)..Len(written)
    PROVE  Mem(k) = written[k] /\ Mem(k) # Garbage
<1> DEFINE J == {j \in DOMAIN written : j % Ring = k % Ring /\ Len(written) < j + Ring}
<1>1. /\ pos \in Nat /\ Len(written) \in Nat /\ k \in Nat /\ DOMAIN written = 1..Len(written)
      /\ written[k] \in Nat /\ k \in 1..Len(written)
  BY DEF RingInv, TypeOK
<1>2. Ring \in Nat \ {0}
  BY RingIsPositive
<1>3. Len(written) <= pos + Ring
  BY AtMostARing
<1>4. k \in J
  BY <1>1, <1>2, <1>3
<1>5. \A j \in J : j = k
  <2> SUFFICES ASSUME NEW j \in J PROVE j = k
    OBVIOUS
  <2>1. j \in Nat /\ j % Ring = k % Ring /\ k < j + Ring /\ j < k + Ring
    BY <1>1, <1>2, <1>3
  <2> QED
    BY <1>1, <1>2, <2>1, SameSlot
<1>6. (CHOOSE j \in J : TRUE) = k /\ J # {}
  <2> HIDE DEF J
  <2> QED
    BY <1>4, <1>5
<1>7. Mem(k) = IF J = {} THEN Garbage ELSE written[CHOOSE j \in J : TRUE]
  BY DEF Mem
<1>8. Mem(k) = written[k]
  <2> HIDE DEF J
  <2> QED
    BY <1>6, <1>7, Zenon
<1>9. written[k] # Garbage
  BY <1>1 DEF Garbage
<1> QED
  BY <1>8, <1>9

\* One more record in the sub-buffer that is written to.
LEMMA RingWhenWriting ==
    ASSUME RingInv, Put, pos' = pos,
           SubbufSize * (Len(written) \div SubbufSize) + SubbufSize <= pos + Ring
    PROVE  WithinRing' /\ Len(written') = Len(written) + 1
<1>1. /\ Len(written) \in Nat /\ pos \in Nat /\ written' = Append(written, next)
      /\ written \in Seq(Nat) /\ next \in Nat
  BY DEF RingInv, TypeOK, Put
<1>2. Len(written') = Len(written) + 1 /\ written' # <<>>
  <2>1. Len(written') = Len(written) + 1
    BY <1>1, AppendProperties
  <2>2. Len(<<>>) = 0 /\ Len(written') # 0
    BY <1>1, <2>1
  <2> QED
    BY <2>1, <2>2, Zenon
<1>3. AtEnd' <=> (Len(written) + 1) % SubbufSize = 0
  BY <1>2 DEF AtEnd
<1>4. \/ /\ (Len(written) + 1) % SubbufSize = 0
         /\ Len(written) + 1 = (SubbufSize * (Len(written) \div SubbufSize)) + SubbufSize
      \/ /\ (Len(written) + 1) % SubbufSize # 0
         /\ (Len(written) + 1) \div SubbufSize = Len(written) \div SubbufSize
  BY <1>1, Sizes, NextPlace
<1> QED
  BY <1>1, <1>2, <1>3, <1>4 DEF WithinRing, Ring

\* The callback opens a sub-buffer only when the reader has left its slot.
LEMMA RoomAfterCallback ==
    ASSUME RingInv, switch # "none", ~Full
    PROVE  SubbufSize * (Len(written) \div SubbufSize) + SubbufSize <= pos + Ring
<1> DEFINE P == Len(written) \div SubbufSize
           c == pos \div SubbufSize
<1>1. Len(written) \in Nat /\ pos \in Nat
  BY DEF RingInv, TypeOK
<1>2. /\ P \in Nat /\ c \in Nat /\ pos % SubbufSize \in Nat
      /\ SubbufSize * P \in Nat /\ SubbufSize * c \in Nat
      /\ pos = (SubbufSize * c) + (pos % SubbufSize)
  BY <1>1, Sizes, DivMod
<1>3. P - c < NSubbufs
  BY <1>1, <1>2, Sizes DEF Full, Produced
<1> HIDE DEF P, c
<1>4. (P + 1) * SubbufSize <= (c + NSubbufs) * SubbufSize
  BY <1>2, <1>3, Sizes, MulMono
<1>5. (P + 1) * SubbufSize = SubbufSize * P + SubbufSize
  BY <1>2, Sizes, SMTT(30)
<1>6. (c + NSubbufs) * SubbufSize = SubbufSize * c + SubbufSize * NSubbufs
  BY <1>2, Sizes, SMTT(30)
<1>7. SubbufSize * P + SubbufSize <= pos + Ring
  BY <1>1, <1>2, <1>4, <1>5, <1>6, Sizes DEF Ring
<1> QED
  BY <1>7 DEF P

LEMMA RingWhenWriterMoves ==
    ASSUME RingInv, Writer
    PROVE  RingParts'
<1> USE DEF RingInv, RingParts
<1>1. UNCHANGED <<pos, pc, races>> /\ pos \in Nat /\ Len(written) \in Nat
  BY DEF Writer, Write, Publish, SubbufStart, RingUnchanged, TypeOK
<1>2. CASE Write
  <2>1. switch' = "none" /\ ~AtEnd /\ Put
    BY <1>2 DEF Write
  <2>2. SubbufSize * (Len(written) \div SubbufSize) + SubbufSize <= pos + Ring
    BY <2>1 DEF WithinRing
  <2>3. WithinRing' /\ Len(written') = Len(written) + 1
    BY <1>1, <2>1, <2>2, RingWhenWriting
  <2> QED
    BY <1>1, <2>1, <2>3
<1>3. CASE Publish
  <2>1. UNCHANGED written /\ switch' = "published" /\ AtEnd /\ AtEnd' /\ (WithinRing' <=> WithinRing)
    BY <1>1, <1>3 DEF Publish, AtEnd, WithinRing
  <2> QED
    BY <1>1, <2>1
<1>4. CASE SubbufStart
  <2>1. CASE Full /\ switch' = "refused" /\ UNCHANGED written
    <3>1. AtEnd /\ AtEnd' /\ (WithinRing' <=> WithinRing)
      BY <1>1, <1>4, <2>1 DEF SubbufStart, AtEnd, WithinRing
    <3> QED
      BY <1>1, <2>1, <3>1
  <2>2. CASE ~Full /\ switch' = "none" /\ Put
    <3>1. SubbufSize * (Len(written) \div SubbufSize) + SubbufSize <= pos + Ring
      BY <1>4, <2>2, RoomAfterCallback DEF SubbufStart
    <3>2. WithinRing' /\ Len(written') = Len(written) + 1
      BY <1>1, <2>2, <3>1, RingWhenWriting
    <3> QED
      BY <1>1, <2>2, <3>2
  <2> QED
    BY <1>4, <2>1, <2>2 DEF SubbufStart
<1> QED
  BY <1>2, <1>3, <1>4 DEF Writer

\* A reader that moves on stays within the ring.
LEMMA RingWhenReading ==
    ASSUME RingInv, UNCHANGED written, NEW n \in Nat, pos' = pos + n
    PROVE  WithinRing'
<1>1. AtEnd' <=> AtEnd
  BY DEF AtEnd
<1>2. pos \in Nat /\ Len(written) \in Nat /\ Ring \in Nat
  BY Sizes DEF RingInv, TypeOK
<1>3. SubbufSize * (Len(written) \div SubbufSize) \in Nat /\ SubbufSize \in Nat
  BY <1>2, Sizes, DivMod
<1>4. WithinRing
  BY DEF RingInv, RingParts
<1>5. CASE AtEnd
  BY <1>1, <1>2, <1>4, <1>5 DEF WithinRing
<1>6. CASE ~AtEnd
  <2> DEFINE end == SubbufSize * (Len(written) \div SubbufSize)
  <2>1. end \in Nat /\ end + SubbufSize <= pos + Ring
    BY <1>3, <1>4, <1>6 DEF WithinRing
  <2>2. end + SubbufSize <= pos' + Ring
    <3> HIDE DEF end
    <3> QED
      BY <1>2, <1>3, <2>1
  <2> QED
    BY <1>1, <1>6, <2>2 DEF WithinRing
<1> QED
  BY <1>5, <1>6

\* Where the sub-buffers produced end.
LEMMA ProducedEnd ==
    ASSUME RingInv
    PROVE  /\ Produced \in Int
           /\ AtEnd => Len(written) <= Produced * SubbufSize + SubbufSize
           /\ ~AtEnd => SubbufSize * (Len(written) \div SubbufSize) = Produced * SubbufSize
           /\ Produced * SubbufSize <= Len(written)
<1> DEFINE q == Len(written) \div SubbufSize
<1>1. /\ Len(written) \in Nat /\ q \in Nat /\ SubbufSize * q \in Nat
      /\ Len(written) % SubbufSize \in Nat
      /\ Len(written) = (SubbufSize * q) + (Len(written) % SubbufSize)
  <2>1. Len(written) \in Nat
    BY DEF RingInv, TypeOK
  <2> QED
    BY <2>1, Sizes, DivMod
<1>2. AtEnd => Len(written) = SubbufSize * q
  BY <1>1 DEF AtEnd
<1>3. Produced = q \/ (AtEnd /\ Produced = q - 1)
  BY <1>1 DEF Produced
<1> HIDE DEF q
<1>4. q * SubbufSize = SubbufSize * q /\ (q - 1) * SubbufSize = SubbufSize * q - SubbufSize
  BY <1>1, Sizes, SMTT(30)
<1>5. CASE Produced = q
  BY <1>1, <1>2, <1>4, <1>5, Sizes DEF q
<1>6. CASE AtEnd /\ Produced = q - 1
  BY <1>1, <1>2, <1>4, <1>6, Sizes DEF q
<1> QED
  BY <1>3, <1>5, <1>6

\* After a stale copy the reader goes back to the oldest sub-buffer of the ring, which
\* is not after the sub-buffer it took for the new one, and, a ring later, not before it.
LEMMA OldestBounds ==
    ASSUME RingInv, pc = "copy"
    PROVE  /\ Oldest \in Nat /\ Oldest * SubbufSize \in Nat
           /\ Oldest * SubbufSize <= pos + SubbufSize
           /\ pos + SubbufSize <= Oldest * SubbufSize + Ring
           /\ Len(written) < Ring => Oldest = 0
<1> DEFINE c == pos \div SubbufSize
           q == Len(written) \div SubbufSize
<1>1. /\ pos \in Nat /\ Len(written) \in Nat /\ pos <= Len(written) /\ c \in Nat /\ SubbufSize * c \in Nat
      /\ pos = SubbufSize * c
      /\ switch = "none" => pos < Len(written)
  <2>1. pos \in Nat /\ pos % SubbufSize = 0 /\ Len(written) \in Nat
    BY DEF RingInv, RingParts, TypeOK
  <2>2. pos = (SubbufSize * c) + (pos % SubbufSize) /\ c \in Nat /\ SubbufSize * c \in Nat
    BY <2>1, Sizes, DivMod
  <2> QED
    BY <2>1, <2>2 DEF RingInv, RingParts
<1>2. /\ q \in Nat /\ SubbufSize * q \in Nat /\ Len(written) % SubbufSize \in Nat
      /\ Len(written) % SubbufSize < SubbufSize
      /\ Len(written) = (SubbufSize * q) + (Len(written) % SubbufSize)
  BY <1>1, Sizes, DivMod
<1>3. /\ AtEnd => Len(written) = SubbufSize * q
      /\ Produced = IF AtEnd /\ switch = "none" THEN q - 1 ELSE q
  BY <1>1, <1>2 DEF AtEnd, Produced
<1> HIDE DEF c, q
<1>4. c <= q
  <2> SUFFICES ASSUME q < c PROVE FALSE
    BY <1>1, <1>2
  <2>1. (q + 1) * SubbufSize <= c * SubbufSize
    BY <1>1, <1>2, Sizes, MulMono
  <2>2. (q + 1) * SubbufSize = SubbufSize * q + SubbufSize /\ c * SubbufSize = SubbufSize * c
    BY <1>1, <1>2, Sizes, SMTT(30)
  <2> QED
    BY <1>1, <1>2, <2>1, <2>2, Sizes
<1>5. c <= Produced
  <2>1. CASE AtEnd /\ switch = "none"
    <3>1. c # q
      BY <1>1, <1>3, <2>1
    <3> QED
      BY <1>1, <1>2, <1>3, <1>4, <2>1, <3>1
  <2> QED
    BY <1>3, <1>4, <2>1
<1>6. Produced \in Nat /\ Oldest \in Nat /\ Oldest >= c - NSubbufs + 1 /\ Produced * SubbufSize <= Len(written)
  BY <1>1, <1>5, Sizes, ProducedEnd DEF Oldest
<1>7. Oldest * SubbufSize \in Nat
  BY <1>6, Sizes
<1>8. Oldest * SubbufSize <= pos + SubbufSize
  <2>1. CASE Produced < NSubbufs
    <3>1. Oldest * SubbufSize = 0
      BY <2>1, Sizes, SMTT(30) DEF Oldest
    <3> QED
      BY <1>1, <3>1, Sizes
  <2>2. CASE ~(Produced < NSubbufs)
    <3>1. Oldest = Produced - NSubbufs + 1
      BY <2>2 DEF Oldest
    <3>2. Oldest * SubbufSize = Produced * SubbufSize - SubbufSize * NSubbufs + SubbufSize
      BY <1>6, <3>1, Sizes, SMTT(30)
    <3>3. Produced * SubbufSize <= pos + Ring
      BY <1>1, <1>6, Sizes, AtMostARing
    <3>4. Produced * SubbufSize \in Nat
      BY <1>6, Sizes
    <3> QED
      BY <1>1, <1>7, <3>2, <3>3, <3>4, Sizes DEF Ring
  <2> QED
    BY <2>1, <2>2
<1>9. pos + SubbufSize <= Oldest * SubbufSize + Ring
  <2>1. (c + 1) * SubbufSize <= (Oldest + NSubbufs) * SubbufSize
    BY <1>1, <1>6, Sizes, MulMono
  <2>2. (c + 1) * SubbufSize = SubbufSize * c + SubbufSize
    BY <1>1, Sizes, SMTT(30)
  <2>3. (Oldest + NSubbufs) * SubbufSize = Oldest * SubbufSize + SubbufSize * NSubbufs
    BY <1>6, Sizes, SMTT(30)
  <2> QED
    BY <1>1, <1>7, <2>1, <2>2, <2>3, Sizes DEF Ring
<1>10. ASSUME Len(written) < Ring PROVE Oldest = 0
  <2>1. Produced < NSubbufs
    <3> SUFFICES ASSUME NSubbufs <= Produced PROVE FALSE
      BY <1>6, Sizes
    <3>1. NSubbufs * SubbufSize <= Produced * SubbufSize /\ NSubbufs * SubbufSize = Ring
      BY <1>6, Sizes, MulMono DEF Ring
    <3>2. Produced * SubbufSize \in Nat
      BY <1>6, Sizes
    <3> QED
      BY <1>1, <1>6, <1>10, <3>1, <3>2, Sizes
  <2> QED
    BY <2>1 DEF Oldest
<1> QED
  BY <1>6, <1>7, <1>8, <1>9, <1>10

\* Wherever the reader goes on after a stale copy, it is within the ring.
LEMMA RingWhenResuming ==
    ASSUME RingInv, pc = "copy", pos' \in Resume, UNCHANGED written
    PROVE  WithinRing'
<1>1. CASE pos' = pos + SubbufSize
  BY <1>1, Sizes, RingWhenReading
<1>2. CASE pos' = Oldest * SubbufSize
  <2>1. (AtEnd' <=> AtEnd) /\ Len(written) \in Nat
    BY DEF AtEnd, RingInv, TypeOK
  <2>2. Produced \in Int /\ Oldest \in Nat /\ Oldest * SubbufSize \in Nat
    BY ProducedEnd, OldestBounds
  <2>3. Produced + 1 <= Oldest + NSubbufs
    BY <2>2, Sizes DEF Oldest
  <2>4. (Produced + 1) * SubbufSize <= (Oldest + NSubbufs) * SubbufSize
    BY <2>2, <2>3, Sizes, MulMono
  <2>5. (Produced + 1) * SubbufSize = Produced * SubbufSize + SubbufSize /\ Produced * SubbufSize \in Int
    BY <2>2, Sizes, SMTT(30)
  <2>6. (Oldest + NSubbufs) * SubbufSize = Oldest * SubbufSize + Ring
    BY <2>2, Sizes, SMTT(30) DEF Ring
  <2>7. Produced * SubbufSize + SubbufSize <= pos' + Ring
    BY <1>2, <2>4, <2>5, <2>6
  <2>8. CASE AtEnd
    BY <1>2, <2>1, <2>2, <2>5, <2>7, <2>8, Sizes, ProducedEnd DEF WithinRing
  <2>9. CASE ~AtEnd
    <3>1. SubbufSize * (Len(written) \div SubbufSize) + SubbufSize <= pos' + Ring
      BY <2>7, <2>9, ProducedEnd
    <3> QED
      BY <2>1, <2>9, <3>1 DEF WithinRing
  <2> QED
    BY <2>8, <2>9
<1> QED
  BY <1>1, <1>2 DEF Resume

LEMMA RingWhenClientMoves ==
    ASSUME RingInv, Client
    PROVE  RingParts'
<1>0. UNCHANGED <<written, switch>> /\ (AtEnd' <=> AtEnd)
  BY DEF Client, TestStop, ReadNothing, ReadFails, Read, ReadCut, ReadStale, CopyStale, Join, ReaderOnly, ringVars, AtEnd
<1>1. CASE TestStop \/ ReadNothing \/ ReadFails \/ Join
  <2>1. pos' = pos /\ pc' # "copy"
    BY <1>1 DEF TestStop, ReadNothing, ReadFails, Join
  <2>2. WithinRing' <=> WithinRing
    BY <1>0, <2>1 DEF WithinRing
  <2> QED
    BY <1>0, <2>1, <2>2 DEF RingInv, RingParts
<1>2. CASE ReadStale
  <2>1. /\ pos' = pos /\ pos = Len(written) /\ switch = "published" /\ races' = races + 1
        /\ races \in Nat /\ pos \in Nat
    BY <1>2 DEF ReadStale, RingInv, TypeOK
  <2>2. pos % SubbufSize = 0
    BY <2>1 DEF RingInv, RingParts, AtEnd
  <2>3. WithinRing' <=> WithinRing
    BY <1>0, <2>1 DEF WithinRing
  <2> QED
    BY <1>0, <2>1, <2>2, <2>3 DEF RingInv, RingParts
<1>3. CASE CopyStale
  BY <1>0, <1>3, RingWhenResuming DEF CopyStale, GotChunk, RingInv, RingParts
<1>4. CASE Read
  <2>1. PICK n \in 1..ReadCap : pos' = pos + n /\ pc' = "loop"
    BY <1>4 DEF Read, GotChunk
  <2>2. n \in Nat
    BY Sizes
  <2> QED
    BY <1>0, <2>1, <2>2, RingWhenReading DEF RingInv, RingParts
<1>5. CASE ReadCut
  <2>1. pos' = pos + (ReadCap + 1) /\ pc' = "loop" /\ ReadCap + 1 \in Nat
    BY <1>5, Sizes DEF ReadCut, GotChunk, RingInv, TypeOK
  <2> QED
    BY <1>0, <2>1, RingWhenReading DEF RingInv, RingParts
<1> QED
  BY <1>1, <1>2, <1>3, <1>4, <1>5 DEF Client

LEMMA RingInvStep ==
    ASSUME RingInv, [Next]_vars
    PROVE  RingInv'
<1>1. TypeOK'
  BY NextType DEF RingInv
<1>2. RingParts'
  <2>1. CASE Signal \/ Logger \/ UNCHANGED vars
    <3>1. UNCHANGED <<written, switch, pos, pc, races>>
      BY <2>1 DEF Signal, Logger, CreateLog, Receive, WriteChunk, LogEnd, LoggerOnly, vars, ringVars, scanVars
    <3>2. (AtEnd' <=> AtEnd) /\ (WithinRing' <=> WithinRing)
      BY <3>1 DEF AtEnd, WithinRing
    <3> QED
      BY <3>1, <3>2 DEF RingInv, RingParts
  <2> QED
    BY <2>1, RingWhenWriterMoves, RingWhenClientMoves DEF Next
<1> QED
  BY <1>1, <1>2 DEF RingInv

LEMMA RingInvInit == Init => RingInv
<1> SUFFICES ASSUME Init PROVE RingInv
  OBVIOUS
<1>1. switch = "none" /\ pc = "loop" /\ written = <<>> /\ pos = 0 /\ Len(written) = 0
  BY DEF Init
<1>2. WithinRing
  <2>1. 0 \div SubbufSize = 0 /\ SubbufSize * 0 = 0
    BY Sizes, SMTT(30)
  <2>2. ~AtEnd
    BY <1>1 DEF AtEnd
  <2> QED
    BY <1>1, <2>1, <2>2, Sizes, RingIsPositive DEF WithinRing
<1> QED
  BY <1>1, <1>2, InitType DEF RingInv, RingParts

-----------------------------------------------------------------------------
(* Nothing unread is overwritten.                                          *)

\* Until a race is lost the reader does not overtake the writer, and until a read is
\* cut it has seen what it passed.
ReadParts ==
    races = 0 => /\ pos <= Len(written)
                 /\ ~corrupt => seen = {written[j] : j \in 1..pos}

ReadInv == RingInv /\ ReadParts

\* A read returns the records of the places it passes.
LEMMA ReadIsRecords ==
    ASSUME RingInv, NEW n \in 1..ReadCap, n <= Available
    PROVE  /\ n \in Nat /\ pos + n <= Len(written)
           /\ \A j \in 1..n : Mem(pos + j) = written[pos + j] /\ Mem(pos + j) # Garbage
<1>1. /\ n \in Nat /\ n >= 1 /\ pos \in Nat /\ Len(written) \in Nat /\ pos + n <= Len(written)
  BY Sizes DEF Available, RingInv, TypeOK
<1>2. ASSUME NEW j \in 1..n PROVE Mem(pos + j) = written[pos + j] /\ Mem(pos + j) # Garbage
  <2>1. pos + j \in (pos + 1)..Len(written)
    BY <1>1
  <2> QED
    BY <2>1, UnreadIsIntact
<1> QED
  BY <1>1, <1>2

LEMMA ReadPartsWhenReading ==
    ASSUME ReadInv, Read
    PROVE  ReadParts'
<1>1. PICK n \in 1..ReadCap : /\ n <= Available /\ GotChunk([j \in 1..n |-> Mem(pos + j)])
                               /\ pos' = pos + n
  BY DEF Read
<1> DEFINE chunk == [j \in 1..n |-> Mem(pos + j)]
<1>2. /\ n \in Nat /\ pos \in Nat /\ pos' <= Len(written) /\ Len(written) \in Nat
      /\ \A j \in 1..n : Mem(pos + j) = written[pos + j] /\ Mem(pos + j) # Garbage
  <2>1. RingInv /\ pos \in Nat /\ Len(written) \in Nat
    BY DEF ReadInv, RingInv, TypeOK
  <2> HIDE DEF chunk
  <2> QED
    BY <1>1, <2>1, ReadIsRecords
<1>3. written' = written /\ races' = races /\ Scan(chunk)
  BY <1>1 DEF Read, GotChunk, ReaderOnly, ringVars
<1>4. ASSUME races = 0, ~corrupt' PROVE seen' = {written'[j] : j \in 1..pos'}
  <2>1. Range(chunk) = {Mem(pos + j) : j \in 1..n}
    BY DEF Range
  <2>2. Range(chunk) \ {Garbage} = {written[pos + j] : j \in 1..n}
    <3> HIDE DEF chunk
    <3> QED
      BY <1>2, <2>1, Zenon
  <2>3. ~corrupt /\ seen' = seen \cup {written[pos + j] : j \in 1..n}
    <3> HIDE DEF chunk
    <3> QED
      BY <1>3, <1>4, <2>2, Zenon DEF Scan
  <2>4. seen = {written[j] : j \in 1..pos}
    BY <1>4, <2>3 DEF ReadInv, ReadParts
  <2>5. \A j : j \in 1..(pos + n) <=> (j \in 1..pos \/ \E i \in 1..n : j = pos + i)
    <3> TAKE j
    <3>1. ASSUME j \in 1..(pos + n), j \notin 1..pos PROVE j - pos \in 1..n /\ j = pos + (j - pos)
      BY <1>2, <3>1
    <3>2. ASSUME NEW i \in 1..n PROVE pos + i \in 1..(pos + n)
      BY <1>2
    <3>3. ASSUME j \in 1..pos PROVE j \in 1..(pos + n)
      BY <1>2, <3>3
    <3> QED
      BY <3>1, <3>2, <3>3
  <2>6. {written[j] : j \in 1..(pos + n)} = {written[j] : j \in 1..pos} \cup {written[pos + j] : j \in 1..n}
    BY <2>5, Zenon
  <2> QED
    BY <1>1, <1>3, <2>3, <2>4, <2>6
<1> QED
  BY <1>1, <1>2, <1>3, <1>4 DEF ReadInv, ReadParts

\* A read that is cut says so.
LEMMA ReadPartsWhenCut ==
    ASSUME ReadInv, ReadCut
    PROVE  ReadParts'
<1> DEFINE whole == [j \in 1..ReadCap |-> Mem(pos + j)]
<1>1. /\ Scan(Append(whole, Garbage)) /\ pos' = pos + ReadCap + 1 /\ races' = races
      /\ Available > ReadCap /\ written' = written
  BY DEF ReadCut, GotChunk, ReaderOnly, ringVars
<1>2. pos \in Nat /\ Len(written) \in Nat /\ ReadCap \in Nat
  BY Sizes DEF ReadInv, RingInv, TypeOK
<1>3. pos' <= Len(written')
  BY <1>1, <1>2 DEF Available
<1>4. corrupt'
  <2>1. whole \in Seq(Nat \cup {Garbage})
    <3>1. \A j \in 1..ReadCap : Mem(pos + j) \in Nat \cup {Garbage}
      BY <1>2, MemType DEF ReadInv, RingInv
    <3> QED
      BY <1>2, <3>1
  <2>2. Garbage \in Range(Append(whole, Garbage))
    <3> HIDE DEF whole
    <3>1. /\ Append(whole, Garbage)[Len(whole) + 1] = Garbage
          /\ Len(whole) + 1 \in DOMAIN Append(whole, Garbage)
      BY <2>1
    <3> QED
      BY <3>1 DEF Range
  <2> QED
    BY <1>1, <2>2 DEF Scan
<1> QED
  BY <1>3, <1>4 DEF ReadParts

LEMMA ReadInvStep ==
    ASSUME ReadInv, [Next]_vars
    PROVE  ReadInv'
<1>1. RingInv'
  BY RingInvStep DEF ReadInv
<1>2. ReadParts'
  <2>1. CASE Writer
    <3>1. UNCHANGED <<pos, races, seen, corrupt>>
      BY <2>1 DEF Writer, Write, Publish, SubbufStart, RingUnchanged, scanVars
    <3>2. written \in Seq(Nat) /\ pos \in Nat /\ next \in Nat
      BY DEF ReadInv, RingInv, TypeOK
    <3>3. written' = written \/ written' = Append(written, next)
      BY <2>1 DEF Writer, Write, Publish, SubbufStart, Put
    <3>4. Len(written') >= Len(written) /\ \A j \in 1..Len(written) : written'[j] = written[j]
      BY <3>2, <3>3
    <3>5. ASSUME races = 0 PROVE pos' <= Len(written')
      BY <3>1, <3>2, <3>3, <3>4, <3>5 DEF ReadInv, ReadParts
    <3>6. ASSUME races = 0, ~corrupt PROVE seen' = {written'[j] : j \in 1..pos'}
      <4>1. seen = {written[j] : j \in 1..pos} /\ pos <= Len(written)
        BY <3>6 DEF ReadInv, ReadParts
      <4>2. \A j \in 1..pos : written'[j] = written[j]
        BY <3>2, <3>4, <4>1
      <4> QED
        BY <3>1, <4>1, <4>2
    <3> QED
      BY <3>1, <3>5, <3>6 DEF ReadParts
  <2>2. CASE Signal \/ Logger \/ UNCHANGED vars \/ TestStop \/ ReadNothing \/ ReadFails \/ Join
    <3>1. UNCHANGED <<written, pos, races, seen, corrupt>>
      BY <2>2 DEF Signal, Logger, CreateLog, Receive, WriteChunk, LogEnd, LoggerOnly, vars, ringVars, scanVars,
                  TestStop, ReadNothing, ReadFails, Join, ReaderOnly
    <3> QED
      BY <3>1 DEF ReadInv, ReadParts
  <2>3. CASE ReadStale \/ CopyStale
    BY <2>3 DEF ReadStale, CopyStale, ReadInv, RingInv, RingParts, ReadParts, TypeOK
  <2> QED
    BY <2>1, <2>2, <2>3, ReadPartsWhenReading, ReadPartsWhenCut DEF Next, Client
<1> QED
  BY <1>1, <1>2 DEF ReadInv

LEMMA ReadInvInit == Init => ReadInv
<1> SUFFICES ASSUME Init PROVE ReadInv
  OBVIOUS
<1>1. written = <<>> /\ pos = 0 /\ seen = {} /\ Len(written) = 0
  BY DEF Init
<1>2. seen = {written[j] : j \in 1..pos}
  BY <1>1
<1> QED
  BY <1>1, <1>2, RingInvInit DEF ReadInv, ReadParts

\* Without a lost race and a cut read the client has read every record of every
\* place it passed, for every size of the ring and of the reads: the callback
\* refuses a record rather than overwrite one that is unread.
THEOREM NothingIsOverwritten == Spec => []NothingOverwritten
<1>1. ReadInv => NothingOverwritten
  BY DEF ReadInv, ReadParts, NothingOverwritten
<1> QED
  BY <1>1, ReadInvInit, ReadInvStep, PTL DEF Spec
-----------------------------------------------------------------------------
(* The records in the ring.                                                *)

\* Records are written in the order of their index, with holes where one was dropped,
\* and two that are a ring and one place apart are less than a period apart.
RecordsParts ==
    /\ \A i \in DOMAIN written : written[i] < next
    /\ \A i, j \in DOMAIN written : i < j => written[i] < written[j]
    /\ \A i, j \in DOMAIN written : i < j /\ j <= i + Ring + 1 => written[j] - written[i] < Period

\* The guard of Make bounds the distance to every record that is still in the ring.
LEMMA InRing ==
    ASSUME TypeOK, RecordsParts, InPeriod,
           NEW i \in DOMAIN written, Len(written) <= i + Ring
    PROVE  next - written[i] < Period
<1> DEFINE S == {1, Len(written) - Ring}
<1>1. /\ Len(written) \in Nat /\ Ring \in Nat \ {0} /\ next \in Nat
      /\ \A k \in DOMAIN written : written[k] \in Nat
  BY RingIsPositive DEF TypeOK
<1>2. DOMAIN written = 1..Len(written) /\ i \in 1..Len(written)
  BY DEF TypeOK
<1>3. i \in Nat /\ i >= 1 /\ i <= Len(written)
  BY <1>1, <1>2
<1>4. PICK m \in S : \A y \in S : m >= y
  BY <1>1
<1>5. Max(S) \in S /\ \A y \in S : Max(S) >= y
  BY <1>4, Zenon DEF Max
<1>6. PICK x : x = Max(S) /\ x \in 1..Len(written) /\ x <= i
  <2>1. Max(S) >= 1 /\ (Max(S) = 1 \/ Max(S) = Len(written) - Ring)
    BY <1>5
  <2> QED
    BY <1>1, <1>3, <2>1
<1>7. written # <<>>
  <2>1. Len(<<>>) = 0
    OBVIOUS
  <2> QED
    BY <1>1, <1>3, <2>1
<1>8. next - written[x] < Period
  BY <1>6, <1>7 DEF InPeriod
<1>9. written[x] <= written[i] /\ written[x] \in Nat /\ written[i] \in Nat
  <2>1. x \in DOMAIN written /\ written[x] \in Nat /\ written[i] \in Nat
    BY <1>1, <1>2, <1>6
  <2>2. x < i => written[x] < written[i]
    BY <2>1 DEF RecordsParts
  <2> QED
    BY <1>3, <1>6, <2>1, <2>2
<1>10. Period \in Nat
  BY RelayAssumption
<1> QED
  BY <1>1, <1>8, <1>9, <1>10

LEMMA RecordsWhenPut ==
    ASSUME TypeOK, RecordsParts, Make, Put
    PROVE  RecordsParts'
<1>1. /\ next \in Nat /\ next' = next + 1 /\ InPeriod /\ written' = Append(written, next)
      /\ Len(written) \in Nat /\ Ring \in Nat /\ DOMAIN written = 1..Len(written)
      /\ \A k \in DOMAIN written : written[k] \in Nat /\ written[k] < next
  BY Sizes DEF TypeOK, Make, Put, RecordsParts
<1>2. /\ DOMAIN written' = 1..(Len(written) + 1)
      /\ written'[Len(written) + 1] = next
      /\ \A k \in DOMAIN written : written'[k] = written[k]
  <2>1. written \in Seq(Nat)
    BY DEF TypeOK
  <2> QED
    BY <1>1, <2>1
<1> DEFINE n == Len(written) + 1
<1>3. \A k \in DOMAIN written' : k \in DOMAIN written \/ k = n
  BY <1>1, <1>2
<1>4. \A k \in DOMAIN written' : written'[k] < next'
  <2> SUFFICES ASSUME NEW k \in DOMAIN written' PROVE written'[k] < next'
    OBVIOUS
  <2>1. CASE k \in DOMAIN written
    <3>1. written[k] \in Nat /\ written[k] < next /\ written'[k] = written[k]
      BY <1>1, <1>2, <2>1
    <3> QED
      BY <1>1, <3>1
  <2>2. CASE k = n
    BY <1>1, <1>2, <2>2
  <2> QED
    BY <1>3, <2>1, <2>2
<1>5. ASSUME NEW i \in DOMAIN written', NEW j \in DOMAIN written', i < j
      PROVE  /\ written'[i] < written'[j]
             /\ j <= i + Ring + 1 => written'[j] - written'[i] < Period
  <2>1. i \in DOMAIN written /\ written'[i] = written[i]
    BY <1>1, <1>2, <1>5
  <2>2. CASE j \in DOMAIN written
    BY <1>2, <1>5, <2>1, <2>2 DEF RecordsParts
  <2>3. CASE j = n
    <3>1. written'[j] = next /\ written[i] < next
      BY <1>1, <1>2, <2>1, <2>3
    <3>2. ASSUME j <= i + Ring + 1 PROVE next - written[i] < Period
      BY <1>1, <2>1, <2>3, <3>2, InRing
    <3> QED
      BY <2>1, <3>1, <3>2
  <2> QED
    BY <1>3, <2>2, <2>3
<1> QED
  BY <1>4, <1>5, Zenon DEF RecordsParts, Ring

LEMMA RecordsStep ==
    ASSUME TypeOK, RecordsParts, [Next]_vars
    PROVE  RecordsParts'
<1>1. CASE Write
  BY <1>1, RecordsWhenPut DEF Write
<1>2. CASE SubbufStart
  <2>1. CASE written' = written
    <3>1. next' = next + 1 /\ next \in Nat /\ \A i \in DOMAIN written : written[i] \in Nat
      BY <1>2 DEF SubbufStart, Make, TypeOK
    <3>2. \A i \in DOMAIN written : written[i] < next + 1
      BY <3>1 DEF RecordsParts
    <3> QED
      BY <2>1, <3>1, <3>2 DEF RecordsParts
  <2> QED
    BY <1>2, <2>1, RecordsWhenPut DEF SubbufStart
<1>3. CASE Publish \/ Signal \/ Logger \/ Client \/ UNCHANGED vars
  <2>1. UNCHANGED <<next, written>>
    BY <1>3 DEF Publish, Signal, Logger, CreateLog, Receive, WriteChunk, LogEnd, LoggerOnly, vars, ringVars,
                Client, TestStop, ReadNothing, ReadFails, Read, ReadCut, ReadStale, CopyStale, Join, ReaderOnly
  <2> QED
    BY <2>1 DEF RecordsParts
<1> QED
  BY <1>1, <1>2, <1>3 DEF Next, Writer

-----------------------------------------------------------------------------
(* The comparison of two records.                                          *)

\* Quotients of two numbers less than a divisor apart are equal or adjacent.
LEMMA Adjacent ==
    ASSUME NEW m \in Nat, NEW n \in Nat, NEW s \in Nat \ {0}, m < n, n - m < s
    PROVE  \/ n \div s = m \div s /\ m % s < n % s
           \/ n \div s = (m \div s) + 1
<1> DEFINE p == m \div s
           q == n \div s
           r == m % s
           t == n % s
<1>1. /\ p \in Nat /\ q \in Nat /\ r \in Nat /\ t \in Nat /\ r < s /\ t < s
      /\ s * p \in Nat /\ s * q \in Nat
      /\ m = (s * p) + r /\ n = (s * q) + t
  BY DivMod
<1> HIDE DEF p, q, r, t
<1>2. ~(q < p)
  <2> SUFFICES ASSUME q < p PROVE FALSE
    OBVIOUS
  <2>1. (q + 1) * s <= p * s
    BY <1>1, MulMono
  <2>2. (q + 1) * s = s * q + s /\ p * s = s * p
    BY <1>1, SMTT(30)
  <2> QED
    BY <1>1, <2>1, <2>2
<1>3. ~(p + 1 < q)
  <2> SUFFICES ASSUME p + 2 <= q PROVE FALSE
    BY <1>1
  <2>1. (p + 2) * s <= q * s
    BY <1>1, MulMono
  <2>2. (p + 2) * s = s * p + s + s /\ q * s = s * q
    BY <1>1, SMTT(30)
  <2> QED
    BY <1>1, <2>1, <2>2
<1>4. q = p => r < t
  BY <1>1
<1>5. q = p \/ q = p + 1
  BY <1>1, <1>2, <1>3
<1> QED
  BY <1>4, <1>5 DEF p, q, r, t

\* A record that comes after the previous one, by less than a period, is no DUP: its
\* number is greater, or it has the other toggle.
LEMMA LaterIsNoDup ==
    ASSUME NEW m \in Nat, NEW n \in Nat, m < n, n - m < Period
    PROVE  ~IsDup(m, n)
<1>1. Period \in Nat \ {0}
  BY RelayAssumption
<1> DEFINE p == m \div Period
           q == n \div Period
<1>2. p \in Nat /\ q \in Nat /\ m % Period \in Nat /\ n % Period \in Nat
  BY <1>1, DivMod
<1>3. CASE q = p /\ m % Period < n % Period
  BY <1>2, <1>3 DEF IsDup, SeqNo
<1>4. CASE q = p + 1
  <2> HIDE DEF p, q
  <2>1. q % 2 # p % 2
    BY <1>2, <1>4
  <2> QED
    BY <2>1 DEF IsDup, Toggle, p, q
<1> QED
  BY <1>1, <1>3, <1>4, Adjacent

\* Within a period a record that is no DUP comes after the previous one.
LEMMA NoDupIsLater ==
    ASSUME NEW m \in Nat, NEW n \in Nat, m \div Period = n \div Period,
           client = "c" => SeqNo(m) # Period - 1, ~IsDup(m, n)
    PROVE  m < n
<1>1. /\ m = (Period * (m \div Period)) + (m % Period) /\ n = (Period * (n \div Period)) + (n % Period)
      /\ m % Period \in Nat /\ n % Period \in Nat /\ Period * (m \div Period) \in Nat
  BY RelayAssumption, DivMod
<1>2. m % Period < n % Period
  <2>1. Toggle(n) = Toggle(m)
    BY DEF Toggle
  <2>2. ~(n % Period <= m % Period)
    BY <2>1 DEF IsDup, SeqNo
  <2> QED
    BY <1>1, <2>2
<1> QED
  BY <1>1, <1>2
-----------------------------------------------------------------------------
(* What a scan counts.                                                     *)

\* The record before the chunk and the chunk, the records among them, the one that
\* comes before another, and those for which a DUP line is printed.
Run(chunk)  == last \o chunk
Good(chunk) == {i \in DOMAIN Run(chunk) : Run(chunk)[i] # Garbage}
Follows(chunk, j, i) == i < j /\ \A k \in Good(chunk) : k <= i \/ j <= k
Alarms(chunk) ==
    {j \in Good(chunk) : \E i \in Good(chunk) :
        Follows(chunk, j, i) /\ IsDup(Run(chunk)[i], Run(chunk)[j])}

LEMMA ScanSays ==
    ASSUME NEW chunk, Scan(chunk)
    PROVE  /\ dups' = dups + Cardinality(Alarms(chunk))
           /\ \/ Good(chunk) = {} /\ last' = last
              \/ \E i \in Good(chunk) : (\A k \in Good(chunk) : k <= i) /\ last' = <<Run(chunk)[i]>>
           /\ seen' = seen \cup (Range(chunk) \ {Garbage})
           /\ again' = (\/ again \/ (Range(chunk) \ {Garbage}) \cap seen # {}
                        \/ \E i, j \in Good(chunk) : i < j /\ Run(chunk)[i] = Run(chunk)[j])
BY DEF Scan, Before, Run, Good, Follows, Alarms

LEMMA RunIndex ==
    ASSUME TypeOK, NEW chunk \in Seq(Nat \cup {Garbage})
    PROVE  /\ Len(last) \in {0, 1} /\ Len(chunk) \in Nat
           /\ DOMAIN Run(chunk) = 1..(Len(last) + Len(chunk))
           /\ \A i \in 1..Len(last) : Run(chunk)[i] = last[i] /\ last[i] \in Nat
           /\ \A j \in 1..Len(chunk) : Run(chunk)[Len(last) + j] = chunk[j]
           /\ \A i \in Good(chunk) : i \in 1..(Len(last) + Len(chunk)) /\ Run(chunk)[i] \in Nat
<1>1. last \in Seq(Nat \cup {Garbage})
  BY SeqMonotonic, Zenon DEF TypeOK
<1>2. Len(last) \in {0, 1} /\ Len(chunk) \in Nat /\ \A i \in 1..Len(last) : last[i] \in Nat
  <2>1. last \in Seq(Nat) /\ Len(last) <= 1
    BY DEF TypeOK
  <2>2. Len(last) \in Nat /\ \A i \in 1..Len(last) : last[i] \in Nat
    BY <2>1, ElementOfSeq, LenProperties
  <2>3. Len(chunk) \in Nat
    BY LenProperties
  <2>4. Len(last) \in {0, 1}
    <3>1. \A n \in Nat : n <= 1 => n \in {0, 1}
      OBVIOUS
    <3> QED
      BY <2>1, <2>2, <3>1, Zenon
  <2> QED
    BY <2>2, <2>3, <2>4, Zenon
<1>3. Run(chunk) \in Seq(Nat \cup {Garbage})
  BY <1>1 DEF Run
<1>4. DOMAIN Run(chunk) = 1..(Len(last) + Len(chunk))
  BY <1>1 DEF Run
<1>5. /\ \A i \in 1..Len(last) : Run(chunk)[i] = last[i]
      /\ \A j \in 1..Len(chunk) : Run(chunk)[Len(last) + j] = chunk[j]
  BY <1>1 DEF Run
<1>6. \A i \in Good(chunk) : i \in 1..(Len(last) + Len(chunk)) /\ Run(chunk)[i] \in Nat
  BY <1>3, <1>4 DEF Good
<1> QED
  BY <1>2, <1>4, <1>5, <1>6

LEMMA FewAlarms ==
    ASSUME TypeOK, NEW chunk, Scan(chunk), NEW b, Alarms(chunk) \subseteq {b}
    PROVE  /\ dups' \in Nat /\ dups' <= dups + 1
           /\ Alarms(chunk) = {} => dups' = dups
<1>1. Alarms(chunk) = {} \/ Alarms(chunk) = {b}
  OBVIOUS
<1>2. Cardinality({}) = 0 /\ Cardinality({b}) = 1
  BY FS_EmptySet, FS_Singleton, Zenon
<1>3. Cardinality(Alarms(chunk)) \in {0, 1} /\ (Alarms(chunk) = {} => Cardinality(Alarms(chunk)) = 0)
  BY <1>1, <1>2, Zenon
<1>4. dups' = dups + Cardinality(Alarms(chunk)) /\ dups \in Nat
  BY ScanSays DEF TypeOK
<1> QED
  BY <1>3, <1>4

\* A DUP line stands for a break in the order of the places.
LEMMA AlarmsAtBreaks ==
    ASSUME TypeOK, RecordsParts, NEW chunk \in Seq(Nat \cup {Garbage}), NEW place,
           \A i \in Good(chunk) : place[i] \in DOMAIN written /\ Run(chunk)[i] = written[place[i]],
           NEW j \in Alarms(chunk)
    PROVE  j \in Good(chunk) /\
           \E i \in Good(chunk) :
              Follows(chunk, j, i) /\ ~(place[i] < place[j] /\ place[j] <= place[i] + Ring + 1)
<1>1. j \in Good(chunk)
  BY DEF Alarms
<1>2. PICK i \in Good(chunk) : Follows(chunk, j, i) /\ IsDup(Run(chunk)[i], Run(chunk)[j])
  BY DEF Alarms
<1>3. ~(place[i] < place[j] /\ place[j] <= place[i] + Ring + 1)
  <2> SUFFICES ASSUME place[i] < place[j], place[j] <= place[i] + Ring + 1 PROVE FALSE
    OBVIOUS
  <2> DEFINE m == written[place[i]]
             n == written[place[j]]
  <2>1. place[i] \in DOMAIN written /\ place[j] \in DOMAIN written /\ IsDup(m, n)
    BY <1>1, <1>2
  <2>2. m \in Nat /\ n \in Nat
    BY <2>1 DEF TypeOK
  <2>3. m < n /\ n - m < Period
    BY <2>1 DEF RecordsParts
  <2> QED
    BY <2>1, <2>2, <2>3, LaterIsNoDup
<1> QED
  BY <1>1, <1>2, <1>3

\* The record read last is at most a ring before the reader, or, once the reader has
\* gone back, after it.
InOrder == last = <<>> \/ \E p \in DOMAIN written : last = <<written[p]>> /\ p <= pos /\ pos <= p + Ring
Behind  == \E p \in DOMAIN written : last = <<written[p]>> /\ pos < p

\* A scan of the places that follow: nothing is reported unless the reader has gone back.
LEMMA ScanOn ==
    ASSUME RingInv, RecordsParts, InOrder \/ Behind,
           NEW chunk \in Seq(Nat \cup {Garbage}), Scan(chunk),
           NEW n \in 0..Len(chunk), pos + n <= Len(written),
           \A j \in 1..n : chunk[j] = written[pos + j],
           \A j \in (n + 1)..Len(chunk) : chunk[j] = Garbage
    PROVE  /\ dups' \in Nat /\ dups' <= dups + 1
           /\ InOrder => dups' = dups
           /\ last' = IF n = 0 THEN last ELSE <<written[pos + n]>>
<1> DEFINE L == Len(last)
<1>1. TypeOK /\ pos \in Nat /\ Len(written) \in Nat /\ DOMAIN written = 1..Len(written) /\ n \in Nat
      /\ n <= Len(chunk) /\ \A k \in DOMAIN written : written[k] \in Nat
  BY DEF RingInv, TypeOK
<1>2. /\ L \in {0, 1} /\ Len(chunk) \in Nat /\ DOMAIN Run(chunk) = 1..(L + Len(chunk))
      /\ \A i \in 1..L : Run(chunk)[i] = last[i] /\ last[i] \in Nat
      /\ \A j \in 1..Len(chunk) : Run(chunk)[L + j] = chunk[j]
  BY <1>1, RunIndex
<1>3. PICK p : /\ L = 1 => p \in DOMAIN written /\ last = <<written[p]>> /\ last[1] = written[p]
               /\ L = 1 /\ InOrder => p <= pos /\ pos <= p + Ring
  <2>1. CASE last = <<>>
    BY <2>1
  <2>2. CASE last # <<>> /\ InOrder
    <3>1. PICK p \in DOMAIN written : last = <<written[p]>> /\ p <= pos /\ pos <= p + Ring
      BY <2>2 DEF InOrder
    <3> QED
      BY <3>1
  <2>3. CASE ~InOrder
    <3>1. PICK p \in DOMAIN written : last = <<written[p]>>
      BY <2>3 DEF Behind
    <3> QED
      BY <2>3, <3>1
  <2> QED
    BY <2>1, <2>2, <2>3
<1> DEFINE place == [i \in 1..(L + n) |-> IF i <= L THEN p ELSE pos + (i - L)]
<1> HIDE DEF L
<1>4. ASSUME NEW i \in 1..(L + n), i > L
      PROVE  i - L \in 1..n /\ Run(chunk)[i] = written[pos + (i - L)] /\ pos + (i - L) \in DOMAIN written
  <2>1. i - L \in 1..n /\ i = L + (i - L)
    BY <1>1, <1>2, <1>4
  <2>2. Run(chunk)[L + (i - L)] = chunk[i - L] /\ chunk[i - L] = written[pos + (i - L)]
    <3> DEFINE k == i - L
    <3>1. k \in 1..n /\ k \in 1..Len(chunk)
      BY <1>1, <1>2, <2>1
    <3> HIDE DEF k
    <3>2. Run(chunk)[L + k] = chunk[k] /\ chunk[k] = written[pos + k]
      BY <1>2, <3>1
    <3> QED
      BY <3>2 DEF k
  <2>3. pos + (i - L) \in DOMAIN written
    BY <1>1, <2>1
  <2> QED
    BY <2>1, <2>2, <2>3
<1>5. ASSUME NEW i \in 1..L
      PROVE  i = 1 /\ L = 1 /\ Run(chunk)[i] = written[p] /\ p \in DOMAIN written
  <2>1. L = 1 /\ i = 1
    BY <1>2
  <2>2. Run(chunk)[1] = last[1]
    BY <1>2, <2>1
  <2> QED
    BY <1>3, <2>1, <2>2
<1>6. \A i \in 1..(L + n) : place[i] \in DOMAIN written /\ Run(chunk)[i] = written[place[i]]
  <2> SUFFICES ASSUME NEW i \in 1..(L + n)
               PROVE  place[i] \in DOMAIN written /\ Run(chunk)[i] = written[place[i]]
    BY Zenon
  <2>1. CASE i <= L
    BY <1>1, <1>2, <1>5, <2>1
  <2>2. CASE i > L
    BY <1>1, <1>2, <1>4, <2>2
  <2> QED
    BY <1>1, <1>2, <2>1, <2>2
<1>7. Good(chunk) = 1..(L + n)
  <2>1. ASSUME NEW i \in 1..(L + n) PROVE i \in Good(chunk)
    <3>1. Run(chunk)[i] \in Nat
      BY <1>1, <1>6
    <3> QED
      BY <1>1, <1>2, <3>1 DEF Good, Garbage
  <2>2. ASSUME NEW i \in Good(chunk) PROVE i \in 1..(L + n)
    <3>1. i \in 1..(L + Len(chunk)) /\ Run(chunk)[i] # Garbage
      BY <1>2 DEF Good
    <3>2. ASSUME i > L + n PROVE FALSE
      <4>1. i - L \in (n + 1)..Len(chunk) /\ i - L \in 1..Len(chunk) /\ i = L + (i - L)
        BY <1>1, <1>2, <3>1, <3>2
      <4>2. Run(chunk)[L + (i - L)] = Garbage
        BY <1>2, <4>1
      <4> QED
        BY <3>1, <4>1, <4>2
    <3>3. L + n \in Nat /\ i \in Nat /\ i >= 1
      BY <1>1, <1>2, <3>1
    <3>4. ~(i > L + n)
      BY <3>2, Zenon
    <3> HIDE DEF L
    <3> QED
      BY <3>3, <3>4
  <2> QED
    BY <2>1, <2>2, Zenon
<1>8. ASSUME NEW j \in Alarms(chunk) PROVE j = 2 /\ ~InOrder
  <2>1. PICK i \in Good(chunk) :
           /\ Follows(chunk, j, i) /\ j \in Good(chunk)
           /\ ~(place[i] < place[j] /\ place[j] <= place[i] + Ring + 1)
    <3>1. \A k \in Good(chunk) : place[k] \in DOMAIN written /\ Run(chunk)[k] = written[place[k]]
      BY <1>6, <1>7, Zenon
    <3> HIDE DEF place
    <3> QED
      BY <1>1, <3>1, AlarmsAtBreaks
  <2>2. i \in 1..(L + n) /\ j \in 1..(L + n) /\ i < j
    BY <1>7, <2>1 DEF Follows
  <2>3. ASSUME j > L + 1 PROVE FALSE
    <3>1. j - 1 \in 1..(L + n)
      BY <1>1, <1>2, <2>2, <2>3
    <3>2. i = j - 1
      <4>1. j - 1 <= i \/ j <= j - 1
        BY <1>7, <2>1, <3>1 DEF Follows
      <4>2. i \in Int /\ j \in Int
        BY <2>2
      <4> QED
        BY <2>2, <4>1, <4>2
    <3>3. place[i] = pos + (i - L) /\ place[j] = pos + (j - L)
      BY <1>1, <1>2, <2>2, <2>3, <3>2
    <3> QED
      BY <1>1, <1>2, <2>1, <2>2, <3>2, <3>3, RingIsPositive
  <2>4. L = 1 /\ i = 1 /\ j = 2
    BY <1>1, <1>2, <2>2, <2>3
  <2>5. place[1] = p /\ place[2] = pos + 1
    BY <1>1, <2>2, <2>4
  <2>6. ASSUME InOrder PROVE FALSE
    <3>1. p \in Nat /\ p <= pos /\ pos <= p + Ring
      BY <1>1, <1>3, <2>4, <2>6
    <3>2. p < pos + 1 /\ pos + 1 <= p + Ring + 1
      BY <1>1, <3>1, RingIsPositive
    <3> QED
      BY <2>1, <2>4, <2>5, <3>2
  <2> QED
    BY <2>4, <2>6
<1>9. Alarms(chunk) \subseteq {2} /\ (InOrder => Alarms(chunk) = {})
  BY <1>8
<1>10. last' = IF n = 0 THEN last ELSE <<written[pos + n]>>
  <2>1. CASE L + n = 0
    <3>1. Good(chunk) = {} /\ n = 0
      BY <1>1, <1>2, <1>7, <2>1
    <3> QED
      BY <3>1, ScanSays
  <2>2. CASE L + n # 0
    <3>1. L + n \in Good(chunk) /\ L + n \in Nat
      BY <1>1, <1>2, <1>7, <2>2
    <3>2. PICK i \in Good(chunk) : (\A k \in Good(chunk) : k <= i) /\ last' = <<Run(chunk)[i]>>
      BY <3>1, ScanSays
    <3>3. i = L + n
      <4>1. L + n <= i /\ i \in 1..(L + n)
        BY <1>7, <3>1, <3>2
      <4> QED
        BY <3>1, <4>1
    <3>4. CASE n = 0
      <4>1. L = 1 /\ i = 1 /\ 1 \in 1..L
        BY <1>2, <2>2, <3>3, <3>4
      <4>2. last' = <<written[p]>>
        BY <1>5, <3>2, <4>1
      <4>3. last = <<written[p]>>
        BY <1>3, <4>1
      <4> QED
        BY <3>4, <4>2, <4>3, Zenon
    <3>5. CASE n # 0
      <4>1. L + n > L /\ L + n \in 1..(L + n) /\ (L + n) - L = n
        BY <1>1, <1>2, <2>2, <3>5
      <4>2. Run(chunk)[L + n] = written[pos + ((L + n) - L)]
        BY <1>4, <4>1
      <4> QED
        BY <3>2, <3>3, <3>5, <4>1, <4>2
    <3> QED
      BY <3>4, <3>5
  <2> QED
    BY <2>1, <2>2
<1> QED
  BY <1>1, <1>9, <1>10, FewAlarms

-----------------------------------------------------------------------------
(* What a stale copy returns.                                              *)

\* A place and the place a ring before it share a slot.
LEMMA ARingBefore ==
    ASSUME NEW k \in Nat, NEW s \in Nat \ {0}, k - s \in Nat
    PROVE  (k - s) % s = k % s
<1> DEFINE q == (k - s) \div s
           r == (k - s) % s
           p == k \div s
           t == k % s
<1>1. /\ q \in Nat /\ r \in 0..(s - 1) /\ p \in Nat /\ t \in 0..(s - 1)
      /\ s * q \in Nat /\ s * p \in Nat
      /\ k - s = (s * q) + r /\ k = (s * p) + t
  BY DivMod
<1> HIDE DEF p, q, r, t
<1>2. s * (q + 1) = s * q + s
  BY <1>1, SMTT(30)
<1>3. s * (q + 1) + r = s * p + t /\ q + 1 \in Int
  BY <1>1, <1>2
<1>4. r = t
  BY <1>1, <1>3, DivUnique
<1> QED
  BY <1>4 DEF r, t

\* The recycled sub-buffer holds what was written a ring ago where the writer has not
\* been since, and nothing if the ring has not been filled yet.
LEMMA StaleMem ==
    ASSUME RingInv, pc = "copy", NEW k \in (pos + 1)..(pos + SubbufSize), Len(written) < k
    PROVE  /\ pos >= Ring => k - Ring \in DOMAIN written /\ Mem(k) = written[k - Ring]
           /\ pos < Ring => pos + SubbufSize <= Ring /\ Mem(k) = Garbage
<1> DEFINE J == {j \in DOMAIN written : j % Ring = k % Ring /\ Len(written) < j + Ring}
<1>1. /\ pos \in Nat /\ Len(written) \in Nat /\ DOMAIN written = 1..Len(written)
      /\ pos <= Len(written) /\ pos % SubbufSize = 0
  BY DEF RingInv, RingParts, TypeOK
<1>2. k \in Nat /\ k >= pos + 1 /\ k <= pos + SubbufSize /\ Ring \in Nat \ {0} /\ SubbufSize <= Ring
  BY <1>1, Sizes, RingIsPositive
<1>3. Len(written) <= pos + Ring
  BY AtMostARing
<1>4. Mem(k) = IF J = {} THEN Garbage ELSE written[CHOOSE j \in J : TRUE]
  BY DEF Mem
<1>5. \A j \in J : j \in Nat /\ j >= 1 /\ j <= Len(written) /\ j % Ring = k % Ring /\ Len(written) < j + Ring
  BY <1>1
<1> HIDE DEF J
<1>6. ASSUME pos >= Ring PROVE k - Ring \in DOMAIN written /\ Mem(k) = written[k - Ring]
  <2>1. k - Ring \in 1..Len(written) /\ k - Ring \in Nat
    BY <1>1, <1>2, <1>6, Sizes
  <2>2. k - Ring \in J
    <3>1. (k - Ring) % Ring = k % Ring
      BY <1>2, <2>1, ARingBefore
    <3>2. Len(written) < (k - Ring) + Ring
      BY <1>1, <1>2
    <3> QED
      BY <1>1, <2>1, <3>1, <3>2 DEF J
  <2>3. \A j \in J : j = k - Ring
    <3> SUFFICES ASSUME NEW j \in J PROVE j = k - Ring
      OBVIOUS
    <3>1. j \in Nat /\ j % Ring = (k - Ring) % Ring
      BY <1>2, <1>5, <2>1, ARingBefore
    <3>2. j < (k - Ring) + Ring /\ k - Ring < j + Ring
      BY <1>1, <1>2, <1>5, Sizes
    <3> QED
      BY <1>2, <2>1, <3>1, <3>2, SameSlot
  <2>4. J # {} /\ (CHOOSE j \in J : TRUE) = k - Ring
    BY <2>2, <2>3
  <2> QED
    BY <1>1, <1>4, <2>1, <2>4, Zenon
<1>7. ASSUME pos < Ring PROVE pos + SubbufSize <= Ring /\ Mem(k) = Garbage
  <2>1. pos + SubbufSize <= Ring
    <3> DEFINE c == pos \div SubbufSize
    <3>1. c \in Nat /\ SubbufSize * c \in Nat /\ pos = SubbufSize * c
      BY <1>1, Sizes, DivMod
    <3> HIDE DEF c
    <3>2. c < NSubbufs
      <4> SUFFICES ASSUME NSubbufs <= c PROVE FALSE
        BY <3>1, Sizes
      <4>1. NSubbufs * SubbufSize <= c * SubbufSize
        BY <3>1, Sizes, MulMono
      <4>2. NSubbufs * SubbufSize = Ring /\ c * SubbufSize = SubbufSize * c
        BY <3>1, Sizes, SMTT(30) DEF Ring
      <4> QED
        BY <1>2, <1>7, <3>1, <4>1, <4>2
    <3>3. (c + 1) * SubbufSize <= NSubbufs * SubbufSize
      BY <3>1, <3>2, Sizes, MulMono
    <3>4. (c + 1) * SubbufSize = SubbufSize * c + SubbufSize /\ NSubbufs * SubbufSize = Ring
      BY <3>1, Sizes, SMTT(30) DEF Ring
    <3> QED
      BY <3>1, <3>3, <3>4, Sizes
  <2>2. ASSUME NEW j \in J PROVE FALSE
    <3>1. j \in Nat /\ j % Ring = k % Ring /\ j >= 1 /\ j < k
      BY <1>1, <1>2, <1>5
    <3>2. k < j + Ring /\ j < k + Ring
      BY <1>1, <1>2, <2>1, <3>1, Sizes
    <3>3. j = k
      BY <1>2, <3>1, <3>2, SameSlot
    <3> QED
      BY <1>2, <3>1, <3>3
  <2> QED
    BY <1>4, <2>1, <2>2
<1> QED
  BY <1>6, <1>7

\* A scan of h records that are new and then of what the recycled sub-buffer held
\* before: one DUP line at most, where the one turns into the other.
LEMMA ScanStale ==
    ASSUME RingInv, RecordsParts, InOrder, Ring <= pos,
           NEW chunk \in Seq(Nat \cup {Garbage}), Scan(chunk), Len(chunk) = SubbufSize,
           NEW h \in 0..(SubbufSize - 1), Len(written) = pos + h,
           \A j \in 1..h : chunk[j] = written[pos + j],
           \A j \in (h + 1)..SubbufSize : chunk[j] = written[pos + j - Ring]
    PROVE  /\ dups' \in Nat /\ dups' <= dups + 1
           /\ pos + SubbufSize - Ring \in DOMAIN written
           /\ last' = <<written[pos + SubbufSize - Ring]>>
<1> DEFINE L == Len(last)
           At(m) == IF m <= h THEN pos + m ELSE pos + m - Ring
<1>1. TypeOK /\ pos \in Nat /\ Len(written) \in Nat /\ DOMAIN written = 1..Len(written)
      /\ h \in Nat /\ h < SubbufSize /\ \A k \in DOMAIN written : written[k] \in Nat
  BY Sizes DEF RingInv, TypeOK
<1>2. /\ L \in {0, 1} /\ DOMAIN Run(chunk) = 1..(L + SubbufSize)
      /\ \A i \in 1..L : Run(chunk)[i] = last[i] /\ last[i] \in Nat
      /\ \A j \in 1..SubbufSize : Run(chunk)[L + j] = chunk[j]
  BY <1>1, RunIndex
<1>3. PICK p : L = 1 => /\ p \in DOMAIN written /\ last[1] = written[p]
                        /\ p <= pos /\ pos <= p + Ring
  <2>1. CASE last = <<>>
    BY <2>1
  <2>2. CASE last # <<>>
    <3>1. PICK p \in DOMAIN written : last = <<written[p]>> /\ p <= pos /\ pos <= p + Ring
      BY <2>2 DEF InOrder
    <3> QED
      BY <3>1
  <2> QED
    BY <2>1, <2>2
<1> DEFINE place == [i \in 1..(L + SubbufSize) |-> IF i <= L THEN p ELSE At(i - L)]
<1> HIDE DEF L
<1>4. ASSUME NEW m \in 1..SubbufSize
      PROVE  At(m) \in DOMAIN written /\ chunk[m] = written[At(m)]
  <2>1. CASE m <= h
    BY <1>1, <2>1, Sizes
  <2>2. CASE ~(m <= h)
    <3>1. pos + m - Ring \in 1..Len(written) /\ m \in (h + 1)..SubbufSize
      BY <1>1, <2>2, Sizes, RingIsPositive
    <3> QED
      BY <1>1, <2>2, <3>1
  <2> QED
    BY <2>1, <2>2
<1>5. \A i \in 1..(L + SubbufSize) : place[i] \in DOMAIN written /\ Run(chunk)[i] = written[place[i]]
  <2> SUFFICES ASSUME NEW i \in 1..(L + SubbufSize)
               PROVE  place[i] \in DOMAIN written /\ Run(chunk)[i] = written[place[i]]
    BY Zenon
  <2>1. CASE i <= L
    <3>1. L = 1 /\ i = 1 /\ i \in 1..L
      BY <1>2, <2>1, Sizes
    <3>2. Run(chunk)[1] = last[1]
      BY <1>2, <3>1
    <3> QED
      BY <1>3, <2>1, <3>1, <3>2
  <2>2. CASE i > L
    <3> DEFINE m == i - L
    <3>1. m \in 1..SubbufSize /\ i = L + m /\ place[i] = At(m)
      BY <1>2, <2>2, Sizes
    <3> HIDE DEF m, place, At
    <3>2. Run(chunk)[L + m] = chunk[m]
      BY <1>2, <3>1
    <3> QED
      BY <1>4, <3>1, <3>2
  <2> QED
    BY <1>2, <2>1, <2>2, Sizes
<1>6. Good(chunk) = 1..(L + SubbufSize)
  <2>1. ASSUME NEW i \in 1..(L + SubbufSize) PROVE i \in Good(chunk)
    <3>1. Run(chunk)[i] \in Nat
      BY <1>1, <1>5
    <3>2. i \in DOMAIN Run(chunk)
      BY <1>2
    <3>3. Run(chunk)[i] # Garbage
      BY <3>1 DEF Garbage
    <3> QED
      BY <3>2, <3>3, Zenon DEF Good
  <2>2. Good(chunk) \subseteq 1..(L + SubbufSize)
    BY <1>2 DEF Good
  <2> QED
    BY <2>1, <2>2, Zenon
<1>7. ASSUME NEW j \in Alarms(chunk) PROVE j = L + h + 1
  <2>1. PICK i \in Good(chunk) :
           /\ Follows(chunk, j, i) /\ j \in Good(chunk)
           /\ ~(place[i] < place[j] /\ place[j] <= place[i] + Ring + 1)
    <3>1. \A k \in Good(chunk) : place[k] \in DOMAIN written /\ Run(chunk)[k] = written[place[k]]
      BY <1>5, <1>6, Zenon
    <3> HIDE DEF place
    <3> QED
      BY <1>1, <3>1, AlarmsAtBreaks
  <2>2. i \in 1..(L + SubbufSize) /\ j \in 1..(L + SubbufSize) /\ i < j
    BY <1>6, <2>1 DEF Follows
  <2>3. CASE j > L + 1
    <3>1. j - 1 \in 1..(L + SubbufSize)
      BY <1>2, <2>2, <2>3, Sizes
    <3>2. i = j - 1
      <4>1. j - 1 <= i \/ j <= j - 1
        BY <1>6, <2>1, <3>1 DEF Follows
      <4>2. i \in Int /\ j \in Int
        BY <2>2
      <4> QED
        BY <2>2, <4>1, <4>2
    <3>3. place[i] = At(i - L) /\ place[j] = At(j - L) /\ j - L = (i - L) + 1 /\ i - L \in Nat
      BY <1>2, <2>2, <2>3, <3>2, Sizes
    <3>4. ASSUME j - L # h + 1 PROVE FALSE
      <4> DEFINE m == i - L
      <4> HIDE DEF place, m
      <4>0. m \in Nat /\ m # h /\ place[i] = At(m) /\ place[j] = At(m + 1)
        BY <1>1, <3>3, <3>4 DEF m
      <4>1. place[j] = place[i] + 1 /\ place[i] \in Int
        BY <1>1, <4>0, RingIsPositive
      <4> QED
        BY <2>1, <4>1, RingIsPositive
    <3> QED
      BY <1>1, <1>2, <2>2, <3>4
  <2>4. CASE j <= L + 1
    <3>1. L = 1 /\ i = 1 /\ j = 2
      BY <1>2, <2>2, <2>4, Sizes
    <3>2. ASSUME h # 0 PROVE FALSE
      <4>1. place[1] = p /\ place[2] = pos + 1
        BY <1>1, <2>2, <3>1, <3>2
      <4>2. p \in Nat /\ p < pos + 1 /\ pos + 1 <= p + Ring + 1
        BY <1>1, <1>3, <3>1, RingIsPositive
      <4> QED
        BY <2>1, <3>1, <4>1, <4>2
    <3> QED
      BY <1>1, <3>1, <3>2
  <2> QED
    BY <1>2, <2>2, <2>3, <2>4
<1>8. Alarms(chunk) \subseteq {L + h + 1}
  BY <1>7
<1>9. last' = <<written[pos + SubbufSize - Ring]>>
  <2>1. L + SubbufSize \in Good(chunk) /\ L + SubbufSize \in Nat
    BY <1>2, <1>6, Sizes
  <2>2. PICK i \in Good(chunk) : (\A k \in Good(chunk) : k <= i) /\ last' = <<Run(chunk)[i]>>
    BY <2>1, ScanSays
  <2>3. i = L + SubbufSize
    <3>1. L + SubbufSize <= i /\ i \in 1..(L + SubbufSize)
      BY <1>6, <2>1, <2>2
    <3> QED
      BY <2>1, <3>1
  <2>4. Run(chunk)[L + SubbufSize] = chunk[SubbufSize] /\ SubbufSize \in 1..SubbufSize
    BY <1>2, Sizes
  <2>5. chunk[SubbufSize] = written[At(SubbufSize)] /\ At(SubbufSize) = pos + SubbufSize - Ring
    <3>1. ~(SubbufSize <= h)
      BY <1>1, Sizes
    <3> QED
      BY <1>4, <2>4, <3>1
  <2> QED
    BY <2>2, <2>3, <2>4, <2>5
<1>10. pos + SubbufSize - Ring \in DOMAIN written
  BY <1>1, Sizes, RingIsPositive
<1> QED
  BY <1>1, <1>8, <1>9, <1>10, FewAlarms

-----------------------------------------------------------------------------
(* A DUP line stands for a lost race.                                      *)

\* The line that a lost race may give is still to come while the reader copies, and while
\* it is behind the record it read last.
AlarmParts ==
    IF pc = "copy" THEN InOrder /\ dups < races
    ELSE (InOrder /\ dups <= races) \/ (Behind /\ dups < races)

AlarmInv == RingInv /\ RecordsParts /\ AlarmParts

LEMMA AlarmWhenWriting ==
    ASSUME AlarmInv, Writer
    PROVE  AlarmParts'
<1>1. UNCHANGED <<pos, pc, last, dups, races>>
  BY DEF Writer, Write, Publish, SubbufStart, RingUnchanged, scanVars
<1>2. written \in Seq(Nat) /\ next \in Nat
  BY DEF AlarmInv, RingInv, TypeOK
<1>3. written' = written \/ written' = Append(written, next)
  BY DEF Writer, Write, Publish, SubbufStart, Put
<1>4. \A p \in DOMAIN written : p \in DOMAIN written' /\ written'[p] = written[p]
  BY <1>2, <1>3
<1>5. InOrder => InOrder'
  BY <1>1, <1>4 DEF InOrder
<1>6. Behind => Behind'
  BY <1>1, <1>4 DEF Behind
<1> QED
  BY <1>1, <1>5, <1>6 DEF AlarmInv, AlarmParts

\* A scan of records that follow the reader's place leaves it in order.
LEMMA AlarmWhenReading ==
    ASSUME AlarmInv, pc # "copy", NEW n \in Nat \ {0}, pos + n <= Len(written),
           NEW chunk \in Seq(Nat \cup {Garbage}), Scan(chunk), n <= Len(chunk),
           \A j \in 1..n : chunk[j] = written[pos + j],
           \A j \in (n + 1)..Len(chunk) : chunk[j] = Garbage,
           pos' \in {pos + n, pos + n + 1}, pc' = "loop", UNCHANGED <<written, races>>
    PROVE  AlarmParts'
<1>1. /\ pos \in Nat /\ Len(written) \in Nat /\ dups \in Nat /\ races \in Nat
      /\ Len(chunk) \in Nat /\ DOMAIN written = 1..Len(written)
  BY DEF AlarmInv, RingInv, TypeOK
<1>2. n \in 0..Len(chunk)
  BY <1>1
<1>3. /\ dups' \in Nat /\ dups' <= dups + 1
      /\ InOrder => dups' = dups
      /\ last' = <<written[pos + n]>>
  BY <1>2, ScanOn DEF AlarmInv, AlarmParts
<1>4. dups' <= races
  BY <1>1, <1>3 DEF AlarmInv, AlarmParts
<1>5. pos + n \in DOMAIN written /\ pos + n <= pos' /\ pos' <= pos + n + Ring
  BY <1>1, RingIsPositive
<1>6. InOrder'
  BY <1>3, <1>5 DEF InOrder, Ring
<1> QED
  BY <1>4, <1>6 DEF AlarmParts

LEMMA AlarmWhenClientReads ==
    ASSUME AlarmInv, Read \/ ReadCut
    PROVE  AlarmParts'
<1>0. RingInv /\ TypeOK /\ ReadCap \in Nat \ {0}
  BY Sizes, RelayAssumption DEF AlarmInv, RingInv
<1>1. CASE Read
  <2>1. PICK n \in 1..ReadCap : /\ n <= Available /\ GotChunk([j \in 1..n |-> Mem(pos + j)])
                                 /\ pos' = pos + n
    BY <1>1 DEF Read
  <2> DEFINE chunk == [j \in 1..n |-> Mem(pos + j)]
  <2>2. /\ n \in Nat /\ pos + n <= Len(written)
        /\ \A j \in 1..n : Mem(pos + j) = written[pos + j] /\ Mem(pos + j) # Garbage
    <3> HIDE DEF chunk
    <3> QED
      BY <1>0, <2>1, ReadIsRecords
  <2>3. chunk \in Seq(Nat \cup {Garbage}) /\ Len(chunk) = n /\ n \in Nat \ {0}
    <3>1. \A j \in 1..n : Mem(pos + j) \in Nat \cup {Garbage}
      BY <1>0, <2>2, MemType DEF TypeOK
    <3> QED
      BY <2>2, <3>1
  <2>4. \A j \in 1..n : chunk[j] = written[pos + j]
    BY <2>2
  <2>5. Scan(chunk) /\ pc' = "loop" /\ pc # "copy" /\ UNCHANGED <<written, races>>
    BY <1>1, <2>1 DEF Read, GotChunk, ReaderOnly, ringVars
  <2> HIDE DEF chunk
  <2>6. \A j \in (n + 1)..Len(chunk) : chunk[j] = Garbage
    BY <2>2, <2>3
  <2>7. pos' \in {pos + n, pos + n + 1}
    BY <2>1
  <2> QED
    BY <2>2, <2>3, <2>4, <2>5, <2>6, <2>7, AlarmWhenReading
<1>2. CASE ReadCut
  <2> DEFINE whole == [j \in 1..ReadCap |-> Mem(pos + j)]
             chunk == Append(whole, Garbage)
  <2>1. /\ Available > ReadCap /\ Scan(chunk) /\ pc' = "loop" /\ pc # "copy"
        /\ UNCHANGED <<written, races>> /\ pos' = pos + ReadCap + 1
    BY <1>2 DEF ReadCut, GotChunk, ReaderOnly, ringVars
  <2>2. ReadCap \in 1..ReadCap /\ ReadCap <= Available
    BY <1>0, <2>1 DEF Available, TypeOK
  <2>3. /\ pos + ReadCap <= Len(written)
        /\ \A j \in 1..ReadCap : Mem(pos + j) = written[pos + j] /\ Mem(pos + j) # Garbage
    <3> HIDE DEF chunk, whole
    <3> QED
      BY <1>0, <2>2, ReadIsRecords
  <2>4. whole \in Seq(Nat \cup {Garbage}) /\ Len(whole) = ReadCap
    <3>1. \A j \in 1..ReadCap : Mem(pos + j) \in Nat \cup {Garbage}
      BY <1>0, <2>3, MemType DEF TypeOK
    <3> QED
      BY <1>0, <3>1
  <2>5. /\ chunk \in Seq(Nat \cup {Garbage}) /\ Len(chunk) = ReadCap + 1
        /\ \A j \in 1..ReadCap : chunk[j] = whole[j]
        /\ chunk[ReadCap + 1] = Garbage
    <3> HIDE DEF whole
    <3> QED
      BY <1>0, <2>4
  <2>6. \A j \in 1..ReadCap : chunk[j] = written[pos + j]
    <3>1. \A j \in 1..ReadCap : whole[j] = written[pos + j]
      BY <2>3
    <3> HIDE DEF chunk, whole
    <3> QED
      BY <2>5, <3>1
  <2> HIDE DEF chunk, whole
  <2>7. \A j \in (ReadCap + 1)..Len(chunk) : chunk[j] = Garbage
    BY <1>0, <2>5
  <2>8. ReadCap <= Len(chunk) /\ pos' \in {pos + ReadCap, pos + ReadCap + 1}
    BY <1>0, <2>1, <2>5
  <2> QED
    BY <1>0, <2>1, <2>3, <2>5, <2>6, <2>7, <2>8, AlarmWhenReading
<1> QED
  BY <1>1, <1>2

\* A stale copy reports its lost race at once, when what was in the recycled sub-buffer
\* follows a new record, or in the next scan, when the reader goes back.
LEMMA AlarmWhenCopying ==
    ASSUME AlarmInv, CopyStale
    PROVE  AlarmParts'
<1> DEFINE chunk == [j \in 1..SubbufSize |-> Mem(pos + j)]
           h == Len(written) - pos
<1>1. /\ TypeOK /\ RingInv /\ RecordsParts /\ InOrder /\ dups < races /\ pc = "copy"
      /\ pos \in Nat /\ Len(written) \in Nat /\ dups \in Nat /\ races \in Nat
      /\ DOMAIN written = 1..Len(written) /\ pos <= Len(written)
  BY DEF AlarmInv, AlarmParts, CopyStale, RingInv, RingParts, TypeOK
<1>2. /\ Scan(chunk) /\ pc' = "loop" /\ UNCHANGED <<written, races>>
      /\ pos' \in {pos + SubbufSize, Oldest * SubbufSize}
  BY DEF CopyStale, GotChunk, ReaderOnly, ringVars, Resume
<1>3. /\ SubbufSize \in Nat \ {0} /\ Ring \in Nat \ {0} /\ SubbufSize <= Ring
  BY Sizes, RingIsPositive
<1>4. \A j \in 1..SubbufSize : Mem(pos + j) \in Nat \cup {Garbage}
  BY <1>1, <1>3, MemType
<1>5. chunk \in Seq(Nat \cup {Garbage}) /\ Len(chunk) = SubbufSize
  BY <1>3, <1>4
<1>6. \A j \in 1..SubbufSize : chunk[j] = Mem(pos + j)
  OBVIOUS
<1> HIDE DEF chunk
<1>7. ASSUME NEW j \in 1..SubbufSize, j <= h PROVE chunk[j] = written[pos + j]
  <2>1. pos + j \in (pos + 1)..Len(written)
    BY <1>1, <1>3, <1>7
  <2> QED
    BY <1>1, <1>6, <2>1, UnreadIsIntact
<1>8. /\ Oldest \in Nat /\ Oldest * SubbufSize \in Nat
      /\ Oldest * SubbufSize <= pos + SubbufSize
      /\ pos + SubbufSize <= Oldest * SubbufSize + Ring
      /\ Len(written) < Ring => Oldest = 0
  BY <1>1, OldestBounds
<1> DEFINE o == Oldest * SubbufSize
<1>9. o \in Nat /\ o <= pos + SubbufSize /\ pos + SubbufSize <= o + Ring /\ pos' \in {pos + SubbufSize, o}
  BY <1>2, <1>8
<1>10. Len(written) < Ring => o = 0
  BY <1>3, <1>8, SMTT(30)
<1> HIDE DEF o
<1>11. CASE h >= SubbufSize
  <2>1. /\ SubbufSize \in 0..Len(chunk) /\ pos + SubbufSize <= Len(written)
        /\ \A j \in 1..SubbufSize : chunk[j] = written[pos + j]
        /\ \A j \in (SubbufSize + 1)..Len(chunk) : chunk[j] = Garbage
    BY <1>1, <1>3, <1>5, <1>7, <1>11
  <2>2. dups' = dups /\ last' = <<written[pos + SubbufSize]>>
    BY <1>1, <1>2, <1>3, <1>5, <2>1, ScanOn
  <2>3. pos + SubbufSize \in DOMAIN written
    BY <1>1, <1>3, <2>1
  <2>4. CASE pos' = pos + SubbufSize
    <3>1. InOrder'
      BY <1>1, <1>2, <1>3, <2>2, <2>3, <2>4 DEF InOrder, Ring
    <3> QED
      BY <1>1, <1>2, <2>2, <3>1 DEF AlarmParts
  <2>5. CASE pos' = o /\ o # pos + SubbufSize
    <3>1. pos' < pos + SubbufSize
      BY <1>1, <1>3, <1>9, <2>5
    <3>2. Behind'
      BY <1>2, <2>2, <2>3, <3>1 DEF Behind
    <3> QED
      BY <1>1, <1>2, <2>2, <3>2 DEF AlarmParts
  <2> QED
    BY <1>9, <2>4, <2>5
<1>12. CASE h < SubbufSize /\ pos < Ring
  <2>1. h \in Nat /\ h \in 0..Len(chunk) /\ pos + h = Len(written)
    BY <1>1, <1>3, <1>5, <1>12
  <2>2. ASSUME NEW j \in (h + 1)..SubbufSize PROVE chunk[j] = Garbage /\ pos + SubbufSize <= Ring
    <3>1. pos + j \in (pos + 1)..(pos + SubbufSize) /\ Len(written) < pos + j /\ j \in 1..SubbufSize
      BY <1>1, <1>3, <2>1
    <3> QED
      BY <1>1, <1>6, <1>12, <3>1, StaleMem
  <2>3. pos + SubbufSize <= Ring /\ pos + h < Ring
    <3>1. SubbufSize \in (h + 1)..SubbufSize
      BY <1>3, <1>12, <2>1
    <3> QED
      BY <1>1, <1>3, <1>12, <2>1, <2>2, <3>1
  <2>4. \A j \in 1..h : chunk[j] = written[pos + j]
    BY <1>3, <1>7, <1>12, <2>1
  <2>5. dups' = dups /\ last' = IF h = 0 THEN last ELSE <<written[pos + h]>>
    <3>1. \A j \in (h + 1)..Len(chunk) : chunk[j] = Garbage
      BY <1>5, <2>2
    <3>2. pos + h <= Len(written)
      BY <1>1, <2>1
    <3> HIDE DEF h
    <3> QED
      BY <1>1, <1>2, <1>5, <2>1, <2>4, <3>1, <3>2, ScanOn
  <2>51. dups' <= races'
    <3>1. dups' = dups /\ races' = races
      BY <1>2, <2>5, Zenon
    <3> QED
      BY <1>1, <3>1
  <2>6. PICK p : /\ last' = <<>> \/ (p \in DOMAIN written /\ last' = <<written[p]>>)
                 /\ last' # <<>> => p <= pos + h
    <3>1. CASE h # 0
      <4>1. h \in Nat /\ h # 0 /\ pos + h = Len(written) /\ last' = <<written[pos + h]>>
        BY <2>1, <2>5, <3>1, Zenon
      <4> HIDE DEF h
      <4>2. pos + h \in DOMAIN written /\ pos + h <= pos + h
        BY <1>1, <4>1
      <4> QED
        BY <4>1, <4>2
    <3>2. CASE h = 0 /\ last # <<>>
      <4>1. PICK p \in DOMAIN written : last = <<written[p]>> /\ p <= pos /\ pos <= p + Ring
        BY <1>1, <3>2 DEF InOrder
      <4> QED
        BY <1>1, <2>1, <2>5, <3>2, <4>1
    <3>3. CASE h = 0 /\ last = <<>>
      BY <2>5, <3>3
    <3> QED
      BY <3>1, <3>2, <3>3
  <2>7. CASE last' = <<>>
    <3>1. InOrder'
      BY <2>7 DEF InOrder
    <3> QED
      BY <1>2, <2>51, <3>1 DEF AlarmParts
  <2>8. CASE last' # <<>>
    <3>1. p \in Nat /\ p >= 1 /\ p <= pos + h /\ p \in DOMAIN written' /\ last' = <<written'[p]>>
      BY <1>1, <1>2, <2>6, <2>8
    <3>2. CASE pos' = pos + SubbufSize
      <4>1. p <= pos' /\ pos' <= p + Ring
        BY <1>1, <1>3, <1>12, <2>1, <2>3, <3>1, <3>2
      <4>2. InOrder'
        BY <3>1, <4>1 DEF InOrder, Ring
      <4> QED
        BY <1>2, <2>51, <4>2 DEF AlarmParts
    <3>3. CASE pos' = o
      <4>1. pos' = 0
        BY <1>10, <2>1, <2>3, <3>3
      <4>2. Behind'
        BY <3>1, <4>1 DEF Behind
      <4> QED
        BY <1>1, <1>2, <2>5, <4>2 DEF AlarmParts
    <3> QED
      BY <1>9, <3>2, <3>3
  <2> QED
    BY <2>7, <2>8
<1>13. CASE h < SubbufSize /\ Ring <= pos
  <2>1. h \in 0..(SubbufSize - 1) /\ Len(written) = pos + h
    BY <1>1, <1>3, <1>13
  <2>2. \A j \in 1..h : chunk[j] = written[pos + j]
    BY <1>3, <1>7, <1>13, <2>1
  <2>3. ASSUME NEW j \in (h + 1)..SubbufSize PROVE chunk[j] = written[pos + j - Ring]
    <3>1. pos + j \in (pos + 1)..(pos + SubbufSize) /\ Len(written) < pos + j /\ j \in 1..SubbufSize
      BY <1>1, <1>3, <2>1
    <3> QED
      BY <1>1, <1>3, <1>6, <1>13, <3>1, StaleMem
  <2> DEFINE p == pos + SubbufSize - Ring
  <2>4. /\ dups' \in Nat /\ dups' <= dups + 1
        /\ p \in DOMAIN written /\ last' = <<written[p]>>
    <3> HIDE DEF h
    <3> QED
      BY <1>1, <1>2, <1>5, <1>13, <2>1, <2>2, <2>3, ScanStale
  <2>5. p <= pos' /\ pos' <= p + Ring
    BY <1>1, <1>3, <1>9, <1>13
  <2>6. InOrder'
    <3> HIDE DEF p
    <3> QED
      BY <1>2, <2>4, <2>5 DEF InOrder, Ring
  <2>7. dups' <= races'
    BY <1>1, <1>2, <2>4
  <2> QED
    BY <1>2, <2>6, <2>7 DEF AlarmParts
<1> QED
  BY <1>1, <1>3, <1>11, <1>12, <1>13

LEMMA AlarmInvStep ==
    ASSUME AlarmInv, [Next]_vars
    PROVE  AlarmInv'
<1>1. RingInv' /\ RecordsParts'
  BY RingInvStep, RecordsStep DEF AlarmInv, RingInv
<1>2. AlarmParts'
  <2>1. CASE Signal \/ Logger \/ UNCHANGED vars \/ TestStop \/ ReadNothing \/ ReadFails \/ Join
    <3>1. UNCHANGED <<written, pos, last, dups, races>> /\ (pc' # pc => pc # "copy" /\ pc' # "copy")
      BY <2>1 DEF Signal, Logger, CreateLog, Receive, WriteChunk, LogEnd, LoggerOnly, vars, ringVars, scanVars,
                  TestStop, ReadNothing, ReadFails, Join, ReaderOnly
    <3>2. (InOrder <=> InOrder') /\ (Behind <=> Behind')
      BY <3>1 DEF InOrder, Behind, Ring
    <3> QED
      BY <3>1, <3>2 DEF AlarmInv, AlarmParts
  <2>2. CASE ReadStale
    <3>1. /\ pc = "read" /\ pc' = "copy" /\ pos = Len(written) /\ races' = races + 1
          /\ UNCHANGED <<written, pos, last, dups>>
      BY <2>2 DEF ReadStale, scanVars, ReaderOnly, ringVars
    <3>2. pos \in Nat /\ dups \in Nat /\ races \in Nat /\ DOMAIN written = 1..Len(written)
      BY DEF AlarmInv, RingInv, TypeOK
    <3>3. ~Behind
      BY <3>1, <3>2 DEF Behind
    <3>4. InOrder /\ dups <= races
      BY <3>1, <3>2, <3>3 DEF AlarmInv, AlarmParts
    <3>5. InOrder'
      BY <3>1, <3>4 DEF InOrder, Ring
    <3> QED
      BY <3>1, <3>2, <3>4, <3>5 DEF AlarmParts
  <2> QED
    BY <2>1, <2>2, AlarmWhenWriting, AlarmWhenClientReads, AlarmWhenCopying DEF Next, Client
<1> QED
  BY <1>1, <1>2 DEF AlarmInv

LEMMA AlarmInvInit == Init => AlarmInv
<1> SUFFICES ASSUME Init PROVE AlarmInv
  OBVIOUS
<1>1. written = <<>> /\ last = <<>> /\ pc = "loop" /\ dups = 0 /\ races = 0 /\ DOMAIN written = {}
  BY DEF Init
<1> QED
  BY <1>1, RingInvInit DEF AlarmInv, AlarmParts, RecordsParts, InOrder

\* A DUP line stands for a lost race and each race is reported at most once, for
\* every size of the ring and of the reads and every period of seq.
THEOREM AlarmsAreRaces == Spec => []OneAlarmPerRace
<1>1. AlarmInv => OneAlarmPerRace
  <2> SUFFICES ASSUME AlarmInv PROVE dups <= races
    BY DEF OneAlarmPerRace
  <2>1. dups \in Nat /\ races \in Nat
    BY DEF AlarmInv, RingInv, TypeOK
  <2> QED
    BY <2>1 DEF AlarmInv, AlarmParts
<1> QED
  BY <1>1, AlarmInvInit, AlarmInvStep, PTL DEF Spec
-----------------------------------------------------------------------------
(* Repetitions are reported.                                               *)

\* What the scan has met is in ascending order, as long as it reports nothing and seq
\* does not wrap around.
RepParts ==
    /\ last # <<>> => last[1] \in seen
    /\ dups = 0 /\ SamePeriod => ~again /\ \A n \in seen : last # <<>> /\ n <= last[1]

RepInv == TypeOK /\ RepParts

\* The scan is all that touches what it keeps.
LEMMA OnlyScans ==
    ASSUME TypeOK, [Next]_vars
    PROVE  client' = client /\ (\/ UNCHANGED scanVars
                                \/ \E chunk \in Seq(Nat \cup {Garbage}) : Scan(chunk))
<1>1. pos \in Nat /\ ReadCap \in Nat /\ SubbufSize \in Nat
  BY Sizes DEF TypeOK
<1>2. \A j \in Nat : Mem(pos + j) \in Nat \cup {Garbage}
  BY <1>1, MemType
<1>3. \A n \in Nat : [j \in 1..n |-> Mem(pos + j)] \in Seq(Nat \cup {Garbage})
  BY <1>2
<1>4. CASE Read
  <2>1. PICK n \in 1..ReadCap : Scan([j \in 1..n |-> Mem(pos + j)]) /\ client' = client
    BY <1>4 DEF Read, GotChunk, ReaderOnly
  <2>2. n \in Nat
    BY <1>1
  <2>3. [j \in 1..n |-> Mem(pos + j)] \in Seq(Nat \cup {Garbage})
    BY <1>3, <2>2
  <2> QED
    BY <2>1, <2>3, Zenon
<1>5. CASE ReadCut
  <2> DEFINE whole == [j \in 1..ReadCap |-> Mem(pos + j)]
  <2>1. Scan(Append(whole, Garbage)) /\ client' = client
    BY <1>5 DEF ReadCut, GotChunk, ReaderOnly
  <2>2. whole \in Seq(Nat \cup {Garbage})
    BY <1>1, <1>3
  <2> HIDE DEF whole
  <2>3. Append(whole, Garbage) \in Seq(Nat \cup {Garbage})
    BY <2>2
  <2> QED
    BY <2>1, <2>3, Zenon
<1>6. CASE CopyStale
  <2>1. Scan([j \in 1..SubbufSize |-> Mem(pos + j)]) /\ client' = client
    BY <1>6 DEF CopyStale, GotChunk, ReaderOnly
  <2>2. [j \in 1..SubbufSize |-> Mem(pos + j)] \in Seq(Nat \cup {Garbage})
    BY <1>1, <1>3
  <2> QED
    BY <2>1, <2>2, Zenon
<1>7. CASE \/ Writer \/ TestStop \/ ReadNothing \/ ReadFails \/ ReadStale \/ Join
           \/ Signal \/ Logger \/ UNCHANGED vars
  <2>1. UNCHANGED scanVars /\ client' = client
    BY <1>7 DEF Writer, Write, Publish, SubbufStart, RingUnchanged, TestStop, ReadNothing, ReadFails, ReadStale,
                Join, ReaderOnly, Signal, Logger, CreateLog, Receive, WriteChunk, LogEnd, LoggerOnly, vars, scanVars
  <2> QED
    BY <2>1
<1> QED
  BY <1>4, <1>5, <1>6, <1>7 DEF Next, Client

\* What a scan meets it keeps, the record before it included.
LEMMA SeenByScan ==
    ASSUME TypeOK, NEW chunk \in Seq(Nat \cup {Garbage}), Scan(chunk),
           last # <<>> => last[1] \in seen, NEW i \in Good(chunk)
    PROVE  Run(chunk)[i] \in seen'
<1> DEFINE L == Len(last)
           run == Run(chunk)
<1>1. /\ L \in {0, 1} /\ Len(chunk) \in Nat
      /\ \A k \in 1..L : run[k] = last[k]
      /\ \A j \in 1..Len(chunk) : run[L + j] = chunk[j]
      /\ i \in 1..(L + Len(chunk)) /\ run[i] # Garbage
  <2>1. run[i] # Garbage
    BY DEF Good
  <2> HIDE DEF run
  <2> QED
    BY <2>1, RunIndex DEF run
<1>2. seen' = seen \cup (Range(chunk) \ {Garbage})
  BY ScanSays
<1>3. CASE i <= L
  <2>1. L = 1 /\ i = 1 /\ run[1] = last[1]
    BY <1>1, <1>3
  <2>2. last # <<>>
    <3>1. last = <<>> => L = 0
      OBVIOUS
    <3> HIDE DEF L
    <3> QED
      BY <2>1, <3>1
  <2> QED
    BY <1>2, <2>1, <2>2
<1>4. CASE i > L
  <2> DEFINE j == i - L
  <2> HIDE DEF L
  <2>1. j \in 1..Len(chunk) /\ i = L + j
    BY <1>1, <1>4
  <2> HIDE DEF j, run
  <2>2. run[i] = chunk[j] /\ j \in DOMAIN chunk
    BY <1>1, <2>1
  <2>3. run[i] \in seen'
    BY <1>1, <1>2, <2>2 DEF Range
  <2> QED
    BY <2>3 DEF run
<1> QED
  BY <1>1, <1>3, <1>4

\* Without a DUP line and within a period, a scan meets records in ascending order.
LEMMA ScanAscends ==
    ASSUME TypeOK, RepParts, NEW chunk \in Seq(Nat \cup {Garbage}), Scan(chunk),
           dups' = 0, SamePeriod', client' = client
    PROVE  /\ dups = 0 /\ SamePeriod
           /\ \A i, j \in Good(chunk) : i < j => Run(chunk)[i] < Run(chunk)[j]
<1> DEFINE L == Len(last)
           run == Run(chunk)
           good == Good(chunk)
<1>1. /\ L \in {0, 1} /\ Len(chunk) \in Nat
      /\ \A i \in 1..L : run[i] = last[i]
      /\ \A j \in 1..Len(chunk) : run[L + j] = chunk[j]
      /\ \A i \in good : i \in 1..(L + Len(chunk)) /\ run[i] \in Nat
  BY RunIndex
<1>2. dups \in Nat /\ seen' = seen \cup (Range(chunk) \ {Garbage})
  BY ScanSays DEF TypeOK
<1>3. dups = 0 /\ Alarms(chunk) = {}
  <2>1. IsFiniteSet(Alarms(chunk))
    <3>1. Alarms(chunk) \subseteq 1..(L + Len(chunk))
      <4> HIDE DEF L
      <4> QED
        BY <1>1 DEF Alarms
    <3>2. IsFiniteSet(1..(L + Len(chunk)))
      BY <1>1, FS_Interval
    <3> QED
      BY <3>1, <3>2, FS_Subset
  <2>2. Cardinality(Alarms(chunk)) \in Nat
    BY <2>1, FS_CardinalityType
  <2>3. dups' = dups + Cardinality(Alarms(chunk))
    BY ScanSays
  <2>4. dups = 0 /\ Cardinality(Alarms(chunk)) = 0
    BY <1>2, <2>2, <2>3
  <2> QED
    BY <2>1, <2>4, FS_EmptySet
<1>4. SamePeriod
  BY <1>2 DEF SamePeriod
<1>5. ASSUME NEW i \in good PROVE run[i] \in seen'
  BY SeenByScan DEF RepParts
<1>6. ASSUME NEW i \in good, NEW j \in good, Follows(chunk, j, i)
      PROVE  run[i] < run[j]
  <2>1. run[i] \in Nat /\ run[j] \in Nat /\ run[i] \in seen' /\ run[j] \in seen'
    BY <1>1, <1>5
  <2>2. ~IsDup(run[i], run[j])
    BY <1>3, <1>6 DEF Alarms
  <2>3. /\ run[i] \div Period = run[j] \div Period
        /\ client = "c" => SeqNo(run[i]) # Period - 1
    <3>1. \A a, b \in seen' : a \div Period = b \div Period
      BY DEF SamePeriod
    <3>2. client = "c" => \A n \in seen' : SeqNo(n) # Period - 1
      BY DEF SamePeriod, SeqNo
    <3> HIDE DEF run, good
    <3> QED
      BY <2>1, <3>1, <3>2
  <2> HIDE DEF run, good
  <2> QED
    BY <2>1, <2>2, <2>3, NoDupIsLater
<1>7. ASSUME NEW i \in good, NEW j \in good, i < j
      PROVE  run[i] < run[j]
  <2> SUFFICES ASSUME ~(run[i] < run[j]) PROVE FALSE
    OBVIOUS
  <2> DEFINE T == {t \in good : i < t /\ ~(run[i] < run[t])}
  <2>0. \A t \in good : t \in Nat /\ run[t] \in Nat
    BY <1>1
  <2>1. PICK t \in T : \A u \in T : t <= u
    <3>1. j \in T /\ T \subseteq Nat
      BY <1>7, <2>0
    <3> HIDE DEF T
    <3> QED
      BY <3>1, LeastNatural
  <2>2. t \in good /\ i < t /\ ~(run[i] < run[t])
    BY <2>1
  <2> DEFINE B == {k \in good : k < t}
  <2>3. PICK k \in B : \A u \in B : u <= k
    <3>1. i \in B /\ B \subseteq Nat /\ t \in Nat /\ \A u \in B : u <= t
      BY <2>0, <2>2
    <3> HIDE DEF B
    <3> QED
      BY <3>1, GreatestNatural
  <2>4. k \in good /\ k < t /\ i <= k
    BY <2>2, <2>3
  <2>5. Follows(chunk, t, k)
    <3>1. \A u \in good : u <= k \/ t <= u
      <4> SUFFICES ASSUME NEW u \in good, ~(t <= u) PROVE u <= k
        OBVIOUS
      <4>1. u \in B
        BY <2>0, <2>2
      <4> QED
        BY <2>3, <4>1
    <3> QED
      BY <2>4, <3>1 DEF Follows
  <2>6. run[k] < run[t]
    BY <1>6, <2>2, <2>4, <2>5
  <2>7. CASE k = i
    BY <2>2, <2>6, <2>7
  <2>8. CASE i < k
    <3>1. k \notin T
      <4> HIDE DEF T
      <4> QED
        BY <2>0, <2>1, <2>2, <2>4
    <3>2. run[i] < run[k]
      BY <2>4, <2>8, <3>1
    <3>3. run[i] \in Nat /\ run[k] \in Nat /\ run[t] \in Nat
      BY <2>0, <2>2, <2>4
    <3> HIDE DEF run
    <3> QED
      BY <2>2, <2>6, <3>2, <3>3
  <2>9. i \in Nat /\ k \in Nat
    BY <2>0, <2>4
  <2> QED
    BY <2>4, <2>7, <2>8, <2>9
<1> QED
  BY <1>3, <1>4, <1>7

LEMMA RepWhenScanning ==
    ASSUME RepInv, NEW chunk \in Seq(Nat \cup {Garbage}), Scan(chunk), client' = client
    PROVE  RepParts'
<1> DEFINE L == Len(last)
           run == Run(chunk)
           good == Good(chunk)
           new == Range(chunk) \ {Garbage}
<1>0. TypeOK /\ RepParts
  BY DEF RepInv
<1>1. /\ L \in {0, 1} /\ Len(chunk) \in Nat /\ DOMAIN run = 1..(L + Len(chunk))
      /\ \A i \in 1..L : run[i] = last[i] /\ last[i] \in Nat
      /\ \A j \in 1..Len(chunk) : run[L + j] = chunk[j]
      /\ \A i \in good : i \in 1..(L + Len(chunk)) /\ run[i] \in Nat
  BY <1>0, RunIndex
<1>2. /\ \/ good = {} /\ last' = last
         \/ \E i \in good : (\A k \in good : k <= i) /\ last' = <<run[i]>>
      /\ seen' = seen \cup new
      /\ again' = (again \/ new \cap seen # {} \/ \E i, j \in good : i < j /\ run[i] = run[j])
  BY ScanSays
\* The records of the chunk are in the run, behind the one before it.
<1>3. ASSUME NEW x \in new PROVE \E i \in good : i > L /\ run[i] = x
  <2>1. PICK j \in DOMAIN chunk : chunk[j] = x /\ x # Garbage
    BY DEF Range
  <2>2. j \in 1..Len(chunk) /\ L + j \in DOMAIN run /\ run[L + j] = x
    <3>1. j \in 1..Len(chunk)
      BY <2>1
    <3> HIDE DEF L, run
    <3> QED
      BY <1>1, <2>1, <3>1
  <2>3. L + j \in good
    BY <2>1, <2>2 DEF Good
  <2>4. L + j > L
    <3> HIDE DEF L
    <3> QED
      BY <1>1, <2>2
  <2> QED
    BY <2>2, <2>3, <2>4
\* So is the record that was read last.
<1>4. ASSUME last # <<>> PROVE L = 1 /\ 1 \in good /\ run[1] = last[1] /\ last[1] \in Nat
  <2>1. L = 1
    <3>1. last \in Seq(Nat)
      BY <1>0 DEF TypeOK
    <3>2. L # 0
      BY <1>4, <3>1, EmptySeq
    <3> QED
      BY <1>1, <3>2
  <2>2. run[1] = last[1] /\ last[1] \in Nat /\ 1 \in DOMAIN run
    <3> HIDE DEF L, run
    <3> QED
      BY <1>1, <2>1
  <2> QED
    BY <2>1, <2>2 DEF Good, Garbage
<1>5. ASSUME NEW i \in good PROVE run[i] \in seen'
  BY <1>0, SeenByScan DEF RepParts
<1>6. last' # <<>> => last'[1] \in seen'
  <2>1. CASE good = {} /\ last' = last
    BY <1>0, <1>2, <2>1 DEF RepParts
  <2>2. CASE \E i \in good : (\A k \in good : k <= i) /\ last' = <<run[i]>>
    <3>1. PICK i \in good : last' = <<run[i]>>
      BY <2>2
    <3>2. last'[1] = run[i]
      <4> HIDE DEF run
      <4> QED
        BY <3>1
    <3> QED
      BY <1>5, <3>2
  <2> QED
    BY <1>2, <2>1, <2>2
<1>7. ASSUME dups' = 0, SamePeriod'
      PROVE  ~again' /\ \A n \in seen' : last' # <<>> /\ n <= last'[1]
  <2>1. /\ dups = 0 /\ SamePeriod
        /\ \A i, j \in good : i < j => run[i] < run[j]
    BY <1>0, <1>7, ScanAscends
  <2>2. ~again /\ \A n \in seen : last # <<>> /\ n <= last[1]
    BY <1>0, <2>1 DEF RepParts
  <2>3. ASSUME NEW x \in new, x \in seen PROVE FALSE
    <3>1. PICK i \in good : i > L /\ run[i] = x
      BY <1>3
    <3>2. last # <<>> /\ x <= last[1]
      BY <2>2, <2>3
    <3>3. L = 1 /\ 1 \in good /\ run[1] = last[1]
      BY <1>4, <3>2
    <3>4. run[1] < run[i] /\ run[1] \in Nat /\ run[i] \in Nat
      BY <1>1, <2>1, <3>1, <3>3
    <3> HIDE DEF run
    <3> QED
      BY <3>1, <3>2, <3>3, <3>4
  <2>4. ASSUME NEW i \in good, NEW j \in good, i < j PROVE run[i] # run[j]
    <3>1. run[i] < run[j] /\ run[i] \in Nat /\ run[j] \in Nat
      BY <1>1, <2>1, <2>4
    <3> HIDE DEF run
    <3> QED
      BY <3>1
  <2>5. ~again'
    <3> HIDE DEF run, good, new
    <3> QED
      BY <1>2, <2>2, <2>3, <2>4
  <2>6. CASE good = {} /\ last' = last
    <3>1. new = {}
      BY <1>3, <2>6
    <3> HIDE DEF new
    <3> QED
      BY <1>2, <2>2, <2>5, <2>6, <3>1
  <2>7. CASE \E i \in good : (\A k \in good : k <= i) /\ last' = <<run[i]>>
    <3>1. PICK i \in good : (\A k \in good : k <= i) /\ last' = <<run[i]>>
      BY <2>7
    <3>2. last' # <<>> /\ last'[1] = run[i] /\ run[i] \in Nat /\ i \in Nat
      <4>1. run[i] \in Nat /\ i \in Nat
        BY <1>1
      <4> HIDE DEF run
      <4> QED
        BY <3>1, <4>1
    <3>3. ASSUME NEW k \in good PROVE run[k] <= run[i]
      <4>1. k <= i /\ k \in Nat /\ run[k] \in Nat
        BY <1>1, <3>1
      <4>2. k < i => run[k] < run[i]
        BY <2>1
      <4> HIDE DEF run
      <4> QED
        BY <3>2, <4>1, <4>2
    <3>4. ASSUME NEW n \in seen' PROVE n <= run[i]
      <4>1. CASE n \in seen
        <5>1. last # <<>> /\ n <= last[1] /\ n \in Nat
          BY <1>0, <2>2, <4>1 DEF TypeOK
        <5>2. run[1] <= run[i] /\ run[1] = last[1] /\ last[1] \in Nat
          BY <1>4, <3>3, <5>1
        <5> HIDE DEF run
        <5> QED
          BY <3>2, <5>1, <5>2
      <4>2. CASE n \in new
        <5>1. PICK k \in good : run[k] = n
          BY <1>3, <4>2
        <5> QED
          BY <3>3, <5>1
      <4> QED
        BY <1>2, <4>1, <4>2
    <3> QED
      BY <2>5, <3>2, <3>4
  <2> QED
    BY <1>2, <2>6, <2>7
<1> QED
  BY <1>6, <1>7 DEF RepParts

LEMMA RepInvStep ==
    ASSUME RepInv, [Next]_vars
    PROVE  RepInv'
<1>1. TypeOK'
  BY NextType DEF RepInv
<1>2. client' = client /\ (\/ UNCHANGED scanVars
                           \/ \E chunk \in Seq(Nat \cup {Garbage}) : Scan(chunk))
  BY OnlyScans DEF RepInv
<1>3. CASE UNCHANGED scanVars
  BY <1>1, <1>2, <1>3 DEF RepInv, RepParts, SamePeriod, scanVars, SeqNo
<1>4. CASE \E chunk \in Seq(Nat \cup {Garbage}) : Scan(chunk)
  BY <1>1, <1>2, <1>4, RepWhenScanning DEF RepInv
<1> QED
  BY <1>2, <1>3, <1>4

LEMMA RepInvInit == Init => RepInv
BY InitType DEF RepInv, RepParts, Init

\* A record the client read twice is reported as long as seq does not wrap around,
\* whatever is dropped, cut or skipped between the two reads.
THEOREM RepetitionsAreReported == Spec => []RepetitionsReported
<1>1. RepInv => RepetitionsReported
  <2> SUFFICES ASSUME RepInv, again, SamePeriod PROVE dups > 0
    BY DEF RepetitionsReported
  <2>1. dups \in Nat
    BY DEF RepInv, TypeOK
  <2> QED
    BY <2>1 DEF RepInv, RepParts
<1> QED
  BY <1>1, RepInvInit, RepInvStep, PTL DEF Spec
-----------------------------------------------------------------------------
(* The end: how much the client and its log thread can still have to do.   *)

\* The tables of ClientSteps and LoggerSteps, entry by entry.
LEMMA StepsTables ==
    /\ ClientSteps["loop"] = 2 /\ ClientSteps["read"] = 6 /\ ClientSteps["copy"] = 5
    /\ ClientSteps["join"] = 1 /\ ClientSteps["ok"] = 0 /\ ClientSteps["err"] = 0
    /\ LoggerSteps["none"] = 0 /\ LoggerSteps["create"] = 2 /\ LoggerSteps["recv"] = 1
    /\ LoggerSteps["write"] = 2 /\ LoggerSteps["done"] = 0 /\ LoggerSteps["failed"] = 0
BY DEF ClientSteps, LoggerSteps

\* In a state of the right types what is left is a number, and at most that of a client
\* about to read with a full channel.
LEMMA StepsBound ==
    ASSUME TypeOK
    PROVE  /\ ClientSteps[pc] \in 0..6 /\ LoggerSteps[logger] \in 0..2
           /\ Len(channel) \in 0..LogCap /\ LogCap \in Nat
           /\ StepsLeft \in Nat /\ StepsLeft <= 2 * LogCap + 8
<1>1. ClientSteps[pc] \in 0..6
  <2>1. pc \in {"loop", "read", "copy", "join", "ok", "err"}
    BY DEF TypeOK
  <2> QED
    BY <2>1, StepsTables
<1>2. LoggerSteps[logger] \in 0..2
  <2>1. logger \in {"none", "create", "recv", "write", "done", "failed"}
    BY DEF TypeOK
  <2> QED
    BY <2>1, StepsTables
<1>3. Len(channel) \in 0..LogCap /\ LogCap \in Nat
  <2>1. channel \in Seq(Nat) /\ Len(channel) <= LogCap
    BY DEF TypeOK
  <2> QED
    BY <2>1, Sizes
<1> DEFINE a == ClientSteps[pc]  b == LoggerSteps[logger]  n == Len(channel)
<1>4. StepsLeft = a + b + 2 * n
  BY DEF StepsLeft
<1>5. a \in 0..6 /\ b \in 0..2 /\ n \in Nat /\ n <= LogCap /\ LogCap \in Nat
  BY <1>1, <1>2, <1>3
<1> HIDE DEF a, b, n
<1>6. StepsLeft \in Nat /\ StepsLeft <= 2 * LogCap + 8
  BY <1>4, <1>5
<1> QED
  BY <1>1, <1>2, <1>3, <1>6

\* A chunk the client sends is one more in the channel, or dropped.
LEMMA SendAddsOne ==
    ASSUME TypeOK, TrySend
    PROVE  Len(channel') \in Nat /\ Len(channel') <= Len(channel) + 1
<1>1. Len(channel) \in Nat
  BY StepsBound
<1>2. CASE channel' = Append(channel, accepted + 1)
  <2>1. Len(channel') = Len(channel) + 1
    BY <1>2 DEF TypeOK
  <2> QED
    BY <1>1, <2>1
<1>3. CASE channel' = channel
  BY <1>1, <1>3
<1> QED
  BY <1>2, <1>3, Zenon DEF TrySend, logVars

\* Once the flag is up each step of the client is nearer to the end, although a read may
\* send one chunk more.
LEMMA ClientAdvances ==
    ASSUME TypeOK, Client, stop
    PROVE  StepsLeft' \in Int /\ StepsLeft' < StepsLeft
<1> DEFINE a == ClientSteps[pc]  aa == ClientSteps[pc']  b == LoggerSteps[logger]
           n == Len(channel)     nn == Len(channel')
<1>1. a \in Nat /\ b \in Nat /\ n \in Nat
  BY StepsBound
<1>2. StepsLeft = a + b + 2 * n /\ StepsLeft' = aa + b + 2 * nn
  <2>1. logger' = logger
    BY DEF Client, TestStop, ReadNothing, ReadFails, Read, ReadCut, ReadStale, CopyStale, Join,
           ReaderOnly, fileVars
  <2> QED
    BY <2>1, Zenon DEF StepsLeft
<1>3. CASE TestStop \/ ReadNothing \/ ReadFails \/ ReadStale \/ Join
  <2>1. nn = n
    BY <1>3 DEF TestStop, ReadNothing, ReadFails, ReadStale, Join, logVars
  <2>2. aa \in Nat /\ aa < a
    <3>1. CASE pc = "loop" /\ pc' \in {"ok", "join"}
      BY <3>1, StepsTables
    <3>2. CASE pc = "read" /\ pc' \in {"loop", "ok", "err", "copy"}
      BY <3>2, StepsTables
    <3>3. CASE pc = "join" /\ pc' \in {"ok", "err"}
      BY <3>3, StepsTables
    <3> QED
      BY <1>3, <3>1, <3>2, <3>3 DEF TestStop, ReadNothing, ReadFails, ReadStale, Join
  <2> HIDE DEF a, aa, b, n, nn
  <2> QED
    BY <1>1, <1>2, <2>1, <2>2
<1>4. CASE Read \/ ReadCut \/ CopyStale
  <2>1. /\ pc \in {"read", "copy"} /\ pc' = "loop" /\ TrySend
    BY <1>4 DEF Read, ReadCut, CopyStale, GotChunk
  <2>2. nn \in Nat /\ nn <= n + 1
    BY <2>1, SendAddsOne
  <2>3. aa = 2 /\ a \in {5, 6}
    BY <2>1, StepsTables
  <2> HIDE DEF a, aa, b, n, nn
  <2> QED
    BY <1>1, <1>2, <2>2, <2>3
<1> QED
  BY <1>3, <1>4 DEF Client

\* Each step of the log thread is nearer to the end.
LEMMA LoggerAdvances ==
    ASSUME TypeOK, Logger
    PROVE  StepsLeft' \in Int /\ StepsLeft' < StepsLeft
<1> DEFINE a == ClientSteps[pc]  b == LoggerSteps[logger]  bb == LoggerSteps[logger']
           n == Len(channel)     nn == Len(channel')
<1>1. a \in Nat /\ b \in Nat /\ n \in Nat
  BY StepsBound
<1>2. StepsLeft = a + b + 2 * n /\ StepsLeft' = a + bb + 2 * nn
  <2>1. pc' = pc
    BY DEF Logger, CreateLog, Receive, WriteChunk, LogEnd, LoggerOnly
  <2> QED
    BY <2>1, Zenon DEF StepsLeft
<1>3. CASE CreateLog \/ WriteChunk \/ LogEnd
  <2>1. nn = n
    BY <1>3 DEF CreateLog, WriteChunk, LogEnd
  <2>2. bb \in Nat /\ bb < b
    BY <1>3, StepsTables DEF CreateLog, WriteChunk, LogEnd
  <2> HIDE DEF a, b, bb, n, nn
  <2> QED
    BY <1>1, <1>2, <2>1, <2>2
<1>4. CASE Receive
  <2>1. channel # <<>> /\ channel' = Tail(channel)
    BY <1>4 DEF Receive
  <2>2. nn = n - 1
    BY <2>1 DEF TypeOK
  <2>3. b = 1 /\ bb = 2
    BY <1>4, StepsTables DEF Receive
  <2>4. nn \in Int
    BY <1>1, <2>2
  <2> HIDE DEF a, b, bb, n, nn
  <2> QED
    BY <1>1, <1>2, <2>2, <2>3, <2>4
<1> QED
  BY <1>3, <1>4 DEF Logger

\* The writer and the signal leave the client and its log thread as they are.
LEMMA OthersLeaveSteps ==
    ASSUME Writer \/ Signal \/ UNCHANGED vars
    PROVE  StepsLeft' = StepsLeft
<1>1. UNCHANGED <<pc, logger, channel>>
  BY DEF Writer, Write, Publish, SubbufStart, RingUnchanged, Signal, vars, logVars, fileVars
<1> QED
  BY <1>1, Zenon DEF StepsLeft

\* After a signal the client and its log thread have a bounded number of steps left,
\* whatever the writer does and wherever the signal finds them, for every size of the
\* channel: two for each chunk it holds and eight more.
THEOREM StopTakesFewSteps == Spec => StopSettles
<1> DEFINE Step == stop => /\ StepsLeft <= 2 * LogCap + 8
                           /\ StepsLeft' <= StepsLeft
                           /\ Client \/ Logger => StepsLeft' < StepsLeft
<1>1. ASSUME TypeOK, [Next]_vars PROVE [Step]_vars
  <2>1. StepsLeft \in Nat /\ StepsLeft <= 2 * LogCap + 8
    BY <1>1, StepsBound
  <2>2. stop /\ (Client \/ Logger) => StepsLeft' \in Int /\ StepsLeft' < StepsLeft
    BY <1>1, ClientAdvances, LoggerAdvances
  <2>3. stop => StepsLeft' <= StepsLeft
    BY <1>1, <2>1, <2>2, OthersLeaveSteps DEF Next
  <2> QED
    BY <2>1, <2>2, <2>3
<1> HIDE DEF Step
<1>2. Spec => [][Step]_vars
  BY TypeCorrect, <1>1, PTL DEF Spec
<1> QED
  BY <1>2 DEF StopSettles, Step

=============================================================================
