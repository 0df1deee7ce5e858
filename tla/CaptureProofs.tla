---------------------------- MODULE CaptureProofs ----------------------------
(* Theorems about Capture, for every set of CPUs, buffer and page size.     *)
EXTENDS Capture, EventSequences, SequenceTheorems, TLAPS

-----------------------------------------------------------------------------
(* Type correctness.                                                       *)

\* The state set-up leaves behind is well typed.
LEMMA InitType == Init => TypeOK
<1> SUFFICES ASSUME Init PROVE TypeOK
  OBVIOUS
<1>1. [c \in Cpus |-> <<>>] \in [Cpus -> Seq(Nat)]
  OBVIOUS
<1>2. [c \in Cpus |-> "unspawned"] \in [Cpus -> PCs]
  BY DEF PCs
<1>3. page = [c \in Cpus |-> <<>>]
  BY DEF Init
<1>4. \A c \in Cpus : Len(page[c]) <= PageCap
  <2> TAKE c \in Cpus
  <2>1. PageCap \in Nat /\ Len(<<>>) = 0
    BY CaptureAssumption
  <2>2. page[c] = <<>>
    BY <1>3
  <2> QED
    BY <2>1, <2>2
<1> QED
  BY <1>1, <1>2, <1>4 DEF Init, TypeOK, MPCs

\* The kernel's steps keep the types.
LEMMA KernelType ==
    ASSUME TypeOK, NEW c \in Cpus, Kernel(c)
    PROVE  TypeOK'
<1>1. CASE Reserve(c)
  BY <1>1 DEF TypeOK, Reserve, readerVars, mainVars
<1>2. CASE Refuse(c)
  BY <1>2 DEF TypeOK, Refuse, readerVars, mainVars
<1>3. CASE Commit(c)
  BY <1>3 DEF TypeOK, Commit, readerVars, mainVars
<1> QED
  BY <1>1, <1>2, <1>3 DEF Kernel

\* What a page read leaves in the thread and in the buffer are event sequences.
LEMMA ReadOnePageType ==
    ASSUME TypeOK, NEW c \in Cpus, ReadOnePage(c)
    PROVE  /\ page' \in [Cpus -> Seq(Nat)]
           /\ \A d \in Cpus : Len(page'[d]) <= PageCap
           /\ ring' \in [Cpus -> Seq(Nat)]
<1>1. PICK n \in 1..Len(ring[c]) :
        /\ n <= PageCap
        /\ page' = [page EXCEPT ![c] = SubSeq(ring[c], 1, n)]
        /\ ring' = [ring EXCEPT ![c] = SubSeq(@, n + 1, Len(@))]
  BY DEF ReadOnePage
<1>2. ring[c] \in Seq(Nat)
  BY DEF TypeOK
<1>3. /\ SubSeq(ring[c], 1, n) \in Seq(Nat) /\ Len(SubSeq(ring[c], 1, n)) = n
      /\ SubSeq(ring[c], n + 1, Len(ring[c])) \in Seq(Nat)
  BY <1>2
<1>4. \A d \in Cpus : Len(page'[d]) <= PageCap
  BY <1>1, <1>3 DEF TypeOK
<1> QED
  BY <1>1, <1>3, <1>4 DEF TypeOK

\* The steps of a reader thread keep the types.
LEMMA ReaderType ==
    ASSUME TypeOK, NEW c \in Cpus, Reader(c)
    PROVE  TypeOK'
<1> USE DEF Goto, kernelVars, mainVars
<1>1. CASE Open(c)
  BY <1>1 DEF TypeOK, Open, PCs
<1>2. CASE TestStop(c)
  BY <1>2 DEF TypeOK, TestStop, PCs
<1>3. CASE Poll(c)
  BY <1>3 DEF TypeOK, Poll, PCs
<1>4. CASE ReadSome(c)
  <2>1. pc' \in [Cpus -> PCs]
    BY <1>4 DEF TypeOK, ReadSome, PCs
  <2> QED
    BY <1>4, <2>1, ReadOnePageType DEF TypeOK, ReadSome
<1>5. CASE ReadNone(c)
  BY <1>5 DEF TypeOK, ReadNone, PCs
<1>6. CASE Write(c)
  <2>1. out[c] \o page[c] \in Seq(Nat)
    BY DEF TypeOK
  <2>2. pc' \in [Cpus -> PCs]
    BY <1>6 DEF TypeOK, Write, PCs
  <2>3. /\ page' \in [Cpus -> Seq(Nat)]
        /\ out' \in [Cpus -> Seq(Nat)]
    BY <1>6, <2>1 DEF TypeOK, Write
  <2>4. \A d \in Cpus : Len(page'[d]) <= PageCap
    <3>1. PageCap \in Nat /\ Len(<<>>) = 0
      BY CaptureAssumption
    <3> QED
      BY <1>6, <3>1 DEF TypeOK, Write
  <2> QED
    BY <1>6, <2>2, <2>3, <2>4 DEF TypeOK, Write
<1>7. CASE FailOpenOrPoll(c)
  BY <1>7 DEF TypeOK, FailOpenOrPoll, PCs
<1>8. CASE FailRead(c)
  <2>1. pc' \in [Cpus -> PCs]
    BY <1>8 DEF TypeOK, FailRead, PCs
  <2> QED
    BY <1>8, <2>1, ReadOnePageType DEF TypeOK, FailRead
<1>9. CASE FailWrite(c)
  <2>1. PICK n \in 0..Len(page[c]) :
          out' = [out EXCEPT ![c] = @ \o SubSeq(page[c], 1, n)]
    BY <1>9 DEF FailWrite
  <2>2. page[c] \in Seq(Nat) /\ out[c] \in Seq(Nat)
    BY DEF TypeOK
  <2>3. out[c] \o SubSeq(page[c], 1, n) \in Seq(Nat)
    BY <2>2
  <2> QED
    BY <1>9, <2>1, <2>3 DEF TypeOK, FailWrite, PCs
<1> QED
  BY <1>1, <1>2, <1>3, <1>4, <1>5, <1>6, <1>7, <1>8, <1>9 DEF Reader

\* The steps of the main thread keep the types.
LEMMA MainType ==
    ASSUME TypeOK, Main
    PROVE  TypeOK'
<1> USE DEF kernelVars, readerVars, mainVars
<1>1. CASE \E c \in Cpus : SpawnReader(c)
  BY <1>1 DEF TypeOK, SpawnReader, Goto, PCs
<1>2. CASE StartTracing \/ StartFails
  BY <1>2 DEF TypeOK, StartTracing, StartFails, MPCs
<1>3. CASE SeeSigint
  BY <1>3 DEF TypeOK, SeeSigint, MPCs
<1>4. CASE StopTracing \/ StopFails
  BY <1>4 DEF TypeOK, StopTracing, StopFails, MPCs
<1>5. CASE RaiseStop \/ Join
  BY <1>5 DEF TypeOK, RaiseStop, Join, MPCs
<1>6. CASE CheckOverruns \/ CheckFails
  BY <1>6 DEF TypeOK, CheckOverruns, CheckFails, MPCs
<1>7. CASE CleanupAndReturn
  BY <1>7 DEF TypeOK, CleanupAndReturn, MPCs
<1> QED
  BY <1>1, <1>2, <1>3, <1>4, <1>5, <1>6, <1>7 DEF Main

\* No handler, thread step or kernel step leaves the types.
LEMMA NextType ==
    ASSUME TypeOK, [Next]_vars
    PROVE  TypeOK'
<1>1. CASE Sigint
  BY <1>1 DEF TypeOK, Sigint, kernelVars, readerVars
<1>2. CASE UNCHANGED vars
  BY <1>2 DEF TypeOK, vars, kernelVars, readerVars, mainVars
<1> QED
  BY <1>1, <1>2, KernelType, ReaderType, MainType DEF Next, Exited

\* Every variable keeps its type.
THEOREM TypeCorrect == Spec => []TypeOK
<1> QED
  BY InitType, NextType, PTL DEF Spec

-----------------------------------------------------------------------------
(* The order of the shutdown.                                              *)

\* Before the capture starts nothing has been asked to stop.
LEMMA InitStop == Init => StopProtocol
BY DEF Init, StopProtocol

\* The kernel takes no part in stopping.
LEMMA KernelStop ==
    ASSUME TypeOK, StopProtocol, NEW c \in Cpus, Kernel(c)
    PROVE  StopProtocol'
BY DEF TypeOK, StopProtocol, Kernel, Reserve, Refuse, Commit, readerVars, mainVars

\* A reader starts to drain only when it has seen the flag.
LEMMA ReaderStop ==
    ASSUME TypeOK, StopProtocol, NEW c \in Cpus, Reader(c)
    PROVE  StopProtocol'
<1>1. /\ UNCHANGED <<mainVars, tracingOn, recording>>
      /\ \A d \in Cpus : d # c => pc'[d] = pc[d]
      /\ pc'[c] \in {"drain", "drain_write", "done"} => stop
  BY DEF TypeOK, StopProtocol, Reader, Open, TestStop, Poll, ReadSome, ReadNone, Write,
         FailOpenOrPoll, FailRead, FailWrite, ReadOnePage, Goto, kernelVars, mainVars
<1>2. pc[c] # "done"
  BY DEF TypeOK, Reader, Open, TestStop, Poll, ReadSome, ReadNone, Write,
         FailOpenOrPoll, FailRead, FailWrite
<1>3. \A d \in Cpus : pc[d] = "done" => pc'[d] = "done"
  BY <1>1, <1>2
<1>4. \A d \in Cpus : pc'[d] \in {"drain", "drain_write", "done"} => stop
  BY <1>1 DEF StopProtocol
<1> QED
  BY <1>1, <1>3, <1>4 DEF StopProtocol, mainVars

\* main() sets the flag only after stop() and the wait, and joins after the flag.
LEMMA MainStop ==
    ASSUME TypeOK, StopProtocol, DrainCovers, Main
    PROVE  StopProtocol'
<1> USE DEF kernelVars, readerVars
<1>1. CASE \E c \in Cpus : SpawnReader(c)
  BY <1>1 DEF TypeOK, StopProtocol, SpawnReader, Goto, mainVars
<1>2. CASE StartTracing \/ StartFails \/ SeeSigint
  BY <1>2 DEF TypeOK, StopProtocol, StartTracing, StartFails, SeeSigint
<1>3. CASE StopTracing \/ StopFails
  BY <1>3 DEF TypeOK, StopProtocol, StopTracing, StopFails
<1>4. CASE RaiseStop
  BY <1>4 DEF TypeOK, StopProtocol, RaiseStop, Settled
<1>5. CASE Join
  BY <1>5 DEF TypeOK, StopProtocol, Join
<1>6. CASE CheckOverruns \/ CheckFails \/ CleanupAndReturn
  <2>1. /\ mpc \in {"check", "cleanup"}
        /\ mpc' \in {"cleanup", "ok", "err"}
        /\ UNCHANGED <<tracingOn, recording, pc, stop, stopOk>>
    BY <1>6 DEF CheckOverruns, CheckFails, CleanupAndReturn
  <2> QED
    BY <2>1 DEF StopProtocol
<1> QED
  BY <1>1, <1>2, <1>3, <1>4, <1>5, <1>6 DEF Main

\* No step breaks the order in which the capture stops.
LEMMA NextStop ==
    ASSUME TypeOK, StopProtocol, DrainCovers, [Next]_vars
    PROVE  StopProtocol'
<1>1. CASE Sigint
  BY <1>1 DEF StopProtocol, Sigint, kernelVars, readerVars
<1>2. CASE UNCHANGED vars
  BY <1>2 DEF StopProtocol, vars, kernelVars, readerVars, mainVars
<1> QED
  BY <1>1, <1>2, KernelStop, ReaderStop, MainStop DEF Next, Exited

-----------------------------------------------------------------------------
(* What a drained reader leaves behind.                                    *)

\* No thread has drained anything at the start.
LEMMA InitDrained == Init => DrainedStaysDrained
BY DEF Init, DrainedStaysDrained

\* Once a thread has seen the flag and an empty buffer, no event arrives for it.
LEMMA NextDrained ==
    ASSUME TypeOK, StopProtocol, DrainedStaysDrained, [Next]_vars
    PROVE  DrainedStaysDrained'
<1> USE DEF TypeOK, DrainedStaysDrained
<1>1. ASSUME NEW c \in Cpus, Kernel(c)
      PROVE  DrainedStaysDrained'
  BY <1>1 DEF StopProtocol, Kernel, Reserve, Refuse, Commit, readerVars, mainVars
<1>2. ASSUME NEW c \in Cpus, Reader(c)
      PROVE  DrainedStaysDrained'
  <2> USE DEF Goto, kernelVars, mainVars
  <2>1. CASE Open(c) \/ TestStop(c) \/ Poll(c) \/ FailOpenOrPoll(c)
    BY <2>1 DEF Open, TestStop, Poll, FailOpenOrPoll
  <2>2. CASE ReadSome(c)
    BY <2>2 DEF ReadSome, ReadOnePage
  <2>3. CASE ReadNone(c)
    BY <2>3 DEF ReadNone, StopProtocol
  <2>4. CASE Write(c)
    BY <2>4 DEF Write
  <2>5. CASE FailRead(c)
    BY <2>5 DEF FailRead, ReadOnePage
  <2>6. CASE FailWrite(c)
    BY <2>6 DEF FailWrite
  <2> QED
    BY <1>2, <2>1, <2>2, <2>3, <2>4, <2>5, <2>6 DEF Reader
<1>3. CASE Main
  <2> USE DEF kernelVars, readerVars
  <2>1. CASE \E c \in Cpus : SpawnReader(c)
    BY <2>1 DEF SpawnReader, Goto, mainVars
  <2>2. CASE StartTracing \/ StartFails \/ SeeSigint \/ RaiseStop \/ Join
    BY <2>2 DEF StartTracing, StartFails, SeeSigint, RaiseStop, Join
  <2>3. CASE StopTracing \/ StopFails
    BY <2>3 DEF StopTracing, StopFails
  <2>4. CASE CheckOverruns \/ CheckFails \/ CleanupAndReturn
    BY <2>4 DEF CheckOverruns, CheckFails, CleanupAndReturn
  <2> QED
    BY <1>3, <2>1, <2>2, <2>3, <2>4 DEF Main
<1>4. CASE Sigint
  BY <1>4 DEF Sigint, kernelVars, readerVars
<1>5. CASE UNCHANGED vars
  BY <1>5 DEF vars, kernelVars, readerVars, mainVars
<1> QED
  BY <1>1, <1>2, <1>3, <1>4, <1>5 DEF Next, Exited

-----------------------------------------------------------------------------
(* No event is lost, duplicated or reordered on its way to the file.       *)

\* File, page and buffer in a row are a sequence of events.
LEMMA TrailType ==
    ASSUME TypeOK, NEW c \in Cpus
    PROVE  Trail(c) \in Seq(Nat)
<1>1. out[c] \in Seq(Nat) /\ page[c] \in Seq(Nat) /\ ring[c] \in Seq(Nat)
  BY DEF TypeOK
<1> QED
  BY <1>1 DEF Trail

\* The account of a CPU depends on its trail and on its counters alone.
LEMMA SameAccount ==
    ASSUME NEW c \in Cpus, Account(c), Trail(c)' = Trail(c), UNCHANGED <<fired, lost, recording>>
    PROVE  Account(c)'
BY DEF Account, InFlight

\* A page read moves events from the buffer to the thread: the trail is the same.
LEMMA ReadKeepsTrail ==
    ASSUME TypeOK, NEW c \in Cpus, ReadOnePage(c), page[c] = <<>>, out' = out,
           NEW d \in Cpus
    PROVE  Trail(d)' = Trail(d)
<1>1. PICK n \in 1..Len(ring[c]) :
        /\ page' = [page EXCEPT ![c] = SubSeq(ring[c], 1, n)]
        /\ ring' = [ring EXCEPT ![c] = SubSeq(@, n + 1, Len(@))]
  BY DEF ReadOnePage
<1>2. CASE d # c
  BY <1>1, <1>2 DEF TypeOK, Trail
<1>3. CASE d = c
  <2> DEFINE p == SubSeq(ring[c], 1, n)
             r == SubSeq(ring[c], n + 1, Len(ring[c]))
  <2>1. ring[c] \in Seq(Nat) /\ out[c] \in Seq(Nat)
    BY DEF TypeOK
  <2>2. p \in Seq(Nat) /\ r \in Seq(Nat)
    BY <2>1
  <2>3. p \o r = ring[c]
    BY <2>1, CutAndJoin
  <2>4. Trail(c)' = (out[c] \o p) \o r
    BY <1>1 DEF TypeOK, Trail
  <2>5. Trail(c) = out[c] \o ring[c]
    BY <2>1, ConcatEmptySeq DEF Trail
  <2> HIDE DEF p, r
  <2>6. (out[c] \o p) \o r = out[c] \o (p \o r)
    BY <2>1, <2>2, JoinAssociates
  <2> QED
    BY <1>3, <2>3, <2>4, <2>5, <2>6
<1> QED
  BY <1>2, <1>3

\* A write moves the page to the file: the trail is the same.
LEMMA WriteKeepsTrail ==
    ASSUME TypeOK, NEW c \in Cpus, Write(c), NEW d \in Cpus
    PROVE  Trail(d)' = Trail(d)
<1>1. /\ out' = [out EXCEPT ![c] = @ \o page[c]]
      /\ page' = [page EXCEPT ![c] = <<>>]
      /\ ring' = ring
  BY DEF Write, kernelVars
<1>2. CASE d # c
  BY <1>1, <1>2 DEF TypeOK, Trail
<1>3. CASE d = c
  <2>1. out[c] \in Seq(Nat) /\ page[c] \in Seq(Nat)
    BY DEF TypeOK
  <2>2. out[c] \o page[c] \in Seq(Nat)
    BY <2>1
  <2>3. Trail(c)' = ((out[c] \o page[c]) \o <<>>) \o ring[c]
    BY <1>1 DEF TypeOK, Trail
  <2>4. (out[c] \o page[c]) \o <<>> = out[c] \o page[c]
    BY <2>2, ConcatEmptySeq
  <2> QED
    BY <1>3, <2>3, <2>4 DEF Trail
<1> QED
  BY <1>2, <1>3

\* A committed event goes to the end of the trail.
LEMMA CommitExtendsTrail ==
    ASSUME TypeOK, NEW c \in Cpus, Commit(c)
    PROVE  Trail(c)' = Append(Trail(c), fired[c])
<1>1. /\ ring[c] \in Seq(Nat)
      /\ out[c] \o page[c] \in Seq(Nat)
      /\ fired[c] \in Nat
      /\ <<fired[c]>> \in Seq(Nat)
  BY DEF TypeOK
<1>2. ring'[c] = ring[c] \o <<fired[c]>>
  BY <1>1, AppendIsConcat DEF Commit, TypeOK
<1>3. Trail(c)' = (out[c] \o page[c]) \o (ring[c] \o <<fired[c]>>)
  BY <1>2 DEF Commit, Trail, readerVars
<1>4. @ = Trail(c) \o <<fired[c]>>
  BY <1>1, JoinAssociates DEF Trail
<1>5. @ = Append(Trail(c), fired[c])
  BY <1>1, TrailType, AppendIsConcat
<1> QED
  BY <1>3, <1>4, <1>5

\* The kernel's steps keep the account of every CPU.
LEMMA KernelAccount ==
    ASSUME TypeOK, NEW c \in Cpus, Kernel(c), NEW d \in Cpus, Account(d)
    PROVE  Account(d)'
<1>1. /\ Trail(d) \in Seq(Nat)
      /\ Len(Trail(d)) \in Nat
      /\ fired[d] \in Nat /\ lost[d] \in Nat
  BY TrailType, LenProperties DEF TypeOK
<1>2. CASE Reserve(c)
  <2>1. Trail(d)' = Trail(d)
    BY <1>2 DEF Reserve, Trail, readerVars
  <2>2. fired'[d] = fired[d] + InFlight(d)' - InFlight(d)
    BY <1>2 DEF Reserve, InFlight, TypeOK
  <2>3. lost' = lost
    BY <1>2 DEF Reserve
  <2>4. InFlight(d) \in Nat /\ InFlight(d)' \in Nat
    BY DEF InFlight
  <2> QED
    BY <1>1, <2>1, <2>2, <2>3, <2>4 DEF Account
<1>3. CASE Refuse(c)
  <2>1. Trail(d)' = Trail(d) /\ InFlight(d)' = InFlight(d)
    BY <1>3 DEF Refuse, Trail, InFlight, readerVars
  <2>2. /\ lost'[d] \in {lost[d], lost[d] + 1}
        /\ fired'[d] = fired[d] + lost'[d] - lost[d]
    BY <1>1, <1>3 DEF Refuse, TypeOK
  <2>3. InFlight(d) \in Nat
    BY DEF InFlight
  <2>4. \A i \in 1..Len(Trail(d)) : Trail(d)[i] \in i..(i + lost'[d])
    BY <1>1, <2>2 DEF Account
  <2> QED
    BY <1>1, <2>1, <2>2, <2>3, <2>4 DEF Account
<1>4. CASE Commit(c)
  <2>1. UNCHANGED <<fired, lost>> /\ recording' = recording \ {c} /\ c \in recording
    BY <1>4 DEF Commit
  <2>2. CASE d # c
    <3>1. Trail(d)' = Trail(d) /\ InFlight(d)' = InFlight(d)
      BY <1>4, <2>2 DEF Commit, Trail, InFlight, TypeOK, readerVars
    <3> QED
      BY <2>1, <3>1 DEF Account
  <2>3. CASE d = c
    <3> DEFINE t == Trail(d)
               u == Append(t, fired[d])
    <3>1. Trail(d)' = u
      BY <1>4, <2>3, CommitExtendsTrail
    <3>2. InFlight(d) = 1 /\ InFlight(d)' = 0
      BY <2>1, <2>3 DEF InFlight
    <3>3. /\ Len(u) = Len(t) + 1
          /\ \A i \in 1..Len(t) : u[i] = t[i]
          /\ u[Len(u)] = fired[d]
      BY <1>1
    <3>4. fired[d] = Len(u) + lost[d]
      BY <1>1, <3>2, <3>3 DEF Account
    <3>5. /\ \A i, j \in 1..Len(t) : i < j => t[i] < t[j]
          /\ \A i \in 1..Len(t) : t[i] \in i..(i + lost[d])
      BY DEF Account
    <3> HIDE DEF t, u
    <3>6. \A i, j \in 1..Len(u) : i < j => u[i] < u[j]
      <4> SUFFICES ASSUME NEW i \in 1..Len(u), NEW j \in 1..Len(u), i < j
                   PROVE  u[i] < u[j]
        OBVIOUS
      <4>1. Len(t) \in Nat
        BY <1>1 DEF t
      <4>2. i \in 1..Len(t) /\ u[i] = t[i]
        BY <3>3, <4>1
      <4>3. CASE j \in 1..Len(t)
        BY <3>3, <3>5, <4>2, <4>3
      <4>4. CASE j = Len(u)
        BY <1>1, <3>3, <3>4, <3>5, <4>1, <4>2, <4>4
      <4> QED
        BY <3>3, <4>1, <4>3, <4>4
    <3>7. \A i \in 1..Len(u) : u[i] \in i..(i + lost[d])
      <4> SUFFICES ASSUME NEW i \in 1..Len(u) PROVE u[i] \in i..(i + lost[d])
        OBVIOUS
      <4>1. Len(t) \in Nat
        BY <1>1 DEF t
      <4>2. CASE i \in 1..Len(t)
        BY <3>3, <3>5, <4>2
      <4>3. CASE i = Len(u)
        BY <1>1, <3>3, <3>4, <4>1, <4>3
      <4> QED
        BY <3>3, <4>1, <4>2, <4>3
    <3>8. Len(u) + lost[d] + 0 = fired[d]
      BY <1>1, <3>3, <3>4 DEF t
    <3> QED
      BY <2>1, <3>1, <3>2, <3>6, <3>7, <3>8 DEF Account
  <2> QED
    BY <2>2, <2>3
<1> QED
  BY <1>2, <1>3, <1>4 DEF Kernel

\* A reader's steps keep the account of every CPU whose reader has not failed.
LEMMA ReaderAccount ==
    ASSUME TypeOK, DrainedStaysDrained, NEW c \in Cpus, Reader(c),
           NEW d \in Cpus, pc'[d] # "failed", Account(d)
    PROVE  Account(d)'
<1>1. UNCHANGED <<fired, lost, recording>>
  BY DEF Reader, Open, TestStop, Poll, ReadSome, ReadNone, Write, FailOpenOrPoll,
         FailRead, FailWrite, kernelVars
<1>2. SUFFICES Trail(d)' = Trail(d)
  BY <1>1, SameAccount
<1>3. CASE Open(c) \/ TestStop(c) \/ Poll(c) \/ ReadNone(c) \/ FailOpenOrPoll(c)
  BY <1>3 DEF Open, TestStop, Poll, ReadNone, FailOpenOrPoll, Trail, kernelVars
<1>4. CASE ReadSome(c)
  <2>1. page[c] = <<>>
    BY <1>4 DEF ReadSome, DrainedStaysDrained
  <2> QED
    BY <1>4, <2>1, ReadKeepsTrail DEF ReadSome
<1>5. CASE Write(c)
  BY <1>5, WriteKeepsTrail
<1>6. CASE FailRead(c)
  <2>1. d # c
    BY <1>6 DEF FailRead, Goto, TypeOK
  <2> QED
    BY <1>6, <2>1 DEF FailRead, ReadOnePage, Trail, TypeOK
<1>7. CASE FailWrite(c)
  <2>1. d # c
    BY <1>7 DEF FailWrite, Goto, TypeOK
  <2> QED
    BY <1>7, <2>1 DEF FailWrite, Trail, TypeOK, kernelVars
<1> QED
  BY <1>3, <1>4, <1>5, <1>6, <1>7 DEF Reader

\* The main thread's steps keep the accounts; cleanup() clears buffers that the
\* readers of a session without errors have already drained.
LEMMA MainAccount ==
    ASSUME TypeOK, StopProtocol, DrainedStaysDrained, Main, NEW d \in Cpus, Account(d)
    PROVE  Account(d)'
<1> USE DEF kernelVars, readerVars
<1>1. UNCHANGED <<fired, lost, recording, page, out>>
  BY DEF Main, SpawnReader, StartTracing, StartFails, SeeSigint, StopTracing, StopFails,
         RaiseStop, Join, CheckOverruns, CheckFails, CleanupAndReturn
<1>2. ring'[d] = ring[d]
  <2>1. CASE CleanupAndReturn
    BY <2>1 DEF CleanupAndReturn, StopProtocol, DrainedStaysDrained
  <2>2. CASE ~CleanupAndReturn
    BY <2>2 DEF Main, SpawnReader, StartTracing, StartFails, SeeSigint, StopTracing,
                StopFails, RaiseStop, Join, CheckOverruns, CheckFails
  <2> QED
    BY <2>1, <2>2
<1> QED
  BY <1>1, <1>2, SameAccount DEF Trail

\* With no event there is nothing to account for.
LEMMA InitConservation == Init => Conservation
<1> SUFFICES ASSUME Init, NEW c \in Cpus PROVE Account(c)
  BY DEF Conservation
<1>1. Trail(c) = <<>>
  BY DEF Init, Trail
<1> QED
  BY <1>1 DEF Init, Account, InFlight

\* Only the return of capture() and the failure of a reader end a claim.
LEMMA NextConservation ==
    ASSUME TypeOK, StopProtocol, DrainedStaysDrained, Conservation, [Next]_vars
    PROVE  Conservation'
<1> SUFFICES ASSUME NEW d \in Cpus, pc'[d] # "failed", mpc' # "err"
             PROVE  Account(d)'
  BY DEF Conservation
<1>1. CASE UNCHANGED vars
  BY <1>1, SameAccount
     DEF Conservation, Trail, vars, kernelVars, readerVars, mainVars
<1>2. ASSUME NEW c \in Cpus, Kernel(c) PROVE Account(d)'
  <2>1. pc' = pc /\ mpc' = mpc
    BY <1>2 DEF Kernel, Reserve, Refuse, Commit, readerVars, mainVars
  <2> QED
    BY <1>2, <2>1, KernelAccount DEF Conservation
<1>3. ASSUME NEW c \in Cpus, Reader(c) PROVE Account(d)'
  <2>1. pc[d] # "failed" /\ mpc # "err"
    BY <1>3 DEF Reader, Returned, Open, TestStop, Poll, ReadSome, ReadNone, Write,
                FailOpenOrPoll, FailRead, FailWrite, Goto, TypeOK
  <2> QED
    BY <1>3, <2>1, ReaderAccount DEF Conservation
<1>4. CASE Main
  <2>1. pc[d] # "failed" /\ mpc # "err"
    BY <1>4 DEF Main, SpawnReader, StartTracing, StartFails, SeeSigint, StopTracing,
                StopFails, RaiseStop, Join, CheckOverruns, CheckFails, CleanupAndReturn,
                Goto, TypeOK, readerVars
  <2> QED
    BY <1>4, <2>1, MainAccount DEF Conservation
<1>5. CASE Sigint
  BY <1>5, SameAccount DEF Sigint, Conservation, Trail, kernelVars, readerVars
<1> QED
  BY <1>1, <1>2, <1>3, <1>4, <1>5 DEF Next, Exited

-----------------------------------------------------------------------------
(* The verdict.                                                            *)

\* Where refused events are counted, a verdict without a loss means that there was none.
LossesSeen ==
    LossesAreCounted /\ (mpc = "ok" \/ (mpc = "cleanup" /\ ~lossSeen))
        => \A c \in Cpus : lost[c] = 0

\* The inductive invariant behind the safety properties.
Inductive == /\ TypeOK
             /\ StopProtocol
             /\ Conservation
             /\ DrainedStaysDrained
             /\ LossesSeen

\* Nothing is lost at the start.
LEMMA InitLosses == Init => LossesSeen
BY DEF Init, LossesSeen

\* Where losses are counted, a check that reports none has missed none.
LEMMA NextLosses ==
    ASSUME TypeOK, StopProtocol, LossesSeen, [Next]_vars
    PROVE  LossesSeen'
<1> SUFFICES ASSUME LossesAreCounted
             PROVE  LossesSeen'
  BY DEF LossesSeen, LossesAreCounted, MayFail
<1>1. CASE UNCHANGED vars
  BY <1>1 DEF LossesSeen, vars, kernelVars, readerVars, mainVars
<1>2. ASSUME NEW c \in Cpus, Kernel(c) PROVE LossesSeen'
  <2>1. CASE Refuse(c)
    BY <2>1 DEF Refuse, StopProtocol, LossesSeen, mainVars
  <2>2. CASE Reserve(c) \/ Commit(c)
    BY <2>2 DEF Reserve, Commit, LossesSeen, mainVars
  <2> QED
    BY <1>2, <2>1, <2>2 DEF Kernel
<1>3. ASSUME NEW c \in Cpus, Reader(c) PROVE LossesSeen'
  <2>1. UNCHANGED <<lost, mpc, lossSeen>>
    BY <1>3 DEF Reader, Open, TestStop, Poll, ReadSome, ReadNone, Write, FailOpenOrPoll,
                FailRead, FailWrite, kernelVars, mainVars
  <2> QED
    BY <2>1 DEF LossesSeen
<1>4. CASE Main
  <2>1. CASE CheckOverruns
    <3>1. lossSeen' = \E c \in Cpus : lost[c] > 0
      BY <2>1 DEF CheckOverruns, LossesAreCounted, Overrun
    <3>2. lost' = lost /\ mpc' = "cleanup"
      BY <2>1 DEF CheckOverruns, kernelVars
    <3> QED
      BY <3>1, <3>2 DEF LossesSeen, TypeOK
  <2>2. CASE CleanupAndReturn
    BY <2>2 DEF CleanupAndReturn, LossesSeen
  <2>3. CASE ~CheckOverruns /\ ~CleanupAndReturn
    <3>1. mpc' # "ok" /\ mpc' # "cleanup"
      BY <1>4, <2>3 DEF Main, SpawnReader, StartTracing, StartFails, SeeSigint,
                        StopTracing, StopFails, RaiseStop, Join, CheckFails, mainVars
    <3> QED
      BY <3>1 DEF LossesSeen
  <2> QED
    BY <2>1, <2>2, <2>3
<1>5. CASE Sigint
  BY <1>5 DEF Sigint, LossesSeen, kernelVars
<1> QED
  BY <1>1, <1>2, <1>3, <1>4, <1>5 DEF Next, Exited

\* The invariant is inductive when the drain outlasts an event being recorded.
LEMMA InductiveIsInvariant ==
    ASSUME DrainCovers
    PROVE  Spec => []Inductive
<1>1. Init => Inductive
  BY InitType, InitStop, InitDrained, InitConservation, InitLosses DEF Inductive
<1>2. Inductive /\ [Next]_vars => Inductive'
  BY NextType, NextStop, NextDrained, NextConservation, NextLosses DEF Inductive
<1> QED
  BY <1>1, <1>2, PTL DEF Spec

\* The drain protocol: drained buffers stay empty, as long as an event that was
\* being recorded when tracing stopped lands within drain_ms.
THEOREM DrainIsFinal ==
    ASSUME DrainCovers
    PROVE  Spec => []DrainedStaysDrained
<1>1. Inductive => DrainedStaysDrained
  BY DEF Inductive
<1> QED
  BY <1>1, InductiveIsInvariant, PTL

\* Whatever fails and whatever is refused, the files of live readers account for
\* every event, in order.
THEOREM NothingUnaccounted ==
    ASSUME DrainCovers
    PROVE  Spec => []Conservation
<1>1. Inductive => Conservation
  BY DEF Inductive
<1> QED
  BY <1>1, InductiveIsInvariant, PTL

\* Once every reader has drained and stop() has succeeded, the file is the whole trail.
LEMMA FileIsTrail ==
    ASSUME Inductive, mpc = "ok", NEW c \in Cpus
    PROVE  pc[c] = "done" /\ Trail(c) = out[c] /\ Account(c) /\ InFlight(c) = 0
<1> USE DEF Inductive
<1>1. pc[c] = "done" /\ page[c] = <<>> /\ ring[c] = <<>> /\ c \notin recording
  BY DEF StopProtocol, DrainedStaysDrained
<1>2. out[c] \in Seq(Nat)
  BY DEF TypeOK
<1>3. Trail(c) = out[c]
  BY <1>1, <1>2, ConcatEmptySeq DEF Trail
<1>4. Account(c)
  BY <1>1 DEF Conservation
<1> QED
  BY <1>1, <1>3, <1>4 DEF InFlight

\* Under the invariant Ok means complete.
LEMMA InductiveGivesSuccess ==
    ASSUME Inductive
    PROVE  SuccessIsComplete
<1> SUFFICES ASSUME mpc = "ok", NEW c \in Cpus
             PROVE  /\ pc[c] = "done"
                    /\ Len(out[c]) + lost[c] = fired[c]
                    /\ \A i, j \in 1..Len(out[c]) : i < j => out[c][i] < out[c][j]
                    /\ lost[c] = 0 => out[c] = [i \in 1..fired[c] |-> i]
  BY DEF SuccessIsComplete
<1>1. pc[c] = "done" /\ Trail(c) = out[c] /\ Account(c) /\ InFlight(c) = 0
  BY FileIsTrail
<1>2. out[c] \in Seq(Nat) /\ Len(out[c]) \in Nat /\ fired[c] \in Nat /\ lost[c] \in Nat
  BY LenProperties DEF Inductive, TypeOK
<1>3. Len(out[c]) + lost[c] = fired[c]
  BY <1>1, <1>2 DEF Account
<1>4. \A i, j \in 1..Len(out[c]) : i < j => out[c][i] < out[c][j]
  BY <1>1 DEF Account
<1>5. ASSUME lost[c] = 0 PROVE out[c] = [i \in 1..fired[c] |-> i]
  <2>1. \A i \in 1..Len(out[c]) : out[c][i] = i
    BY <1>1, <1>2, <1>5 DEF Account
  <2>2. out[c] = [i \in 1..Len(out[c]) |-> out[c][i]]
    BY <1>2, LenProperties
  <2>3. Len(out[c]) = fired[c]
    BY <1>2, <1>3, <1>5
  <2> QED
    BY <2>1, <2>2, <2>3
<1> QED
  BY <1>1, <1>3, <1>4, <1>5

\* Ok(()) means that each file holds, once and in order, what the kernel took of its CPU,
\* and everything that fired where nothing was refused: for any number of CPUs, any
\* buffer and page size, any of the modelled failures, and whichever line of the stats
\* files counts a refused event.
THEOREM SuccessMeansComplete ==
    ASSUME DrainCovers
    PROVE  Spec => []SuccessIsComplete
<1>1. Inductive => SuccessIsComplete
  BY InductiveGivesSuccess
<1> QED
  BY <1>1, InductiveIsInvariant, PTL

\* From the check on no thread and no event is left that could change a number.
LEMMA NothingAfterTheCheck ==
    ASSUME Inductive, [Next]_vars, mpc \in {"check", "cleanup"}
    PROVE  Final
<1> USE DEF Inductive
<1>1. ~tracingOn /\ recording = {} /\ \A c \in Cpus : pc[c] = "done" /\ ring[c] = <<>>
  BY DEF StopProtocol, DrainedStaysDrained
<1>2. ASSUME NEW c \in Cpus, Kernel(c) PROVE Final
  BY <1>1, <1>2 DEF Kernel, Reserve, Refuse, Commit
<1>3. ASSUME NEW c \in Cpus, Reader(c) PROVE Final
  BY <1>1, <1>3 DEF Reader, Open, TestStop, Poll, ReadSome, ReadNone, Write,
                    FailOpenOrPoll, FailRead, FailWrite
<1>4. CASE CleanupAndReturn
  <2>1. ring' = ring
    BY <1>1, <1>4 DEF CleanupAndReturn, TypeOK
  <2> QED
    BY <1>4, <2>1 DEF CleanupAndReturn, Final, readerVars
<1>5. CASE CheckOverruns \/ CheckFails
  BY <1>5 DEF CheckOverruns, CheckFails, Final, kernelVars, readerVars
<1>6. CASE Main /\ ~CleanupAndReturn /\ ~(CheckOverruns \/ CheckFails)
  BY <1>6 DEF Main, SpawnReader, StartTracing, StartFails, SeeSigint, StopTracing, StopFails,
              RaiseStop, Join
<1>7. CASE Sigint \/ UNCHANGED vars
  BY <1>7 DEF Sigint, Final, vars, kernelVars, readerVars
<1> QED
  BY <1>2, <1>3, <1>4, <1>5, <1>6, <1>7 DEF Next, Exited

\* The numbers the verdict rests on are final when check_overruns reads them, and what
\* cleanup() clears is empty, whatever fails and whichever line of the stats is read.
THEOREM VerdictIsFinal ==
    ASSUME DrainCovers
    PROVE  Spec => CheckIsFinal
<1>1. Inductive /\ [Next]_vars => [(mpc \in {"check", "cleanup"}) => Final]_vars
  BY NothingAfterTheCheck
<1> QED
  BY <1>1, InductiveIsInvariant, PTL DEF Spec, CheckIsFinal

\* stop(), the flag, the drains, the joins, the overrun check and the cleanup come
\* in this order, whatever fails and whenever Ctrl-C arrives.
THEOREM ShutdownInOrder ==
    ASSUME DrainCovers
    PROVE  Spec => []StopProtocol
<1>1. Inductive => StopProtocol
  BY DEF Inductive
<1> QED
  BY <1>1, InductiveIsInvariant, PTL

-----------------------------------------------------------------------------
(* The drain ends: how much a reader can still have to do.                 *)

\* The table of StepsAt, entry by entry.
LEMMA StepsTable ==
    /\ StepsAt["unspawned"] = 0 /\ StepsAt["open"] = 3 /\ StepsAt["loop"] = 2
    /\ StepsAt["poll"] = 5 /\ StepsAt["read"] = 4 /\ StepsAt["write"] = 3
    /\ StepsAt["drain"] = 1 /\ StepsAt["drain_write"] = 2
    /\ StepsAt["done"] = 0 /\ StepsAt["failed"] = 0
BY DEF StepsAt

\* Every place of a thread is at most five steps from its end.
LEMMA StepsBound == \A l \in PCs : StepsAt[l] \in 0..5
BY StepsTable DEF PCs

\* What is in the buffer of CPU c or on its way there.
Load(c) == Len(ring[c]) + InFlight(c)

LEMMA LoadType ==
    ASSUME TypeOK, NEW c \in Cpus
    PROVE  Len(ring[c]) \in Nat /\ InFlight(c) \in {0, 1} /\ Load(c) \in Nat
<1>1. ring[c] \in Seq(Nat)
  BY DEF TypeOK
<1>2. Len(ring[c]) \in Nat
  BY <1>1, LenProperties
<1>3. InFlight(c) \in {0, 1}
  <2>1. CASE c \in recording
    BY <2>1, Zenon DEF InFlight
  <2>2. CASE c \notin recording
    BY <2>2, Zenon DEF InFlight
  <2> QED
    BY <2>1, <2>2
<1> QED
  BY <1>2, <1>3 DEF Load

\* The same after a step.
LEMMA LoadTypeNext ==
    ASSUME TypeOK', NEW c \in Cpus
    PROVE  Load(c)' \in Nat
<1>1. ring'[c] \in Seq(Nat)
  BY DEF TypeOK
<1>2. Len(ring'[c]) \in Nat
  BY <1>1, LenProperties
<1>3. InFlight(c)' \in {0, 1}
  <2>1. CASE c \in recording'
    BY <2>1, Zenon DEF InFlight
  <2>2. CASE c \notin recording'
    BY <2>2, Zenon DEF InFlight
  <2> QED
    BY <2>1, <2>2
<1> QED
  BY <1>2, <1>3 DEF Load

\* The load of a CPU depends on its buffer and on its event under way alone.
LEMMA SameLoad ==
    ASSUME NEW d \in Cpus, ring'[d] = ring[d], d \in recording' <=> d \in recording
    PROVE  Load(d)' = Load(d) /\ InFlight(d)' = InFlight(d)
<1>1. InFlight(d)' = InFlight(d)
  BY Zenon DEF InFlight
<1> QED
  BY <1>1, Zenon DEF Load

\* The shutdown as far as the drain needs it, whether or not what is on its way at
\* stop() lands within drain_ms: after a stop() that succeeded tracing is off.
OffAfterStop ==
    /\ stop => mpc \in {"join", "check", "cleanup", "ok", "err"}
    /\ (mpc = "sleep" \/ stop) /\ stopOk => ~tracingOn

\* The inductive invariant of the drain.
DrainInv == TypeOK /\ OffAfterStop /\ \A c \in Cpus : Load(c) <= BufCap

\* The kernel reserves only while tracing and only what fits; a commit adds nothing.
LEMMA KernelLoad ==
    ASSUME TypeOK, NEW c \in Cpus, Kernel(c), NEW d \in Cpus
    PROVE  /\ ~tracingOn => Load(d)' = Load(d)
           /\ Load(d) <= BufCap => Load(d)' <= BufCap
           /\ pc' = pc
<1>0. /\ Len(ring[c]) \in Nat /\ Load(d) \in Nat /\ BufCap \in Nat
      /\ ring[c] \in Seq(Nat) /\ fired[c] \in Nat /\ ring \in [Cpus -> Seq(Nat)]
  BY LoadType, CaptureAssumption DEF TypeOK
<1>1. CASE Reserve(c)
  <2>1. tracingOn /\ ring' = ring /\ recording' = recording \cup {c} /\ pc' = pc
    BY <1>1 DEF Reserve, readerVars
  <2>2. CASE d = c
    <3>1. Len(ring[c]) < BufCap
      BY <1>1, Zenon DEF Reserve, Fits
    <3>2. InFlight(c)' = 1
      BY <2>1, Zenon DEF InFlight
    <3>3. Load(c)' = Len(ring[c]) + 1
      BY <2>1, <3>2, Zenon DEF Load
    <3>4. Load(c)' <= BufCap
      BY <1>0, <3>1, <3>3
    <3> QED
      BY <2>1, <2>2, <3>4
  <2>3. CASE d # c
    BY <2>1, <2>3, SameLoad
  <2> QED
    BY <2>1, <2>2, <2>3
<1>2. CASE Refuse(c)
  <2>1. UNCHANGED <<ring, recording, pc>>
    BY <1>2 DEF Refuse, readerVars
  <2> QED
    BY <2>1, SameLoad
<1>3. CASE Commit(c)
  <2>1. /\ c \in recording /\ recording' = recording \ {c} /\ pc' = pc
        /\ ring' = [ring EXCEPT ![c] = Append(@, fired[c])]
    BY <1>3 DEF Commit, readerVars
  <2>2. CASE d = c
    <3>1. ring'[c] = Append(ring[c], fired[c])
      BY <1>0, <2>1
    <3>2. Len(ring'[c]) = Len(ring[c]) + 1
      <4>1. ring[c] \in Seq(Nat) /\ fired[c] \in Nat
        BY <1>0
      <4>2. Len(Append(ring[c], fired[c])) = Len(ring[c]) + 1
        BY <4>1, AppendProperties, Zenon
      <4> QED
        BY <3>1, <4>2, Zenon
    <3>3. c \notin recording'
      BY <2>1
    <3>4. InFlight(c) = 1 /\ InFlight(c)' = 0
      BY <2>1, <3>3, Zenon DEF InFlight
    <3>5. Load(c)' = Load(c)
      BY <1>0, <3>2, <3>4 DEF Load
    <3> QED
      BY <2>1, <2>2, <3>5
  <2>3. CASE d # c
    <3>1. ring'[d] = ring[d] /\ (d \in recording' <=> d \in recording)
      BY <1>0, <2>1, <2>3
    <3> QED
      BY <2>1, <3>1, SameLoad
  <2> QED
    BY <2>2, <2>3
<1> QED
  BY <1>1, <1>2, <1>3 DEF Kernel

\* A page read takes at least one event out of the buffer of its CPU.
LEMMA ReadTakes ==
    ASSUME TypeOK, NEW c \in Cpus, ReadOnePage(c)
    PROVE  /\ Len(ring'[c]) < Len(ring[c]) /\ Len(ring'[c]) \in Nat
           /\ \A d \in Cpus \ {c} : ring'[d] = ring[d]
<1>1. PICK n \in 1..Len(ring[c]) : ring' = [ring EXCEPT ![c] = SubSeq(@, n + 1, Len(@))]
  BY DEF ReadOnePage
<1>2. ring[c] \in Seq(Nat) /\ Len(ring[c]) \in Nat
  BY DEF TypeOK
<1>3. ring'[c] = SubSeq(ring[c], n + 1, Len(ring[c]))
  BY <1>1 DEF TypeOK
<1>4. Len(ring'[c]) = Len(ring[c]) - n
  BY <1>2, <1>3
<1>5. \A d \in Cpus \ {c} : ring'[d] = ring[d]
  BY <1>1 DEF TypeOK
<1> QED
  BY <1>2, <1>4, <1>5

\* A step of a reader is nearer to its end, or has taken an event for one step more.
LEMMA ReaderWork ==
    ASSUME TypeOK, NEW c \in Cpus, Reader(c)
    PROVE  /\ recording' = recording
           /\ \A d \in Cpus \ {c} : ring'[d] = ring[d] /\ pc'[d] = pc[d]
           /\ Len(ring'[c]) \in Nat /\ Len(ring'[c]) <= Len(ring[c])
           /\ stop => \/ StepsAt[pc'[c]] < StepsAt[pc[c]]
                      \/ /\ Len(ring'[c]) < Len(ring[c])
                         /\ StepsAt[pc'[c]] <= StepsAt[pc[c]] + 1
<1> USE DEF Goto, kernelVars, mainVars
<1>0. Len(ring[c]) \in Nat /\ pc \in [Cpus -> PCs] /\ ring \in [Cpus -> Seq(Nat)]
  BY DEF TypeOK
<1>1. CASE Open(c)
  BY <1>0, <1>1, StepsTable DEF Open
<1>2. CASE TestStop(c)
  BY <1>0, <1>2, StepsTable DEF TestStop
<1>3. CASE Poll(c)
  BY <1>0, <1>3, StepsTable DEF Poll
<1>4. CASE ReadSome(c)
  <2>1. ReadOnePage(c) /\ recording' = recording
    BY <1>4 DEF ReadSome
  <2>2. /\ \A d \in Cpus \ {c} : pc'[d] = pc[d]
        /\ StepsAt[pc'[c]] <= StepsAt[pc[c]] + 1
    BY <1>0, <1>4, StepsTable DEF ReadSome
  <2> QED
    BY <1>0, <2>1, <2>2, ReadTakes
<1>5. CASE ReadNone(c)
  BY <1>0, <1>5, StepsTable DEF ReadNone
<1>6. CASE Write(c)
  BY <1>0, <1>6, StepsTable DEF Write
<1>7. CASE FailOpenOrPoll(c)
  BY <1>0, <1>7, StepsTable DEF FailOpenOrPoll
<1>8. CASE FailRead(c)
  <2>1. /\ recording' = recording
        /\ ring' = ring \/ ReadOnePage(c)
    BY <1>8 DEF FailRead
  <2>2. /\ \A d \in Cpus \ {c} : pc'[d] = pc[d]
        /\ StepsAt[pc'[c]] < StepsAt[pc[c]]
    BY <1>0, <1>8, StepsTable DEF FailRead
  <2>3. /\ Len(ring'[c]) \in Nat /\ Len(ring'[c]) <= Len(ring[c])
        /\ \A d \in Cpus \ {c} : ring'[d] = ring[d]
    BY <1>0, <2>1, ReadTakes
  <2> QED
    BY <2>1, <2>2, <2>3
<1>9. CASE FailWrite(c)
  BY <1>0, <1>9, StepsTable DEF FailWrite
<1> QED
  BY <1>1, <1>2, <1>3, <1>4, <1>5, <1>6, <1>7, <1>8, <1>9 DEF Reader

\* What the main thread does leaves no buffer fuller, and no thread is started once
\* the flag is up.
LEMMA MainLoad ==
    ASSUME TypeOK, Main, NEW d \in Cpus
    PROVE  /\ Load(d)' <= Load(d) /\ Load(d)' \in Nat
           /\ OffAfterStop /\ stop => pc' = pc
<1> USE LoadType DEF kernelVars, readerVars
<1>1. CASE \E c \in Cpus : SpawnReader(c)
  <2>1. UNCHANGED <<ring, recording>> /\ mpc = "spawn"
    BY <1>1 DEF SpawnReader
  <2> QED
    BY <2>1, SameLoad DEF OffAfterStop
<1>2. CASE \/ StartTracing \/ StartFails \/ SeeSigint \/ StopTracing \/ StopFails
           \/ RaiseStop \/ Join \/ CheckOverruns \/ CheckFails
  <2>1. UNCHANGED <<ring, recording, pc>>
    BY <1>2 DEF StartTracing, StartFails, SeeSigint, StopTracing, StopFails, RaiseStop,
                Join, CheckOverruns, CheckFails
  <2> QED
    BY <2>1, SameLoad
<1>3. CASE CleanupAndReturn
  <2>1. ring'[d] = <<>> /\ recording' = recording /\ pc' = pc
    BY <1>3 DEF CleanupAndReturn
  <2>2. Len(ring'[d]) = 0
    BY <2>1
  <2>3. InFlight(d)' = InFlight(d)
    BY <2>1, Zenon DEF InFlight
  <2> QED
    BY <2>1, <2>2, <2>3 DEF Load
<1> QED
  BY <1>1, <1>2, <1>3 DEF Main

\* No step turns tracing on again after a stop() that succeeded.
LEMMA NextOff ==
    ASSUME TypeOK, OffAfterStop, [Next]_vars
    PROVE  OffAfterStop'
<1> USE DEF kernelVars, readerVars, mainVars
<1>1. ASSUME NEW c \in Cpus, Kernel(c)
      PROVE  OffAfterStop'
  BY <1>1 DEF OffAfterStop, Kernel, Reserve, Refuse, Commit
<1>2. ASSUME NEW c \in Cpus, Reader(c)
      PROVE  OffAfterStop'
  <2>1. UNCHANGED <<mpc, stop, stopOk, tracingOn>>
    BY <1>2 DEF Reader, Open, TestStop, Poll, ReadSome, ReadNone, Write,
                FailOpenOrPoll, FailRead, FailWrite
  <2> QED
    BY <2>1 DEF OffAfterStop
<1>3. CASE Main
  <2>1. CASE \E c \in Cpus : SpawnReader(c)
    BY <2>1 DEF OffAfterStop, SpawnReader
  <2>2. CASE StartTracing \/ StartFails \/ SeeSigint \/ StopTracing \/ StopFails
    BY <2>2 DEF OffAfterStop, StartTracing, StartFails, SeeSigint, StopTracing, StopFails
  <2>3. CASE RaiseStop \/ Join
    BY <2>3 DEF OffAfterStop, RaiseStop, Join
  <2>4. CASE CheckOverruns \/ CheckFails \/ CleanupAndReturn
    <3>1. /\ mpc' \in {"cleanup", "ok", "err"}
          /\ UNCHANGED <<tracingOn, stop, stopOk>>
      BY <2>4 DEF CheckOverruns, CheckFails, CleanupAndReturn
    <3> QED
      BY <3>1 DEF OffAfterStop
  <2> QED
    BY <1>3, <2>1, <2>2, <2>3, <2>4 DEF Main
<1>4. CASE Sigint \/ UNCHANGED vars
  BY <1>4 DEF OffAfterStop, Sigint, vars
<1> QED
  BY <1>1, <1>2, <1>3, <1>4 DEF Next, Exited

\* Buffers are empty when the threads are created.
LEMMA InitDrainInv == Init => DrainInv
<1> SUFFICES ASSUME Init PROVE DrainInv
  OBVIOUS
<1>1. ASSUME NEW c \in Cpus PROVE Load(c) <= BufCap
  <2>1. ring[c] = <<>> /\ c \notin recording
    BY DEF Init
  <2>2. Len(ring[c]) = 0 /\ InFlight(c) = 0
    BY <2>1 DEF InFlight
  <2>3. Load(c) = 0
    BY <2>2 DEF Load
  <2>4. BufCap \in Nat
    BY CaptureAssumption
  <2>5. 0 <= BufCap
    BY <2>4
  <2> QED
    BY <2>3, <2>5, Zenon
<1>2. OffAfterStop
  BY DEF Init, OffAfterStop
<1> QED
  BY <1>1, <1>2, InitType DEF DrainInv

\* Each step of a reader brings it nearer to its end once the flag is up.
LEMMA ReaderAdvances ==
    ASSUME DrainInv, NEW c \in Cpus, Reader(c), stop
    PROVE  StepsLeft(c)' < StepsLeft(c) /\ StepsLeft(c) \in Int /\ StepsLeft(c)' \in Int
<1> USE DEF DrainInv
<1>1. /\ recording' = recording
      /\ Len(ring'[c]) \in Nat /\ Len(ring'[c]) <= Len(ring[c])
      /\ \/ StepsAt[pc'[c]] < StepsAt[pc[c]]
         \/ /\ Len(ring'[c]) < Len(ring[c])
            /\ StepsAt[pc'[c]] <= StepsAt[pc[c]] + 1
  BY ReaderWork
<1>2. InFlight(c) \in {0, 1} /\ Len(ring[c]) \in Nat
  BY LoadType
<1>3. InFlight(c)' = InFlight(c)
  BY <1>1, Zenon DEF InFlight
<1>4. StepsAt[pc[c]] \in 0..5 /\ StepsAt[pc'[c]] \in 0..5
  <2>1. pc[c] \in PCs /\ pc'[c] \in PCs
    BY ReaderType DEF TypeOK
  <2> QED
    BY <2>1, StepsBound
<1> DEFINE r == Len(ring[c])  rr == Len(ring'[c])
           a == StepsAt[pc[c]]  aa == StepsAt[pc'[c]]  f == InFlight(c)
<1>5. StepsLeft(c) = 2 * (r + f) + a /\ StepsLeft(c)' = 2 * (rr + f) + aa
  BY <1>3, Zenon DEF StepsLeft
<1>6. /\ r \in Nat /\ rr \in Nat /\ f \in {0, 1} /\ a \in 0..5 /\ aa \in 0..5
      /\ rr <= r /\ (aa < a \/ (rr < r /\ aa <= a + 1))
  BY <1>1, <1>2, <1>4
<1> HIDE DEF r, rr, a, aa, f
<1> QED
  BY <1>5, <1>6

\* What any step does to CPU d.
LEMMA DrainStep ==
    ASSUME DrainInv, [Next]_vars, NEW d \in Cpus
    PROVE  /\ Load(d)' <= BufCap
           /\ stop /\ stopOk => StepsLeft(d)' <= StepsLeft(d)
<1> USE DEF DrainInv
<1>0. /\ Load(d) \in Nat /\ Load(d) <= BufCap /\ BufCap \in Nat /\ pc[d] \in PCs
      /\ StepsAt[pc[d]] \in 0..5 /\ Len(ring[d]) \in Nat /\ InFlight(d) \in {0, 1}
  BY LoadType, StepsBound, CaptureAssumption DEF TypeOK
<1>1. TypeOK'
  BY NextType
<1>2. Load(d)' \in Nat /\ StepsAt[pc'[d]] \in 0..5
  <2>1. pc'[d] \in PCs
    BY <1>1 DEF TypeOK
  <2> QED
    BY <1>1, <2>1, StepsBound, LoadTypeNext
<1>3. StepsLeft(d) \in Nat
  BY <1>0 DEF StepsLeft
<1>4. ASSUME Load(d)' <= Load(d), stop /\ stopOk => pc' = pc
      PROVE  /\ Load(d)' <= BufCap
             /\ stop /\ stopOk => StepsLeft(d)' <= StepsLeft(d)
  <2>1. Load(d)' <= BufCap
    BY <1>0, <1>2, <1>4
  <2>2. ASSUME stop, stopOk PROVE StepsLeft(d)' <= StepsLeft(d)
    <3>1. StepsAt[pc'[d]] = StepsAt[pc[d]]
      BY <1>4, <2>2
    <3>2. /\ StepsLeft(d) = 2 * Load(d) + StepsAt[pc[d]]
          /\ StepsLeft(d)' = 2 * Load(d)' + StepsAt[pc'[d]]
      BY DEF StepsLeft, Load
    <3> QED
      BY <1>0, <1>2, <1>4, <3>1, <3>2
  <2> QED
    BY <2>1, <2>2
<1>5. ASSUME NEW c \in Cpus, Kernel(c)
      PROVE  /\ Load(d)' <= BufCap
             /\ stop /\ stopOk => StepsLeft(d)' <= StepsLeft(d)
  <2>1. /\ ~tracingOn => Load(d)' = Load(d)
        /\ Load(d)' <= BufCap
        /\ pc' = pc
    BY <1>0, <1>5, KernelLoad
  <2>2. stop /\ stopOk => ~tracingOn
    BY DEF OffAfterStop
  <2>3. CASE tracingOn
    BY <2>1, <2>2, <2>3
  <2>4. CASE ~tracingOn
    BY <1>0, <1>4, <2>1, <2>4
  <2> QED
    BY <2>3, <2>4
<1>6. ASSUME NEW c \in Cpus, Reader(c)
      PROVE  /\ Load(d)' <= BufCap
             /\ stop /\ stopOk => StepsLeft(d)' <= StepsLeft(d)
  <2>1. /\ recording' = recording
        /\ \A e \in Cpus \ {c} : ring'[e] = ring[e] /\ pc'[e] = pc[e]
        /\ Len(ring'[c]) \in Nat /\ Len(ring'[c]) <= Len(ring[c])
        /\ stop => \/ StepsAt[pc'[c]] < StepsAt[pc[c]]
                   \/ /\ Len(ring'[c]) < Len(ring[c])
                      /\ StepsAt[pc'[c]] <= StepsAt[pc[c]] + 1
    BY <1>6, ReaderWork
  <2>2. InFlight(d)' = InFlight(d)
    BY <2>1, Zenon DEF InFlight
  <2>3. CASE d = c
    <3>1. Load(d)' <= Load(d)
      BY <1>0, <2>1, <2>2, <2>3 DEF Load
    <3>2. stop => StepsLeft(d)' <= StepsLeft(d)
      BY <1>6, <2>3, ReaderAdvances
    <3> QED
      BY <1>0, <1>2, <3>1, <3>2
  <2>4. CASE d # c
    <3>1. ring'[d] = ring[d] /\ pc'[d] = pc[d]
      BY <2>1, <2>4
    <3>2. Load(d)' = Load(d) /\ StepsLeft(d)' = StepsLeft(d)
      BY <2>2, <3>1, Zenon DEF Load, StepsLeft
    <3> QED
      BY <1>0, <1>3, <3>2
  <2> QED
    BY <2>3, <2>4
<1>7. CASE Main
  BY <1>4, <1>7, MainLoad
<1>8. CASE Sigint \/ UNCHANGED vars
  <2>1. UNCHANGED <<ring, recording, pc>>
    BY <1>8 DEF Sigint, vars, kernelVars, readerVars, mainVars
  <2>2. Load(d)' = Load(d)
    BY <2>1 DEF Load, InFlight
  <2> QED
    BY <1>0, <1>4, <2>1, <2>2
<1> QED
  BY <1>5, <1>6, <1>7, <1>8 DEF Next, Exited

\* After a successful stop() the drain takes a bounded number of steps: two for each
\* event a full buffer holds and five more, whatever else runs meanwhile, for any
\* number of CPUs and any sizes, and also where an event is still on its way when
\* drain_ms is over.
THEOREM DrainTakesFewSteps == Spec => DrainEnds
<1> DEFINE Step == stop /\ stopOk => \A c \in Cpus :
                      /\ StepsLeft(c) <= 2 * BufCap + 5
                      /\ StepsLeft(c)' <= StepsLeft(c)
                      /\ Reader(c) => StepsLeft(c)' < StepsLeft(c)
<1>1. ASSUME DrainInv, [Next]_vars PROVE DrainInv'
  BY <1>1, NextType, NextOff, DrainStep DEF DrainInv
<1>2. ASSUME DrainInv, [Next]_vars PROVE Step
  <2>1. SUFFICES ASSUME stop, stopOk, NEW c \in Cpus
                 PROVE  /\ StepsLeft(c) <= 2 * BufCap + 5
                        /\ StepsLeft(c)' <= StepsLeft(c)
                        /\ Reader(c) => StepsLeft(c)' < StepsLeft(c)
    OBVIOUS
  <2>2. StepsLeft(c) <= 2 * BufCap + 5
    <3>1. StepsAt[pc[c]] \in 0..5
      BY <1>2, StepsBound DEF DrainInv, TypeOK
    <3>2. Load(c) \in Nat /\ Load(c) <= BufCap /\ BufCap \in Nat
      BY <1>2, LoadType, CaptureAssumption DEF DrainInv
    <3>3. StepsLeft(c) = 2 * Load(c) + StepsAt[pc[c]]
      BY DEF StepsLeft, Load
    <3> QED
      BY <3>1, <3>2, <3>3
  <2> QED
    BY <1>2, <2>1, <2>2, DrainStep, ReaderAdvances
<1>3. ASSUME DrainInv, [Next]_vars PROVE [Step]_vars
  BY <1>2, <1>3
<1> HIDE DEF Step
<1>4. Spec => [][Step]_vars
  BY InitDrainInv, <1>1, <1>3, PTL DEF Spec
<1> QED
  BY <1>4 DEF DrainEnds, Step

=============================================================================
