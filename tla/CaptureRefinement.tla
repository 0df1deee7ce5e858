-------------------------- MODULE CaptureRefinement --------------------------
(* Capture implements TraceChannel: every step of the threads and the       *)
(* kernel is a step of the lossy channel or leaves it unchanged.            *)
EXTENDS CaptureProofs

\* The capture starts as an open channel that holds nothing.
LEMMA InitRefines == Init => Channel!Init
<1> SUFFICES ASSUME Init PROVE Channel!Init
  OBVIOUS
<1>1. ~Returned /\ Phase = "open"
  BY DEF Init, Returned, Phase
<1>2. Broken = {}
  BY DEF Init, Broken
<1>3. ASSUME NEW c \in Cpus PROVE Unread(c) = <<>>
  <2>1. page[c] = <<>> /\ ring[c] = <<>> /\ c \notin recording
    BY DEF Init
  <2>2. <<>> \o <<>> = <<>>
    OBVIOUS
  <2> QED
    BY <2>1, <2>2 DEF Unread
<1>4. Pending = [c \in Cpus |-> <<>>]
  BY <1>1, <1>3 DEF Init, Pending
<1> QED
  BY <1>1, <1>2, <1>4 DEF Init, Channel!Init

\* While capture() runs, a channel is as the reader and the buffer leave it.
LEMMA PendingIsUnread ==
    ASSUME NEW c \in Cpus
    PROVE  Pending[c] = IF Returned \/ pc[c] = "failed" THEN <<>> ELSE Unread(c)
BY DEF Pending

\* What is not yet in the file of a CPU is a sequence of events.
LEMMA UnreadType ==
    ASSUME TypeOK, NEW c \in Cpus
    PROVE  Unread(c) \in Seq(Nat)
<1>1. page[c] \in Seq(Nat) /\ ring[c] \in Seq(Nat) /\ fired[c] \in Nat
  BY DEF TypeOK
<1> QED
  BY <1>1 DEF Unread

\* A step that keeps what is unread, the files, the failed readers and the phase
\* is invisible to the channel.
LEMMA Invisible ==
    ASSUME UNCHANGED <<fired, lost, out, Broken, Phase>>,
           Returned' = Returned,
           \A c \in Cpus : c \notin Broken /\ ~Returned => Unread(c)' = Unread(c)
    PROVE  UNCHANGED Channel!absVars
<1>1. \A c \in Cpus : (pc'[c] = "failed") <=> (pc[c] = "failed")
  BY DEF Broken
<1>2. Pending' = Pending
  BY <1>1 DEF Pending, Broken
<1> QED
  BY <1>2 DEF Channel!absVars

-----------------------------------------------------------------------------
(* The kernel.                                                             *)

\* Reserving a slot in the ring buffer is the acceptance of an event.
LEMMA ReserveRefines ==
    ASSUME Inductive, NEW c \in Cpus, Reserve(c)
    PROVE  Channel!Accept(c)
<1>1. /\ UNCHANGED <<lost, out, Broken, Phase, Returned>>
      /\ fired' = [fired EXCEPT ![c] = @ + 1]
      /\ UNCHANGED <<page, ring, pc>>
  BY DEF Reserve, Broken, Phase, Returned, readerVars, mainVars
<1>2. Phase # "ok"
  BY DEF Reserve, Phase, Returned, Inductive, StopProtocol
<1>3. \A d \in Cpus : d # c => Unread(d)' = Unread(d)
  BY <1>1 DEF Reserve, Unread, Inductive, TypeOK
<1>4. Unread(c)' = Append(Unread(c), fired[c] + 1)
  <2>1. page[c] \o ring[c] \in Seq(Nat) /\ fired[c] + 1 \in Nat
    BY DEF Inductive, TypeOK
  <2>2. Unread(c) = page[c] \o ring[c]
    BY <2>1, ConcatEmptySeq DEF Reserve, Unread
  <2>3. Unread(c)' = (page[c] \o ring[c]) \o <<fired[c] + 1>>
    BY <1>1 DEF Reserve, Unread, Inductive, TypeOK
  <2> QED
    BY <2>1, <2>2, <2>3, AppendIsConcat
<1>5. Pending' = IF Phase = "open" /\ c \notin Broken
                 THEN [Pending EXCEPT ![c] = Append(@, fired[c] + 1)]
                 ELSE Pending
  <2>1. (Phase = "open") <=> ~Returned
    BY DEF Phase, Returned
  <2>2. (c \in Broken) <=> (pc[c] = "failed")
    BY DEF Broken
  <2> QED
    BY <1>1, <1>3, <1>4, <2>1, <2>2 DEF Pending
<1> QED
  BY <1>1, <1>2, <1>5 DEF Channel!Accept

\* A full buffer refuses an event of the channel.
LEMMA RefuseRefines ==
    ASSUME Inductive, NEW c \in Cpus, Refuse(c)
    PROVE  Channel!Lose(c)
<1>1. /\ UNCHANGED <<out, Broken, Phase, Returned>>
      /\ fired' = [fired EXCEPT ![c] = @ + 1]
      /\ lost' = [lost EXCEPT ![c] = @ + 1]
      /\ UNCHANGED <<page, ring, pc, recording>>
  BY DEF Refuse, Broken, Phase, Returned, readerVars, mainVars
<1>2. Phase # "ok"
  BY DEF Refuse, Phase, Returned, Inductive, StopProtocol
<1>3. \A d \in Cpus : Unread(d)' = Unread(d)
  BY <1>1 DEF Refuse, Unread, Inductive, TypeOK
<1>4. Pending' = Pending
  BY <1>1, <1>3 DEF Pending
<1> QED
  BY <1>1, <1>2, <1>4 DEF Channel!Lose

\* The commit of a reserved event is not visible on the channel.
LEMMA CommitRefines ==
    ASSUME Inductive, NEW c \in Cpus, Commit(c)
    PROVE  UNCHANGED Channel!absVars
<1>1. UNCHANGED <<fired, lost, out, page, pc, Broken, Phase, Returned>>
  BY DEF Commit, Broken, Phase, Returned, readerVars, mainVars
<1>2. ASSUME NEW d \in Cpus, d # c PROVE Unread(d)' = Unread(d)
  BY <1>1, <1>2 DEF Commit, Unread, Inductive, TypeOK
<1>3. Unread(c)' = Unread(c)
  <2>1. /\ page[c] \in Seq(Nat) /\ ring[c] \in Seq(Nat)
        /\ <<fired[c]>> \in Seq(Nat) /\ fired[c] \in Nat
    BY DEF Inductive, TypeOK
  <2>2. ring'[c] = ring[c] \o <<fired[c]>>
    BY <2>1, AppendIsConcat DEF Commit, Inductive, TypeOK
  <2>3. Unread(c)' = (page[c] \o (ring[c] \o <<fired[c]>>)) \o <<>>
    BY <1>1, <2>2 DEF Commit, Unread
  <2>4. @ = page[c] \o (ring[c] \o <<fired[c]>>)
    BY <2>1, ConcatEmptySeq
  <2>5. @ = Unread(c)
    BY <2>1, JoinAssociates DEF Commit, Unread
  <2> QED
    BY <2>3, <2>4, <2>5
<1> QED
  BY <1>1, <1>2, <1>3, Invisible

-----------------------------------------------------------------------------
(* The readers.                                                            *)

\* A page read moves events from the buffer to the thread.
LEMMA ReadSomeRefines ==
    ASSUME Inductive, NEW c \in Cpus, ReadSome(c)
    PROVE  UNCHANGED Channel!absVars
<1>1. UNCHANGED <<fired, lost, out, recording, mpc>>
  BY DEF ReadSome, mainVars
<1>2. UNCHANGED <<Broken, Phase, Returned>>
  BY <1>1 DEF ReadSome, Goto, Broken, Phase, Returned, Inductive, TypeOK
<1>3. page[c] = <<>>
  BY DEF ReadSome, Inductive, DrainedStaysDrained
<1>4. PICK n \in 1..Len(ring[c]) :
        /\ page' = [page EXCEPT ![c] = SubSeq(ring[c], 1, n)]
        /\ ring' = [ring EXCEPT ![c] = SubSeq(@, n + 1, Len(@))]
  BY DEF ReadSome, ReadOnePage
<1>5. ASSUME NEW d \in Cpus, d # c PROVE Unread(d)' = Unread(d)
  BY <1>1, <1>4, <1>5 DEF Unread, Inductive, TypeOK
<1>6. page'[c] \o ring'[c] = page[c] \o ring[c]
  <2>1. ring[c] \in Seq(Nat)
    BY DEF Inductive, TypeOK
  <2>2. page'[c] \o ring'[c] = SubSeq(ring[c], 1, n) \o SubSeq(ring[c], n + 1, Len(ring[c]))
    BY <1>4 DEF Inductive, TypeOK
  <2>3. @ = ring[c]
    BY <2>1, CutAndJoin
  <2>4. @ = page[c] \o ring[c]
    BY <1>3, <2>1, ConcatEmptySeq
  <2> QED
    BY <2>2, <2>3, <2>4
<1>7. Unread(c)' = Unread(c)
  BY <1>1, <1>6 DEF Unread
<1> QED
  BY <1>1, <1>2, <1>5, <1>7, Invisible

\* What the reader of c has not taken yet.
Untaken(c) == ring[c] \o (IF c \in recording THEN <<fired[c]>> ELSE <<>>)

\* What the reader holds is the front of what is unread.
LEMMA PageIsFront ==
    ASSUME Inductive, NEW c \in Cpus
    PROVE  /\ Len(page[c]) \in 0..Len(Unread(c))
           /\ \A n \in 0..Len(page[c]) : SubSeq(Unread(c), 1, n) = SubSeq(page[c], 1, n)
           /\ SubSeq(Unread(c), Len(page[c]) + 1, Len(Unread(c))) = Untaken(c)
<1> DEFINE u == Unread(c)
           rest == Untaken(c)
<1>1. page[c] \in Seq(Nat) /\ rest \in Seq(Nat)
  BY DEF Inductive, TypeOK, Untaken
<1>2. u = page[c] \o rest
  <2>1. /\ ring[c] \in Seq(Nat)
        /\ (IF c \in recording THEN <<fired[c]>> ELSE <<>>) \in Seq(Nat)
    BY DEF Inductive, TypeOK
  <2> QED
    BY <1>1, <2>1, JoinAssociates DEF Unread, Untaken
<1> HIDE DEF u, rest
<1>3. /\ Len(u) = Len(page[c]) + Len(rest)
      /\ Len(page[c]) \in Nat /\ Len(rest) \in Nat
      /\ u \in Seq(Nat)
  BY <1>1, <1>2, LenProperties
<1>4. \A i \in 1..Len(page[c]) : u[i] = page[c][i]
  BY <1>1, <1>2, <1>3
<1>5. \A i \in 1..Len(rest) : u[Len(page[c]) + i] = rest[i]
  BY <1>1, <1>2, <1>3
<1>6. ASSUME NEW n \in 0..Len(page[c])
      PROVE  SubSeq(u, 1, n) = SubSeq(page[c], 1, n)
  BY <1>1, <1>3, <1>4
<1>7. SubSeq(u, Len(page[c]) + 1, Len(u)) = rest
  <2> DEFINE v == SubSeq(u, Len(page[c]) + 1, Len(u))
  <2>1. v \in Seq(Nat) /\ Len(v) = Len(rest)
    BY <1>3
  <2>2. \A i \in 1..Len(v) : v[i] = rest[i]
    BY <1>3, <1>5
  <2> HIDE DEF v
  <2>3. v = rest
    BY <1>1, <2>1, <2>2, SeqEqual
  <2> QED
    BY <2>3 DEF v
<1>8. Len(page[c]) \in 0..Len(u)
  BY <1>3
<1> QED
  BY <1>6, <1>7, <1>8 DEF u, rest

\* A write delivers the page; an empty page delivers nothing.
LEMMA WriteRefines ==
    ASSUME Inductive, NEW c \in Cpus, Write(c), ~Returned
    PROVE  Channel!Deliver(c) \/ UNCHANGED Channel!absVars
<1> USE DEF Inductive, TypeOK
<1>1. /\ UNCHANGED <<fired, lost, recording, ring, mpc>>
      /\ out' = [out EXCEPT ![c] = @ \o page[c]]
      /\ page' = [page EXCEPT ![c] = <<>>]
  BY DEF Write, kernelVars, mainVars
<1>2. UNCHANGED <<Broken, Phase, Returned>>
  BY <1>1 DEF Write, Goto, Broken, Phase, Returned
<1>3. \A d \in Cpus : d # c => Unread(d)' = Unread(d)
  BY <1>1 DEF Unread
<1>4. CASE page[c] = <<>>
  <2>1. out' = out /\ page' = page
    <3>1. out[c] \o <<>> = out[c]
      BY ConcatEmptySeq
    <3> QED
      BY <1>1, <1>4, <3>1
  <2>2. \A d \in Cpus : Unread(d)' = Unread(d)
    BY <1>1, <2>1 DEF Unread
  <2> QED
    BY <1>1, <1>2, <2>1, <2>2, Invisible
<1>5. CASE page[c] # <<>>
  <2> DEFINE n == Len(page[c])
  <2>1. pc[c] # "failed" /\ Phase = "open" /\ c \notin Broken
    BY DEF Write, Phase, Broken
  <2>2. Pending[c] = Unread(c)
    BY <2>1, PendingIsUnread
  <2>3. page[c] \in Seq(Nat)
    OBVIOUS
  <2>4. n \in 1..Len(Pending[c])
    <3>1. n \in Nat \ {0}
      BY <1>5, <2>3, EmptySeq
    <3>2. n \in 0..Len(Unread(c))
      BY PageIsFront
    <3> QED
      BY <2>2, <3>1, <3>2
  <2>5. SubSeq(Pending[c], 1, n) = page[c]
    <3>1. SubSeq(Unread(c), 1, n) = SubSeq(page[c], 1, n)
      BY <2>3, PageIsFront, LenProperties
    <3> QED
      BY <2>2, <2>3, <3>1, SubSeqFull
  <2>6. Unread(c)' = SubSeq(Pending[c], n + 1, Len(Pending[c]))
    <3>1. Unread(c)' = Untaken(c)
      <4>1. <<>> \o ring[c] = ring[c]
        BY ConcatEmptySeq
      <4>2. page'[c] = <<>>
        BY <1>1
      <4> QED
        BY <1>1, <4>1, <4>2 DEF Unread, Untaken
    <3> QED
      BY <2>2, <3>1, PageIsFront
  <2>7. Pending' = [Pending EXCEPT ![c] = SubSeq(@, n + 1, Len(@))]
    <3>1. \A d \in Cpus : (pc'[d] = "failed") <=> (pc[d] = "failed")
      BY <1>2 DEF Broken
    <3> QED
      BY <1>2, <1>3, <2>1, <2>2, <2>6, <3>1 DEF Pending
  <2>8. out' = [out EXCEPT ![c] = @ \o SubSeq(Pending[c], 1, n)]
    BY <1>1, <2>5
  <2> QED
    BY <1>1, <1>2, <2>1, <2>4, <2>7, <2>8 DEF Channel!Deliver
<1> QED
  BY <1>4, <1>5
\* A reader that gives up breaks its channel, having delivered n pending events.
LEMMA FailureBreaks ==
    ASSUME Inductive, NEW c \in Cpus, ~Returned, pc[c] # "failed",
           Goto(c, "failed"), UNCHANGED <<fired, lost, recording, mpc>>,
           \A d \in Cpus : d # c => page'[d] = page[d] /\ ring'[d] = ring[d],
           NEW n \in 0..Len(page[c]),
           out' = [out EXCEPT ![c] = @ \o SubSeq(page[c], 1, n)]
    PROVE  Channel!Break(c)
<1>1. Broken' = Broken \cup {c} /\ c \notin Broken
  BY DEF Goto, Broken, Inductive, TypeOK
<1>2. Phase = "open" /\ Phase' = Phase /\ Returned' = Returned
  BY DEF Phase, Returned
<1>3. Pending[c] = Unread(c)
  BY PendingIsUnread
<1>4. n \in 0..Len(Pending[c])
  <2>1. page[c] \in Seq(Nat)
    BY DEF Inductive, TypeOK
  <2>2. Unread(c) \in Seq(Nat)
    BY UnreadType DEF Inductive
  <2>3. Len(page[c]) \in Nat /\ Len(Unread(c)) \in Nat
    BY <2>1, <2>2, LenProperties
  <2>4. Len(page[c]) \in 0..Len(Unread(c))
    BY PageIsFront
  <2> QED
    BY <1>3, <2>3, <2>4
<1>5. out' = [out EXCEPT ![c] = @ \o SubSeq(Pending[c], 1, n)]
  BY <1>3, PageIsFront
<1>6. Pending' = [Pending EXCEPT ![c] = <<>>]
  <2>1. pc' = [pc EXCEPT ![c] = "failed"]
    BY DEF Goto
  <2>2. \A d \in Cpus : d # c => Unread(d)' = Unread(d)
    BY DEF Unread
  <2> QED
    BY <1>2, <2>1, <2>2 DEF Pending, Inductive, TypeOK
<1> QED
  BY <1>1, <1>2, <1>4, <1>5, <1>6 DEF Channel!Break

\* A reader's step delivers what it writes, breaks its channel, or is not visible.
LEMMA ReaderRefines ==
    ASSUME Inductive, NEW c \in Cpus, Reader(c)
    PROVE  Channel!Next \/ UNCHANGED Channel!absVars
<1> USE DEF Inductive, TypeOK
<1>1. ~Returned
  BY DEF Reader
<1>2. CASE Open(c) \/ TestStop(c) \/ Poll(c) \/ ReadNone(c)
  <2>1. UNCHANGED <<fired, lost, out, recording, ring, page, Broken, Phase, Returned>>
    BY <1>2 DEF Open, TestStop, Poll, ReadNone, Goto, Broken, Phase, Returned,
                kernelVars, mainVars
  <2>2. \A d \in Cpus : Unread(d)' = Unread(d)
    BY <2>1 DEF Unread
  <2> QED
    BY <2>1, <2>2, Invisible
<1>3. CASE ReadSome(c)
  BY <1>3, ReadSomeRefines
<1>4. CASE Write(c)
  BY <1>1, <1>4, WriteRefines DEF Channel!Next
<1>5. CASE FailOpenOrPoll(c) \/ FailRead(c)
  <2>1. /\ pc[c] # "failed" /\ Goto(c, "failed")
        /\ UNCHANGED <<fired, lost, recording, mpc, out>>
        /\ \A d \in Cpus : d # c => page'[d] = page[d] /\ ring'[d] = ring[d]
    BY <1>5 DEF FailOpenOrPoll, FailRead, ReadOnePage, kernelVars, mainVars
  <2>2. 0 \in 0..Len(page[c])
    BY LenProperties
  <2>3. out' = [out EXCEPT ![c] = @ \o SubSeq(page[c], 1, 0)]
    <3>1. SubSeq(page[c], 1, 0) = <<>>
      BY SubSeqEmpty
    <3>2. out[c] \o <<>> = out[c]
      BY ConcatEmptySeq
    <3> QED
      BY <2>1, <3>1, <3>2
  <2>4. Channel!Break(c)
    BY <1>1, <2>1, <2>2, <2>3, FailureBreaks
  <2> QED
    BY <2>4 DEF Channel!Next
<1>6. CASE FailWrite(c)
  <2>1. PICK n \in 0..Len(page[c]) : out' = [out EXCEPT ![c] = @ \o SubSeq(page[c], 1, n)]
    BY <1>6 DEF FailWrite
  <2>2. /\ pc[c] # "failed" /\ Goto(c, "failed")
        /\ UNCHANGED <<fired, lost, recording, mpc, page, ring>>
    BY <1>6 DEF FailWrite, kernelVars, mainVars
  <2>3. Channel!Break(c)
    BY <1>1, <2>1, <2>2, FailureBreaks
  <2> QED
    BY <2>3 DEF Channel!Next
<1> QED
  BY <1>2, <1>3, <1>4, <1>5, <1>6 DEF Reader

-----------------------------------------------------------------------------
(* The main thread.                                                        *)

\* Returning an error closes the channels, whatever is pending.
LEMMA ReturnErrFails ==
    ASSUME Inductive, ~Returned, mpc' = "err", UNCHANGED <<fired, lost, out, pc>>
    PROVE  Channel!Fail
<1>1. Phase = "open" /\ Phase' = "err" /\ Returned'
  BY DEF Phase, Returned
<1>2. Broken' = Broken
  BY DEF Broken
<1>3. Pending' = [c \in Cpus |-> <<>>]
  BY <1>1 DEF Pending
<1> QED
  BY <1>1, <1>2, <1>3 DEF Channel!Fail

\* Returning Ok closes channels with nothing pending.
LEMMA ReturnOkSucceeds ==
    ASSUME Inductive, CleanupAndReturn, mpc' = "ok"
    PROVE  Channel!Succeed
<1> USE DEF Inductive
<1>1. /\ mpc = "cleanup" /\ ~lossSeen
      /\ UNCHANGED <<fired, lost, out, page, pc>>
  BY DEF CleanupAndReturn, readerVars, TypeOK
<1>2. Phase = "open" /\ ~Returned /\ Phase' = "ok" /\ Returned'
  BY <1>1 DEF Phase, Returned
<1>3. \A c \in Cpus : pc[c] = "done" /\ page[c] = <<>> /\ ring[c] = <<>> /\ c \notin recording
  BY <1>1 DEF StopProtocol, DrainedStaysDrained
<1>4. Broken = {} /\ Broken' = Broken
  BY <1>1, <1>3 DEF Broken
<1>5. \A c \in Cpus : Pending[c] = <<>>
  <2>1. <<>> \o <<>> = <<>>
    OBVIOUS
  <2> QED
    BY <1>2, <1>3, <2>1 DEF Pending, Unread
<1>6. Pending' = Pending
  BY <1>2, <1>5 DEF Pending
<1>7. LossesAreCounted => \A c \in Cpus : lost[c] = 0
  BY <1>1 DEF LossesSeen
<1> QED
  BY <1>1, <1>2, <1>4, <1>5, <1>6, <1>7 DEF Channel!Succeed

\* The main thread's steps close the channels or are not visible.
LEMMA MainRefines ==
    ASSUME Inductive, Main
    PROVE  Channel!Next \/ UNCHANGED Channel!absVars
<1>1. CASE CleanupAndReturn
  <2>1. /\ ~Returned /\ mpc' \in {"ok", "err"}
        /\ UNCHANGED <<fired, lost, out, pc>>
    BY <1>1 DEF CleanupAndReturn, Returned, readerVars
  <2> QED
    BY <1>1, <2>1, ReturnErrFails, ReturnOkSucceeds DEF Channel!Next
<1>2. CASE ~CleanupAndReturn
  <2>1. /\ ~Returned /\ mpc' # "ok"
        /\ UNCHANGED <<fired, lost, out, page, ring, recording>>
        /\ \A c \in Cpus : (pc'[c] = "failed") <=> (pc[c] = "failed")
    BY <1>2 DEF Main, SpawnReader, StartTracing, StartFails, SeeSigint, StopTracing,
                StopFails, RaiseStop, Join, CheckOverruns, CheckFails, Goto, Returned,
                Inductive, TypeOK, kernelVars, readerVars, mainVars
  <2>2. CASE mpc' = "err"
    <3>1. pc' = pc
      BY <1>2, <2>1, <2>2
         DEF Main, SpawnReader, StartTracing, StartFails, SeeSigint, StopTracing,
             StopFails, RaiseStop, Join, CheckOverruns, CheckFails, Returned,
             kernelVars, readerVars, mainVars
    <3> QED
      BY <2>1, <2>2, <3>1, ReturnErrFails DEF Channel!Next
  <2>3. CASE mpc' # "err"
    <3>1. UNCHANGED <<Broken, Phase, Returned>>
      BY <2>1, <2>3 DEF Broken, Phase, Returned
    <3>2. \A c \in Cpus : Unread(c)' = Unread(c)
      BY <2>1 DEF Unread
    <3> QED
      BY <2>1, <3>1, <3>2, Invisible
  <2> QED
    BY <2>2, <2>3
<1> QED
  BY <1>1, <1>2

\* Every step of the capture is a step of the channel or a stutter.
LEMMA NextRefines ==
    ASSUME Inductive, [Next]_vars
    PROVE  [Channel!Next]_(Channel!absVars)
<1>1. CASE Sigint \/ UNCHANGED vars
  <2>1. UNCHANGED <<fired, lost, out, recording, ring, page, pc, mpc>>
    BY <1>1 DEF Sigint, vars, kernelVars, readerVars, mainVars
  <2>2. UNCHANGED <<Broken, Phase, Returned>>
    BY <2>1 DEF Broken, Phase, Returned
  <2>3. \A c \in Cpus : Unread(c)' = Unread(c)
    BY <2>1 DEF Unread
  <2> QED
    BY <2>1, <2>2, <2>3, Invisible
<1>2. ASSUME NEW c \in Cpus, Kernel(c)
      PROVE  Channel!Next \/ UNCHANGED Channel!absVars
  BY <1>2, ReserveRefines, RefuseRefines, CommitRefines DEF Kernel, Channel!Next
<1>3. ASSUME NEW c \in Cpus, Reader(c)
      PROVE  Channel!Next \/ UNCHANGED Channel!absVars
  BY <1>3, ReaderRefines
<1>4. CASE Main
  BY <1>4, MainRefines
<1> QED
  BY <1>1, <1>2, <1>3, <1>4 DEF Next, Exited

\* The capture implements the lossy channel for any number of CPUs, any sizes and
\* any of the modelled failures, and also with the counter the code reads today:
\* LossCounted is then FALSE in the channel that is implemented.
THEOREM CaptureImplementsChannel ==
    ASSUME DrainCovers
    PROVE  Spec => ImplementsChannel
<1> QED
  BY InitRefines, InductiveIsInvariant, NextRefines, PTL
     DEF Spec, ImplementsChannel, Channel!Spec

=============================================================================
