---------------------------- MODULE TraceChannel ----------------------------
(***************************************************************************)
(* What `nvme-trace capture` promises, without threads, pages or buffers.  *)
(* Every CPU is a channel of numbered events.  An event that fires is      *)
(* either accepted, and then pending, or lost.  Pending events are         *)
(* delivered in order.  The session ends once: with "ok" only if every     *)
(* accepted event was delivered and no channel broke, and, when losses are *)
(* counted, only if nothing was lost; with "err" otherwise.                *)
(***************************************************************************)
EXTENDS Naturals, Sequences

CONSTANTS Cpus,         \* the per-CPU channels
          LossCounted   \* TRUE iff a lost event shows in the counter the verdict reads

VARIABLES fired,        \* [Cpus -> Nat]: events fired so far, numbered 1, 2, ...
          lost,         \* [Cpus -> Nat]: how many of them were lost
          pending,      \* accepted and not yet delivered
          delivered,    \* delivered to the output file
          broken,       \* the channels whose reader gave up
          phase         \* "open", "ok" or "err"

absVars == <<fired, lost, pending, delivered, broken, phase>>

Init == /\ fired = [c \in Cpus |-> 0]
        /\ lost = [c \in Cpus |-> 0]
        /\ pending = [c \in Cpus |-> <<>>]
        /\ delivered = [c \in Cpus |-> <<>>]
        /\ broken = {}
        /\ phase = "open"

\* Nobody reads a broken channel or a closed session: what fires there is pending nowhere.
Accept(c) ==
    /\ phase # "ok"
    /\ fired' = [fired EXCEPT ![c] = @ + 1]
    /\ pending' = IF phase = "open" /\ c \notin broken
                  THEN [pending EXCEPT ![c] = Append(@, fired[c] + 1)]
                  ELSE pending
    /\ UNCHANGED <<lost, delivered, broken, phase>>

Lose(c) ==
    /\ phase # "ok"
    /\ fired' = [fired EXCEPT ![c] = @ + 1]
    /\ lost' = [lost EXCEPT ![c] = @ + 1]
    /\ UNCHANGED <<pending, delivered, broken, phase>>

Deliver(c) ==
    /\ phase = "open"
    /\ c \notin broken
    /\ \E n \in 1..Len(pending[c]) :
          /\ delivered' = [delivered EXCEPT ![c] = @ \o SubSeq(pending[c], 1, n)]
          /\ pending' = [pending EXCEPT ![c] = SubSeq(@, n + 1, Len(@))]
    /\ UNCHANGED <<fired, lost, broken, phase>>

\* A reader that gives up may have delivered a prefix of what was pending.
Break(c) ==
    /\ phase = "open"
    /\ c \notin broken
    /\ \E n \in 0..Len(pending[c]) :
          delivered' = [delivered EXCEPT ![c] = @ \o SubSeq(pending[c], 1, n)]
    /\ pending' = [pending EXCEPT ![c] = <<>>]
    /\ broken' = broken \cup {c}
    /\ UNCHANGED <<fired, lost, phase>>

Succeed ==
    /\ phase = "open"
    /\ broken = {}
    /\ \A c \in Cpus : pending[c] = <<>>
    /\ LossCounted => \A c \in Cpus : lost[c] = 0
    /\ phase' = "ok"
    /\ UNCHANGED <<fired, lost, pending, delivered, broken>>

Fail ==
    /\ phase = "open"
    /\ phase' = "err"
    /\ pending' = [c \in Cpus |-> <<>>]
    /\ UNCHANGED <<fired, lost, delivered, broken>>

Next == \/ \E c \in Cpus : Accept(c) \/ Lose(c) \/ Deliver(c) \/ Break(c)
        \/ Succeed
        \/ Fail

Spec == Init /\ [][Next]_absVars

=============================================================================
