----------------------------- MODULE Supervisor -----------------------------
(***************************************************************************)
(* internal/runtime/supervisor.go: the admission pipeline that every RPC   *)
(* passes (drain gate, started counter, slot semaphore), the leases it     *)
(* hands out, and the drains that close and reopen the gate.               *)
(*                                                                         *)
(* An element of Calls is one invocation of Admit, so it owns at most one  *)
(* waiter channel and at most one lease, and the channel is named after    *)
(* the call.  Releasers are the goroutines that may call Release on the    *)
(* same lease.  A drainer is a goroutine that calls BeginDrain and then    *)
(* EndDrain, any number of times.  Code between two synchronising          *)
(* operations (lock, atomic, channel, select) is one step.                 *)
(***************************************************************************)
EXTENDS Integers, FiniteSets

CONSTANTS
  Calls,         \* calls of Admit
  Drainers,      \* goroutines that drain
  Releasers,     \* goroutines that may release one lease
  MaxInFlight    \* semaphore capacity; 0 is unbounded

ASSUME SupervisorAssumption ==
  /\ IsFiniteSet(Calls)
  /\ MaxInFlight \in Nat      \* NewSupervisor rejects a negative capacity

VARIABLES
  \* the Supervisor struct
  inFlight,      \* atomic counter of reservations
  draining,      \* the drain flag, under drainMu
  waiters,       \* channels of the blocked callers, under drainMu
  \* the two counters of Metrics that Admit touches
  started,
  failed,
  \* the goroutines
  pc,            \* where each call is in Admit
  cur,           \* the counter value a call loaded before its CAS
  cancelled,     \* calls whose context is done
  woken,         \* calls whose waiter channel is closed
  dpc,           \* what each drainer is doing
  closing,       \* the waiters a drainer took and has still to close
  released,      \* leases whose released flag is 1
  rpc            \* where each releaser is in Release, per lease

gateState   == <<draining, waiters, woken, dpc, closing>>
leaseState  == <<released, rpc>>
meterState  == <<started, failed>>
vars == <<inFlight, gateState, meterState, pc, cur, cancelled, leaseState>>

CallPc    == {"entry", "gate", "parked", "unpark", "count", "load", "cas",
              "poll", "fail", "admitted", "refused"}
ReleasePc == {"idle", "decrement", "done"}

Init ==
  /\ inFlight = 0
  /\ draining = FALSE
  /\ waiters = {}
  /\ started = 0
  /\ failed = 0
  /\ pc = [c \in Calls |-> "entry"]
  /\ cur = [c \in Calls |-> 0]
  /\ cancelled = {}
  /\ woken = {}
  /\ dpc = [d \in Drainers |-> "idle"]
  /\ closing = [d \in Drainers |-> {}]
  /\ released = {}
  /\ rpc = [c \in Calls |-> [r \in Releasers |-> "idle"]]

Goto(c, from, to) == pc[c] = from /\ pc' = [pc EXCEPT ![c] = to]

-----------------------------------------------------------------------------
(* The caller's context *)

\* The caller's context is cancelled or times out, at any moment.
Cancel(c) ==
  /\ c \notin cancelled
  /\ pc[c] \notin {"admitted", "refused"}
  /\ cancelled' = cancelled \cup {c}
  /\ UNCHANGED <<inFlight, gateState, meterState, pc, cur, leaseState>>

-----------------------------------------------------------------------------
(* Admit, step 1: the drain gate (waitForDrain) *)

\* Admit's first test of the context.
Enter(c) ==
  /\ Goto(c, "entry", IF c \in cancelled THEN "refused" ELSE "gate")
  /\ UNCHANGED <<inFlight, gateState, meterState, cur, cancelled, leaseState>>

\* Under drainMu: no drain is on, the call goes through.
PassGate(c) ==
  /\ ~draining
  /\ Goto(c, "gate", "count")
  /\ UNCHANGED <<inFlight, gateState, meterState, cur, cancelled, leaseState>>

\* Under drainMu: a drain is on, the call leaves a fresh channel and parks.
Park(c) ==
  /\ draining
  /\ Goto(c, "gate", "parked")
  /\ waiters' = waiters \cup {c}
  /\ woken' = woken \ {c}
  /\ UNCHANGED <<inFlight, draining, dpc, closing, meterState, cur, cancelled,
                 leaseState>>

\* The select sees the closed channel; the loop tests the flag again.
Wake(c) ==
  /\ c \in woken
  /\ Goto(c, "parked", "gate")
  /\ UNCHANGED <<inFlight, gateState, meterState, cur, cancelled, leaseState>>

\* The select sees the context done.
GiveUpWaiting(c) ==
  /\ c \in cancelled
  /\ Goto(c, "parked", "unpark")
  /\ UNCHANGED <<inFlight, gateState, meterState, cur, cancelled, leaseState>>

\* Under drainMu: the call pulls its channel off the list, if it is there.
Unpark(c) ==
  /\ Goto(c, "unpark", "refused")
  /\ waiters' = waiters \ {c}
  /\ UNCHANGED <<inFlight, draining, woken, dpc, closing, meterState, cur,
                 cancelled, leaseState>>

-----------------------------------------------------------------------------
(* Admit, steps 2 and 3: the started counter and the slot (acquireSlot) *)

\* The call is counted as started before it queues for a slot.
CountStarted(c) ==
  /\ Goto(c, "count", "load")
  /\ started' = started + 1
  /\ UNCHANGED <<inFlight, gateState, failed, cur, cancelled, leaseState>>

\* Seeded fault: without a capacity there is nothing to count.
FaultReserveUncounted(c) ==
  /\ MaxInFlight = 0
  /\ Goto(c, "load", "admitted")
  /\ UNCHANGED <<inFlight, gateState, meterState, cur, cancelled, leaseState>>

\* No capacity is configured: one atomic add reserves the slot.
ReserveUnbounded(c) ==
  /\ MaxInFlight = 0
  /\ Goto(c, "load", "admitted")
  /\ inFlight' = inFlight + 1
  /\ UNCHANGED <<gateState, meterState, cur, cancelled, leaseState>>

\* The atomic load; the branch on it is local to the goroutine.
LoadCounter(c) ==
  /\ MaxInFlight > 0
  /\ Goto(c, "load", IF inFlight >= MaxInFlight THEN "poll" ELSE "cas")
  /\ cur' = [cur EXCEPT ![c] = inFlight]
  /\ UNCHANGED <<inFlight, gateState, meterState, cancelled, leaseState>>

\* Seeded fault: a plain atomic add instead of the compare-and-swap.
FaultAddWithoutCas(c) ==
  /\ Goto(c, "cas", "admitted")
  /\ inFlight' = inFlight + 1
  /\ UNCHANGED <<gateState, meterState, cur, cancelled, leaseState>>

\* The compare-and-swap reserves the slot only if the counter has not moved.
ReserveByCas(c) ==
  /\ inFlight = cur[c]
  /\ Goto(c, "cas", "admitted")
  /\ inFlight' = cur[c] + 1
  /\ UNCHANGED <<gateState, meterState, cur, cancelled, leaseState>>

LoseCas(c) ==
  /\ inFlight # cur[c]
  /\ Goto(c, "cas", "load")
  /\ UNCHANGED <<inFlight, gateState, meterState, cur, cancelled, leaseState>>

\* The 1 ms timer fires first.
PollAgain(c) ==
  /\ Goto(c, "poll", "load")
  /\ UNCHANGED <<inFlight, gateState, meterState, cur, cancelled, leaseState>>

\* The context is done first.
GiveUpPolling(c) ==
  /\ c \in cancelled
  /\ Goto(c, "poll", "fail")
  /\ UNCHANGED <<inFlight, gateState, meterState, cur, cancelled, leaseState>>

\* A call that was counted as started and got no slot is counted as failed.
CountFailed(c) ==
  /\ Goto(c, "fail", "refused")
  /\ failed' = failed + 1
  /\ UNCHANGED <<inFlight, gateState, started, cur, cancelled, leaseState>>

Admit(c) ==
  \/ Enter(c) \/ PassGate(c) \/ Park(c) \/ Wake(c) \/ GiveUpWaiting(c)
  \/ Unpark(c) \/ CountStarted(c) \/ ReserveUnbounded(c) \/ LoadCounter(c)
  \/ ReserveByCas(c) \/ LoseCas(c) \/ PollAgain(c) \/ GiveUpPolling(c)
  \/ CountFailed(c)

-----------------------------------------------------------------------------
(* lease.Release, by any number of goroutines *)

SetReleaser(c, r, to) == rpc' = [rpc EXCEPT ![c][r] = to]

\* Seeded fault: Release does not test the released flag.
FaultReleaseTwice(c, r) ==
  /\ pc[c] = "admitted"
  /\ rpc[c][r] = "idle"
  /\ SetReleaser(c, r, "decrement")
  /\ released' = released \cup {c}
  /\ UNCHANGED <<inFlight, gateState, meterState, pc, cur, cancelled>>

\* The CAS on the released flag lets one goroutine through.
ClaimRelease(c, r) ==
  /\ pc[c] = "admitted"
  /\ rpc[c][r] = "idle"
  /\ SetReleaser(c, r, IF c \in released THEN "done" ELSE "decrement")
  /\ released' = released \cup {c}
  /\ UNCHANGED <<inFlight, gateState, meterState, pc, cur, cancelled>>

\* Seeded fault: the flag is set and the slot is never given back.
FaultKeepSlot(c, r) ==
  /\ rpc[c][r] = "decrement"
  /\ SetReleaser(c, r, "done")
  /\ UNCHANGED <<inFlight, gateState, meterState, pc, cur, cancelled, released>>

\* The winner's atomic add, and the store of zero when the result is negative.
\* They are one step here: by InFlightCountsLeases the counter is at least one
\* when a lease is released, so the store is never reached.
Decrement(c, r) ==
  /\ rpc[c][r] = "decrement"
  /\ inFlight' = IF inFlight > 0 THEN inFlight - 1 ELSE 0
  /\ SetReleaser(c, r, "done")
  /\ UNCHANGED <<gateState, meterState, pc, cur, cancelled, released>>

Release(c, r) == ClaimRelease(c, r) \/ Decrement(c, r)

-----------------------------------------------------------------------------
(* Drains *)

BeginDrain(d) ==
  /\ dpc[d] = "idle"
  /\ dpc' = [dpc EXCEPT ![d] = "draining"]
  /\ draining' = TRUE
  /\ UNCHANGED <<inFlight, waiters, woken, closing, meterState, pc, cur,
                 cancelled, leaseState>>

\* Seeded fault: the list is dropped before the drainer has copied it.
FaultEndDrainDropsList(d) ==
  /\ dpc[d] = "draining"
  /\ dpc' = [dpc EXCEPT ![d] = "closing"]
  /\ draining' = FALSE
  /\ waiters' = {}
  /\ UNCHANGED <<inFlight, woken, closing, meterState, pc, cur, cancelled,
                 leaseState>>

\* Under drainMu: clear the flag and take the whole list.
EndDrain(d) ==
  /\ dpc[d] = "draining"
  /\ dpc' = [dpc EXCEPT ![d] = "closing"]
  /\ draining' = FALSE
  /\ closing' = [closing EXCEPT ![d] = waiters]
  /\ waiters' = {}
  /\ UNCHANGED <<inFlight, woken, meterState, pc, cur, cancelled, leaseState>>

\* Seeded fault: one waiter is signalled, the others are forgotten.
FaultSignalOne(d) ==
  /\ dpc[d] = "closing"
  /\ \E c \in closing[d] : woken' = woken \cup {c}
  /\ closing' = [closing EXCEPT ![d] = {}]
  /\ UNCHANGED <<inFlight, draining, waiters, dpc, meterState, pc, cur,
                 cancelled, leaseState>>

\* Outside drainMu: close the channels that were taken, one by one.
CloseWaiter(d) ==
  /\ dpc[d] = "closing"
  /\ \E c \in closing[d] :
       /\ closing' = [closing EXCEPT ![d] = @ \ {c}]
       /\ woken' = woken \cup {c}
  /\ UNCHANGED <<inFlight, draining, waiters, dpc, meterState, pc, cur,
                 cancelled, leaseState>>

FinishDrain(d) ==
  /\ dpc[d] = "closing"
  /\ closing[d] = {}
  /\ dpc' = [dpc EXCEPT ![d] = "idle"]
  /\ UNCHANGED <<inFlight, draining, waiters, woken, closing, meterState, pc,
                 cur, cancelled, leaseState>>

Drain(d) == BeginDrain(d) \/ EndDrain(d) \/ CloseWaiter(d) \/ FinishDrain(d)

-----------------------------------------------------------------------------
Next ==
  \/ \E c \in Calls : Cancel(c) \/ Admit(c) \/ \E r \in Releasers : Release(c, r)
  \/ \E d \in Drainers : Drain(d)

Spec == Init /\ [][Next]_vars

\* Goroutines that can run do run, and a lease's holder releases it (RPCCall
\* defers the release).  Nobody is obliged to cancel or to begin or end a drain.
Fairness ==
  /\ \A c \in Calls : WF_vars(Admit(c))
  /\ \A c \in Calls, r \in Releasers : WF_vars(Release(c, r))
  /\ \A d \in Drainers : WF_vars(CloseWaiter(d) \/ FinishDrain(d))

FairSpec == Spec /\ Fairness

-----------------------------------------------------------------------------
(* Properties *)

\* The type of every variable.
TypeOK ==
  /\ inFlight \in Nat
  /\ draining \in BOOLEAN
  /\ waiters \subseteq Calls
  /\ started \in Nat
  /\ failed \in Nat
  /\ pc \in [Calls -> CallPc]
  /\ cur \in [Calls -> Nat]
  /\ cancelled \subseteq Calls
  /\ woken \subseteq Calls
  /\ dpc \in [Drainers -> {"idle", "draining", "closing"}]
  /\ closing \in [Drainers -> SUBSET Calls]
  /\ released \subseteq Calls
  /\ rpc \in [Calls -> [Releasers -> ReleasePc]]

\* The calls that occupy a slot: from the reservation in acquireSlot to the
\* decrement in Release.
Holding ==
  {c \in Calls : /\ pc[c] = "admitted"
                 /\ c \in released => \E r \in Releasers : rpc[c][r] = "decrement"}

\* The in-flight counter is exactly the number of occupied slots, whatever the
\* order of reservations and of concurrent releases of one lease: no slot leaks,
\* none is given back twice, and Release's store of zero is never reached.
InFlightCountsLeases == inFlight = Cardinality(Holding)

\* A configured capacity is never exceeded, though callers load the counter and
\* reserve in separate steps.
SlotsBounded == MaxInFlight > 0 => inFlight <= MaxInFlight

\* The counters account for every call: those counted as started are the calls
\* still queueing, those admitted, and those counted as failed.
MetricsAddUp ==
  started - failed =
    Cardinality({c \in Calls : pc[c] \in {"load", "cas", "poll", "fail", "admitted"}})

\* Slots and counters together, over the reservations, the refusals and the racing
\* releases: what the capacity, Drain and the metrics of the client rely on.
SlotsAreExact == TypeOK /\ SlotsBounded /\ InFlightCountsLeases /\ MetricsAddUp

\* No wakeup is lost: a parked call is on the list of a drain that is still on,
\* or some drainer is about to close its channel, or it is closed.
ParkedCallsReachable ==
  /\ waiters # {} => draining
  /\ \A c \in Calls :
       pc[c] = "parked" => \/ c \in waiters \cup woken
                           \/ \E d \in Drainers : c \in closing[d]

\* The list holds no channel of a call that has gone away.
NoStaleWaiters == \A c \in waiters : pc[c] \in {"parked", "unpark"}

\* The waiter list is exact in both directions, though BeginDrain, EndDrain and the
\* calls that give up touch it in any order.
WaitersAreSafe == ParkedCallsReachable /\ NoStaleWaiters

\* A call that is parked when the flag is clear stops being parked, even if
\* another drain begins before its channel is closed.
ParkedCallsWake ==
  \A c \in Calls : pc[c] = "parked" /\ ~draining ~> pc[c] # "parked"

\* A call that passed the gate gets a slot or an error, however often it loses
\* the compare-and-swap or finds the slots taken, if leases are released.
QueuedCallsSettle ==
  \A c \in Calls : pc[c] = "count" ~> pc[c] \in {"admitted", "refused"}

\* The calls that have given their slot back or were refused one.
Gone ==
  {c \in Calls : pc[c] = "refused" \/ (pc[c] = "admitted" /\ c \notin Holding)}

Gate == INSTANCE AdmissionGate
          WITH Capacity <- MaxInFlight, holders <- Holding, gone <- Gone

\* The pipeline implements the bounded, once-only grant of slots.
ImplementsGate == Gate!Spec
=============================================================================
