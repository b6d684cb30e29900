-------------------------- MODULE SupervisorProofs --------------------------
(***************************************************************************)
(* Proofs about Supervisor for every set of calls, drainers and releasers  *)
(* and every capacity.                                                     *)
(***************************************************************************)
EXTENDS Supervisor, FiniteSetTheorems, TLAPS

\* A lease's flag is set before anyone decrements, only one goroutine does, and
\* only an admitted call has a lease: what makes a release count exactly once.
ReleaseOnce ==
  /\ \A c \in released : pc[c] = "admitted"
  /\ \A c \in Calls, r \in Releasers : rpc[c][r] # "idle" => c \in released
  /\ \A c \in Calls, r, s \in Releasers :
       rpc[c][r] = "decrement" /\ rpc[c][s] = "decrement" => r = s

\* A call about to compare-and-swap has seen a free slot, and remembers the count.
SawFreeSlot ==
  \A c \in Calls : pc[c] = "cas" => MaxInFlight > 0 /\ cur[c] < MaxInFlight

\* The inductive invariant behind the bound.
SlotInv == TypeOK /\ ReleaseOnce /\ SawFreeSlot /\ InFlightCountsLeases /\ SlotsBounded

-----------------------------------------------------------------------------
\* The initial state is well typed.
LEMMA InitTypeOK == Init => TypeOK
<1> SUFFICES ASSUME Init PROVE TypeOK
  OBVIOUS
<1> USE DEF Init
<1>1. inFlight \in Nat /\ started \in Nat /\ failed \in Nat
  OBVIOUS
<1>2. draining \in BOOLEAN /\ waiters \subseteq Calls
  OBVIOUS
<1>3. pc \in [Calls -> CallPc] /\ cur \in [Calls -> Nat]
  BY DEF CallPc
<1>4. /\ cancelled \subseteq Calls
      /\ woken \subseteq Calls
      /\ released \subseteq Calls
  OBVIOUS
<1>5. /\ dpc \in [Drainers -> {"idle", "draining", "closing"}]
      /\ closing \in [Drainers -> SUBSET Calls]
  OBVIOUS
<1>6. rpc \in [Calls -> [Releasers -> ReleasePc]]
  BY DEF ReleasePc
<1>7. QED
  BY <1>1, <1>2, <1>3, <1>4, <1>5, <1>6 DEF TypeOK

\* A call keeps the types on its way through the gate, the counters and the bound.
LEMMA AdmitKeepsTypes ==
  ASSUME TypeOK, NEW c \in Calls, Admit(c) PROVE TypeOK'
<1> USE DEF TypeOK, gateState, leaseState, meterState, Goto, CallPc
<1>1. CASE Enter(c)             BY <1>1 DEF Enter
<1>2. CASE PassGate(c)          BY <1>2 DEF PassGate
<1>3. CASE Park(c)              BY <1>3 DEF Park
<1>4. CASE Wake(c)              BY <1>4 DEF Wake
<1>5. CASE GiveUpWaiting(c)     BY <1>5 DEF GiveUpWaiting
<1>6. CASE Unpark(c)            BY <1>6 DEF Unpark
<1>7. CASE CountStarted(c)      BY <1>7 DEF CountStarted
<1>8. CASE ReserveUnbounded(c)  BY <1>8 DEF ReserveUnbounded
<1>9. CASE LoadCounter(c)       BY <1>9 DEF LoadCounter
<1>10. CASE ReserveByCas(c)     BY <1>10 DEF ReserveByCas
<1>11. CASE LoseCas(c)          BY <1>11 DEF LoseCas
<1>12. CASE PollAgain(c)        BY <1>12 DEF PollAgain
<1>13. CASE GiveUpPolling(c)    BY <1>13 DEF GiveUpPolling
<1>14. CASE CountFailed(c)      BY <1>14 DEF CountFailed
<1>15. QED
  BY <1>1, <1>2, <1>3, <1>4, <1>5, <1>6, <1>7, <1>8, <1>9, <1>10,
     <1>11, <1>12, <1>13, <1>14 DEF Admit

\* A releaser keeps the types, whether it claims the lease or decrements for it.
LEMMA ReleaseKeepsTypes ==
  ASSUME TypeOK, NEW c \in Calls, NEW r \in Releasers, Release(c, r) PROVE TypeOK'
<1> USE DEF TypeOK, gateState, leaseState, meterState, SetReleaser, ReleasePc
<1>1. CASE ClaimRelease(c, r)   BY <1>1 DEF ClaimRelease
<1>2. CASE Decrement(c, r)      BY <1>2 DEF Decrement
<1>3. QED
  BY <1>1, <1>2 DEF Release

\* A drainer keeps the types, from raising the flag to closing the last waiter.
LEMMA DrainKeepsTypes ==
  ASSUME TypeOK, NEW d \in Drainers, Drain(d) PROVE TypeOK'
<1> USE DEF TypeOK, gateState, leaseState, meterState
<1>1. CASE BeginDrain(d)        BY <1>1 DEF BeginDrain
<1>2. CASE EndDrain(d)          BY <1>2 DEF EndDrain
<1>3. CASE CloseWaiter(d)       BY <1>3 DEF CloseWaiter
<1>4. CASE FinishDrain(d)       BY <1>4 DEF FinishDrain
<1>5. QED
  BY <1>1, <1>2, <1>3, <1>4 DEF Drain

\* Every variable keeps its type in every step of Admit, Release and the drains.
THEOREM TypeCorrect == Spec => []TypeOK
<1>1. ASSUME TypeOK, UNCHANGED vars \/ \E c \in Calls : Cancel(c)
      PROVE  TypeOK'
  BY <1>1 DEF TypeOK, vars, Cancel, gateState, leaseState, meterState
<1>2. TypeOK /\ [Next]_vars => TypeOK'
  BY <1>1, AdmitKeepsTypes, ReleaseKeepsTypes, DrainKeepsTypes DEF Next
<1>3. QED
  BY InitTypeOK, <1>2, PTL DEF Spec

-----------------------------------------------------------------------------
(* The slots *)

\* Occupied slots can be counted.
LEMMA HoldingFinite ==
  /\ IsFiniteSet(Holding)
  /\ Cardinality(Holding) \in Nat
BY SupervisorAssumption, FS_Subset, FS_CardinalityType DEF Holding

\* A step that moves no call in or out of "admitted" or into "cas", and touches
\* neither the counter nor a lease, keeps the slot invariant.
LEMMA QuietStep ==
  ASSUME SlotInv, TypeOK',
         UNCHANGED <<inFlight, leaseState>>,
         \A c \in Calls : pc'[c] = "admitted" <=> pc[c] = "admitted",
         \A c \in Calls : pc'[c] = "cas" => pc[c] = "cas" /\ cur'[c] = cur[c]
  PROVE  SlotInv'
<1> USE DEF SlotInv, leaseState
<1>1. Holding' = Holding
  BY DEF Holding
<1>2. ReleaseOnce'
  BY DEF ReleaseOnce, TypeOK
<1>3. SawFreeSlot'
  BY DEF SawFreeSlot
<1>4. InFlightCountsLeases' /\ SlotsBounded'
  BY <1>1 DEF InFlightCountsLeases, SlotsBounded
<1>5. QED
  BY <1>2, <1>3, <1>4

\* A call that reserves a slot joins the holders, and the counter follows.
LEMMA ReserveStep ==
  ASSUME SlotInv, TypeOK', NEW c \in Calls,
         pc[c] \in {"load", "cas"},
         pc' = [pc EXCEPT ![c] = "admitted"],
         inFlight' = inFlight + 1,
         MaxInFlight > 0 => inFlight < MaxInFlight,
         UNCHANGED <<cur, leaseState>>
  PROVE  SlotInv'
<1> USE DEF SlotInv, leaseState
<1>1. c \notin Holding /\ c \notin released
  BY DEF Holding, ReleaseOnce
<1>2. Holding' = Holding \cup {c}
  BY <1>1 DEF Holding, TypeOK
<1>3. Cardinality(Holding') = Cardinality(Holding) + 1
  BY <1>1, <1>2, HoldingFinite, FS_AddElement
<1>4. InFlightCountsLeases' /\ SlotsBounded'
  BY <1>3, SupervisorAssumption
     DEF InFlightCountsLeases, SlotsBounded, TypeOK
<1>5. ReleaseOnce'
  BY <1>1 DEF ReleaseOnce, TypeOK
<1>6. SawFreeSlot'
  BY DEF SawFreeSlot, TypeOK
<1>7. QED
  BY <1>4, <1>5, <1>6

\* The goroutine that wins the released flag keeps the slot until it decrements.
LEMMA ClaimStep ==
  ASSUME SlotInv, TypeOK', NEW c \in Calls, NEW r \in Releasers, ClaimRelease(c, r)
  PROVE  SlotInv'
<1> USE DEF SlotInv, ClaimRelease, SetReleaser
<1>1. ReleaseOnce'
  BY DEF ReleaseOnce, TypeOK
<1>2. Holding' = Holding
  <2>1. CASE c \in released
    BY <2>1 DEF Holding, TypeOK
  <2>2. CASE c \notin released
    BY <2>2 DEF Holding, ReleaseOnce, TypeOK
  <2>3. QED
    BY <2>1, <2>2
<1>3. SawFreeSlot'
  BY DEF SawFreeSlot
<1>4. InFlightCountsLeases' /\ SlotsBounded'
  BY <1>2 DEF InFlightCountsLeases, SlotsBounded
<1>5. QED
  BY <1>1, <1>3, <1>4

\* The decrement takes exactly that call out of the holders.
LEMMA DecrementStep ==
  ASSUME SlotInv, TypeOK', NEW c \in Calls, NEW r \in Releasers, Decrement(c, r)
  PROVE  SlotInv' /\ Holding' = Holding \ {c} /\ c \in Holding
<1> USE DEF SlotInv, Decrement, SetReleaser
<1>1. c \in released /\ pc[c] = "admitted"
  BY DEF ReleaseOnce
<1>2. c \in Holding
  BY <1>1 DEF Holding
<1>3. \A s \in Releasers : rpc'[c][s] # "decrement"
  BY DEF ReleaseOnce, TypeOK
<1>4. Holding' = Holding \ {c}
  BY <1>1, <1>3 DEF Holding, TypeOK
<1>5. Cardinality(Holding') = Cardinality(Holding) - 1
  BY <1>2, <1>4, HoldingFinite, FS_RemoveElement
<1>6. Cardinality(Holding) > 0
  BY <1>2, HoldingFinite, FS_EmptySet
<1>7. InFlightCountsLeases' /\ SlotsBounded'
  BY <1>5, <1>6, SupervisorAssumption
     DEF InFlightCountsLeases, SlotsBounded, TypeOK
<1>8. ReleaseOnce'
  BY DEF ReleaseOnce, TypeOK, ReleasePc
<1>9. SawFreeSlot'
  BY DEF SawFreeSlot
<1>10. QED
  BY <1>2, <1>4, <1>7, <1>8, <1>9

\* The slot invariant holds in every reachable state.
THEOREM SlotInvariant == Spec => []SlotInv
<1>1. Init => SlotInv
  <2> SUFFICES ASSUME Init, TypeOK PROVE SlotInv
    BY InitTypeOK
  <2>1. Holding = {}
    BY DEF Init, Holding
  <2>2. InFlightCountsLeases /\ SlotsBounded
    BY <2>1, FS_EmptySet, SupervisorAssumption
       DEF Init, InFlightCountsLeases, SlotsBounded
  <2>3. ReleaseOnce /\ SawFreeSlot
    BY DEF Init, ReleaseOnce, SawFreeSlot
  <2>4. QED
    BY <2>2, <2>3 DEF SlotInv
<1>2. SlotInv /\ TypeOK' /\ [Next]_vars => SlotInv'
  <2> SUFFICES ASSUME SlotInv, TypeOK', [Next]_vars PROVE SlotInv'
    OBVIOUS
  <2>1. CASE UNCHANGED vars \/ \E c \in Calls : Cancel(c)
    BY <2>1, QuietStep DEF vars, Cancel
  <2>2. ASSUME NEW c \in Calls, Admit(c) PROVE SlotInv'
    <3> USE DEF Goto
    <3>1. CASE Enter(c)
      BY <3>1, QuietStep DEF Enter, SlotInv, TypeOK
    <3>2. CASE PassGate(c)
      BY <3>2, QuietStep DEF PassGate, SlotInv, TypeOK
    <3>3. CASE Park(c)
      BY <3>3, QuietStep DEF Park, SlotInv, TypeOK
    <3>4. CASE Wake(c)
      BY <3>4, QuietStep DEF Wake, SlotInv, TypeOK
    <3>5. CASE GiveUpWaiting(c)
      BY <3>5, QuietStep DEF GiveUpWaiting, SlotInv, TypeOK
    <3>6. CASE Unpark(c)
      BY <3>6, QuietStep DEF Unpark, SlotInv, TypeOK
    <3>7. CASE CountStarted(c)
      BY <3>7, QuietStep DEF CountStarted, SlotInv, TypeOK
    <3>8. CASE ReserveUnbounded(c)
      <4>1. ~(MaxInFlight > 0)
        BY <3>8 DEF ReserveUnbounded
      <4>2. QED
        BY <3>8, <4>1, ReserveStep DEF ReserveUnbounded
    <3>9. CASE LoadCounter(c)
      <4>1. Holding' = Holding
        BY <3>9 DEF LoadCounter, leaseState, Holding, SlotInv, TypeOK
      <4>2. ReleaseOnce'
        BY <3>9 DEF LoadCounter, leaseState, ReleaseOnce, SlotInv, TypeOK
      <4>3. SawFreeSlot'
        BY <3>9, SupervisorAssumption
           DEF LoadCounter, SawFreeSlot, SlotInv, TypeOK
      <4>4. QED
        BY <3>9, <4>1, <4>2, <4>3
           DEF LoadCounter, SlotInv, InFlightCountsLeases, SlotsBounded
    <3>10. CASE ReserveByCas(c)
      <4>1. MaxInFlight > 0 /\ inFlight < MaxInFlight
        BY <3>10 DEF ReserveByCas, SlotInv, SawFreeSlot
      <4>2. QED
        BY <3>10, <4>1, ReserveStep DEF ReserveByCas
    <3>11. CASE LoseCas(c)
      BY <3>11, QuietStep DEF LoseCas, SlotInv, TypeOK
    <3>12. CASE PollAgain(c)
      BY <3>12, QuietStep DEF PollAgain, SlotInv, TypeOK
    <3>13. CASE GiveUpPolling(c)
      BY <3>13, QuietStep DEF GiveUpPolling, SlotInv, TypeOK
    <3>14. CASE CountFailed(c)
      BY <3>14, QuietStep DEF CountFailed, SlotInv, TypeOK
    <3>15. QED
      BY <2>2, <3>1, <3>2, <3>3, <3>4, <3>5, <3>6, <3>7, <3>8, <3>9, <3>10,
         <3>11, <3>12, <3>13, <3>14 DEF Admit
  <2>3. ASSUME NEW c \in Calls, NEW r \in Releasers, Release(c, r) PROVE SlotInv'
    BY <2>3, ClaimStep, DecrementStep DEF Release
  <2>4. ASSUME NEW d \in Drainers, Drain(d) PROVE SlotInv'
    BY <2>4, QuietStep
       DEF Drain, BeginDrain, EndDrain, CloseWaiter, FinishDrain
  <2>5. QED
    BY <2>1, <2>2, <2>3, <2>4 DEF Next
<1>3. QED
  BY <1>1, <1>2, TypeCorrect, PTL DEF Spec

\* The counter equals the number of occupied slots, for every set of calls and
\* of releasing goroutines.
THEOREM CounterIsExact == Spec => []InFlightCountsLeases
BY SlotInvariant, PTL DEF SlotInv

\* No schedule of callers exceeds the configured capacity.
THEOREM BoundHolds == Spec => []SlotsBounded
BY SlotInvariant, PTL DEF SlotInv

-----------------------------------------------------------------------------
(* The counters *)

\* The calls counted as started and not as failed.
Counted == {c \in Calls : pc[c] \in {"load", "cas", "poll", "fail", "admitted"}}

\* They can be counted.
LEMMA CountedFinite == IsFiniteSet(Counted) /\ Cardinality(Counted) \in Nat
BY SupervisorAssumption, FS_Subset, FS_CardinalityType DEF Counted

\* A step that moves no call into or out of the counted ones, nor the counters.
LEMMA UncountedStep ==
  ASSUME MetricsAddUp, UNCHANGED meterState,
         \A c \in Calls :
           pc'[c] \in {"load", "cas", "poll", "fail", "admitted"}
             <=> pc[c] \in {"load", "cas", "poll", "fail", "admitted"}
  PROVE  MetricsAddUp'
<1>1. Counted' = Counted
  BY DEF Counted
<1>2. QED
  BY <1>1 DEF MetricsAddUp, Counted, meterState

\* The started and failed counters account for every call, for every set of calls.
THEOREM CountersAddUp == Spec => []MetricsAddUp
<1>1. Init => MetricsAddUp
  <2> SUFFICES ASSUME Init PROVE MetricsAddUp
    OBVIOUS
  <2>1. Counted = {}
    BY DEF Init, Counted
  <2>2. QED
    BY <2>1, FS_EmptySet DEF Init, MetricsAddUp, Counted
<1>2. MetricsAddUp /\ TypeOK /\ [Next]_vars => MetricsAddUp'
  <2> SUFFICES ASSUME MetricsAddUp, TypeOK, [Next]_vars PROVE MetricsAddUp'
    OBVIOUS
  <2>1. CASE UNCHANGED vars \/ \E c \in Calls : Cancel(c)
    BY <2>1, UncountedStep DEF vars, Cancel
  <2>2. ASSUME NEW c \in Calls, Admit(c) PROVE MetricsAddUp'
    <3> USE DEF Goto, TypeOK
    <3>1. CASE Enter(c)             BY <3>1, UncountedStep DEF Enter
    <3>2. CASE PassGate(c)          BY <3>2, UncountedStep DEF PassGate
    <3>3. CASE Park(c)              BY <3>3, UncountedStep DEF Park
    <3>4. CASE Wake(c)              BY <3>4, UncountedStep DEF Wake
    <3>5. CASE GiveUpWaiting(c)     BY <3>5, UncountedStep DEF GiveUpWaiting
    <3>6. CASE Unpark(c)            BY <3>6, UncountedStep DEF Unpark
    <3>7. CASE CountStarted(c)
      <4>1. Counted' = Counted \cup {c} /\ c \notin Counted
        BY <3>7 DEF CountStarted, Counted
      <4>2. Cardinality(Counted') = Cardinality(Counted) + 1
        BY <4>1, CountedFinite, FS_AddElement
      <4>3. QED
        BY <3>7, <4>2, CountedFinite DEF CountStarted, MetricsAddUp, Counted
    <3>8. CASE ReserveUnbounded(c)  BY <3>8, UncountedStep DEF ReserveUnbounded
    <3>9. CASE LoadCounter(c)       BY <3>9, UncountedStep DEF LoadCounter
    <3>10. CASE ReserveByCas(c)     BY <3>10, UncountedStep DEF ReserveByCas
    <3>11. CASE LoseCas(c)          BY <3>11, UncountedStep DEF LoseCas
    <3>12. CASE PollAgain(c)        BY <3>12, UncountedStep DEF PollAgain
    <3>13. CASE GiveUpPolling(c)    BY <3>13, UncountedStep DEF GiveUpPolling
    <3>14. CASE CountFailed(c)
      <4>1. Counted' = Counted \ {c} /\ c \in Counted
        BY <3>14 DEF CountFailed, Counted
      <4>2. Cardinality(Counted') = Cardinality(Counted) - 1
        BY <4>1, CountedFinite, FS_RemoveElement
      <4>3. QED
        BY <3>14, <4>2, CountedFinite DEF CountFailed, MetricsAddUp, Counted
    <3>15. QED
      BY <2>2, <3>1, <3>2, <3>3, <3>4, <3>5, <3>6, <3>7, <3>8, <3>9, <3>10,
         <3>11, <3>12, <3>13, <3>14 DEF Admit
  <2>3. ASSUME NEW c \in Calls, NEW r \in Releasers, Release(c, r)
        PROVE  MetricsAddUp'
    BY <2>3, UncountedStep DEF Release, ClaimRelease, Decrement
  <2>4. ASSUME NEW d \in Drainers, Drain(d) PROVE MetricsAddUp'
    BY <2>4, UncountedStep
       DEF Drain, BeginDrain, EndDrain, CloseWaiter, FinishDrain
  <2>5. QED
    BY <2>1, <2>2, <2>3, <2>4 DEF Next
<1>3. QED
  BY <1>1, <1>2, TypeCorrect, PTL DEF Spec

-----------------------------------------------------------------------------
(* The waiters *)

\* A channel is on the list, or with one drainer, or closed, and in one of these
\* places only: what makes a wakeup reach the call that waits for it.
WakeInv ==
  /\ waiters # {} => draining
  /\ \A d \in Drainers : dpc[d] # "closing" => closing[d] = {}
  /\ waiters \cap woken = {}
  /\ \A d \in Drainers : closing[d] \cap (waiters \cup woken) = {}
  /\ \A d, e \in Drainers : d # e => closing[d] \cap closing[e] = {}
  /\ \A c \in waiters : pc[c] \in {"parked", "unpark"}
  /\ \A d \in Drainers : \A c \in closing[d] : pc[c] \in {"parked", "unpark", "refused"}
  /\ \A c \in Calls :
       pc[c] = "parked" => \/ c \in waiters \cup woken
                           \/ \E d \in Drainers : c \in closing[d]

\* A step that touches neither the gate nor a call at the gate.
LEMMA AwayFromGate ==
  ASSUME TypeOK, WakeInv, NEW c \in Calls, NEW to \in CallPc,
         pc[c] \notin {"parked", "unpark", "refused"} \/ to = pc[c],
         to # "parked" \/ to = pc[c],
         pc' = [pc EXCEPT ![c] = to],
         UNCHANGED gateState
  PROVE  WakeInv'
BY DEF TypeOK, WakeInv, gateState

\* The invariant of the waiter list holds in every reachable state.
THEOREM WakeInvariant == Spec => []WakeInv
<1>1. Init => WakeInv
  BY DEF Init, WakeInv
<1>2. WakeInv /\ TypeOK /\ [Next]_vars => WakeInv'
  <2> SUFFICES ASSUME WakeInv, TypeOK, [Next]_vars PROVE WakeInv'
    OBVIOUS
  <2>1. CASE UNCHANGED vars \/ \E c \in Calls : Cancel(c)
    BY <2>1 DEF vars, Cancel, WakeInv, gateState
  <2>2. ASSUME NEW c \in Calls, Admit(c) PROVE WakeInv'
    <3> USE DEF Goto, CallPc
    <3>1. CASE Enter(c)             BY <3>1, AwayFromGate DEF Enter
    <3>2. CASE PassGate(c)          BY <3>2, AwayFromGate DEF PassGate
    <3>3. CASE Park(c)              BY <3>3 DEF Park, WakeInv, TypeOK
    <3>4. CASE Wake(c)              BY <3>4 DEF Wake, WakeInv, TypeOK, gateState
    <3>5. CASE GiveUpWaiting(c)     BY <3>5 DEF GiveUpWaiting, WakeInv, TypeOK, gateState
    <3>6. CASE Unpark(c)            BY <3>6 DEF Unpark, WakeInv, TypeOK
    <3>7. CASE CountStarted(c)      BY <3>7, AwayFromGate DEF CountStarted
    <3>8. CASE ReserveUnbounded(c)  BY <3>8, AwayFromGate DEF ReserveUnbounded
    <3>9. CASE LoadCounter(c)       BY <3>9, AwayFromGate DEF LoadCounter
    <3>10. CASE ReserveByCas(c)     BY <3>10, AwayFromGate DEF ReserveByCas
    <3>11. CASE LoseCas(c)          BY <3>11, AwayFromGate DEF LoseCas
    <3>12. CASE PollAgain(c)        BY <3>12, AwayFromGate DEF PollAgain
    <3>13. CASE GiveUpPolling(c)    BY <3>13, AwayFromGate DEF GiveUpPolling
    <3>14. CASE CountFailed(c)      BY <3>14, AwayFromGate DEF CountFailed
    <3>15. QED
      BY <2>2, <3>1, <3>2, <3>3, <3>4, <3>5, <3>6, <3>7, <3>8, <3>9, <3>10,
         <3>11, <3>12, <3>13, <3>14 DEF Admit
  <2>3. ASSUME NEW c \in Calls, NEW r \in Releasers, Release(c, r) PROVE WakeInv'
    BY <2>3 DEF Release, ClaimRelease, Decrement, WakeInv, gateState
  <2>4. ASSUME NEW d \in Drainers, Drain(d) PROVE WakeInv'
    <3> USE DEF WakeInv, TypeOK
    <3>1. CASE BeginDrain(d)        BY <3>1 DEF BeginDrain
    <3>2. CASE EndDrain(d)          BY <3>2 DEF EndDrain
    <3>3. CASE CloseWaiter(d)
      <4>1. PICK c \in closing[d] :
              /\ closing' = [closing EXCEPT ![d] = @ \ {c}]
              /\ woken' = woken \cup {c}
        BY <3>3 DEF CloseWaiter
      <4>2. QED
        BY <3>3, <4>1 DEF CloseWaiter
    <3>4. CASE FinishDrain(d)       BY <3>4 DEF FinishDrain
    <3>5. QED
      BY <2>4, <3>1, <3>2, <3>3, <3>4 DEF Drain
  <2>5. QED
    BY <2>1, <2>2, <2>3, <2>4 DEF Next
<1>3. QED
  BY <1>1, <1>2, TypeCorrect, PTL DEF Spec

\* No wakeup is lost, however drains overlap.
THEOREM WakeupsReach == Spec => []ParkedCallsReachable
<1>1. WakeInv => ParkedCallsReachable
  BY DEF WakeInv, ParkedCallsReachable
<1>2. QED
  BY <1>1, WakeInvariant, PTL

\* A cancelled call takes its channel with it.
THEOREM ListIsFresh == Spec => []NoStaleWaiters
<1>1. WakeInv => NoStaleWaiters
  BY DEF WakeInv, NoStaleWaiters
<1>2. QED
  BY <1>1, WakeInvariant, PTL

\* The slots and the counters together, for every capacity, caller and releaser.
THEOREM SlotsStayExact == Spec => []SlotsAreExact
<1>1. TypeOK /\ SlotsBounded /\ InFlightCountsLeases /\ MetricsAddUp => SlotsAreExact
  BY DEF SlotsAreExact
<1>2. QED
  BY <1>1, TypeCorrect, BoundHolds, CounterIsExact, CountersAddUp, PTL

\* The waiter list in both directions, however many drains overlap.
THEOREM WaitersStaySafe == Spec => []WaitersAreSafe
<1>1. ParkedCallsReachable /\ NoStaleWaiters => WaitersAreSafe
  BY DEF WaitersAreSafe
<1>2. QED
  BY <1>1, WakeupsReach, ListIsFresh, PTL

-----------------------------------------------------------------------------
(* The pipeline implements AdmissionGate *)

\* Moving one call that holds nothing from one state of Admit to another is a
\* stutter of the gate, or the turning away of that call.
LEMMA MoveMaps ==
  ASSUME SlotInv, NEW c \in Calls, NEW to \in CallPc,
         pc[c] \notin {"admitted", "refused"}, to # "admitted",
         pc' = [pc EXCEPT ![c] = to], UNCHANGED leaseState
  PROVE  [Gate!Next]_(Gate!gateVars)
<1> USE DEF SlotInv, TypeOK, leaseState
<1>1. Holding' = Holding
  BY DEF Holding
<1>2. c \notin Holding \cup Gone
  BY DEF Holding, Gone
<1>3. CASE to = "refused"
  <2>1. Gone' = Gone \cup {c}
    BY <1>1, <1>3 DEF Gone
  <2>2. Gate!TurnAway(c)
    BY <1>1, <1>2, <2>1 DEF Gate!TurnAway
  <2>3. QED
    BY <2>2 DEF Gate!Next
<1>4. CASE to # "refused"
  <2>1. Gone' = Gone
    BY <1>1, <1>4 DEF Gone
  <2>2. QED
    BY <1>1, <2>1 DEF Gate!gateVars
<1>5. QED
  BY <1>3, <1>4

\* The instance counts as this module does.
LEMMA SameCardinality == Gate!Cardinality(Holding) = Cardinality(Holding)
BY DEF Gate!Cardinality, Cardinality

\* A reservation is a grant.
LEMMA ReserveMaps ==
  ASSUME SlotInv, NEW c \in Calls,
         pc[c] \in {"load", "cas"},
         pc' = [pc EXCEPT ![c] = "admitted"],
         MaxInFlight > 0 => inFlight < MaxInFlight,
         UNCHANGED leaseState
  PROVE  Gate!Next
<1> USE DEF SlotInv, TypeOK, leaseState
<1>1. c \notin Holding \cup Gone /\ c \notin released
  BY DEF Holding, Gone, ReleaseOnce
<1>2. Holding' = Holding \cup {c}
  BY <1>1 DEF Holding
<1>3. Gone' = Gone
  BY <1>1, <1>2 DEF Gone
<1>4. MaxInFlight > 0 => Cardinality(Holding) < MaxInFlight
  BY DEF InFlightCountsLeases
<1>5. Gate!Grant(c)
  BY <1>1, <1>2, <1>3, <1>4, SameCardinality DEF Gate!Grant
<1>6. QED
  BY <1>5 DEF Gate!Next

\* A decrement is a return.
LEMMA DecrementMaps ==
  ASSUME SlotInv, TypeOK', NEW c \in Calls, NEW r \in Releasers, Decrement(c, r)
  PROVE  Gate!Next
<1>1. Holding' = Holding \ {c} /\ c \in Holding
  BY DecrementStep
<1>2. pc[c] = "admitted" /\ pc' = pc
  BY <1>1 DEF Holding, Decrement
<1>3. Gone' = Gone \cup {c}
  BY <1>1, <1>2 DEF Gone
<1>4. Gate!Return(c)
  BY <1>1, <1>3 DEF Gate!Return
<1>5. QED
  BY <1>4 DEF Gate!Next

\* A step that moves no call and occupies or frees no slot is a stutter.
LEMMA StillMaps ==
  ASSUME Holding' = Holding, pc' = pc
  PROVE  UNCHANGED Gate!gateVars
BY DEF Gone, Gate!gateVars

\* The detailed pipeline (gate, counters, load, CAS, polling, flagged release)
\* implements the abstract once-only grant of a bounded number of slots.
THEOREM SupervisorImplementsGate == Spec => ImplementsGate
<1>1. Init => Gate!Init
  BY DEF Init, Gate!Init, Holding, Gone
<1>2. SlotInv /\ TypeOK' /\ [Next]_vars => [Gate!Next]_(Gate!gateVars)
  <2> SUFFICES ASSUME SlotInv, TypeOK', [Next]_vars
               PROVE  [Gate!Next]_(Gate!gateVars)
    OBVIOUS
  <2>1. CASE UNCHANGED vars \/ \E c \in Calls : Cancel(c)
    BY <2>1, StillMaps DEF vars, Cancel, Holding, leaseState
  <2>2. ASSUME NEW c \in Calls, Admit(c) PROVE [Gate!Next]_(Gate!gateVars)
    <3> USE DEF Goto, CallPc
    <3>1. CASE Enter(c)          BY <3>1, MoveMaps DEF Enter
    <3>2. CASE PassGate(c)       BY <3>2, MoveMaps DEF PassGate
    <3>3. CASE Park(c)           BY <3>3, MoveMaps DEF Park
    <3>4. CASE Wake(c)           BY <3>4, MoveMaps DEF Wake
    <3>5. CASE GiveUpWaiting(c)  BY <3>5, MoveMaps DEF GiveUpWaiting
    <3>6. CASE Unpark(c)         BY <3>6, MoveMaps DEF Unpark
    <3>7. CASE CountStarted(c)   BY <3>7, MoveMaps DEF CountStarted
    <3>8. CASE ReserveUnbounded(c)
      <4>1. ~(MaxInFlight > 0)
        BY <3>8 DEF ReserveUnbounded
      <4>2. QED
        BY <3>8, <4>1, ReserveMaps DEF ReserveUnbounded
    <3>9. CASE LoadCounter(c)    BY <3>9, MoveMaps DEF LoadCounter
    <3>10. CASE ReserveByCas(c)
      <4>1. inFlight < MaxInFlight
        BY <3>10 DEF ReserveByCas, SlotInv, SawFreeSlot
      <4>2. QED
        BY <3>10, <4>1, ReserveMaps DEF ReserveByCas
    <3>11. CASE LoseCas(c)       BY <3>11, MoveMaps DEF LoseCas
    <3>12. CASE PollAgain(c)     BY <3>12, MoveMaps DEF PollAgain
    <3>13. CASE GiveUpPolling(c) BY <3>13, MoveMaps DEF GiveUpPolling
    <3>14. CASE CountFailed(c)   BY <3>14, MoveMaps DEF CountFailed
    <3>15. QED
      BY <2>2, <3>1, <3>2, <3>3, <3>4, <3>5, <3>6, <3>7, <3>8, <3>9, <3>10,
         <3>11, <3>12, <3>13, <3>14 DEF Admit
  <2>3. ASSUME NEW c \in Calls, NEW r \in Releasers, Release(c, r)
        PROVE  [Gate!Next]_(Gate!gateVars)
    <3>1. CASE ClaimRelease(c, r)
      <4>1. Holding' = Holding
        <5>1. CASE c \in released
          BY <3>1, <5>1 DEF ClaimRelease, SetReleaser, Holding, SlotInv, TypeOK
        <5>2. CASE c \notin released
          BY <3>1, <5>2
             DEF ClaimRelease, SetReleaser, Holding, ReleaseOnce, SlotInv, TypeOK
        <5>3. QED
          BY <5>1, <5>2
      <4>2. QED
        BY <3>1, <4>1, StillMaps DEF ClaimRelease
    <3>2. CASE Decrement(c, r)
      BY <3>2, DecrementMaps
    <3>3. QED
      BY <2>3, <3>1, <3>2 DEF Release
  <2>4. ASSUME NEW d \in Drainers, Drain(d) PROVE UNCHANGED Gate!gateVars
    BY <2>4, StillMaps
       DEF Drain, BeginDrain, EndDrain, CloseWaiter, FinishDrain, Holding, leaseState
  <2>5. QED
    BY <2>1, <2>2, <2>3, <2>4 DEF Next
<1>3. QED
  BY <1>1, <1>2, SlotInvariant, TypeCorrect, PTL
     DEF Spec, ImplementsGate, Gate!Spec
=============================================================================
