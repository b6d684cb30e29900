---------------------------- MODULE KernelProofs ----------------------------
(***************************************************************************)
(* Proofs about Kernel for every set of requests and closers.              *)
(***************************************************************************)
EXTENDS Kernel, FiniteSetTheorems, TLAPS

\* A closer that flipped the flag finds it set for good.
ClosersFlipped == \A k \in Closers : kpc[k] \in {"waiting", "closed"} => closed

\* Once a Close has returned nothing is counted in, and nothing gets in any more.
NothingTracked == \A k \in Closers : kpc[k] = "closed" => tracked = {}

\* The inductive invariant behind CloseDrainsPosts.
DrainInv ==
  /\ TypeOK
  /\ RetiredBehindGen
  /\ WaitGroupExact
  /\ ClosersFlipped
  /\ NothingTracked

-----------------------------------------------------------------------------
\* The requests that are counted in can be counted.
LEMMA TrackedFinite ==
  ASSUME TypeOK
  PROVE  IsFiniteSet(tracked) /\ Cardinality(tracked) \in Nat
BY KernelAssumption, FS_Subset, FS_CardinalityType DEF TypeOK

\* A request that moves without entering or leaving the interval in which it is in
\* flight, and without being counted in or out, keeps the invariant.
LEMMA QuietStep ==
  ASSUME DrainInv, NEW r \in Requests, NEW to \in RequestPc,
         pc' = [pc EXCEPT ![r] = to],
         r \in InFlight <=> to \in {"ready", "wire", "open"},
         issued' \in [Requests -> Nat],
         UNCHANGED <<epochState, wg, tracked, kpc>>
  PROVE  DrainInv'
<1> USE DEF DrainInv, epochState
<1>1. TypeOK'
  BY DEF TypeOK
<1>2. InFlight' = InFlight
  BY DEF InFlight, TypeOK
<1>3. WaitGroupExact'
  BY <1>2 DEF WaitGroupExact
<1>4. QED
  BY <1>1, <1>3 DEF RetiredBehindGen, ClosersFlipped, NothingTracked

\* Counting a request in, on an open kernel.
LEMMA TrackStep ==
  ASSUME DrainInv, NEW r \in Requests, ~closed,
         Goto(r, "register", "ready"), Track(r),
         UNCHANGED <<epochState, issued, kpc>>
  PROVE  DrainInv'
<1> USE DEF DrainInv, epochState, Goto, Track
<1>1. r \notin tracked
  BY DEF WaitGroupExact, InFlight
<1>2. Cardinality(tracked') = Cardinality(tracked) + 1
  BY <1>1, TrackedFinite, FS_AddElement
<1>3. InFlight' = InFlight \cup {r}
  BY DEF InFlight, TypeOK
<1>4. WaitGroupExact'
  BY <1>2, <1>3 DEF WaitGroupExact
<1>5. TypeOK'
  BY DEF TypeOK, RequestPc
<1>6. \A k \in Closers : kpc[k] # "closed"
  BY DEF ClosersFlipped
<1>7. QED
  BY <1>4, <1>5, <1>6 DEF RetiredBehindGen, ClosersFlipped, NothingTracked

\* The end of a request, counted out if it was counted in.
LEMMA UntrackStep ==
  ASSUME DrainInv, NEW r \in Requests, NEW from \in {"wire", "open"},
         Goto(r, from, "done"), Untrack(r),
         UNCHANGED <<epochState, issued, kpc>>
  PROVE  DrainInv'
<1> USE DEF DrainInv, epochState, Goto, Untrack
<1>1. InFlight' = InFlight \ {r}
  BY DEF InFlight, TypeOK
<1>2. CASE r \in tracked
  <2>1. tracked' = tracked \ {r} /\ wg' = wg - 1
    BY <1>2
  <2>2. Cardinality(tracked') = Cardinality(tracked) - 1
    BY <1>2, <2>1, TrackedFinite, FS_RemoveElement
  <2>3. Cardinality(tracked) > 0
    BY <1>2, TrackedFinite, FS_EmptySet
  <2>4. WaitGroupExact'
    BY <1>1, <2>1, <2>2 DEF WaitGroupExact
  <2>5. wg' \in Nat
    BY <2>1, <2>3 DEF WaitGroupExact, TypeOK
  <2>6. TypeOK'
    BY <2>1, <2>5 DEF TypeOK, RequestPc
  <2>7. QED
    BY <2>1, <2>4, <2>6 DEF RetiredBehindGen, ClosersFlipped, NothingTracked
<1>3. CASE r \notin tracked
  <2>1. UNCHANGED <<wg, tracked>>
    BY <1>3
  <2>2. WaitGroupExact'
    BY <1>1, <1>3, <2>1 DEF WaitGroupExact
  <2>3. TypeOK'
    BY <2>1 DEF TypeOK, RequestPc
  <2>4. QED
    BY <2>1, <2>2, <2>3 DEF RetiredBehindGen, ClosersFlipped, NothingTracked
<1>4. QED
  BY <1>2, <1>3

\* Moving the generations, with or without closing.
LEMMA EpochStep ==
  ASSUME DrainInv,
         gen' \in Nat \ {0}, retired' \in Nat, retired' <= gen',
         closed' \in BOOLEAN, closed => closed',
         UNCHANGED <<wg, pc, issued, tracked, kpc>>
  PROVE  DrainInv'
<1> USE DEF DrainInv
<1>1. InFlight' = InFlight
  BY DEF InFlight
<1>2. TypeOK'
  BY DEF TypeOK
<1>3. QED
  BY <1>1, <1>2
     DEF RetiredBehindGen, WaitGroupExact, ClosersFlipped, NothingTracked

\* A step of a closer.
LEMMA CloserStep ==
  ASSUME DrainInv, NEW k \in Closers,
         CloseFlip(k) \/ CloseAgain(k) \/ CloseReturn(k)
  PROVE  DrainInv'
<1> USE DEF DrainInv, epochState
<1>1. TypeOK' /\ RetiredBehindGen'
  <2> USE DEF TypeOK, RetiredBehindGen, CloserPc
  <2>1. CASE CloseFlip(k)
    <3>1. gen' = gen + 1 /\ retired' = gen + 1 /\ closed' = TRUE
      BY <2>1 DEF CloseFlip
    <3>2. gen' \in Nat \ {0} /\ retired' \in Nat /\ retired' <= gen'
      BY <3>1
    <3>3. QED
      BY <2>1, <3>1, <3>2 DEF CloseFlip
  <2>2. CASE CloseAgain(k)
    BY <2>2 DEF CloseAgain
  <2>3. CASE CloseReturn(k)
    BY <2>3 DEF CloseReturn
  <2>4. QED
    BY <2>1, <2>2, <2>3
<1>2. InFlight' = InFlight /\ UNCHANGED <<wg, tracked>>
  BY DEF InFlight, CloseFlip, CloseAgain, CloseReturn
<1>3. WaitGroupExact'
  BY <1>2 DEF WaitGroupExact
<1>4. ClosersFlipped'
  BY DEF ClosersFlipped, TypeOK, CloseFlip, CloseAgain, CloseReturn
<1>5. NothingTracked'
  <2>1. CASE CloseReturn(k)
    <3>1. Cardinality(tracked) = 0
      BY <2>1 DEF CloseReturn, WaitGroupExact
    <3>2. tracked = {}
      BY <3>1, TrackedFinite, FS_EmptySet
    <3>3. QED
      BY <1>2, <3>2 DEF NothingTracked
  <2>2. CASE CloseFlip(k) \/ CloseAgain(k)
    BY <1>2, <2>2 DEF NothingTracked, TypeOK, CloseFlip, CloseAgain
  <2>3. QED
    BY <2>1, <2>2
<1>6. QED
  BY <1>1, <1>3, <1>4, <1>5

\* A step of a request.
LEMMA RequestStep ==
  ASSUME DrainInv, NEW r \in Requests,
         Issue(r) \/ GiveUp(r) \/ CloseStream(r) \/ Progress(r)
  PROVE  DrainInv'
<1>0. pc \in [Requests -> RequestPc] /\ issued \in [Requests -> Nat] /\ gen \in Nat
  BY DEF DrainInv, TypeOK
<1> USE DEF RequestPc, InFlight
<1>1. CASE Issue(r)          BY <1>0, <1>1, QuietStep DEF Issue, Goto
<1>2. CASE GiveUp(r)         BY <1>0, <1>2, QuietStep DEF GiveUp, Goto
<1>3. CASE CloseStream(r)    BY <1>3, UntrackStep DEF CloseStream
<1>4. CASE AssertOpen(r)     BY <1>0, <1>4, QuietStep DEF AssertOpen, Goto
<1>5. CASE AssertEpoch(r)    BY <1>0, <1>5, QuietStep DEF AssertEpoch, Goto
<1>6. CASE Register(r)       BY <1>6, TrackStep DEF Register
<1>7. CASE RefuseClosed(r)   BY <1>0, <1>7, QuietStep DEF RefuseClosed, Goto
<1>8. CASE StartInFlight(r)
  <2>1. CASE ~closed
    BY <1>8, <2>1, TrackStep DEF StartInFlight
  <2>2. CASE closed
    <3>1. /\ Goto(r, "register", "ready")
          /\ r \in Attempts
          /\ UNCHANGED <<epochState, wg, tracked, issued, kpc>>
      BY <1>8, <2>2 DEF StartInFlight
    <3>2. InFlight' = InFlight \cup {r}
      BY <1>0, <3>1 DEF Goto
    <3>3. r \notin Posts \cup Streams
      BY <3>1, KernelAssumption
    <3>4. WaitGroupExact'
      BY <3>1, <3>2, <3>3 DEF DrainInv, WaitGroupExact
    <3>5. TypeOK'
      BY <3>1 DEF DrainInv, TypeOK, Goto, epochState
    <3>6. QED
      BY <3>1, <3>4, <3>5
         DEF DrainInv, RetiredBehindGen, ClosersFlipped, NothingTracked, epochState
  <2>3. QED
    BY <2>1, <2>2
<1>9. CASE Send(r)           BY <1>0, <1>9, QuietStep DEF Send, Goto
<1>10. CASE Fail(r)          BY <1>10, UntrackStep DEF Fail
<1>11. CASE Complete(r)      BY <1>11, UntrackStep DEF Complete
<1>12. CASE HandOver(r)      BY <1>0, <1>12, QuietStep DEF HandOver, Goto
<1>13. QED
  BY <1>1, <1>2, <1>3, <1>4, <1>5, <1>6, <1>7, <1>8, <1>9, <1>10, <1>11, <1>12
     DEF Progress

\* Every step keeps the invariant.
LEMMA NextDrainInv ==
  ASSUME DrainInv, [Next]_vars
  PROVE  DrainInv'
<1>0. gen \in Nat \ {0} /\ retired \in Nat /\ retired <= gen /\ closed \in BOOLEAN
  BY DEF DrainInv, TypeOK, RetiredBehindGen
<1>1. CASE ActivateEpoch
  BY <1>0, <1>1, EpochStep DEF ActivateEpoch
<1>2. CASE FenceEpoch
  BY <1>0, <1>2, EpochStep DEF FenceEpoch
<1>3. ASSUME NEW r \in Requests,
             Issue(r) \/ GiveUp(r) \/ CloseStream(r) \/ Progress(r)
      PROVE  DrainInv'
  BY <1>3, RequestStep
<1>4. ASSUME NEW k \in Closers, CloseFlip(k) \/ CloseAgain(k) \/ CloseReturn(k)
      PROVE  DrainInv'
  BY <1>4, CloserStep
<1>5. CASE UNCHANGED vars
  BY <1>0, <1>5, EpochStep DEF vars, epochState
<1>6. QED
  BY <1>1, <1>2, <1>3, <1>4, <1>5 DEF Next

\* Nothing is in flight at first.
LEMMA InitDrainInv ==
  ASSUME Init
  PROVE  DrainInv
<1>1. TypeOK /\ RetiredBehindGen
  <2>1. gen \in Nat \ {0} /\ retired \in Nat /\ retired <= gen /\ wg \in Nat
    BY DEF Init
  <2>2. pc \in [Requests -> RequestPc] /\ issued \in [Requests -> Nat]
    BY DEF Init, RequestPc
  <2>3. kpc \in [Closers -> CloserPc]
    BY DEF Init, CloserPc
  <2>4. closed \in BOOLEAN /\ tracked \subseteq Requests
    BY DEF Init
  <2>5. QED
    BY <2>1, <2>2, <2>3, <2>4 DEF TypeOK, RetiredBehindGen
<1>2. InFlight = {} /\ Cardinality(tracked) = 0
  BY FS_EmptySet DEF Init, InFlight
<1>3. QED
  BY <1>1, <1>2
     DEF Init, DrainInv, WaitGroupExact, ClosersFlipped, NothingTracked

\* The invariant holds in every reachable state.
THEOREM DrainInvariant == Spec => []DrainInv
BY InitDrainInv, NextDrainInv, PTL DEF Spec

\* Every variable keeps its type; the WaitGroup never goes negative.
THEOREM TypeCorrect == Spec => []TypeOK
BY DrainInvariant, PTL DEF DrainInv

\* The WaitGroup counts exactly the requests that registered and are not over.
THEOREM WaitGroupCounts == Spec => []WaitGroupExact
BY DrainInvariant, PTL DEF DrainInv

\* After Close has returned no Post and no stream is in flight, for every number of
\* requests and of concurrent closers.
THEOREM CloseDrains == Spec => []CloseDrainsPosts
<1>1. DrainInv => CloseDrainsPosts
  BY DEF DrainInv, WaitGroupExact, NothingTracked, CloseDrainsPosts
<1>2. QED
  BY <1>1, DrainInvariant, PTL

\* The drain of Close, for every number of requests and closers.
THEOREM DrainStaysExact == Spec => []DrainIsExact
<1>1. TypeOK /\ WaitGroupExact /\ CloseDrainsPosts => DrainIsExact
  BY DEF DrainIsExact
<1>2. QED
  BY <1>1, TypeCorrect, WaitGroupCounts, CloseDrains, PTL

\* After Close no generation is opened or retired any more.
THEOREM ClosedIsFrozen == Spec => FrozenWhenClosed
<1>1. [Next]_vars => [closed => UNCHANGED epochState]_vars
  BY DEF Next, ActivateEpoch, FenceEpoch, Issue, GiveUp, CloseStream, Progress,
         AssertOpen, AssertEpoch, Register, RefuseClosed, StartInFlight, Send,
         Fail, Complete, HandOver, CloseFlip, CloseAgain, CloseReturn, vars
<1>2. QED
  BY <1>1, PTL DEF Spec, FrozenWhenClosed

-----------------------------------------------------------------------------
(* Stale generations *)

\* A stale generation is not accepted, and stays stale: generations only grow.
LEMMA StaleStays ==
  ASSUME DrainInv, [Next]_vars, NEW g \in Nat, Stale(g)
  PROVE  ~Accepts(g) /\ Stale(g)'
<1>1. gen \in Nat /\ retired \in Nat /\ retired <= gen
  BY DEF DrainInv, TypeOK, RetiredBehindGen
<1>2. ~Accepts(g)
  BY <1>1 DEF Stale, Accepts
<1>3. gen <= gen' /\ retired <= retired' /\ gen' \in Nat /\ retired' \in Nat
  BY <1>1
     DEF Next, ActivateEpoch, FenceEpoch, Issue, GiveUp, CloseStream, Progress,
         AssertOpen, AssertEpoch, Register, RefuseClosed, StartInFlight, Send,
         Fail, Complete, HandOver, CloseFlip, CloseAgain, CloseReturn, vars, epochState
<1>4. QED
  BY <1>1, <1>2, <1>3 DEF Stale

\* A request that is stale before AssertEpoch looks ends rejected, whatever generations
\* are opened, fenced or closed afterwards.
THEOREM StaleStaysHome == Spec => StaleIsNeverSent
<1> SUFFICES ASSUME NEW r \in Requests
             PROVE  Spec => [](pc[r] \in {"checkClosed", "checkEpoch"} /\ Stale(issued[r])
                                 => [](pc[r] # "wire"))
  BY DEF StaleIsNeverSent
<1> DEFINE Doomed == /\ pc[r] \in {"checkClosed", "checkEpoch", "rejected"}
                     /\ Stale(issued[r])
<1>1. pc[r] \in {"checkClosed", "checkEpoch"} /\ Stale(issued[r]) => Doomed
  OBVIOUS
<1>2. Doomed => pc[r] # "wire"
  OBVIOUS
<1>3. Doomed /\ DrainInv /\ [Next]_vars => Doomed'
  <2> SUFFICES ASSUME Doomed, DrainInv, [Next]_vars
               PROVE  Doomed'
    OBVIOUS
  <2>1. issued[r] \in Nat
    BY DEF DrainInv, TypeOK
  <2>2. ~Accepts(issued[r])
    BY <2>1, StaleStays
  <2>3. pc'[r] \in {"checkClosed", "checkEpoch", "rejected"} /\ issued'[r] = issued[r]
    BY <2>2
       DEF Next, ActivateEpoch, FenceEpoch, Issue, GiveUp, CloseStream, Progress,
           AssertOpen, AssertEpoch, Register, RefuseClosed, StartInFlight, Send, Fail,
           Complete, HandOver, CloseFlip, CloseAgain, CloseReturn, vars, Goto,
           DrainInv, TypeOK
  <2>4. Stale(issued[r])'
    BY <2>1, <2>3, StaleStays
  <2>5. QED
    BY <2>3, <2>4
<1>4. QED
  BY <1>1, <1>2, <1>3, DrainInvariant, PTL DEF Spec
=============================================================================
