---------------------------- MODULE ClientProofs ----------------------------
(***************************************************************************)
(* Proofs about Client for every set of calls, drainers and closers and    *)
(* every capacity.  A step of the client is a step of the supervisor or    *)
(* none, so the theorems of SupervisorProofs carry over; the kernel's      *)
(* invariant is kept by its own actions and by the POST of a second leg.   *)
(* The last part is about the inside of one such call, which Chain models: *)
(* its budgets hold for every timeout, default sleep and hint.             *)
(***************************************************************************)
EXTENDS Client, Chain, FiniteSetTheorems, TLAPS

S == INSTANCE SupervisorProofs WITH Releasers <- {"deferred"}, pc <- apc
K == INSTANCE KernelProofs
       WITH Posts <- {}, Streams <- {}, Attempts <- Posts, MaxGen <- 1,
            closed <- kernelClosed, pc <- npc

-----------------------------------------------------------------------------
(* The supervisor inside the client *)

\* A call's step in Admit or Release, and a drain's, are the supervisor's.
LEMMA StepSupervises ==
  ASSUME [Next]_vars
  PROVE  [S!Next]_(S!vars)
<1> USE DEF S!vars, S!gateState, S!meterState, S!leaseState, supState
<1>1. ASSUME NEW c \in Calls, Cancel(c)
      PROVE  S!Next
  BY <1>1 DEF Cancel, Sup!Cancel, S!Cancel, S!Next, Sup!gateState, Sup!meterState,
              Sup!leaseState
<1>2. ASSUME NEW c \in Calls, Admission(c)
      PROVE  S!Next
  <2>1. S!Admit(c)
    BY <1>2
       DEF Admission, Sup!Admit, Sup!Enter, Sup!PassGate, Sup!Park, Sup!Wake,
           Sup!GiveUpWaiting, Sup!Unpark, Sup!CountStarted, Sup!ReserveUnbounded,
           Sup!LoadCounter, Sup!ReserveByCas, Sup!LoseCas, Sup!PollAgain,
           Sup!GiveUpPolling, Sup!CountFailed, Sup!Goto,
           Sup!gateState, Sup!meterState, Sup!leaseState,
           S!Admit, S!Enter, S!PassGate, S!Park, S!Wake, S!GiveUpWaiting, S!Unpark,
           S!CountStarted, S!ReserveUnbounded, S!LoadCounter, S!ReserveByCas,
           S!LoseCas, S!PollAgain, S!GiveUpPolling, S!CountFailed, S!Goto
  <2>2. QED
    BY <2>1 DEF S!Next
<1>3. ASSUME NEW c \in Calls, ReleaseLease(c)
      PROVE  S!Next
  BY <1>3 DEF ReleaseLease, Sup!Release, Sup!ClaimRelease, Sup!Decrement,
              Sup!SetReleaser, Sup!gateState, Sup!meterState,
              S!Release, S!ClaimRelease, S!Decrement, S!SetReleaser, S!Next
<1>4. ASSUME NEW d \in Drainers, BeginDrain(d) \/ EndDrain(d)
      PROVE  S!Next
  BY <1>4 DEF BeginDrain, EndDrain, Sup!BeginDrain, Sup!EndDrain, Sup!CloseWaiter,
              Sup!FinishDrain, Sup!meterState, Sup!leaseState,
              S!BeginDrain, S!EndDrain, S!CloseWaiter, S!FinishDrain, S!Drain, S!Next
<1>5. CASE UNCHANGED supState
  BY <1>5
<1>6. ASSUME NEW c \in Calls,
             CheckOpen(c) \/ ReturnRefused(c) \/ Issue(c) \/ Exchange(c) \/ Retry(c)
               \/ BeginRefresh(c) \/ EndRefresh(c) \/ FailRefresh(c) \/ Finish(c)
      PROVE  UNCHANGED supState
  BY <1>6 DEF CheckOpen, ReturnRefused, Issue, Exchange, Retry, BeginRefresh, EndRefresh,
              FailRefresh, Finish, PostAgain
<1>7. ASSUME NEW d \in Drainers, CheckOpenDrain(d) \/ SeeQuiet(d) \/ MissDeadline(d)
      PROVE  UNCHANGED supState
  BY <1>7 DEF CheckOpenDrain, SeeQuiet, MissDeadline
<1>8. ASSUME NEW k \in Closers, FlipClosed(k) \/ Close(k)
      PROVE  UNCHANGED supState
  BY <1>8 DEF FlipClosed, Close, Fence, CloseKernel, ReturnClosed
<1>9. QED
  BY <1>1, <1>2, <1>3, <1>4, <1>5, <1>6, <1>7, <1>8 DEF Next, RPCCall, Drain, vars

\* Every behaviour of the client is one of the supervisor.
THEOREM ClientUsesSupervisor == Spec => S!Spec
<1>1. Init => S!Init
  BY DEF Init, Sup!Init, S!Init
<1>2. QED
  BY <1>1, StepSupervises, PTL DEF Spec, S!Spec

\* The slots of a client are exact and within its capacity.
THEOREM ClientSlots == Spec => []S!SlotInv
<1>1. S!IsFiniteSet(Calls) /\ MaxInFlight \in Nat
  BY ClientAssumption DEF S!IsFiniteSet, IsFiniteSet
<1>2. S!Spec => []S!SlotInv
  BY <1>1, S!SlotInvariant
<1>3. QED
  BY <1>2, ClientUsesSupervisor, PTL

-----------------------------------------------------------------------------
(* The kernel inside the client *)

\* What the kernel assumes of its requests: there are finitely many.
LEMMA FinitePosts ==
  /\ K!IsFiniteSet(K!Requests)
  /\ {} \cap Posts = {} /\ {} \cap ({} \cup Posts) = {}
  /\ 1 \in Nat \ {0}
<1>1. IsFiniteSet(Legs)
  <2>1. IsFiniteSet({1})
    BY FS_Singleton
  <2>2. IsFiniteSet({1} \cup {2})
    BY <2>1, FS_AddElement
  <2>3. Legs = {1} \cup {2}
    BY DEF Legs
  <2>4. QED
    BY <2>2, <2>3
<1>2. IsFiniteSet(Posts)
  BY <1>1, ClientAssumption, FS_Product DEF Posts
<1>3. K!Requests = Posts
  BY DEF K!Requests
<1>4. QED
  BY <1>2, <1>3 DEF K!IsFiniteSet, IsFiniteSet

\* The second POST of a call starts when the first is answered.
LEMMA SecondPost ==
  ASSUME K!DrainInv, NEW c \in Calls, FirstAnswered(c), PostAgain(c)
  PROVE  K!DrainInv'
<1> DEFINE p == <<c, 2>>
<1>1. /\ p \in K!Requests /\ <<c, 1>> \in K!Requests
      /\ "checkClosed" \in K!RequestPc
  BY DEF K!Requests, Posts, Legs, K!RequestPc
<1>2. npc' = [npc EXCEPT ![p] = "checkClosed"]
  BY DEF PostAgain
<1>3. p \in K!InFlight <=> "checkClosed" \in {"ready", "wire", "open"}
  BY DEF FirstAnswered, K!InFlight
<1>4. issued' \in [K!Requests -> Nat]
  BY <1>1 DEF PostAgain, K!DrainInv, K!TypeOK
<1>5. UNCHANGED <<K!epochState, wg, tracked, kpc>>
  BY DEF PostAgain, K!epochState
<1>6. QED
  BY ONLY <1>1, <1>2, <1>3, <1>4, <1>5, K!DrainInv, K!QuietStep, FinitePosts

-----------------------------------------------------------------------------
(* The calls *)

\* A call gets as far as a POST only through Admit, posts its second leg after its
\* first, and touches its lease only when both are over.
CallFits(c) ==
  /\ stage[c] = "idle" => apc[c] = "entry"
  /\ npc[<<c, 1>>] # "idle" => apc[c] = "admitted"
  /\ npc[<<c, 2>>] # "idle" => npc[<<c, 1>>] = "done"
  /\ stage[c] = "refresh" => apc[c] = "admitted" /\ FirstAnswered(c)
  /\ stage[c] = "release" =>
       apc[c] = "admitted" /\ Ended(c) /\ rpc[c]["deferred"] # "done"
  /\ c \in released => stage[c] \in {"release", "returned"}
  /\ rpc[c]["deferred"] = "idle" <=> c \notin released
  /\ stage[c] = "returned" =>
       /\ Ended(c)
       /\ apc[c] = "admitted" => c \in released /\ rpc[c]["deferred"] = "done"

ClientTypeOK ==
  /\ closed \in BOOLEAN
  /\ stage \in [Calls -> StageValues]
  /\ drain \in [Drainers -> DrainValues]
  /\ closer \in [Closers -> CloserValues]

\* A fence holds: the generation it retired is still the active one.
FenceHolds == Fenced => retired = gen

ClientInv ==
  /\ ClientTypeOK
  /\ \A c \in Calls : CallFits(c)
  /\ FenceHolds

\* Every step of a call outside Admit and Release, and of a kernel closer.
LEMMA StepKernels ==
  ASSUME ClientInv, [Next]_vars
  PROVE  \/ [K!Next]_(K!vars)
         \/ \E c \in Calls : FirstAnswered(c) /\ PostAgain(c)
<1> USE DEF K!vars, K!epochState, kerState
<1>1. ASSUME NEW c \in Calls, Issue(c)
      PROVE  K!Next
  <2>1. <<c, 1>> \in K!Requests
    BY DEF K!Requests, Posts, Legs
  <2>2. QED
    BY <1>1, <2>1 DEF Issue, Ker!Issue, Ker!Goto, Ker!epochState, K!Issue, K!Goto, K!Next
<1>2. ASSUME NEW c \in Calls, Exchange(c)
      PROVE  K!Next
  <2>1. PICK l \in Legs : Ker!GiveUp(<<c, l>>) \/ Ker!Progress(<<c, l>>)
    BY <1>2 DEF Exchange
  <2>2. <<c, l>> \in K!Requests
    BY DEF K!Requests, Posts
  <2>3. K!GiveUp(<<c, l>>) \/ K!Progress(<<c, l>>)
    BY <2>1
       DEF Ker!GiveUp, Ker!Progress, Ker!AssertOpen, Ker!AssertEpoch, Ker!Register,
           Ker!RefuseClosed, Ker!StartInFlight, Ker!Send, Ker!Fail, Ker!Complete,
           Ker!HandOver, Ker!Goto, Ker!epochState, Ker!Track, Ker!Untrack, Ker!Accepts,
           K!GiveUp, K!Progress, K!AssertOpen, K!AssertEpoch, K!Register,
           K!RefuseClosed, K!StartInFlight, K!Send, K!Fail, K!Complete,
           K!HandOver, K!Goto, K!Track, K!Untrack, K!Accepts
  <2>4. QED
    BY <2>2, <2>3 DEF K!Next
<1>3. ASSUME NEW c \in Calls, Retry(c) \/ EndRefresh(c)
      PROVE  FirstAnswered(c) /\ PostAgain(c)
  BY <1>3 DEF Retry, EndRefresh, Stage, ClientInv, CallFits
<1>4. ASSUME NEW k \in Closers, Close(k)
      PROVE  K!Next
  BY <1>4 DEF Close, Fence, CloseKernel, ReturnClosed, Ker!FenceEpoch, Ker!CloseFlip,
              Ker!CloseReturn, Ker!epochState, K!FenceEpoch, K!CloseFlip, K!CloseReturn,
              K!Next
<1>5. ASSUME NEW c \in Calls,
             \/ CheckOpen(c) \/ Cancel(c) \/ Admission(c) \/ ReturnRefused(c)
             \/ BeginRefresh(c) \/ FailRefresh(c) \/ Finish(c) \/ ReleaseLease(c)
      PROVE  UNCHANGED kerState
  BY <1>5 DEF CheckOpen, Cancel, Admission, ReturnRefused, BeginRefresh, FailRefresh,
              Finish, ReleaseLease
<1>6. ASSUME NEW d \in Drainers, CheckOpenDrain(d) \/ Drain(d)
      PROVE  UNCHANGED kerState
  BY <1>6 DEF CheckOpenDrain, Drain, BeginDrain, SeeQuiet, MissDeadline, EndDrain
<1>7. ASSUME NEW k \in Closers, FlipClosed(k)
      PROVE  UNCHANGED kerState
  BY <1>7 DEF FlipClosed
<1>8. CASE UNCHANGED vars
  BY <1>8 DEF vars
<1>9. QED
  BY <1>1, <1>2, <1>3, <1>4, <1>5, <1>6, <1>7, <1>8 DEF Next, RPCCall

\* What the supervisor and the kernel say of the types.
Typed == /\ apc \in [Calls -> S!CallPc]
         /\ released \subseteq Calls
         /\ rpc \in [Calls -> [{"deferred"} -> S!ReleasePc]]
         /\ npc \in [Posts -> K!RequestPc]
         /\ gen \in Nat \ {0} /\ retired \in Nat
         /\ kpc \in [Closers -> K!CloserPc]

\* The invariants of the two instances give these types.
LEMMA TypesHold == S!SlotInv /\ K!DrainInv => Typed
BY DEF Typed, S!SlotInv, S!TypeOK, K!DrainInv, K!TypeOK, K!Requests

\* The calls other than the one that moves are as they were.
LEMMA OneCallMoves ==
  ASSUME NEW c \in Calls, \A v \in Calls : CallFits(v), CallFits(c)',
         \A v \in Calls : v # c =>
           /\ stage'[v] = stage[v] /\ apc'[v] = apc[v] /\ rpc'[v] = rpc[v]
           /\ (v \in released' <=> v \in released)
           /\ npc'[<<v, 1>>] = npc[<<v, 1>>] /\ npc'[<<v, 2>>] = npc[<<v, 2>>]
  PROVE  \A v \in Calls : CallFits(v)'
<1> SUFFICES ASSUME NEW v \in Calls, v # c
             PROVE  CallFits(v)'
  OBVIOUS
<1>1. FirstAnswered(v)' <=> FirstAnswered(v)
  BY DEF FirstAnswered
<1>2. Ended(v)' <=> Ended(v)
  BY DEF Ended, Legs
<1>3. QED
  BY <1>1, <1>2 DEF CallFits

\* A step of a call keeps every call fit.
LEMMA CallStep ==
  ASSUME ClientInv, Typed, NEW c \in Calls, CheckOpen(c) \/ Cancel(c) \/ RPCCall(c)
  PROVE  \A v \in Calls : CallFits(v)'
<1> USE DEF ClientInv, ClientTypeOK, Typed, Stage
<1>1. CASE \/ CheckOpen(c) \/ ReturnRefused(c)
           \/ BeginRefresh(c) \/ FailRefresh(c) \/ Finish(c)
  <2>1. CallFits(c)'
    BY <1>1
       DEF CheckOpen, ReturnRefused, BeginRefresh, FailRefresh, Finish, CallFits,
           supState, kerState, FirstAnswered, Ended, Legs
  <2>2. QED
    BY <1>1, <2>1, OneCallMoves
       DEF CheckOpen, ReturnRefused, BeginRefresh, FailRefresh, Finish, supState,
           kerState
<1>2. CASE Cancel(c)
  <2>1. CallFits(c)'
    BY <1>2
       DEF Cancel, Sup!Cancel, CallFits, kerState, clientState, FirstAnswered, Ended,
           Sup!leaseState
  <2>2. QED
    BY <1>2, <2>1, OneCallMoves
       DEF Cancel, Sup!Cancel, kerState, clientState, Sup!leaseState
<1>3. CASE Admission(c)
  <2>1. \A v \in Calls : v # c => apc'[v] = apc[v]
    BY <1>3 DEF Admission, Sup!Admit, Sup!Enter, Sup!PassGate, Sup!Park, Sup!Wake,
           Sup!GiveUpWaiting, Sup!Unpark, Sup!CountStarted, Sup!ReserveUnbounded,
           Sup!LoadCounter, Sup!ReserveByCas, Sup!LoseCas, Sup!PollAgain,
           Sup!GiveUpPolling, Sup!CountFailed, Sup!Goto
  <2>2. UNCHANGED <<released, rpc>> /\ apc[c] # "admitted"
    BY <1>3 DEF Admission, Sup!Admit, Sup!Enter, Sup!PassGate, Sup!Park, Sup!Wake,
           Sup!GiveUpWaiting, Sup!Unpark, Sup!CountStarted, Sup!ReserveUnbounded,
           Sup!LoadCounter, Sup!ReserveByCas, Sup!LoseCas, Sup!PollAgain,
           Sup!GiveUpPolling, Sup!CountFailed, Sup!Goto, Sup!leaseState
  <2>3. CallFits(c)'
    BY <1>3, <2>2 DEF Admission, CallFits, kerState, clientState, FirstAnswered, Ended
  <2>4. QED
    BY <1>3, <2>1, <2>2, <2>3, OneCallMoves DEF Admission, kerState, clientState
<1>4. CASE Issue(c)
  <2>1. npc' = [npc EXCEPT ![<<c, 1>>] = "checkClosed"] /\ npc[<<c, 1>>] = "idle"
    BY <1>4 DEF Issue, Ker!Issue, Ker!Goto
  <2>2. \A v \in Calls, l \in Legs : v # c => npc'[<<v, l>>] = npc[<<v, l>>]
    BY <2>1 DEF Posts
  <2>3. CallFits(c)'
    BY <1>4, <2>1
       DEF Issue, Executing, CallFits, supState, clientState, FirstAnswered, Ended,
           Posts, Legs
  <2>4. QED
    BY <1>4, <2>2, <2>3, OneCallMoves DEF Issue, supState, clientState, Legs
<1>5. CASE Exchange(c)
  <2>1. PICK l \in Legs : Ker!GiveUp(<<c, l>>) \/ Ker!Progress(<<c, l>>)
    BY <1>5 DEF Exchange
  <2>2. PICK to \in K!RequestPc :
          /\ npc' = [npc EXCEPT ![<<c, l>>] = to]
          /\ to # "idle" /\ npc[<<c, l>>] \notin {"idle", "done"}
    BY <2>1
       DEF Ker!GiveUp, Ker!Progress, Ker!AssertOpen, Ker!AssertEpoch, Ker!Register,
           Ker!RefuseClosed, Ker!StartInFlight, Ker!Send, Ker!Fail, Ker!Complete,
           Ker!HandOver, Ker!Goto, K!RequestPc
  <2>3. \A v \in Calls, m \in Legs : v # c => npc'[<<v, m>>] = npc[<<v, m>>]
    BY <2>2 DEF Posts
  <2>4. CallFits(c)'
    BY <1>5, <2>2
       DEF Exchange, Executing, CallFits, supState, clientState, FirstAnswered, Ended,
           Posts, Legs
  <2>5. QED
    BY <1>5, <2>3, <2>4, OneCallMoves DEF Exchange, supState, clientState, Legs
<1>6. CASE Retry(c) \/ EndRefresh(c)
  <2>1. /\ npc' = [npc EXCEPT ![<<c, 2>>] = "checkClosed"]
        /\ FirstAnswered(c) /\ apc[c] = "admitted"
    BY <1>6 DEF Retry, EndRefresh, PostAgain, Executing, CallFits
  <2>2. \A v \in Calls, m \in Legs : v # c => npc'[<<v, m>>] = npc[<<v, m>>]
    BY <2>1 DEF Posts
  <2>3. CallFits(c)'
    BY <1>6, <2>1
       DEF Retry, EndRefresh, PostAgain, Executing, CallFits, supState, clientState,
           FirstAnswered, Ended, Posts, Legs
  <2>4. QED
    BY <1>6, <2>2, <2>3, OneCallMoves
       DEF Retry, EndRefresh, PostAgain, supState, clientState, Legs
<1>7. CASE ReleaseLease(c)
  <2>1. /\ UNCHANGED <<apc, npc>>
        /\ \A v \in Calls : v # c => /\ rpc'[v] = rpc[v]
                                    /\ (v \in released' <=> v \in released)
    BY <1>7
       DEF ReleaseLease, Sup!Release, Sup!ClaimRelease, Sup!Decrement, Sup!SetReleaser,
           kerState
  <2>2. CallFits(c)'
    BY <1>7, <2>1
       DEF ReleaseLease, Sup!Release, Sup!ClaimRelease, Sup!Decrement, Sup!SetReleaser,
           CallFits, FirstAnswered, Ended
  <2>3. QED
    BY <1>7, <2>1, <2>2, OneCallMoves DEF ReleaseLease
<1>8. QED
  BY <1>1, <1>2, <1>3, <1>4, <1>5, <1>6, <1>7 DEF RPCCall

\* Generations only move forward, and a retired one is never taken up again.
LEMMA GenerationsGrow ==
  ASSUME Typed, retired <= gen, [K!Next]_(K!vars)
  PROVE  retired = gen => retired' = gen'
BY DEF Typed, K!Next, K!ActivateEpoch, K!FenceEpoch, K!Issue, K!GiveUp, K!CloseStream,
       K!Progress, K!AssertOpen, K!AssertEpoch, K!Register, K!RefuseClosed,
       K!StartInFlight, K!Send, K!Fail, K!Complete, K!HandOver, K!CloseFlip,
       K!CloseAgain, K!CloseReturn, K!vars, K!epochState

\* Every step keeps the client's invariant.
LEMMA NextClientInv ==
  ASSUME ClientInv, Typed, retired <= gen, [Next]_vars
  PROVE  ClientInv'
<1> USE DEF ClientInv
<1>1. ClientTypeOK'
  <2> USE DEF ClientTypeOK, StageValues, DrainValues, CloserValues, Stage, DrainTo,
              CloserTo
  <2>1. ASSUME NEW c \in Calls, CheckOpen(c) \/ Cancel(c) \/ RPCCall(c)
        PROVE  ClientTypeOK'
    BY <2>1
       DEF CheckOpen, Cancel, RPCCall, Admission, ReturnRefused, Issue, Exchange, Retry,
                BeginRefresh, EndRefresh, FailRefresh, Finish, ReleaseLease, clientState
  <2>2. ASSUME NEW d \in Drainers, CheckOpenDrain(d) \/ Drain(d)
        PROVE  ClientTypeOK'
    BY <2>2
       DEF CheckOpenDrain, Drain, BeginDrain, SeeQuiet, MissDeadline, EndDrain,
           clientState
  <2>3. ASSUME NEW k \in Closers, FlipClosed(k) \/ Close(k)
        PROVE  ClientTypeOK'
    BY <2>3 DEF FlipClosed, Close, Fence, CloseKernel, ReturnClosed, clientState
  <2>4. QED
    BY <2>1, <2>2, <2>3 DEF Next, vars, clientState
<1>2. \A c \in Calls : CallFits(c)'
  <2>1. ASSUME NEW c \in Calls, CheckOpen(c) \/ Cancel(c) \/ RPCCall(c)
        PROVE  \A v \in Calls : CallFits(v)'
    BY <2>1, CallStep
  <2>2. ASSUME UNCHANGED <<stage, apc, npc, released, rpc>>
        PROVE  \A v \in Calls : CallFits(v)'
    BY <2>2 DEF CallFits, FirstAnswered, Ended
  <2>3. ASSUME NEW d \in Drainers, CheckOpenDrain(d) \/ Drain(d)
        PROVE  UNCHANGED <<stage, apc, npc, released, rpc>>
    BY <2>3
       DEF CheckOpenDrain, Drain, BeginDrain, SeeQuiet, MissDeadline, EndDrain,
           supState,
                kerState, clientState, Sup!BeginDrain, Sup!EndDrain, Sup!CloseWaiter,
                Sup!FinishDrain, Sup!leaseState
  <2>4. ASSUME NEW k \in Closers, FlipClosed(k) \/ Close(k)
        PROVE  UNCHANGED <<stage, apc, npc, released, rpc>>
    BY <2>4 DEF FlipClosed, Close, Fence, CloseKernel, ReturnClosed, supState, kerState,
                clientState, Ker!FenceEpoch, Ker!CloseFlip, Ker!CloseReturn
  <2>5. QED
    BY <2>1, <2>2, <2>3, <2>4 DEF Next, vars, supState, kerState, clientState
<1>3. FenceHolds'
  <2>1. retired = gen => retired' = gen'
    <3>1. CASE [K!Next]_(K!vars)
      BY <3>1, GenerationsGrow
    <3>2. CASE \E c \in Calls : FirstAnswered(c) /\ PostAgain(c)
      BY <3>2 DEF PostAgain
    <3>3. QED
      BY <3>1, <3>2, StepKernels
  <2>2. ASSUME NEW k \in Closers, Close(k)
        PROVE  FenceHolds'
    <3>1. CASE Fence(k)
      BY <3>1 DEF Fence, Ker!FenceEpoch, FenceHolds
    <3>2. CASE CloseKernel(k)
      BY <3>2 DEF CloseKernel, Ker!CloseFlip, FenceHolds
    <3>3. CASE ReturnClosed(k)
      BY <2>1, <3>3
         DEF ReturnClosed, CloserTo, Ker!CloseReturn, Ker!epochState, FenceHolds,
         Fenced, Typed, ClientTypeOK
    <3>4. QED
      BY <2>2, <3>1, <3>2, <3>3 DEF Close
  <2>3. ASSUME NEW k \in Closers, FlipClosed(k)
        PROVE  Fenced' => Fenced
    BY <2>3 DEF FlipClosed, CloserTo, kerState, Fenced, ClientTypeOK
  <2>4. ASSUME UNCHANGED <<closer, kpc>>
        PROVE  Fenced' => Fenced
    BY <2>4 DEF Fenced
  <2>5. ASSUME NEW c \in Calls, CheckOpen(c) \/ Cancel(c) \/ RPCCall(c)
        PROVE  UNCHANGED <<closer, kpc>>
    BY <2>5
       DEF CheckOpen, Cancel, RPCCall, Admission, ReturnRefused, Issue, Exchange, Retry,
           BeginRefresh, EndRefresh, FailRefresh, Finish, ReleaseLease, PostAgain,
           clientState, kerState, Ker!Issue, Ker!GiveUp, Ker!Progress, Ker!AssertOpen,
           Ker!AssertEpoch, Ker!Register, Ker!RefuseClosed, Ker!StartInFlight, Ker!Send,
           Ker!Fail, Ker!Complete, Ker!HandOver
  <2>6. ASSUME NEW d \in Drainers, CheckOpenDrain(d) \/ Drain(d)
        PROVE  UNCHANGED <<closer, kpc>>
    BY <2>6
       DEF CheckOpenDrain, Drain, BeginDrain, SeeQuiet, MissDeadline, EndDrain,
           kerState,
                clientState
  <2>7. CASE UNCHANGED vars
    BY <2>1, <2>4, <2>7 DEF vars, kerState, clientState, FenceHolds
  <2>8. QED
    BY <2>1, <2>2, <2>3, <2>4, <2>5, <2>6, <2>7 DEF Next, FenceHolds
<1>4. QED
  BY <1>1, <1>2, <1>3

\* The invariants of the supervisor, the kernel and the client, side by side.
THEOREM ClientInvariant == Spec => [](S!SlotInv /\ K!DrainInv /\ ClientInv)
<1>1. Init => ClientInv
  <2>1. Init => ClientTypeOK /\ FenceHolds
    BY DEF Init, ClientTypeOK, StageValues, DrainValues, CloserValues, FenceHolds, Fenced,
           Ker!Init
  <2>2. ASSUME Init, NEW c \in Calls
        PROVE  CallFits(c)
    <3>1. stage[c] = "idle" /\ apc[c] = "entry" /\ rpc[c]["deferred"] = "idle"
          /\ released = {}
      BY <2>2 DEF Init, Sup!Init
    <3>2. npc[<<c, 1>>] = "idle" /\ npc[<<c, 2>>] = "idle"
      BY <2>2 DEF Init, Ker!Init, Ker!Requests, Posts, Legs
    <3>3. QED
      BY <3>1, <3>2 DEF CallFits
  <2>3. QED
    BY <2>1, <2>2 DEF ClientInv
<1>2. Init => K!DrainInv
  BY FinitePosts, K!InitDrainInv DEF Init, Ker!Init, K!Init, Ker!Requests, K!Requests
<1>3. S!SlotInv /\ K!DrainInv /\ ClientInv /\ [Next]_vars => K!DrainInv'
  BY StepKernels, SecondPost, FinitePosts, K!NextDrainInv
<1>4. S!SlotInv /\ K!DrainInv /\ ClientInv /\ [Next]_vars => ClientInv'
  <2>1. K!DrainInv => retired <= gen
    BY DEF K!DrainInv, K!RetiredBehindGen
  <2>2. QED
    BY <2>1, TypesHold, NextClientInv
<1>5. QED
  BY <1>1, <1>2, <1>3, <1>4, ClientSlots, PTL DEF Spec

\* The lease and the exchange of a call begin and end together.
THEOREM SlotsStayCovered == Spec => []SlotsCoverWire
<1>1. S!SlotInv /\ K!DrainInv /\ ClientInv => SlotsCoverWire
  <2> SUFFICES ASSUME S!SlotInv, K!DrainInv, ClientInv
               PROVE  SlotsCoverWire
    OBVIOUS
  <2>1. Sup!TypeOK
    BY DEF S!SlotInv, S!TypeOK, Sup!TypeOK, S!CallPc, Sup!CallPc, S!ReleasePc,
           Sup!ReleasePc
  <2>2. Ker!TypeOK
    BY DEF K!DrainInv, K!TypeOK, Ker!TypeOK, K!RequestPc, Ker!RequestPc, K!CloserPc,
           Ker!CloserPc, K!Requests, Ker!Requests
  <2>3. ASSUME NEW c \in Calls, OnTheWire(c)
        PROVE  c \in Sup!Holding
    BY <2>3 DEF ClientInv, CallFits, OnTheWire, Sup!Holding, Ended, Legs
  <2>4. ASSUME NEW c \in Calls, stage[c] = "returned"
        PROVE  c \notin Sup!Holding /\ ~OnTheWire(c)
    BY <2>4 DEF ClientInv, CallFits, OnTheWire, Sup!Holding, Ended, Legs
  <2>5. QED
    BY <2>1, <2>2, <2>3, <2>4
       DEF SlotsCoverWire, TypeOK, WireIsAdmitted, ReturnsClean, ClientInv, ClientTypeOK
<1>2. QED
  BY <1>1, ClientInvariant, PTL

\* WithMaxConcurrentRPCs bounds what a client has on the wire, over the POSTs, the second
\* POSTs and the refreshes of any number of calls, drains and closes.
THEOREM WireIsBounded ==
  Spec => [](MaxInFlight > 0 => Cardinality({c \in Calls : OnTheWire(c)}) <= MaxInFlight)
<1>1. S!SlotInv /\ SlotsCoverWire
        => (MaxInFlight > 0 => Cardinality({c \in Calls : OnTheWire(c)}) <= MaxInFlight)
  <2> SUFFICES ASSUME S!SlotInv, SlotsCoverWire, MaxInFlight > 0
               PROVE  Cardinality({c \in Calls : OnTheWire(c)}) <= MaxInFlight
    OBVIOUS
  <2>1. {c \in Calls : OnTheWire(c)} \subseteq S!Holding
    BY DEF SlotsCoverWire, WireIsAdmitted, Sup!Holding, S!Holding
  <2>2. IsFiniteSet(S!Holding) /\ Cardinality(S!Holding) \in Nat
    BY ClientAssumption, FS_Subset, FS_CardinalityType DEF S!Holding
  <2>3. Cardinality({c \in Calls : OnTheWire(c)}) <= Cardinality(S!Holding)
    BY <2>1, <2>2, FS_Subset
  <2>4. Cardinality(S!Holding) = inFlight /\ inFlight <= MaxInFlight
    BY DEF S!SlotInv, S!InFlightCountsLeases, S!SlotsBounded, S!Cardinality, Cardinality
  <2>5. Cardinality({c \in Calls : OnTheWire(c)}) \in Nat
    BY <2>1, <2>2, FS_Subset, FS_CardinalityType
  <2>6. QED
    BY <2>2, <2>3, <2>4, <2>5, ClientAssumption
<1>2. QED
  BY <1>1, SlotsStayCovered, ClientSlots, PTL

-----------------------------------------------------------------------------
(* Close *)

\* A POST that has not asserted its generation before the fence is rejected.
LEMMA FencedStaysHome ==
  ASSUME NEW p \in Posts
  PROVE  Spec => [](Fenced /\ npc[p] \in {"idle", "checkClosed", "checkEpoch"}
                      => [](npc[p] # "wire"))
<1> DEFINE Doomed == /\ retired = gen
                     /\ npc[p] \in {"idle", "checkClosed", "checkEpoch", "rejected"}
<1>1. ClientInv /\ Fenced /\ npc[p] \in {"idle", "checkClosed", "checkEpoch"} => Doomed
  BY DEF ClientInv, FenceHolds
<1>2. Doomed => npc[p] # "wire"
  OBVIOUS
<1>3. S!SlotInv /\ K!DrainInv /\ ClientInv /\ Doomed /\ [Next]_vars => Doomed'
  <2> SUFFICES ASSUME S!SlotInv, K!DrainInv, ClientInv, Doomed, [Next]_vars
               PROVE  Doomed'
    OBVIOUS
  <2>1. Typed /\ retired <= gen
    BY TypesHold DEF K!DrainInv, K!RetiredBehindGen
  <2>2. CASE [K!Next]_(K!vars)
    <3>1. retired' = gen'
      BY <2>1, <2>2, GenerationsGrow
    <3>2. npc'[p] \in {"idle", "checkClosed", "checkEpoch", "rejected"}
      BY <2>1, <2>2
         DEF Typed, K!Next, K!ActivateEpoch, K!FenceEpoch, K!Issue, K!GiveUp,
             K!CloseStream, K!Progress, K!AssertOpen, K!AssertEpoch, K!Register,
             K!RefuseClosed, K!StartInFlight, K!Send, K!Fail, K!Complete, K!HandOver,
             K!CloseFlip, K!CloseAgain, K!CloseReturn, K!Goto, K!vars, K!Accepts
    <3>3. QED
      BY <3>1, <3>2
  <2>3. CASE \E c \in Calls : FirstAnswered(c) /\ PostAgain(c)
    BY <2>1, <2>3 DEF PostAgain, Typed
  <2>4. QED
    BY <2>2, <2>3, StepKernels
<1>4. QED
  BY <1>1, <1>2, <1>3, ClientInvariant, PTL DEF Spec

\* A call made after Close was called returns from checkOpen.
LEMMA ClosedStaysOut ==
  ASSUME NEW c \in Calls
  PROVE  Spec => [](closed /\ stage[c] = "idle" => [](apc[c] = "entry"))
<1> DEFINE Out == closed /\ stage[c] \in {"idle", "returned"} /\ apc[c] = "entry"
<1>1. ClientInv /\ closed /\ stage[c] = "idle" => Out
  BY DEF ClientInv, CallFits
<1>2. Out => apc[c] = "entry"
  OBVIOUS
<1>3. S!SlotInv /\ K!DrainInv /\ ClientInv /\ Out /\ [Next]_vars => Out'
  <2> SUFFICES ASSUME Typed, ClientInv, Out, [Next]_vars
               PROVE  Out'
    BY TypesHold
  <2> USE DEF Typed, ClientInv, ClientTypeOK, Stage
  <2>1. closed'
    BY DEF Next, CheckOpen, Cancel, RPCCall, Admission, ReturnRefused, Issue, Exchange,
           Retry, BeginRefresh, EndRefresh, FailRefresh, Finish, ReleaseLease,
           CheckOpenDrain, Drain, BeginDrain, SeeQuiet, MissDeadline, EndDrain,
           FlipClosed, Close, Fence, CloseKernel, ReturnClosed, clientState, vars
  <2>2. stage'[c] \in {"idle", "returned"}
    BY DEF Next, CheckOpen, Cancel, RPCCall, Admission, ReturnRefused, Issue, Exchange,
           Retry, BeginRefresh, EndRefresh, FailRefresh, Finish, ReleaseLease,
           CheckOpenDrain, Drain, BeginDrain, SeeQuiet, MissDeadline, EndDrain,
           FlipClosed, Close, Fence, CloseKernel, ReturnClosed, clientState, vars
  <2>3. apc'[c] = "entry"
    <3>1. ASSUME NEW v \in Calls, Admission(v)
          PROVE  apc'[c] = "entry"
      BY <3>1
         DEF Admission, Sup!Admit, Sup!Enter, Sup!PassGate, Sup!Park, Sup!Wake,
             Sup!GiveUpWaiting, Sup!Unpark, Sup!CountStarted, Sup!ReserveUnbounded,
             Sup!LoadCounter, Sup!ReserveByCas, Sup!LoseCas, Sup!PollAgain,
             Sup!GiveUpPolling, Sup!CountFailed, Sup!Goto
    <3>2. CASE UNCHANGED apc
      BY <3>2
    <3>3. QED
      BY <3>1, <3>2
         DEF Next, CheckOpen, Cancel, RPCCall, ReturnRefused, Issue, Exchange,
             Retry, BeginRefresh, EndRefresh, FailRefresh, Finish, ReleaseLease, PostAgain,
             CheckOpenDrain, Drain, BeginDrain, SeeQuiet, MissDeadline, EndDrain,
             FlipClosed, Close, Fence, CloseKernel, ReturnClosed, supState, vars,
             Sup!Cancel, Sup!Release, Sup!ClaimRelease, Sup!Decrement, Sup!BeginDrain,
             Sup!EndDrain, Sup!CloseWaiter, Sup!FinishDrain
  <2>4. QED
    BY <2>1, <2>2, <2>3
<1>4. QED
  BY <1>1, <1>2, <1>3, ClientInvariant, PTL DEF Spec

\* Close stops the calls, before it fences and after, for any number of callers.
THEOREM CloseStopsEveryCall == Spec => CloseStopsCalls
<1>1. Spec => FenceStopsCalls
  BY FencedStaysHome DEF FenceStopsCalls
<1>2. Spec => ClosedAdmitsNobody
  BY ClosedStaysOut DEF ClosedAdmitsNobody
<1>3. QED
  BY <1>1, <1>2 DEF CloseStopsCalls

-----------------------------------------------------------------------------
(* Inside one call: Chain, for every deadline, back-off, Retry-After hint and  *)
(* number of generations                                                       *)

\* The refresh callback runs only for the call that took the budget, and taking it
\* is for good.
RefreshInv ==
  /\ OneRefresh
  /\ refreshes = 1 => spent
  /\ pc = "refresh" => spent /\ refreshes = 0 /\ status = "401"

\* A response is judged where its POST has been counted; before, it has not.
RpcPosted == pc \in {"wire", "judge", "refresh", "decide", "sleep"}

\* The POSTs so far, by the attempt and the place in it.
PostsInv ==
  /\ pc # "done" => attempt < MaxRetries
  /\ class \in NoReplay => attempt = 0 /\ pc # "sleep"
  /\ pc # "done" => posts <= attempt + refreshes + IF RpcPosted THEN 1 ELSE 0
  /\ PostsBounded

\* A call that is not replayed is about to send its first POST, or the one after a
\* refresh.
ReplayInv ==
  class \in NoReplay =>
    /\ pc \in {"issue", "loop"} => posts = 0
    /\ pc \in {"assert", "send"} /\ leg = 1 => posts = 0
    /\ pc \in {"assert", "send"} /\ leg = 2 => status = "401"

\* The inductive invariant.
RpcInv == RpcTypeOK /\ RefreshInv /\ PostsInv /\ ReplayInv /\ SleepFitsBudget

-----------------------------------------------------------------------------
\* A sleep is never longer than what is left of the budget.
LEMMA ClampFits ==
  ASSUME NEW d \in Int, elapsed \in Nat
  PROVE  /\ Clamp(d) \in Nat
         /\ Clamp(d) > 0 => elapsed + Clamp(d) <= Timeout
BY ChainAssumption DEF Clamp, Remaining, Expired

\* The invariant holds when nothing has been issued.
LEMMA RpcStart == RpcInit => RpcInv
<1> SUFFICES ASSUME RpcInit PROVE RpcInv
  OBVIOUS
<1> USE DEF RpcInit
<1>1. RpcTypeOK
  <2>1. /\ epoch \in Nat /\ snapshot \in Nat /\ elapsed \in Nat /\ timer \in Nat
        /\ newest \in Nat /\ fenced \in Nat /\ auth \in Nat
        /\ posts \in Nat /\ refreshes \in Nat
        /\ attempt \in 0..MaxRetries /\ leg \in {1, 2}
    BY DEF MaxRetries
  <2>2. spent \in BOOLEAN /\ done \in BOOLEAN
    OBVIOUS
  <2>3. pc \in PcValues /\ status \in Statuses /\ outcome \in Outcomes
    BY DEF PcValues, Statuses, Outcomes
  <2>4. QED
    BY <2>1, <2>2, <2>3 DEF RpcTypeOK
<1>2. RefreshInv
  BY DEF RefreshInv, OneRefresh
<1>3. ReplayInv /\ SleepFitsBudget
  BY DEF ReplayInv, SleepFitsBudget
<1>4. PostsInv
  <2>1. posts = 0 /\ refreshes = 0 /\ attempt = 0 /\ pc = "issue"
    OBVIOUS
  <2>2. ~RpcPosted
    BY <2>1 DEF RpcPosted
  <2>3. PostsBounded
    BY <2>1 DEF PostsBounded, MaxRetries
  <2>4. QED
    BY <2>1, <2>2, <2>3 DEF PostsInv, MaxRetries
<1>5. QED
  BY <1>1, <1>2, <1>3, <1>4 DEF RpcInv

\* Every step of the call preserves the invariant.
LEMMA RpcStep == ASSUME RpcInv, Call PROVE RpcInv'
<1> USE DEF RpcInv, RpcTypeOK, RefreshInv, OneRefresh, PostsInv, PostsBounded,
            ReplayInv, SleepFitsBudget, RpcPosted, MaxRetries, PcValues, Outcomes,
            Statuses, callState, world, Return, Go
<1>1. CASE IssueCall
  BY <1>1 DEF IssueCall
<1>2. CASE BeginAttempt
  BY <1>2 DEF BeginAttempt
<1>3. CASE Decide
  <2>1. CASE class \in NoReplay \/ ~Retryable(status)
    BY <1>3, <2>1 DEF Decide
  <2>2. CASE ~(class \in NoReplay \/ ~Retryable(status))
    <3>1. PICK d \in Hints \cup {DefaultSleep} :
            IF Clamp(d) <= 0
              THEN Return("response") /\ UNCHANGED timer
              ELSE Go("sleep") /\ timer' = Clamp(d)
      BY <1>3, <2>2 DEF Decide
    <3>2. d \in Int
      BY ChainAssumption
    <3>3. Clamp(d) \in Nat /\ (Clamp(d) > 0 => elapsed + Clamp(d) <= Timeout)
      BY <3>2, ClampFits
    <3>4. CASE Clamp(d) <= 0
      BY <1>3, <2>2, <3>1, <3>4 DEF Decide
    <3>5. CASE ~(Clamp(d) <= 0)
      BY <1>3, <2>2, <3>1, <3>3, <3>5 DEF Decide
    <3>6. QED
      BY <3>4, <3>5
  <2>3. QED
    BY <2>1, <2>2
<1>4. CASE WakeUp
  <2>1. class \notin NoReplay /\ attempt < 5 /\ posts <= attempt + refreshes + 1
    BY <1>4 DEF WakeUp
  <2>2. CASE attempt + 1 < 5
    BY <1>4, <2>1, <2>2 DEF WakeUp
  <2>3. CASE ~(attempt + 1 < 5)
    BY <1>4, <2>1, <2>3 DEF WakeUp
  <2>4. QED
    BY <2>2, <2>3
<1>5. CASE GiveUpSleeping
  BY <1>5 DEF GiveUpSleeping
<1>6. CASE Assert
  BY <1>6 DEF Assert
<1>7. CASE Send
  BY <1>7 DEF Send
<1>8. CASE Respond
  BY <1>8 DEF Respond
<1>9. CASE FailExchange
  BY <1>9 DEF FailExchange
<1>10. CASE Judge
  <2>1. CASE WinsRefresh
    <3>1. refreshes = 0 /\ status = "401"
      BY <2>1 DEF WinsRefresh
    <3>2. pc = "judge" /\ pc' = "refresh" /\ spent' = TRUE
      BY <1>10, <2>1 DEF Judge
    <3>3. QED
      BY <1>10, <2>1, <3>1, <3>2 DEF Judge
  <2>2. CASE ~WinsRefresh
    BY <1>10, <2>2 DEF Judge
  <2>3. QED
    BY <2>1, <2>2
<1>11. CASE Refresh
  BY <1>11 DEF Refresh
<1>12. CASE RefreshFails
  BY <1>12 DEF RefreshFails
<1>13. QED
  BY <1>1, <1>2, <1>3, <1>4, <1>5, <1>6, <1>7, <1>8, <1>9, <1>10, <1>11, <1>12
     DEF Call

\* The invariant holds in every reachable state.
THEOREM RpcInvariant == RpcSpec => []RpcInv
<1>1. RpcInv /\ [RpcNext]_rpcVars => RpcInv'
  <2> SUFFICES ASSUME RpcInv, [RpcNext]_rpcVars PROVE RpcInv'
    OBVIOUS
  <2> USE DEF RpcInv, RpcTypeOK, RefreshInv, OneRefresh, PostsInv, PostsBounded,
              ReplayInv, SleepFitsBudget, RpcPosted, MaxRetries, callState, world
  <2>1. CASE Call
    BY <2>1, RpcStep
  <2>2. CASE Tick
    BY <2>2, ChainAssumption DEF Tick
  <2>3. CASE UNCHANGED rpcVars \/ CallerCancels \/ MoveEpoch
    <3>1. CASE UNCHANGED rpcVars  BY <3>1 DEF rpcVars
    <3>2. CASE CallerCancels      BY <3>2 DEF CallerCancels
    <3>3. CASE MoveEpoch          BY <3>3 DEF MoveEpoch
    <3>4. QED
      BY <2>3, <3>1, <3>2, <3>3
  <2>4. QED
    BY <2>1, <2>2, <2>3 DEF RpcNext
<1>2. QED
  BY <1>1, RpcStart, PTL DEF RpcSpec

\* Every variable keeps its type; the retry counter stays within MaxRetries.
THEOREM RpcTypes == RpcSpec => []RpcTypeOK
BY RpcInvariant, PTL DEF RpcInv

\* One logical RPC refreshes its credentials at most once, over all its attempts.
THEOREM RefreshesOnce == RpcSpec => []OneRefresh
BY RpcInvariant, PTL DEF RpcInv, RefreshInv

\* Retries and refreshes do not multiply: a call is at most MaxRetries + 1 POSTs,
\* and one that is not replayed at most two.
THEOREM PostsAreFew == RpcSpec => []PostsBounded
BY RpcInvariant, PTL DEF RpcInv, PostsInv

\* A back-off ends within the deadline, whatever Retry-After asks for.
THEOREM SleepsFit == RpcSpec => []SleepFitsBudget
BY RpcInvariant, PTL DEF RpcInv

\* The budgets of one call together, for every timeout and every hint.
THEOREM BudgetsAlwaysHold == RpcSpec => []BudgetsHold
<1>1. RpcTypeOK /\ OneRefresh /\ PostsBounded /\ SleepFitsBudget => BudgetsHold
  BY DEF BudgetsHold
<1>2. QED
  BY <1>1, RpcTypes, RefreshesOnce, PostsAreFew, SleepsFit, PTL

\* A call that must not be replayed is sent again only after a 401.
THEOREM ReplaysAreRefreshes == RpcSpec => ReplayedOnlyAfter401
<1>1. RpcInv /\ [RpcNext]_rpcVars =>
        [posts' > posts /\ posts > 0 /\ class \in {"unsafeMutation", "probeThenCreate"}
           => status = "401"]_rpcVars
  <2> SUFFICES ASSUME RpcInv, Send, posts' > posts, posts > 0,
                      class \in {"unsafeMutation", "probeThenCreate"}
               PROVE  status = "401"
    BY DEF RpcNext, Call, IssueCall, BeginAttempt, Decide, WakeUp, GiveUpSleeping, Assert,
           Respond, FailExchange, Judge, Refresh, RefreshFails, Tick, CallerCancels,
           MoveEpoch, rpcVars, RpcInv, RpcTypeOK
  <2>1. QED
    BY DEF Send, RpcInv, ReplayInv, NoReplay, RpcTypeOK
<1>2. QED
  BY <1>1, RpcInvariant, PTL DEF RpcSpec, ReplayedOnlyAfter401

-----------------------------------------------------------------------------
(* Stale calls *)

\* A call's generation, and the one that was fenced, were current once.
GensBehind == epoch <= newest /\ fenced <= newest

\* A fence or an activation moves both forward together, and the call
\* keeps the generation it was issued under.
LEMMA NextGensBehind == RpcTypeOK /\ GensBehind /\ [RpcNext]_rpcVars => GensBehind'
<1> SUFFICES ASSUME RpcTypeOK, GensBehind, [RpcNext]_rpcVars PROVE GensBehind'
  OBVIOUS
<1> USE DEF GensBehind, RpcTypeOK
<1>1. CASE IssueCall
  BY <1>1 DEF IssueCall, world
<1>2. CASE MoveEpoch
  BY <1>2 DEF MoveEpoch, callState
<1>3. CASE UNCHANGED <<epoch, newest, fenced>>
  BY <1>3
<1>4. QED
  BY <1>1, <1>2, <1>3
     DEF RpcNext, Call, BeginAttempt, Decide, WakeUp, GiveUpSleeping, Assert, Send,
         Respond,
         FailExchange, Judge, Refresh, RefreshFails, Tick, CallerCancels, callState, world, rpcVars

\* A call that is issued keeps its generation, and a stale generation stays stale:
\* neither a new generation nor a fence brings it back.
LEMMA StaleStays ==
  ASSUME RpcTypeOK, GensBehind, [RpcNext]_rpcVars, pc # "issue", ~EpochValid
  PROVE  pc' # "issue" /\ ~EpochValid'
<1> USE DEF GensBehind, RpcTypeOK, EpochValid
<1>1. pc' # "issue"
  BY DEF RpcNext, Call, IssueCall, BeginAttempt, Decide, WakeUp, GiveUpSleeping, Assert,
         Send,
         Respond, FailExchange, Judge, Refresh, RefreshFails, Tick, CallerCancels, MoveEpoch,
         Return, Go, rpcVars
<1>2. CASE MoveEpoch
  BY <1>1, <1>2 DEF MoveEpoch, callState
<1>3. CASE UNCHANGED <<epoch, newest, fenced>>
  BY <1>1, <1>3
<1>4. QED
  BY <1>2, <1>3
     DEF RpcNext, Call, IssueCall, BeginAttempt, Decide, WakeUp, GiveUpSleeping, Assert,
         Send,
         Respond, FailExchange, Judge, Refresh, RefreshFails, Tick, CallerCancels, callState,
         world, rpcVars

\* A call whose generation was fenced or replaced sends at most the one POST that had
\* already asserted it, whatever retries and refreshes it has left.
THEOREM StaleCallsStop == RpcSpec => StaleCallStops
<1> SUFFICES ASSUME NEW n \in 0..MaxRetries + 1
             PROVE  RpcSpec => []((pc # "issue" /\ (epoch # newest \/ epoch = fenced) /\ posts = n)
                                 => [](posts <= n + 1))
  BY DEF StaleCallStops
<1> DEFINE Overtaken == pc # "issue" /\ (epoch # newest \/ epoch = fenced) /\ posts = n
           Doomed == /\ pc # "issue" /\ ~EpochValid
                     /\ posts = n \/ (posts = n + 1 /\ pc # "send")
<1>1. Overtaken => Doomed
  BY DEF EpochValid
<1>2. Doomed => posts <= n + 1
  OBVIOUS
<1>3. RpcTypeOK /\ GensBehind /\ Doomed /\ [RpcNext]_rpcVars => Doomed'
  <2> SUFFICES ASSUME RpcTypeOK, GensBehind, Doomed, [RpcNext]_rpcVars
               PROVE  posts' = n \/ (posts' = n + 1 /\ pc' # "send")
    BY StaleStays
  <2>1. CASE Send
    BY <2>1 DEF Send, Return, Go
  <2>2. CASE ~Send
    <3>1. posts' = posts
      BY <2>2
         DEF RpcNext, Call, IssueCall, BeginAttempt, Decide, WakeUp, GiveUpSleeping,
             Assert,
             Respond, FailExchange, Judge, Refresh, RefreshFails, Tick, CallerCancels,
             MoveEpoch, rpcVars
    <3>2. pc' = "send" => pc = "send"
      BY <2>2
         DEF RpcNext, Call, IssueCall, BeginAttempt, Decide, WakeUp, GiveUpSleeping,
             Assert,
             Respond, FailExchange, Judge, Refresh, RefreshFails, Tick, CallerCancels,
             MoveEpoch, Return, Go, rpcVars
    <3>3. QED
      BY <3>1, <3>2
  <2>3. QED
    BY <2>1, <2>2
<1>4. RpcInit => GensBehind
  BY DEF RpcInit, GensBehind
<1>5. RpcSpec => [](RpcTypeOK /\ GensBehind)
  BY <1>4, NextGensBehind, RpcTypes, PTL DEF RpcSpec
<1>6. QED
  BY <1>1, <1>2, <1>3, <1>5, PTL DEF RpcSpec
=============================================================================
