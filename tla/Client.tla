------------------------------- MODULE Client -------------------------------
(***************************************************************************)
(* notebooklm/client.go: RPCCall, Drain and Close over one Supervisor and  *)
(* one Kernel.                                                             *)
(*                                                                         *)
(* A call is one RPCCall.  It passes checkOpen, then the steps of          *)
(* Supervisor's Admit, then up to two POSTs of the middleware chain, which *)
(* are Kernel's Attempts, with or without a refresh between them, and      *)
(* releases its lease.  A drainer is one call of Drain, a closer one call  *)
(* of Close.  Client.New opens the only generation, so nothing here calls  *)
(* ActivateEpoch.                                                          *)
(***************************************************************************)
EXTENDS Integers, FiniteSets

CONSTANTS
  Calls,         \* calls of RPCCall
  Drainers,      \* calls of Drain
  Closers,       \* calls of Close
  MaxInFlight    \* WithMaxConcurrentRPCs; 0 is unbounded

ASSUME ClientAssumption ==
  /\ IsFiniteSet(Calls)
  /\ MaxInFlight \in Nat      \* New rejects a negative capacity

VARIABLES
  \* the Supervisor, and where each call is in Admit
  inFlight, draining, waiters, started, failed,
  apc, cur, cancelled, woken, dpc, closing, released, rpc,
  \* the Kernel, and where each POST is
  gen, retired, kernelClosed, wg, npc, issued, tracked, kpc,
  \* the Client
  closed,        \* under closedMu
  stage,         \* where each call is in RPCCall
  drain,         \* where each drainer is in Drain
  closer         \* where each closer is in Close

Legs  == 1..2
Posts == Calls \X Legs

Sup == INSTANCE Supervisor
         WITH Releasers <- {"deferred"}, pc <- apc
Ker == INSTANCE Kernel
         WITH Posts <- {}, Streams <- {}, Attempts <- Posts, MaxGen <- 1,
              closed <- kernelClosed, pc <- npc

supState    == <<inFlight, draining, waiters, started, failed, apc, cur,
                 cancelled, woken, dpc, closing, released, rpc>>
kerState    == <<gen, retired, kernelClosed, wg, npc, issued, tracked, kpc>>
clientState == <<closed, stage, drain, closer>>
vars == <<supState, kerState, clientState>>

StageValues  == {"idle", "called", "refresh", "release", "returned"}
DrainValues  == {"idle", "checked", "polling", "quiet", "late", "refused"}
CloserValues == {"idle", "fence", "kernel", "returned"}

Init ==
  /\ Sup!Init
  /\ Ker!Init
  /\ closed = FALSE
  /\ stage = [c \in Calls |-> "idle"]
  /\ drain = [d \in Drainers |-> "idle"]
  /\ closer = [k \in Closers |-> "idle"]

Stage(c, from, to) == stage[c] = from /\ stage' = [stage EXCEPT ![c] = to]

-----------------------------------------------------------------------------
(* RPCCall *)

\* checkOpen, under closedMu.
CheckOpen(c) ==
  /\ Stage(c, "idle", IF closed THEN "returned" ELSE "called")
  /\ UNCHANGED <<supState, kerState, closed, drain, closer>>

\* The context ends, from the call to its return.
Cancel(c) ==
  /\ stage[c] = "called"
  /\ Sup!Cancel(c)
  /\ UNCHANGED <<kerState, clientState>>

\* One step of Supervisor.Admit.
Admission(c) ==
  /\ stage[c] = "called"
  /\ Sup!Admit(c)
  /\ UNCHANGED <<kerState, clientState>>

\* Admit failed.
ReturnRefused(c) ==
  /\ apc[c] = "refused"
  /\ Stage(c, "called", "returned")
  /\ UNCHANGED <<supState, kerState, closed, drain, closer>>

Executing(c) == stage[c] = "called" /\ apc[c] = "admitted"

\* Runtime.Issue takes the generation for the whole logical call.
Issue(c) ==
  /\ Executing(c)
  /\ Ker!Issue(<<c, 1>>)
  /\ UNCHANGED <<supState, clientState>>

\* One step of a POST, up to its answer.
Exchange(c) ==
  /\ Executing(c)
  /\ \E l \in Legs : Ker!GiveUp(<<c, l>>) \/ Ker!Progress(<<c, l>>)
  /\ UNCHANGED <<supState, clientState>>

FirstAnswered(c) == npc[<<c, 1>>] = "done" /\ npc[<<c, 2>>] = "idle"

\* The POST of the next attempt, or the one after a refresh: same generation.
PostAgain(c) ==
  /\ npc' = [npc EXCEPT ![<<c, 2>>] = "checkClosed"]
  /\ issued' = [issued EXCEPT ![<<c, 2>>] = issued[<<c, 1>>]]
  /\ UNCHANGED <<supState, gen, retired, kernelClosed, wg, tracked, kpc>>

\* The retry middleware tries again.
Retry(c) ==
  /\ Executing(c) /\ FirstAnswered(c)
  /\ PostAgain(c)
  /\ UNCHANGED clientState

\* The terminal middleware won the refresh: runL1Refresh puts a GET on the wire,
\* past AssertEpoch, the WaitGroup and the closed flag.
BeginRefresh(c) ==
  /\ apc[c] = "admitted" /\ FirstAnswered(c)
  /\ Stage(c, "called", "refresh")
  /\ UNCHANGED <<supState, kerState, closed, drain, closer>>

EndRefresh(c) ==
  /\ Stage(c, "refresh", "called")
  /\ PostAgain(c)
  /\ UNCHANGED <<closed, drain, closer>>

\* Seeded fault: the error return of the refresh forgets the lease.
FaultFailRefreshKeeps(c) ==
  /\ Stage(c, "refresh", "returned")
  /\ UNCHANGED <<supState, kerState, closed, drain, closer>>

FailRefresh(c) ==
  /\ Stage(c, "refresh", "release")
  /\ UNCHANGED <<supState, kerState, closed, drain, closer>>

Ended(c) == \A l \in Legs : npc[<<c, l>>] \in {"idle", "rejected", "done"}

\* Execute returns: the chain is over, or it never got as far as a POST.
Finish(c) ==
  /\ apc[c] = "admitted" /\ Ended(c)
  /\ Stage(c, "called", "release")
  /\ UNCHANGED <<supState, kerState, closed, drain, closer>>

\* The deferred lease.Release.
ReleaseLease(c) ==
  /\ stage[c] = "release"
  /\ Sup!Release(c, "deferred")
  /\ stage' = IF rpc'[c]["deferred"] = "done" THEN [stage EXCEPT ![c] = "returned"] ELSE stage
  /\ UNCHANGED <<kerState, closed, drain, closer>>

RPCCall(c) ==
  \/ Admission(c) \/ ReturnRefused(c) \/ Issue(c) \/ Exchange(c) \/ Retry(c)
  \/ BeginRefresh(c) \/ EndRefresh(c) \/ FailRefresh(c) \/ Finish(c)
  \/ ReleaseLease(c)

-----------------------------------------------------------------------------
(* Drain *)

DrainTo(d, from, to) == drain[d] = from /\ drain' = [drain EXCEPT ![d] = to]

CheckOpenDrain(d) ==
  /\ DrainTo(d, "idle", IF closed THEN "refused" ELSE "checked")
  /\ UNCHANGED <<supState, kerState, closed, stage, closer>>

BeginDrain(d) ==
  /\ DrainTo(d, "checked", "polling")
  /\ Sup!BeginDrain(d)
  /\ UNCHANGED <<kerState, closed, stage, closer>>

\* The poll finds no lease out.
SeeQuiet(d) ==
  /\ inFlight = 0
  /\ DrainTo(d, "polling", "quiet")
  /\ UNCHANGED <<supState, kerState, closed, stage, closer>>

\* The deadline passes, or the context ends.
MissDeadline(d) ==
  /\ DrainTo(d, "polling", "late")
  /\ UNCHANGED <<supState, kerState, closed, stage, closer>>

\* Seeded fault: a drain that misses its deadline leaves the gate shut.
FaultEndDrainWhenQuiet(d) ==
  /\ drain[d] = "quiet"
  /\ Sup!EndDrain(d) \/ Sup!CloseWaiter(d) \/ Sup!FinishDrain(d)
  /\ UNCHANGED <<kerState, clientState>>

\* The deferred EndDrain.
EndDrain(d) ==
  /\ drain[d] \in {"quiet", "late"}
  /\ Sup!EndDrain(d) \/ Sup!CloseWaiter(d) \/ Sup!FinishDrain(d)
  /\ UNCHANGED <<kerState, clientState>>

Drain(d) == BeginDrain(d) \/ SeeQuiet(d) \/ MissDeadline(d) \/ EndDrain(d)

-----------------------------------------------------------------------------
(* Close *)

CloserTo(k, from, to) == closer[k] = from /\ closer' = [closer EXCEPT ![k] = to]

\* Under closedMu: the first Close flips the flag; the others return at once.
FlipClosed(k) ==
  /\ CloserTo(k, "idle", IF closed THEN "returned" ELSE "fence")
  /\ closed' = TRUE
  /\ UNCHANGED <<supState, kerState, stage, drain>>

\* Seeded fault: Close does not fence the generation.
FaultFenceNothing(k) ==
  /\ CloserTo(k, "fence", "kernel")
  /\ UNCHANGED <<supState, kerState, closed, stage, drain>>

\* Close fences the generation, and then runs the lifecycle's close wave, in
\* which only the kernel's hook does anything.
Fence(k) ==
  /\ CloserTo(k, "fence", "kernel")
  /\ Ker!FenceEpoch
  /\ UNCHANGED <<supState, closed, stage, drain>>

\* Kernel.Close in the close wave.
CloseKernel(k) ==
  /\ closer[k] = "kernel"
  /\ Ker!CloseFlip(k)
  /\ UNCHANGED <<supState, clientState>>

ReturnClosed(k) ==
  /\ CloserTo(k, "kernel", "returned")
  /\ Ker!CloseReturn(k)
  /\ UNCHANGED <<supState, closed, stage, drain>>

Close(k) == Fence(k) \/ CloseKernel(k) \/ ReturnClosed(k)

-----------------------------------------------------------------------------
Next ==
  \/ \E c \in Calls : CheckOpen(c) \/ Cancel(c) \/ RPCCall(c)
  \/ \E d \in Drainers : CheckOpenDrain(d) \/ Drain(d)
  \/ \E k \in Closers : FlipClosed(k) \/ Close(k)

Spec == Init /\ [][Next]_vars

\* Whoever has called into the client goes on: exchanges end by the http.Client's
\* timeout, drains by their deadline.  Nobody is obliged to make a call.
FairSpec ==
  /\ Spec
  /\ \A c \in Calls : WF_vars(RPCCall(c))
  /\ \A d \in Drainers : WF_vars(Drain(d))
  /\ \A k \in Closers : WF_vars(Close(k))

-----------------------------------------------------------------------------
(* Properties *)

\* The type of every variable.
TypeOK ==
  /\ Sup!TypeOK
  /\ Ker!TypeOK
  /\ closed \in BOOLEAN
  /\ stage \in [Calls -> StageValues]
  /\ drain \in [Drainers -> DrainValues]
  /\ closer \in [Closers -> CloserValues]

\* A POST is between its registration and its answer, or the refresh's GET is out.
OnTheWire(c) ==
  stage[c] = "refresh" \/ \E l \in Legs : npc[<<c, l>>] \in {"ready", "wire"}

\* Whoever is on the wire holds a slot: the supervisor's bound is a bound on the
\* HTTP exchanges, over retries, refreshes and concurrent closes and drains.
WireIsAdmitted == \A c \in Calls : OnTheWire(c) => c \in Sup!Holding

\* A call that returned has no lease and no exchange left.
ReturnsClean ==
  \A c \in Calls : stage[c] = "returned" => c \notin Sup!Holding /\ ~OnTheWire(c)

\* The lease and the exchange of a call begin and end together, from the gate to the
\* return, over refreshes that fail, fences and cancellations.
SlotsCoverWire == TypeOK /\ WireIsAdmitted /\ ReturnsClean

Fenced == \E k \in Closers : closer[k] = "kernel" \/ kpc[k] = "closed"

\* Once Close has fenced the kernel, a POST that had not yet asserted its generation
\* is not sent: not by a call that was parked at the drain gate, queued for a slot,
\* or waiting to retry.
FenceStopsCalls ==
  \A p \in Posts :
    [](Fenced /\ npc[p] \in {"idle", "checkClosed", "checkEpoch"}
           => [](npc[p] # "wire"))

\* A call made after Close was called is refused before it takes a slot.
ClosedAdmitsNobody ==
  \A c \in Calls : [](closed /\ stage[c] = "idle" => [](apc[c] = "entry"))

\* What Close stops, before it fences and after: no call begins and none goes on.
CloseStopsCalls == FenceStopsCalls /\ ClosedAdmitsNobody

\* Every call returns, and every drain and close does, whatever else goes on.
EverybodyReturns ==
  /\ \A c \in Calls : stage[c] = "called" ~> stage[c] = "returned"
  /\ \A d \in Drainers :
       drain[d] = "checked" ~> drain[d] \in {"quiet", "late"} /\ dpc[d] = "idle"
  /\ \A k \in Closers : closer[k] = "fence" ~> closer[k] = "returned"
=============================================================================
