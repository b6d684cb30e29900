------------------------------- MODULE Kernel -------------------------------
(***************************************************************************)
(* internal/web/transport: the Kernel's generations, its closed flag and   *)
(* its WaitGroup, and the three ways a request goes through them:          *)
(*   Posts    Kernel.Post, the buffered POST;                              *)
(*   Streams  Kernel.PostStream, whose Stream the caller closes later;     *)
(*   Attempts Runtime.terminalInner, one POST of the middleware chain.     *)
(* Each element is one request.  Closers are goroutines that call          *)
(* Kernel.Close.  Code between two lock operations is one step, and the    *)
(* HTTP exchange (http.Client.Do, reading the body) is one more.           *)
(***************************************************************************)
EXTENDS Integers, FiniteSets

CONSTANTS
  Posts, Streams, Attempts,   \* the requests
  Closers,                    \* goroutines that call Close
  MaxGen                      \* bound on the generations ActivateEpoch opens

Requests == Posts \cup Streams \cup Attempts

ASSUME KernelAssumption ==
  /\ IsFiniteSet(Requests)
  /\ Posts \cap Attempts = {} /\ Streams \cap (Posts \cup Attempts) = {}
  /\ MaxGen \in Nat \ {0}

VARIABLES
  \* the Kernel struct
  gen,        \* the active generation, under genMu
  retired,    \* the generation FenceEpoch or Close retired, under genMu
  closed,     \* under closeMu
  wg,         \* the counter of the WaitGroup
  \* the goroutines
  pc,         \* where each request is
  issued,     \* the generation each request was issued under
  tracked,    \* requests that did wg.Add(1) and have still to do wg.Done()
  kpc         \* where each closer is in Close

epochState == <<gen, retired, closed>>
vars == <<epochState, wg, pc, issued, tracked, kpc>>

RequestPc == {"idle", "checkClosed", "checkEpoch", "register", "ready",
              "wire", "open", "rejected", "done"}
CloserPc  == {"idle", "waiting", "closed", "noop"}

Init ==
  /\ gen = 1
  /\ retired = 0
  /\ closed = FALSE
  /\ wg = 0
  /\ pc = [r \in Requests |-> "idle"]
  /\ issued = [r \in Requests |-> 0]
  /\ tracked = {}
  /\ kpc = [k \in Closers |-> "idle"]

Goto(r, from, to) == pc[r] = from /\ pc' = [pc EXCEPT ![r] = to]

-----------------------------------------------------------------------------
(* Generations *)

\* Seeded fault: a closed kernel still opens generations.
FaultActivateClosed ==
  /\ gen <= MaxGen
  /\ gen' = gen + 1
  /\ UNCHANGED <<retired, closed, wg, pc, issued, tracked, kpc>>

\* A new generation; a no-op on a closed kernel.
ActivateEpoch ==
  /\ ~closed
  /\ gen < MaxGen
  /\ gen' = gen + 1
  /\ UNCHANGED <<retired, closed, wg, pc, issued, tracked, kpc>>

\* Retire the current generation, unless it is retired already; a no-op on a
\* closed kernel.
FenceEpoch ==
  /\ ~closed
  /\ retired < gen
  /\ retired' = gen
  /\ UNCHANGED <<gen, closed, wg, pc, issued, tracked, kpc>>

-----------------------------------------------------------------------------
(* A request, from Generation() to the POST *)

\* The caller takes the generation it will issue under.
Issue(r) ==
  /\ Goto(r, "idle", "checkClosed")
  /\ issued' = [issued EXCEPT ![r] = gen]
  /\ UNCHANGED <<epochState, wg, tracked, kpc>>

\* AssertEpoch, under closeMu: a closed kernel rejects.
AssertOpen(r) ==
  /\ Goto(r, "checkClosed", IF closed THEN "rejected" ELSE "checkEpoch")
  /\ UNCHANGED <<epochState, wg, issued, tracked, kpc>>

\* What AssertEpoch accepts: the active generation, when it is not retired.
FaultAcceptsOld(g) == g # retired

Accepts(g) == g # retired /\ g = gen

\* AssertEpoch, under genMu: a retired or an old generation is rejected.
AssertEpoch(r) ==
  /\ Goto(r, "checkEpoch", IF Accepts(issued[r]) THEN "register" ELSE "rejected")
  /\ UNCHANGED <<epochState, wg, issued, tracked, kpc>>

\* The context is done before the request is built, or building it fails.
GiveUp(r) ==
  /\ Goto(r, "register", "rejected")
  /\ UNCHANGED <<epochState, wg, issued, tracked, kpc>>

Track(r) == wg' = wg + 1 /\ tracked' = tracked \cup {r}

\* Seeded fault: Post registers without looking at the closed flag.
FaultRegisterBlind(r) ==
  /\ r \in Posts \cup Streams
  /\ Goto(r, "register", "ready")
  /\ Track(r)
  /\ UNCHANGED <<epochState, issued, kpc>>

\* Post and PostStream, under closeMu: an open kernel counts the request in.
Register(r) ==
  /\ r \in Posts \cup Streams
  /\ ~closed
  /\ Goto(r, "register", "ready")
  /\ Track(r)
  /\ UNCHANGED <<epochState, issued, kpc>>

\* Post and PostStream, under closeMu: the kernel was closed meanwhile.
RefuseClosed(r) ==
  /\ r \in Posts \cup Streams
  /\ closed
  /\ Goto(r, "register", "rejected")
  /\ UNCHANGED <<epochState, wg, issued, tracked, kpc>>

\* terminalInner calls StartInFlight, under closeMu.  On a closed kernel that
\* counts nothing, returns a no-op, and does not stop the caller.
StartInFlight(r) ==
  /\ r \in Attempts
  /\ Goto(r, "register", "ready")
  /\ IF closed THEN UNCHANGED <<wg, tracked>> ELSE Track(r)
  /\ UNCHANGED <<epochState, issued, kpc>>

\* http.Client.Do puts the request on the wire.
Send(r) ==
  /\ Goto(r, "ready", "wire")
  /\ UNCHANGED <<epochState, wg, issued, tracked, kpc>>

\* wg.Done, for a request that was counted in.
Untrack(r) ==
  IF r \in tracked THEN wg' = wg - 1 /\ tracked' = tracked \ {r}
                   ELSE UNCHANGED <<wg, tracked>>

\* Seeded fault: an error return forgets wg.Done.
FaultFailKeepsCount(r) ==
  /\ Goto(r, "wire", "done")
  /\ UNCHANGED <<epochState, wg, tracked, issued, kpc>>

\* Do, or reading the body, fails (for a stream: Do).
Fail(r) ==
  /\ Goto(r, "wire", "done")
  /\ Untrack(r)
  /\ UNCHANGED <<epochState, issued, kpc>>

\* The body was read (or cut off at the cap) and the call returns.
Complete(r) ==
  /\ r \in Posts \cup Attempts
  /\ Goto(r, "wire", "done")
  /\ Untrack(r)
  /\ UNCHANGED <<epochState, issued, kpc>>

\* PostStream returns the Stream; the body is the caller's to read and close.
HandOver(r) ==
  /\ r \in Streams
  /\ Goto(r, "wire", "open")
  /\ UNCHANGED <<epochState, wg, issued, tracked, kpc>>

\* Stream.Close, whose first call does wg.Done.
CloseStream(r) ==
  /\ Goto(r, "open", "done")
  /\ Untrack(r)
  /\ UNCHANGED <<epochState, issued, kpc>>

Progress(r) ==
  \/ AssertOpen(r) \/ AssertEpoch(r) \/ Register(r) \/ RefuseClosed(r)
  \/ StartInFlight(r) \/ Send(r) \/ Fail(r) \/ Complete(r) \/ HandOver(r)

-----------------------------------------------------------------------------
(* Kernel.Close *)

\* Under closeMu and genMu: close, and retire every generation.
CloseFlip(k) ==
  /\ kpc[k] = "idle"
  /\ ~closed
  /\ closed' = TRUE
  /\ gen' = gen + 1
  /\ retired' = gen + 1
  /\ kpc' = [kpc EXCEPT ![k] = "waiting"]
  /\ UNCHANGED <<wg, pc, issued, tracked>>

\* A second Close returns at once.
CloseAgain(k) ==
  /\ kpc[k] = "idle"
  /\ closed
  /\ kpc' = [kpc EXCEPT ![k] = "noop"]
  /\ UNCHANGED <<epochState, wg, pc, issued, tracked>>

\* wg.Wait returns when the counter is zero.
CloseReturn(k) ==
  /\ kpc[k] = "waiting"
  /\ wg = 0
  /\ kpc' = [kpc EXCEPT ![k] = "closed"]
  /\ UNCHANGED <<epochState, wg, pc, issued, tracked>>

-----------------------------------------------------------------------------
Next ==
  \/ ActivateEpoch
  \/ FenceEpoch
  \/ \E r \in Requests : Issue(r) \/ GiveUp(r) \/ CloseStream(r) \/ Progress(r)
  \/ \E k \in Closers : CloseFlip(k) \/ CloseAgain(k) \/ CloseReturn(k)

Spec == Init /\ [][Next]_vars

\* Goroutines run and every exchange ends: the http.Client has a timeout.
\* Nobody is obliged to call Close, or to issue a request.
Fairness ==
  /\ \A r \in Requests : WF_vars(Progress(r))
  /\ \A k \in Closers : WF_vars(CloseReturn(k))

FairSpec == Spec /\ Fairness

\* Callers that always close the stream they were handed.
TidyCallers == \A r \in Streams : WF_vars(CloseStream(r))

TidySpec == FairSpec /\ TidyCallers

-----------------------------------------------------------------------------
(* Properties *)

\* The type of every variable.
TypeOK ==
  /\ gen \in Nat \ {0}
  /\ retired \in Nat
  /\ closed \in BOOLEAN
  /\ wg \in Nat
  /\ pc \in [Requests -> RequestPc]
  /\ issued \in [Requests -> Nat]
  /\ tracked \subseteq Requests
  /\ kpc \in [Closers -> CloserPc]

\* The requests between their registration and their last use of the kernel.
InFlight == {r \in Requests : pc[r] \in {"ready", "wire", "open"}}

\* The WaitGroup counts the requests that registered and are not over, and those
\* alone, so it never goes negative; every Post and every stream in flight is in it.
WaitGroupExact ==
  /\ wg = Cardinality(tracked)
  /\ tracked \subseteq InFlight
  /\ InFlight \cap (Posts \cup Streams) \subseteq tracked

\* Once the Close that flipped the flag has returned, no Post and no stream is in
\* flight, and none gets there any more.
CloseDrainsPosts ==
  \A k \in Closers : kpc[k] = "closed" => InFlight \cap (Posts \cup Streams) = {}

\* The drain of Close, over registrations that race with the flag: nothing is lost
\* from the count and nothing is left when Close returns.
DrainIsExact == TypeOK /\ WaitGroupExact /\ CloseDrainsPosts

\* A generation that is retired or superseded.
Stale(g) == g <= retired \/ g < gen

\* A request that is stale when AssertEpoch looks at the generations is never
\* sent, whatever generations are opened, fenced or closed afterwards.
StaleIsNeverSent ==
  \A r \in Requests :
    [](pc[r] \in {"checkClosed", "checkEpoch"} /\ Stale(issued[r])
         => [](pc[r] # "wire"))

\* Retired never passes the active generation, and generations only grow.
RetiredBehindGen == retired <= gen

\* After Close the generations no longer move, which is what makes the reads of gen
\* without genMu (ActivateEpoch, Post and PostStream on a closed kernel) safe.
FrozenWhenClosed == [][closed => UNCHANGED epochState]_vars

\* The Close that flipped the flag returns.
CloseReturns == \A k \in Closers : kpc[k] = "waiting" ~> kpc[k] = "closed"
=============================================================================
