------------------------------ MODULE FileLock ------------------------------
(***************************************************************************)
(* internal/atomicio/flock*.go: the two-level lock of one path.  A worker  *)
(* is a goroutine that makes one call of Shared, Exclusive, TryShared or   *)
(* TryExclusive; Home gives its process.  Every call opens a descriptor of *)
(* its own, so flock(2) arbitrates between all workers, and the mutex of   *)
(* the process is held across the flock call only.                         *)
(***************************************************************************)
CONSTANTS
  Workers,
  Processes,
  Home          \* the process of each worker

VARIABLES
  mutex,        \* per process: the worker that holds lockForPath's mutex, as a set
  holders,      \* the workers whose descriptor holds the flock
  request,      \* the call each worker makes
  lpc           \* where each worker is in lockAt

vars == <<mutex, holders, request, lpc>>

Kinds    == {"shared", "exclusive"}
Requests == [kind : Kinds, blocking : BOOLEAN]
LockPc   == {"idle", "opened", "acquiring", "acquired", "held", "busy", "failed",
             "released", "dead"}

Init ==
  /\ mutex = [p \in Processes |-> {}]
  /\ holders = {}
  /\ request = [w \in Workers |-> [kind |-> "shared", blocking |-> TRUE]]
  /\ lpc = [w \in Workers |-> "idle"]

Step(w, from, to) == lpc[w] = from /\ lpc' = [lpc EXCEPT ![w] = to]

-----------------------------------------------------------------------------
(* lockAt *)

\* The call: the lock file is opened, or created.
LockAt(w, q) ==
  /\ Step(w, "idle", "opened")
  /\ request' = [request EXCEPT ![w] = q]
  /\ UNCHANGED <<mutex, holders>>

\* The directory or the file cannot be made.
OpenFails(w) ==
  /\ Step(w, "opened", "failed")
  /\ UNCHANGED <<mutex, holders, request>>

\* The in-process mutex is a plain Lock, for the Try calls too.
TakeMutex(w) ==
  /\ mutex[Home[w]] = {}
  /\ Step(w, "opened", "acquiring")
  /\ mutex' = [mutex EXCEPT ![Home[w]] = {w}]
  /\ UNCHANGED <<holders, request>>

\* Seeded fault: an exclusive request is granted beside shared holders.
FaultCompatible(w) ==
  \A h \in holders : request[h].kind = "shared"

\* flock(2): shared locks go together, an exclusive one stands alone.
Compatible(w) ==
  \A h \in holders : request[w].kind = "shared" /\ request[h].kind = "shared"

\* acquireOSLock grants.
Acquire(w) ==
  /\ Compatible(w)
  /\ Step(w, "acquiring", "acquired")
  /\ holders' = holders \cup {w}
  /\ UNCHANGED <<mutex, request>>

\* Seeded fault: the error return forgets the mutex.
FaultFindBusy(w) ==
  /\ ~request[w].blocking
  /\ ~Compatible(w)
  /\ Step(w, "acquiring", "busy")
  /\ UNCHANGED <<mutex, holders, request>>

\* acquireOSLock would block and the call is a Try: the mutex is given back.
FindBusy(w) ==
  /\ ~request[w].blocking
  /\ ~Compatible(w)
  /\ Step(w, "acquiring", "busy")
  /\ mutex' = [mutex EXCEPT ![Home[w]] = {}]
  /\ UNCHANGED <<holders, request>>

\* acquireOSLock fails for another reason.
AcquireFails(w) ==
  /\ Step(w, "acquiring", "failed")
  /\ mutex' = [mutex EXCEPT ![Home[w]] = {}]
  /\ UNCHANGED <<holders, request>>

\* The mutex goes before the caller gets its Release.
DropMutex(w) ==
  /\ Step(w, "acquired", "held")
  /\ mutex' = [mutex EXCEPT ![Home[w]] = {}]
  /\ UNCHANGED <<holders, request>>

\* Release: the flock goes and the descriptor is closed.
Release(w) ==
  /\ Step(w, "held", "released")
  /\ holders' = holders \ {w}
  /\ UNCHANGED <<mutex, request>>

\* Processes die, one or, when the power fails, all: the kernel closes their
\* descriptors, their mutexes are gone.
Die(P) ==
  LET gone == {w \in Workers : Home[w] \in P} IN
  /\ lpc' = [w \in Workers |-> IF w \in gone THEN "dead" ELSE lpc[w]]
  /\ holders' = holders \ gone
  /\ mutex' = [p \in Processes |-> IF p \in P THEN {} ELSE mutex[p]]
  /\ UNCHANGED request

Progress(w) ==
  \/ TakeMutex(w) \/ Acquire(w) \/ FindBusy(w) \/ DropMutex(w)

-----------------------------------------------------------------------------
Next ==
  \/ \E w \in Workers, q \in Requests : LockAt(w, q)
  \/ \E w \in Workers : OpenFails(w) \/ AcquireFails(w) \/ Progress(w) \/ Release(w)
  \/ \E P \in SUBSET Processes : Die(P)

Spec == Init /\ [][Next]_vars

-----------------------------------------------------------------------------
(* Properties *)

\* The type of every variable.
TypeOK ==
  /\ mutex \in [Processes -> SUBSET Workers]
  /\ holders \subseteq Workers
  /\ request \in [Workers -> Requests]
  /\ lpc \in [Workers -> LockPc]

Holding(kind) == {w \in holders : request[w].kind = kind}

\* At most one worker of a process is inside flock, and a worker that has left
\* lockAt, whatever the outcome, has left the mutex free for the next.
MutexIsHandedOn ==
  \A p \in Processes :
    /\ mutex[p] = {w \in Workers : Home[w] = p /\ lpc[w] \in {"acquiring", "acquired"}}
    /\ \A v, w \in mutex[p] : v = w

RW == INSTANCE RWLock
        WITH readers <- Holding("shared"), writers <- Holding("exclusive")

\* The two levels together are a readers-writer lock.
ImplementsRWLock == RW!Spec
=============================================================================
