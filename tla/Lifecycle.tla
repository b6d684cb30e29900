----------------------------- MODULE Lifecycle -----------------------------
(***************************************************************************)
(* internal/runtime/lifecycle.go: participants registered with a phase,    *)
(* the Open wave that runs their open hooks and rolls back on a failure,   *)
(* and the Close wave.                                                     *)
(*                                                                         *)
(* Open holds the mutex for its whole wave; Close drops it before it runs  *)
(* its hooks.  A hook is one step that succeeds or fails.  A participant   *)
(* is named by its place in the registration order, and an error by the    *)
(* participants whose hooks it reports: <<>> is nil, <<p>> the failure of  *)
(* p, <<p, q>> that failure wrapped in the failed rollback of q.           *)
(***************************************************************************)
EXTENDS Integers, Sequences

CONSTANTS
  Goroutines,   \* callers of Open and Close, one call each
  Names,        \* participant names
  Phases,       \* phase numbers
  MaxParts      \* bound on the registrations

ASSUME LifecycleAssumption == Phases \subseteq Int /\ MaxParts \in Nat

VARIABLES
  \* the Lifecycle struct
  mu,           \* the goroutines that hold the mutex across steps
  opened, closed, openErr,
  parts,        \* the registered participants
  marked,       \* participants whose own opened field is set
  \* the goroutines
  pc,
  todo,         \* the participants whose hooks a wave has still to run
  undo,         \* what the Open wave opened and has not rolled back (its slice opened)
  result,       \* the error a call returns
  \* the hooks that ran, in order
  log

flags == <<opened, closed, openErr>>
vars == <<mu, flags, parts, marked, pc, todo, undo, result, log>>

Free == {}

Participants == [name : Names, phase : Phases, open : BOOLEAN, close : BOOLEAN]
PcValues     == {"idle", "opening", "rollback", "closing", "returned"}

Init ==
  /\ mu = Free
  /\ opened = FALSE /\ closed = FALSE /\ openErr = <<>>
  /\ parts = <<>>
  /\ marked = {}
  /\ pc = [g \in Goroutines |-> "idle"]
  /\ todo = [g \in Goroutines |-> {}]
  /\ undo = {}
  /\ result = [g \in Goroutines |-> <<>>]
  /\ log = <<>>

Ran(hook, p, ok) == log' = Append(log, [hook |-> hook, part |-> p, ok |-> ok])
Done(g, p) == todo' = [todo EXCEPT ![g] = @ \ {p}]

Move(g, from, to) == pc[g] = from /\ pc' = [pc EXCEPT ![g] = to]

-----------------------------------------------------------------------------
(* Register *)

\* A new participant, while nothing was opened or closed; a name is unique within
\* its phase.
Register(p) ==
  /\ mu = Free
  /\ ~opened /\ ~closed
  /\ Len(parts) < MaxParts
  /\ \A i \in 1..Len(parts) : <<parts[i].name, parts[i].phase>> # <<p.name, p.phase>>
  /\ parts' = Append(parts, p)
  /\ UNCHANGED <<mu, flags, marked, pc, todo, undo, result, log>>

-----------------------------------------------------------------------------
(* Open *)

\* sortedParts: by phase, then in registration order.
Before(p, q) ==
  \/ parts[p].phase < parts[q].phase
  \/ parts[p].phase = parts[q].phase /\ p < q

\* The participant whose open hook is next.
NextToOpen(g, p) == \A q \in todo[g] \ {p} : Before(p, q)

\* The one opened last, which is rolled back first.
NextToRollBack(p) == \A q \in undo \ {p} : Before(q, p)

\* Open on a lifecycle that failed to open, or that is open.
OpenAgain(g) ==
  /\ mu = Free
  /\ openErr # <<>> \/ opened
  /\ Move(g, "idle", "returned")
  /\ result' = [result EXCEPT ![g] = openErr]
  /\ UNCHANGED <<mu, flags, parts, marked, todo, undo, log>>

\* Open takes the mutex and begins its wave.
BeginOpen(g) ==
  /\ mu = Free
  /\ openErr = <<>> /\ ~opened
  /\ Move(g, "idle", "opening")
  /\ mu' = {g}
  /\ todo' = [todo EXCEPT ![g] = 1..Len(parts)]
  /\ UNCHANGED <<flags, parts, marked, undo, result, log>>

\* A participant without an open hook is marked as opened.
SkipOpen(g) ==
  /\ pc[g] = "opening"
  /\ \E p \in todo[g] :
       /\ NextToOpen(g, p)
       /\ ~parts[p].open
       /\ marked' = marked \cup {p}
       /\ Done(g, p)
  /\ UNCHANGED <<mu, flags, parts, pc, undo, result, log>>

OpenPart(g) ==
  /\ pc[g] = "opening"
  /\ \E p \in todo[g] :
       /\ NextToOpen(g, p)
       /\ parts[p].open
       /\ Ran("open", p, TRUE)
       /\ marked' = marked \cup {p}
       /\ undo' = undo \cup {p}
       /\ Done(g, p)
  /\ UNCHANGED <<mu, flags, parts, pc, result>>

\* The first open hook that fails ends the wave.
FailPart(g) ==
  /\ \E p \in todo[g] :
       /\ NextToOpen(g, p)
       /\ parts[p].open
       /\ Ran("open", p, FALSE)
       /\ result' = [result EXCEPT ![g] = <<p>>]
  /\ Move(g, "opening", "rollback")
  /\ UNCHANGED <<mu, flags, parts, marked, todo, undo>>

\* The last participant that was opened and not yet rolled back is closed.  The
\* first rollback that fails is added to the error; the others go on.
RollBackPart(g) ==
  /\ pc[g] = "rollback"
  /\ \E p \in undo, ok \in BOOLEAN :
       /\ NextToRollBack(p)
       /\ IF parts[p].close
            THEN /\ Ran("close", p, ok)
                 /\ result' = IF ok \/ Len(result[g]) > 1 THEN result
                              ELSE [result EXCEPT ![g] = Append(@, p)]
            ELSE UNCHANGED <<log, result>>
       /\ undo' = undo \ {p}
  /\ UNCHANGED <<mu, flags, parts, marked, pc, todo>>

\* Seeded fault: the rollback stops at its first error.
FaultFailOpenEarly(g) ==
  /\ undo = {} \/ Len(result[g]) > 1
  /\ Move(g, "rollback", "returned")
  /\ openErr' = result[g]
  /\ closed' = TRUE
  /\ mu' = Free
  /\ UNCHANGED <<opened, parts, marked, todo, undo, result, log>>

FailOpen(g) ==
  /\ undo = {}
  /\ Move(g, "rollback", "returned")
  /\ openErr' = result[g]
  /\ closed' = TRUE
  /\ mu' = Free
  /\ UNCHANGED <<opened, parts, marked, todo, undo, result, log>>

EndOpen(g) ==
  /\ todo[g] = {}
  /\ Move(g, "opening", "returned")
  /\ opened' = TRUE
  /\ mu' = Free
  /\ UNCHANGED <<closed, openErr, parts, marked, todo, undo, result, log>>

-----------------------------------------------------------------------------
(* Close *)

\* Close on a lifecycle that failed to open, or that was closed.
CloseAgain(g) ==
  /\ mu = Free
  /\ openErr # <<>> \/ closed
  /\ Move(g, "idle", "returned")
  /\ result' = [result EXCEPT ![g] = openErr]
  /\ UNCHANGED <<mu, flags, parts, marked, todo, undo, log>>

\* The participants Close tears down, the last that was registered first.
ToClose == {p \in marked : parts[p].close}

NextToClose(g, p) == \A q \in todo[g] \ {p} : q < p

\* Seeded fault: Close does not look at the closed flag.
FaultBeginCloseTwice(g) ==
  /\ mu = Free
  /\ openErr = <<>>
  /\ Move(g, "idle", "closing")
  /\ closed' = TRUE
  /\ todo' = [todo EXCEPT ![g] = ToClose]
  /\ UNCHANGED <<mu, opened, openErr, parts, marked, undo, result, log>>

\* Under the mutex: set the flag and choose the participants.
BeginClose(g) ==
  /\ mu = Free
  /\ openErr = <<>> /\ ~closed
  /\ Move(g, "idle", "closing")
  /\ closed' = TRUE
  /\ todo' = [todo EXCEPT ![g] = ToClose]
  /\ UNCHANGED <<mu, opened, openErr, parts, marked, undo, result, log>>

\* Seeded fault: a close hook that fails ends the wave.
FaultClosePartStops(g) ==
  /\ pc[g] = "closing"
  /\ \E p \in todo[g], ok \in BOOLEAN :
       /\ NextToClose(g, p)
       /\ Ran("close", p, ok)
       /\ todo' = [todo EXCEPT ![g] = IF ok THEN @ \ {p} ELSE {}]
       /\ result' = IF ok THEN result ELSE [result EXCEPT ![g] = <<p>>]
  /\ UNCHANGED <<mu, flags, parts, marked, pc, undo>>

\* Without the mutex: one close hook.  The first error is kept; the wave goes on.
ClosePart(g) ==
  /\ pc[g] = "closing"
  /\ \E p \in todo[g], ok \in BOOLEAN :
       /\ NextToClose(g, p)
       /\ Ran("close", p, ok)
       /\ result' = IF ok \/ result[g] # <<>> THEN result
                    ELSE [result EXCEPT ![g] = <<p>>]
       /\ Done(g, p)
  /\ UNCHANGED <<mu, flags, parts, marked, pc, undo>>

EndClose(g) ==
  /\ todo[g] = {}
  /\ Move(g, "closing", "returned")
  /\ UNCHANGED <<mu, flags, parts, marked, todo, undo, result, log>>

-----------------------------------------------------------------------------
Wave(g) ==
  \/ SkipOpen(g) \/ OpenPart(g) \/ FailPart(g) \/ RollBackPart(g)
  \/ FailOpen(g) \/ EndOpen(g) \/ ClosePart(g) \/ EndClose(g)

Next ==
  \/ \E p \in Participants : Register(p)
  \/ \E g \in Goroutines :
       OpenAgain(g) \/ BeginOpen(g) \/ CloseAgain(g) \/ BeginClose(g) \/ Wave(g)

Spec == Init /\ [][Next]_vars

\* A wave that was begun goes on: hooks return.
FairSpec == Spec /\ \A g \in Goroutines : WF_vars(Wave(g))

-----------------------------------------------------------------------------
(* Properties *)

\* The type of every variable.
TypeOK ==
  /\ mu \subseteq Goroutines
  /\ opened \in BOOLEAN /\ closed \in BOOLEAN
  /\ openErr \in Seq(1..Len(parts))
  /\ parts \in Seq(Participants)
  /\ marked \subseteq 1..Len(parts)
  /\ pc \in [Goroutines -> PcValues]
  /\ todo \in [Goroutines -> SUBSET (1..Len(parts))]
  /\ undo \subseteq 1..Len(parts)
  /\ result \in [Goroutines -> Seq(1..Len(parts))]
  /\ log \in Seq([hook : {"open", "close"}, part : 1..Len(parts), ok : BOOLEAN])

\* The runs of a hook, by their place in the log.
Runs(hook, p) == {i \in 1..Len(log) : log[i].hook = hook /\ log[i].part = p}

\* Participants whose open hook succeeded and whose close hook has not run yet.
Live ==
  {p \in 1..Len(parts) : /\ \E i \in Runs("open", p) : log[i].ok
                         /\ parts[p].close
                         /\ Runs("close", p) = {}}

\* Nobody holds a participant twice: over the Open wave's rollback and all calls
\* of Close, a hook runs at most once.
HooksRunOnce ==
  \A p \in 1..Len(parts), h \in {"open", "close"} :
    \A i, j \in Runs(h, p) : i = j

\* A close hook runs only after its own open hook succeeded, if there is one.
OnlyOpenedAreClosed ==
  \A p \in 1..Len(parts) : parts[p].open =>
    \A i \in Runs("close", p) : \E j \in Runs("open", p) : j < i /\ log[j].ok

\* An Open that returned an error left nothing open, even if rollbacks failed.
FailedOpenLeavesNothing == openErr # <<>> => Live = {}

\* Open hooks run in phase order, and in registration order within a phase.
OpensByPhase ==
  \A i, j \in 1..Len(log) :
    LET p == log[i].part  q == log[j].part IN
    i < j /\ log[i].hook = "open" /\ log[j].hook = "open"
      => \/ parts[p].phase < parts[q].phase
         \/ parts[p].phase = parts[q].phase /\ p < q

\* Whatever calls of Open and Close race, the hooks run once, in order, and only
\* what was opened is closed.
HooksAreOrderly == TypeOK /\ HooksRunOnce /\ OnlyOpenedAreClosed /\ OpensByPhase

\* The hook of p failed, and no hook of its kind failed before it.
FirstFailure(hook, p) ==
  \E i \in Runs(hook, p) :
    ~log[i].ok /\ \A j \in 1..(i - 1) : log[j].hook = hook => log[j].ok

NoFailure(hook) == \A i \in 1..Len(log) : log[i].hook = hook => log[i].ok

\* The error of an Open wave: the open hook that failed, and the first rollback
\* that failed, if one did.
OpenError(err) ==
  /\ FirstFailure("open", err[1])
  /\ IF NoFailure("close") THEN Len(err) = 1
     ELSE Len(err) = 2 /\ FirstFailure("close", err[2])

\* The error of a Close wave: the first close hook that failed.
CloseError(err) == Len(err) = 1 /\ FirstFailure("close", err[1])

\* The error a call returned is the first one of its wave, and that of a failed
\* Open is what every later Open and Close returns.
FirstErrorWins ==
  \A g \in Goroutines : pc[g] = "returned" /\ result[g] # <<>> =>
    IF openErr # <<>> THEN result[g] = openErr /\ OpenError(openErr)
    ELSE CloseError(result[g])

\* A wave that fails half-way is undone and tells its first error to every caller.
FailedWaveIsUndone == FailedOpenLeavesNothing /\ FirstErrorWins

\* A close wave that has something to close releases every participant, though hooks
\* fail and other calls of Open and Close run during the wave.
CloseReleasesAll ==
  \A g \in Goroutines : pc[g] = "closing" /\ todo[g] # {} ~> Live = {}
=============================================================================
