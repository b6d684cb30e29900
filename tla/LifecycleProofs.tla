-------------------------- MODULE LifecycleProofs --------------------------
(***************************************************************************)
(* What Lifecycle promises for every set of callers and every number of    *)
(* participants: the hooks run once and in order, and a wave that fails is *)
(* undone and reported.  Neither is inductive: LifecycleInv says what the  *)
(* log and the loop variables of the wave in progress have to do with each *)
(* other, and that no two waves touch them.                                *)
(***************************************************************************)
EXTENDS Lifecycle, TLAPS

-----------------------------------------------------------------------------
(* The inductive invariant *)

InWave(g) == pc[g] \in {"opening", "rollback"}

\* The open hook of p succeeded.
WasOpened(p) == \E i \in Runs("open", p) : log[i].ok

NotClosed(p) == Runs("close", p) = {}

\* The mutex is held by the one goroutine whose Open wave runs, and Open reaches a
\* verdict once.
OneOpenWave ==
  /\ mu = {g \in Goroutines : InWave(g)}
  /\ \A g, h \in Goroutines : InWave(g) /\ InWave(h) => g = h
  /\ mu # {} => ~opened /\ openErr = <<>>
  /\ opened => openErr = <<>>
  /\ openErr # <<>> => closed

\* Until an Open wave began, nothing ran.
NothingYet ==
  mu = {} /\ ~opened /\ openErr = <<>> => marked = {} /\ undo = {} /\ log = <<>>

\* The closed flag admits one Close wave, which finds participants only after a
\* successful Open.
OneCloseWave ==
  /\ \A g, h \in Goroutines : pc[g] = "closing" /\ pc[h] = "closing" => g = h
  /\ \A g \in Goroutines : pc[g] = "closing" => closed /\ (todo[g] # {} => opened)
  /\ opened /\ ~closed => \A i \in 1..Len(log) : log[i].hook = "open"

\* What the log says of two hooks: opens come in order and before the closes, only
\* the last open may have failed, and nothing is closed twice.
LogIsOrdered ==
  \A i, j \in 1..Len(log) : i < j =>
    /\ log[i].hook = "close" => log[j].hook = "close"
    /\ log[j].hook = "open" => log[i].ok /\ Before(log[i].part, log[j].part)
    /\ log[i].hook = "close" => log[i].part # log[j].part

\* What the log says of the participants: it agrees with their opened fields.
LogIsTrue ==
  /\ \A i \in 1..Len(log) :
       IF log[i].hook = "close" THEN log[i].part \in marked
       ELSE parts[log[i].part].open /\ (log[i].ok => log[i].part \in marked)
  /\ \A p \in marked : parts[p].open => WasOpened(p)

\* An Open wave that has not failed: the log holds successful opens only, all of
\* them before the participants still to open.
OpeningKnows ==
  \A g \in Goroutines : pc[g] = "opening" =>
    /\ todo[g] = (1..Len(parts)) \ marked
    /\ undo = {p \in marked : parts[p].open}
    /\ result[g] = <<>>
    /\ \A i \in 1..Len(log) : /\ log[i].hook = "open" /\ log[i].ok
                              /\ \A q \in todo[g] : Before(log[i].part, q)

\* What is opened, has a close hook and was not closed is in undo.
UndoCovers ==
  \A p \in marked : parts[p].open /\ parts[p].close /\ NotClosed(p) => p \in undo

RollBackKnows ==
  \A g \in Goroutines : pc[g] = "rollback" =>
    /\ undo \subseteq marked
    /\ \A p \in undo : parts[p].open /\ NotClosed(p)
    /\ UndoCovers
    /\ OpenError(result[g])

FailedIsUndone == openErr # <<>> => undo = {} /\ UndoCovers /\ OpenError(openErr)

\* A Close wave: what it has still to close is opened and was not closed, and its
\* error is the first in the log.
ClosingKnows ==
  \A g \in Goroutines : pc[g] = "closing" =>
    /\ todo[g] \subseteq ToClose
    /\ \A p \in todo[g] : NotClosed(p)
    /\ ~opened => result[g] = <<>>
    /\ opened => IF result[g] = <<>> THEN NoFailure("close")
                 ELSE CloseError(result[g])

\* What a call that does not run a wave has to return.
ResultsAreKept ==
  \A g \in Goroutines :
    /\ pc[g] = "idle" => result[g] = <<>>
    /\ pc[g] = "returned" /\ result[g] # <<>> =>
         IF openErr # <<>> THEN result[g] = openErr
         ELSE opened /\ CloseError(result[g])

LifecycleInv ==
  /\ TypeOK
  /\ OneOpenWave /\ NothingYet /\ OneCloseWave
  /\ LogIsOrdered /\ LogIsTrue
  /\ OpeningKnows /\ RollBackKnows /\ FailedIsUndone /\ ClosingKnows
  /\ ResultsAreKept

-----------------------------------------------------------------------------
(* Types *)

LogEntries == [hook : {"open", "close"}, part : 1..Len(parts), ok : BOOLEAN]

\* A sequence over a set is one over every larger set.
LEMMA SeqOfMore ==
  ASSUME NEW S, NEW T, S \subseteq T, NEW s \in Seq(S)
  PROVE  s \in Seq(T)
<1>1. s \in [1..Len(s) -> T] /\ Len(s) \in Nat  OBVIOUS
<1>2. \A i \in 1..Len(s) : s[i] \in T  BY <1>1
<1> QED  BY <1>1

\* The initial state is well typed, and every step keeps the types.
LEMMA InitType == Init => TypeOK
<1> SUFFICES ASSUME Init PROVE TypeOK  OBVIOUS
<1>1. /\ parts \in Seq(Participants) /\ log \in Seq(LogEntries)
      /\ openErr \in Seq(1..Len(parts))
  BY DEF Init
<1> QED  BY <1>1 DEF Init, TypeOK, Free, PcValues, LogEntries

\* Every step of Register, Open, the rollback and Close keeps the types.
LEMMA NextType ==
  ASSUME TypeOK, [Next]_vars
  PROVE  TypeOK'
<1> USE DEF flags
<1>1. ASSUME NEW p \in Participants, Register(p) PROVE TypeOK'
  <2>1. /\ parts' \in Seq(Participants) /\ Len(parts') = Len(parts) + 1
        /\ Len(parts) \in Nat
    BY <1>1 DEF Register, TypeOK
  <2>2. 1..Len(parts) \subseteq 1..Len(parts')  BY <2>1
  <2>3. openErr' \in Seq(1..Len(parts'))
    BY <1>1, <2>2, SeqOfMore DEF Register, TypeOK
  <2>4. log' \in Seq(LogEntries')
    <3>1. LogEntries \subseteq LogEntries'  BY <2>2 DEF LogEntries
    <3>2. log \in Seq(LogEntries)  BY DEF TypeOK, LogEntries
    <3> QED  BY <1>1, <3>1, <3>2, SeqOfMore DEF Register
  <2>5. result' \in [Goroutines -> Seq(1..Len(parts'))]
    <3>1. \A g \in Goroutines : result[g] \in Seq(1..Len(parts'))
      BY <2>2, SeqOfMore DEF TypeOK
    <3> QED  BY <1>1, <3>1 DEF Register, TypeOK
  <2>6. todo' \in [Goroutines -> SUBSET (1..Len(parts'))]
    <3>1. \A g \in Goroutines : todo[g] \subseteq 1..Len(parts')  BY <2>2 DEF TypeOK
    <3> QED  BY <1>1, <3>1 DEF Register, TypeOK
  <2>7. undo' \subseteq 1..Len(parts') /\ marked' \subseteq 1..Len(parts')
    BY <1>1, <2>2 DEF Register, TypeOK
  <2> QED
    BY <1>1, <2>1, <2>3, <2>4, <2>5, <2>6, <2>7
    DEF Register, TypeOK, LogEntries
<1> SUFFICES ASSUME ~ \E p \in Participants : Register(p) PROVE TypeOK'
  BY <1>1
<1>5. CASE UNCHANGED vars  BY <1>5 DEF vars, TypeOK
<1> SUFFICES ASSUME NEW g \in Goroutines,
                    OpenAgain(g) \/ BeginOpen(g) \/ CloseAgain(g) \/ BeginClose(g)
                      \/ Wave(g)
             PROVE  TypeOK'
  BY <1>5 DEF Next
<1>2. parts' = parts
  BY DEF OpenAgain, BeginOpen, CloseAgain, BeginClose, Wave, SkipOpen, OpenPart,
         FailPart, RollBackPart, FailOpen, EndOpen, ClosePart, EndClose
<1>4. ASSUME NEW h \in {"open", "close"}, NEW p \in 1..Len(parts), NEW ok \in BOOLEAN,
             Ran(h, p, ok)
      PROVE  log' \in Seq(LogEntries')
  BY <1>2, <1>4 DEF Ran, TypeOK, LogEntries
<1>6. result[g] \in Seq(1..Len(parts)) /\ todo[g] \subseteq 1..Len(parts)  BY DEF TypeOK
<1>7. \A p \in 1..Len(parts) : <<p>> \in Seq(1..Len(parts))  OBVIOUS
<1>9. CASE OpenAgain(g) \/ CloseAgain(g)
  BY <1>9 DEF OpenAgain, CloseAgain, Move, TypeOK, PcValues
<1>10. CASE BeginOpen(g)
  BY <1>10 DEF BeginOpen, Move, TypeOK, PcValues
<1>11. CASE SkipOpen(g)
  BY <1>6, <1>11 DEF SkipOpen, Done, TypeOK
<1>12. CASE OpenPart(g)
  <2>1. log' \in Seq(LogEntries')  BY <1>4, <1>6, <1>12 DEF OpenPart
  <2> QED  BY <1>6, <1>12, <2>1 DEF OpenPart, Done, TypeOK, LogEntries
<1>13. CASE FailPart(g)
  <2>1. log' \in Seq(LogEntries')  BY <1>4, <1>6, <1>13 DEF FailPart
  <2> QED  BY <1>6, <1>7, <1>13, <2>1 DEF FailPart, Move, TypeOK, LogEntries, PcValues
<1>14. CASE RollBackPart(g)
  <2>1. PICK p \in undo, ok \in BOOLEAN :
          /\ undo' = undo \ {p}
          /\ IF parts[p].close
               THEN /\ Ran("close", p, ok)
                    /\ result' = IF ok \/ Len(result[g]) > 1 THEN result
                                 ELSE [result EXCEPT ![g] = Append(@, p)]
               ELSE UNCHANGED <<log, result>>
    BY <1>14 DEF RollBackPart
  <2>2. p \in 1..Len(parts)  BY DEF TypeOK
  <2>3. log' \in Seq(LogEntries')
    BY <1>2, <1>4, <2>1, <2>2 DEF TypeOK, LogEntries
  <2>4. Append(result[g], p) \in Seq(1..Len(parts))  BY <1>6, <2>2
  <2>5. result' \in [Goroutines -> Seq(1..Len(parts))]  BY <2>1, <2>4 DEF TypeOK
  <2> QED  BY <1>14, <2>1, <2>3, <2>5 DEF RollBackPart, TypeOK, LogEntries
<1>15. CASE FailOpen(g)
  BY <1>15 DEF FailOpen, Move, TypeOK, PcValues, Free
<1>16. CASE EndOpen(g)
  BY <1>16 DEF EndOpen, Move, TypeOK, PcValues, Free
<1>17. CASE BeginClose(g)
  BY <1>17 DEF BeginClose, ToClose, Move, TypeOK, PcValues
<1>18. CASE ClosePart(g)
  <2>1. PICK p \in todo[g], ok \in BOOLEAN :
          /\ Ran("close", p, ok)
          /\ result' = IF ok \/ result[g] # <<>> THEN result
                       ELSE [result EXCEPT ![g] = <<p>>]
          /\ Done(g, p)
    BY <1>18 DEF ClosePart
  <2>2. p \in 1..Len(parts)  BY <1>6
  <2>3. log' \in Seq(LogEntries')  BY <1>4, <2>1, <2>2
  <2>4. result' \in [Goroutines -> Seq(1..Len(parts))]
    BY <1>7, <2>1, <2>2 DEF TypeOK
  <2> QED  BY <1>6, <1>18, <2>1, <2>3, <2>4 DEF ClosePart, Done, TypeOK, LogEntries
<1>19. CASE EndClose(g)
  BY <1>19 DEF EndClose, Move, TypeOK, PcValues
<1> QED
  BY <1>9, <1>10, <1>11, <1>12, <1>13, <1>14, <1>15, <1>16, <1>17, <1>18, <1>19
  DEF Wave

-----------------------------------------------------------------------------
(* The order of the participants and the log *)

\* The participants are in a strict total order.
LEMMA BeforeIsAnOrder ==
  ASSUME TypeOK
  PROVE  \A p, q \in 1..Len(parts) :
           /\ ~Before(p, p)
           /\ p = q \/ Before(p, q) \/ Before(q, p)
           /\ \A r \in 1..Len(parts) : Before(p, q) /\ Before(q, r) => Before(p, r)
<1>1. \A p \in 1..Len(parts) : parts[p] \in Participants  BY DEF TypeOK
<1>2. \A p \in 1..Len(parts) : parts[p].phase \in Int
  BY <1>1, LifecycleAssumption DEF Participants
<1> QED  BY <1>2 DEF Before

\* What a hook that runs adds to the log.
LEMMA LogGrows ==
  ASSUME TypeOK, NEW h \in {"open", "close"}, NEW p \in 1..Len(parts),
         NEW ok \in BOOLEAN, Ran(h, p, ok)
  PROVE  /\ Len(log) \in Nat /\ Len(log') = Len(log) + 1
         /\ \A i \in 1..Len(log) : log'[i] = log[i]
         /\ log'[Len(log) + 1].hook = h
         /\ log'[Len(log) + 1].part = p
         /\ log'[Len(log) + 1].ok = ok
BY DEF Ran, TypeOK

\* Two places of the longer log: the first is old, the second is old or the new one.
LEMMA LogPairs ==
  ASSUME TypeOK, NEW h \in {"open", "close"}, NEW p \in 1..Len(parts),
         NEW ok \in BOOLEAN, Ran(h, p, ok)
  PROVE  \A i, j \in 1..Len(log') : i < j =>
           /\ i \in 1..Len(log) /\ log'[i] = log[i]
           /\ \/ j \in 1..Len(log) /\ log'[j] = log[j]
              \/ j = Len(log) + 1
BY LogGrows

\* What was opened stays opened, and the close hook that ran is the one run more.
LEMMA RunsGrow ==
  ASSUME TypeOK, NEW h \in {"open", "close"}, NEW p \in 1..Len(parts),
         NEW ok \in BOOLEAN, Ran(h, p, ok)
  PROVE  /\ \A q : WasOpened(q) => WasOpened(q)'
         /\ h = "open" /\ ok => WasOpened(p)'
         /\ \A q : NotClosed(q)' <=> NotClosed(q) /\ (h = "close" => q # p)
BY LogGrows DEF WasOpened, NotClosed, Runs

\* A first failure stays the first; a hook that fails is the first failure of its
\* kind if there was none.
LEMMA FailuresGrow ==
  ASSUME TypeOK, NEW h \in {"open", "close"}, NEW p \in 1..Len(parts),
         NEW ok \in BOOLEAN, Ran(h, p, ok)
  PROVE  /\ \A k, q : FirstFailure(k, q) => FirstFailure(k, q)'
         /\ \A k : NoFailure(k)' <=> NoFailure(k) /\ (k = h => ok)
         /\ ~ok /\ NoFailure(h) => FirstFailure(h, p)'
<1> USE LogGrows
<1>1. ASSUME NEW k, NEW q, FirstFailure(k, q) PROVE FirstFailure(k, q)'
  <2>1. PICK i \in 1..Len(log) :
          /\ log[i].hook = k /\ log[i].part = q /\ ~log[i].ok
          /\ \A j \in 1..(i - 1) : log[j].hook = k => log[j].ok
    BY <1>1 DEF FirstFailure, Runs
  <2>2. i \in 1..Len(log') /\ \A j \in 1..(i - 1) : j \in 1..Len(log)  OBVIOUS
  <2> QED  BY <2>1, <2>2 DEF FirstFailure, Runs
<1>2. \A k : NoFailure(k)' <=> NoFailure(k) /\ (k = h => ok)
  BY DEF NoFailure
<1>3. ~ok /\ NoFailure(h) => FirstFailure(h, p)'
  BY DEF NoFailure, FirstFailure, Runs
<1> QED  BY <1>1, <1>2, <1>3

\* A step that runs no hook changes nothing that is read off the log.
LEMMA LogStays ==
  ASSUME log' = log
  PROVE  /\ \A q : WasOpened(q)' = WasOpened(q)
         /\ \A q : NotClosed(q)' = NotClosed(q)
         /\ \A k, q : FirstFailure(k, q)' = FirstFailure(k, q)
         /\ \A k : NoFailure(k)' = NoFailure(k)
BY DEF WasOpened, NotClosed, FirstFailure, NoFailure, Runs
\* An error that was the first of its wave stays that while the call keeps it.
LEMMA ErrorsStay ==
  ASSUME TypeOK, NEW g \in Goroutines, result'[g] = result[g],
         \/ log' = log
         \/ \E h \in {"open", "close"}, p \in 1..Len(parts), ok \in BOOLEAN : Ran(h, p, ok)
  PROVE  CloseError(result[g]) => CloseError(result[g])'
<1>1. \A i \in 1..Len(log) : i \in 1..Len(log') /\ log'[i] = log[i]
  BY LogGrows DEF TypeOK
<1> SUFFICES ASSUME CloseError(result[g]) PROVE CloseError(result[g])'
  OBVIOUS
<1>2. PICK i \in 1..Len(log) :
        /\ log[i].hook = "close" /\ log[i].part = result[g][1] /\ ~log[i].ok
        /\ \A j \in 1..(i - 1) : log[j].hook = "close" => log[j].ok
  BY DEF CloseError, FirstFailure, Runs
<1>3. \A j \in 1..(i - 1) : j \in 1..Len(log)  BY DEF TypeOK
<1> QED  BY <1>1, <1>2, <1>3 DEF CloseError, FirstFailure, Runs

\* While no hook runs, the error of an Open wave stays true, in the call and in the
\* lifecycle.
LEMMA OpenErrorsStay ==
  ASSUME log' = log
  PROVE  /\ \A g \in Goroutines : OpenError(result[g]) /\ result'[g] = result[g]
                                  => OpenError(result[g])'
         /\ \A g \in Goroutines : OpenError(result[g]) /\ openErr' = result[g]
                                  => OpenError(openErr)'
         /\ OpenError(openErr) /\ openErr' = openErr => OpenError(openErr)'
BY DEF OpenError, FirstFailure, NoFailure, Runs

\* The participant an error names is looked up in the log after the step.
LEMMA NamedFailure ==
  ASSUME NEW g \in Goroutines, NEW n, NEW k, NEW q, result'[g][n] = q, FirstFailure(k, q)'
  PROVE  FirstFailure(k, result[g][n])'
BY DEF FirstFailure, Runs

-----------------------------------------------------------------------------
(* The steps *)

\* Nothing ran yet.
LEMMA InitLifecycleInv == Init => LifecycleInv
<1> SUFFICES ASSUME Init PROVE LifecycleInv  OBVIOUS
<1>1. TypeOK  BY InitType
<1> QED
  BY <1>1 DEF Init, Free, LifecycleInv, OneOpenWave, NothingYet, OneCloseWave, InWave,
              LogIsOrdered, LogIsTrue, OpeningKnows, RollBackKnows, FailedIsUndone,
              ClosingKnows, ResultsAreKept

\* A registration comes before every wave.
LEMMA RegisterInv ==
  ASSUME LifecycleInv, TypeOK', NEW p \in Participants, Register(p)
  PROVE  LifecycleInv'
<1> USE DEF LifecycleInv, flags
<1>1. log = <<>> /\ marked = {} /\ openErr = <<>>
  BY DEF Register, NothingYet, OneOpenWave, Free
<1>2. \A g \in Goroutines : pc[g] \notin {"opening", "rollback", "closing"}
  BY DEF Register, Free, OneOpenWave, InWave, OneCloseWave
<1>3. OneOpenWave' /\ NothingYet' /\ OneCloseWave'
  BY DEF Register, OneOpenWave, NothingYet, OneCloseWave, InWave
<1>4. LogIsOrdered' /\ LogIsTrue'
  BY <1>1 DEF Register, LogIsOrdered, LogIsTrue
<1>5. OpeningKnows' /\ RollBackKnows' /\ FailedIsUndone' /\ ClosingKnows'
  BY <1>1, <1>2 DEF Register, OpeningKnows, RollBackKnows, FailedIsUndone, ClosingKnows
<1>6. ResultsAreKept'
  BY <1>1 DEF Register, ResultsAreKept
<1> QED  BY <1>3, <1>4, <1>5, <1>6

\* A call that finds the verdict returns it.
LEMMA AgainInv ==
  ASSUME LifecycleInv, TypeOK', NEW g \in Goroutines, OpenAgain(g) \/ CloseAgain(g)
  PROVE  LifecycleInv'
<1> USE DEF LifecycleInv, flags
<1>1. /\ UNCHANGED <<mu, opened, closed, openErr, parts, marked, todo, undo, log>>
      /\ pc[g] = "idle" /\ pc' = [pc EXCEPT ![g] = "returned"]
      /\ result' = [result EXCEPT ![g] = openErr]
  BY DEF OpenAgain, CloseAgain, Move
<1>2. \A h \in Goroutines : h # g => pc'[h] = pc[h] /\ result'[h] = result[h]
  BY <1>1 DEF TypeOK
<1>3. pc'[g] = "returned" /\ result'[g] = openErr  BY <1>1 DEF TypeOK
<1>4. OneOpenWave' /\ NothingYet' /\ OneCloseWave'
  BY <1>1, <1>2, <1>3 DEF OneOpenWave, NothingYet, OneCloseWave, InWave
<1>5. LogIsOrdered' /\ LogIsTrue'
  BY <1>1, LogStays DEF LogIsOrdered, LogIsTrue, Before
<1>6. OpeningKnows'
  BY <1>1, <1>2, <1>3 DEF OpeningKnows, Before
<1>7. RollBackKnows' /\ FailedIsUndone'
  BY <1>1, <1>2, <1>3, LogStays, OpenErrorsStay
  DEF RollBackKnows, FailedIsUndone, UndoCovers
<1>8. ClosingKnows'
  BY <1>1, <1>2, <1>3, LogStays, ErrorsStay DEF ClosingKnows, ToClose
<1>9. ResultsAreKept'
  BY <1>1, <1>2, <1>3, LogStays, ErrorsStay DEF ResultsAreKept
<1> QED  BY <1>4, <1>5, <1>6, <1>7, <1>8, <1>9
\* The Open wave begins when nothing has run.
LEMMA BeginOpenInv ==
  ASSUME LifecycleInv, TypeOK', NEW g \in Goroutines, BeginOpen(g)
  PROVE  LifecycleInv'
<1> USE DEF LifecycleInv, flags
<1>1. /\ UNCHANGED <<opened, closed, openErr, parts, marked, undo, result, log>>
      /\ mu = {} /\ openErr = <<>> /\ ~opened /\ mu' = {g}
      /\ pc[g] = "idle" /\ pc'[g] = "opening" /\ todo'[g] = 1..Len(parts)
      /\ \A h \in Goroutines : h # g => pc'[h] = pc[h] /\ todo'[h] = todo[h]
  BY DEF BeginOpen, Move, Free, TypeOK
<1>2. log = <<>> /\ marked = {} /\ undo = {}  BY <1>1 DEF NothingYet
<1>3. \A h \in Goroutines : ~InWave(h)  BY <1>1 DEF OneOpenWave
<1>4. OneOpenWave'  BY <1>1, <1>3 DEF OneOpenWave, InWave
<1>5. NothingYet' /\ OneCloseWave'
  BY <1>1 DEF NothingYet, OneCloseWave
<1>6. LogIsOrdered' /\ LogIsTrue'
  BY <1>1, <1>2 DEF LogIsOrdered, LogIsTrue
<1>7. OpeningKnows'
  BY <1>1, <1>2, <1>3 DEF OpeningKnows, InWave, ResultsAreKept
<1>8. RollBackKnows' /\ FailedIsUndone'
  BY <1>1, <1>3 DEF RollBackKnows, FailedIsUndone, InWave
<1>9. ClosingKnows'
  BY <1>1, <1>2 DEF ClosingKnows, ToClose, NotClosed, Runs
<1>10. ResultsAreKept'
  BY <1>1 DEF ResultsAreKept
<1> QED  BY <1>4, <1>5, <1>6, <1>7, <1>8, <1>9, <1>10

\* Marking a participant that has no open hook.
LEMMA SkipOpenInv ==
  ASSUME LifecycleInv, TypeOK', NEW g \in Goroutines, SkipOpen(g)
  PROVE  LifecycleInv'
<1> USE DEF LifecycleInv, flags
<1>1. PICK p \in todo[g] :
        /\ NextToOpen(g, p) /\ ~parts[p].open
        /\ marked' = marked \cup {p} /\ todo'[g] = todo[g] \ {p}
  BY DEF SkipOpen, Done, TypeOK
<1>2. /\ UNCHANGED <<mu, opened, closed, openErr, parts, pc, undo, result, log>>
      /\ \A h \in Goroutines : h # g => todo'[h] = todo[h]
      /\ pc[g] = "opening"
  BY DEF SkipOpen, Done, TypeOK
<1>3. /\ g \in mu /\ ~opened /\ openErr = <<>>
      /\ \A h \in Goroutines : h # g => ~InWave(h)
  BY <1>2 DEF OneOpenWave, InWave
<1>4. p \in 1..Len(parts)  BY DEF TypeOK
<1>5. OneOpenWave' /\ NothingYet' /\ OneCloseWave'
  BY <1>2, <1>3 DEF OneOpenWave, NothingYet, OneCloseWave, InWave
<1>6. LogIsOrdered' /\ LogIsTrue'
  BY <1>1, <1>2, LogStays DEF LogIsOrdered, LogIsTrue, Before
<1>7. OpeningKnows'
  BY <1>1, <1>2, <1>3, <1>4 DEF OpeningKnows, InWave, Before
<1>8. RollBackKnows' /\ FailedIsUndone'
  BY <1>2, <1>3 DEF RollBackKnows, FailedIsUndone, InWave
<1>9. ClosingKnows'
  BY <1>2, <1>3, LogStays DEF ClosingKnows, ToClose, OneCloseWave
<1>10. ResultsAreKept'
  BY <1>2, <1>3, LogStays DEF ResultsAreKept
<1> QED  BY <1>5, <1>6, <1>7, <1>8, <1>9, <1>10
\* An open hook that succeeds.
LEMMA OpenPartInv ==
  ASSUME LifecycleInv, TypeOK', NEW g \in Goroutines, OpenPart(g)
  PROVE  LifecycleInv'
<1> USE DEF LifecycleInv, flags
<1>1. PICK p \in todo[g] :
        /\ NextToOpen(g, p) /\ parts[p].open /\ Ran("open", p, TRUE)
        /\ marked' = marked \cup {p} /\ undo' = undo \cup {p}
        /\ todo'[g] = todo[g] \ {p}
  BY DEF OpenPart, Done, TypeOK
<1>2. /\ UNCHANGED <<mu, opened, closed, openErr, parts, pc, result>>
      /\ \A h \in Goroutines : h # g => todo'[h] = todo[h]
      /\ pc[g] = "opening"
  BY DEF OpenPart, Done, TypeOK
<1>3. /\ g \in mu /\ ~opened /\ openErr = <<>>
      /\ \A h \in Goroutines : h # g => ~InWave(h)
  BY <1>2 DEF OneOpenWave, InWave
<1>4. p \in 1..Len(parts)  BY DEF TypeOK
<1>5. /\ Len(log) \in Nat /\ Len(log') = Len(log) + 1
      /\ \A i \in 1..Len(log) : log'[i] = log[i]
      /\ log'[Len(log) + 1].hook = "open"
      /\ log'[Len(log) + 1].part = p
      /\ log'[Len(log) + 1].ok = TRUE
  BY <1>1, <1>4, LogGrows
<1>6. \A i \in 1..Len(log) : /\ log[i].hook = "open" /\ log[i].ok
                             /\ \A q \in todo[g] : Before(log[i].part, q)
  BY <1>2 DEF OpeningKnows
<1>7. OneOpenWave' /\ NothingYet' /\ OneCloseWave'
  BY <1>2, <1>3 DEF OneOpenWave, NothingYet, OneCloseWave, InWave
<1>8. LogIsOrdered'
  BY <1>1, <1>2, <1>5, <1>6 DEF LogIsOrdered, Before
<1>9. LogIsTrue'
  <2>1. \A q : WasOpened(q) => WasOpened(q)'  BY <1>1, <1>4, RunsGrow
  <2>2. WasOpened(p)'  BY <1>1, <1>4, RunsGrow
  <2> QED  BY <1>1, <1>2, <1>5, <1>6, <2>1, <2>2 DEF LogIsTrue
<1>10. OpeningKnows'
  <2>1. undo' = {q \in marked' : parts[q].open}  BY <1>1, <1>2 DEF OpeningKnows
  <2>2. \A q \in todo'[g] : Before(p, q)  BY <1>1 DEF NextToOpen
  <2> QED
    BY <1>1, <1>2, <1>3, <1>4, <1>5, <1>6, <2>1, <2>2 DEF OpeningKnows, InWave, Before
<1>11. RollBackKnows' /\ FailedIsUndone'
  BY <1>2, <1>3 DEF RollBackKnows, FailedIsUndone, InWave
<1>12. ClosingKnows'
  BY <1>2, <1>3 DEF ClosingKnows, OneCloseWave
<1>13. ResultsAreKept'
  BY <1>2, <1>3 DEF ResultsAreKept
<1> QED  BY <1>7, <1>8, <1>9, <1>10, <1>11, <1>12, <1>13

\* An open hook that fails: the rollback starts with the whole wave to undo.
LEMMA FailPartInv ==
  ASSUME LifecycleInv, TypeOK', NEW g \in Goroutines, FailPart(g)
  PROVE  LifecycleInv'
<1> USE DEF LifecycleInv, flags
<1>1. PICK p \in todo[g] :
        parts[p].open /\ Ran("open", p, FALSE) /\ result'[g] = <<p>>
  BY DEF FailPart, TypeOK
<1>2. /\ UNCHANGED <<mu, opened, closed, openErr, parts, marked, todo, undo>>
      /\ \A h \in Goroutines : h # g => pc'[h] = pc[h] /\ result'[h] = result[h]
      /\ pc[g] = "opening" /\ pc'[g] = "rollback"
  BY DEF FailPart, Move, TypeOK
<1>3. /\ g \in mu /\ ~opened /\ openErr = <<>>
      /\ \A h \in Goroutines : h # g => ~InWave(h)
  BY <1>2 DEF OneOpenWave, InWave
<1>4. p \in 1..Len(parts)  BY DEF TypeOK
<1>5. /\ Len(log) \in Nat /\ Len(log') = Len(log) + 1
      /\ \A i \in 1..Len(log) : log'[i] = log[i]
      /\ log'[Len(log) + 1].hook = "open"
      /\ log'[Len(log) + 1].part = p
      /\ log'[Len(log) + 1].ok = FALSE
  BY <1>1, <1>4, LogGrows
<1>6. \A i \in 1..Len(log) : /\ log[i].hook = "open" /\ log[i].ok
                             /\ \A q \in todo[g] : Before(log[i].part, q)
  BY <1>2 DEF OpeningKnows
<1>7. OneOpenWave' /\ NothingYet' /\ OneCloseWave'
  BY <1>2, <1>3 DEF OneOpenWave, NothingYet, OneCloseWave, InWave
<1>8. LogIsOrdered'
  <2>1. \A i \in 1..Len(log) : /\ log[i].hook = "open" /\ log[i].ok
                               /\ Before(log[i].part, p)
    BY <1>6
  <2>2. \A i, j \in 1..Len(log') : i < j =>
          /\ i \in 1..Len(log) /\ log'[i] = log[i]
          /\ \/ j \in 1..Len(log) /\ log'[j] = log[j]
             \/ j = Len(log) + 1
    BY <1>1, <1>4, LogPairs
  <2> QED  BY <1>2, <1>5, <2>1, <2>2 DEF LogIsOrdered, Before
<1>9. LogIsTrue'
  <2>1. \A q : WasOpened(q) => WasOpened(q)'  BY <1>1, <1>4, RunsGrow
  <2> QED  BY <1>1, <1>2, <1>5, <1>6, <2>1 DEF LogIsTrue
<1>10. OpeningKnows'
  BY <1>2, <1>3 DEF OpeningKnows, InWave
<1>11. RollBackKnows'
  <2>1. \A q : NotClosed(q)  BY <1>6 DEF NotClosed, Runs
  <2>2. \A q : NotClosed(q)'  BY <1>1, <1>4, <2>1, RunsGrow
  <2>3. OpenError(result[g])'
    BY <1>1, <1>5, <1>6 DEF OpenError, FirstFailure, NoFailure, Runs
  <2>4. undo = {q \in marked : parts[q].open}  BY <1>2 DEF OpeningKnows
  <2> QED  BY <1>2, <1>3, <2>2, <2>3, <2>4 DEF RollBackKnows, UndoCovers, InWave
<1>12. FailedIsUndone'
  BY <1>2, <1>3 DEF FailedIsUndone
<1>13. ClosingKnows'
  BY <1>2, <1>3 DEF ClosingKnows, OneCloseWave
<1>14. ResultsAreKept'
  BY <1>2, <1>3 DEF ResultsAreKept
<1> QED  BY <1>7, <1>8, <1>9, <1>10, <1>11, <1>12, <1>13, <1>14

\* One participant is rolled back.
LEMMA RollBackPartInv ==
  ASSUME LifecycleInv, TypeOK', NEW g \in Goroutines, RollBackPart(g)
  PROVE  LifecycleInv'
<1> USE DEF LifecycleInv, flags
<1>1. PICK p \in undo, ok \in BOOLEAN :
        /\ undo' = undo \ {p}
        /\ IF parts[p].close
             THEN /\ Ran("close", p, ok)
                  /\ result' = IF ok \/ Len(result[g]) > 1 THEN result
                               ELSE [result EXCEPT ![g] = Append(@, p)]
             ELSE UNCHANGED <<log, result>>
  BY DEF RollBackPart
<1>2. /\ UNCHANGED <<mu, opened, closed, openErr, parts, marked, pc, todo>>
      /\ \A h \in Goroutines : h # g => result'[h] = result[h]
      /\ pc[g] = "rollback"
  BY <1>1 DEF RollBackPart, TypeOK
<1>3. /\ g \in mu /\ ~opened /\ openErr = <<>>
      /\ \A h \in Goroutines : h # g => ~InWave(h)
  BY <1>2 DEF OneOpenWave, InWave
<1>4. p \in 1..Len(parts) /\ p \in marked /\ parts[p].open /\ NotClosed(p)
  BY <1>2 DEF TypeOK, RollBackKnows
<1>5. OneOpenWave' /\ NothingYet' /\ OneCloseWave'
  BY <1>2, <1>3 DEF OneOpenWave, NothingYet, OneCloseWave, InWave
<1>6. OpeningKnows' /\ FailedIsUndone' /\ ClosingKnows' /\ ResultsAreKept'
  BY <1>2, <1>3
  DEF OpeningKnows, FailedIsUndone, ClosingKnows, OneCloseWave, ResultsAreKept, InWave
<1>7. CASE ~parts[p].close
  <2>1. log' = log /\ result' = result  BY <1>1, <1>7
  <2>2. LogIsOrdered' /\ LogIsTrue'
    BY <1>2, <2>1, LogStays DEF LogIsOrdered, LogIsTrue, Before
  <2>3. RollBackKnows'
    BY <1>1, <1>2, <1>3, <1>7, <2>1, LogStays, OpenErrorsStay
    DEF RollBackKnows, UndoCovers, InWave
  <2> QED  BY <1>5, <1>6, <2>2, <2>3
<1>8. CASE parts[p].close
  <2>1. Ran("close", p, ok)  BY <1>1, <1>8
  <2>2. /\ Len(log) \in Nat /\ Len(log') = Len(log) + 1
        /\ \A i \in 1..Len(log) : log'[i] = log[i]
        /\ log'[Len(log) + 1].hook = "close"
        /\ log'[Len(log) + 1].part = p
        /\ log'[Len(log) + 1].ok = ok
    BY <1>4, <2>1, LogGrows
  <2>3. LogIsOrdered'
    <3>1. \A i \in 1..Len(log) : log[i].hook = "close" => log[i].part # p
      BY <1>4 DEF NotClosed, Runs
    <3> QED  BY <1>2, <1>4, <2>1, <2>2, <3>1, LogPairs DEF LogIsOrdered, Before
  <2>4. LogIsTrue'
    <3>1. \A q : WasOpened(q) => WasOpened(q)'  BY <1>4, <2>1, RunsGrow
    <3> QED  BY <1>2, <1>4, <2>2, <3>1 DEF LogIsTrue
  <2>5. OpenError(result[g])'
    <3>1. /\ OpenError(result[g]) /\ result[g] \in Seq(1..Len(parts))
          /\ \A k, q : FirstFailure(k, q) => FirstFailure(k, q)'
          /\ NoFailure("close")' <=> NoFailure("close") /\ ok
          /\ ~ok /\ NoFailure("close") => FirstFailure("close", p)'
      BY <1>2, <1>4, <2>1, FailuresGrow DEF RollBackKnows, TypeOK
    <3>2. Len(result[g]) = IF NoFailure("close") THEN 1 ELSE 2
      BY <3>1 DEF OpenError
    <3>3. result'[g] = IF ok \/ Len(result[g]) > 1 THEN result[g]
                      ELSE Append(result[g], p)
      BY <1>1, <1>8 DEF TypeOK
    <3>4. Len(result[g]) \in {1, 2} /\ result'[g][1] = result[g][1]
      BY <3>1, <3>2, <3>3
    <3>5. FirstFailure("open", result[g][1])'
      <4>1. PICK q : q = result[g][1]  OBVIOUS
      <4> QED  BY <3>1, <3>4, <4>1, NamedFailure DEF OpenError
    <3>6. CASE ok \/ Len(result[g]) = 2
      <4>1. result'[g] = result[g] /\ (NoFailure("close")' <=> NoFailure("close"))
        BY <3>1, <3>6, <3>2, <3>3
      <4>2. Len(result[g]) = 2 => FirstFailure("close", result[g][2])'
        <5>1. PICK q : q = result[g][2]  OBVIOUS
        <5> QED  BY <3>1, <4>1, <5>1, NamedFailure DEF OpenError
      <4> QED  BY <3>1, <3>5, <4>1, <4>2 DEF OpenError
    <3>7. CASE ~ok /\ Len(result[g]) = 1
      <4>1. NoFailure("close") /\ Len(result'[g]) = 2 /\ result'[g][2] = p
        BY <1>4, <3>1, <3>7, <3>2, <3>3
      <4>2. FirstFailure("close", result[g][2])'  BY <3>1, <3>7, <4>1, NamedFailure
      <4> QED  BY <3>1, <3>5, <3>7, <4>1, <4>2 DEF OpenError
    <3> QED  BY <3>4, <3>6, <3>7
  <2>6. RollBackKnows'
    <3>1. \A q : NotClosed(q)' <=> NotClosed(q) /\ q # p  BY <1>4, <2>1, RunsGrow
    <3> QED  BY <1>1, <1>2, <1>3, <2>5, <3>1 DEF RollBackKnows, UndoCovers, InWave
  <2> QED  BY <1>5, <1>6, <2>3, <2>4, <2>6
<1> QED  BY <1>7, <1>8

\* The wave that failed is undone: its error becomes the verdict.
LEMMA FailOpenInv ==
  ASSUME LifecycleInv, TypeOK', NEW g \in Goroutines, FailOpen(g)
  PROVE  LifecycleInv'
<1> USE DEF LifecycleInv, flags
<1>1. /\ UNCHANGED <<opened, parts, marked, todo, undo, result, log>>
      /\ undo = {} /\ openErr' = result[g] /\ closed' = TRUE /\ mu' = {}
      /\ pc[g] = "rollback" /\ pc'[g] = "returned"
      /\ \A h \in Goroutines : h # g => pc'[h] = pc[h]
  BY DEF FailOpen, Move, Free, TypeOK
<1>2. /\ g \in mu /\ ~opened /\ openErr = <<>>
      /\ \A h \in Goroutines : h # g => ~InWave(h)
  BY <1>1 DEF OneOpenWave, InWave
<1>3. UndoCovers /\ OpenError(result[g])  BY <1>1 DEF RollBackKnows
<1>4. result[g] # <<>>  BY <1>3 DEF OpenError
<1>5. OneOpenWave' /\ NothingYet' /\ OneCloseWave'
  BY <1>1, <1>2, <1>4 DEF OneOpenWave, NothingYet, OneCloseWave, InWave
<1>6. LogIsOrdered' /\ LogIsTrue'
  BY <1>1, LogStays DEF LogIsOrdered, LogIsTrue, Before
<1>7. OpeningKnows' /\ RollBackKnows'
  BY <1>1, <1>2 DEF OpeningKnows, RollBackKnows, InWave
<1>8. FailedIsUndone'
  BY <1>1, <1>3, LogStays, OpenErrorsStay DEF FailedIsUndone, UndoCovers
<1>9. ClosingKnows'
  BY <1>1, <1>2 DEF ClosingKnows, OneCloseWave
<1>10. ResultsAreKept'
  BY <1>1, <1>2, <1>4 DEF ResultsAreKept
<1> QED  BY <1>5, <1>6, <1>7, <1>8, <1>9, <1>10

\* Every open hook succeeded.
LEMMA EndOpenInv ==
  ASSUME LifecycleInv, TypeOK', NEW g \in Goroutines, EndOpen(g)
  PROVE  LifecycleInv'
<1> USE DEF LifecycleInv, flags
<1>1. /\ UNCHANGED <<closed, openErr, parts, marked, todo, undo, result, log>>
      /\ opened' = TRUE /\ mu' = {}
      /\ pc[g] = "opening" /\ pc'[g] = "returned"
      /\ \A h \in Goroutines : h # g => pc'[h] = pc[h]
  BY DEF EndOpen, Move, Free, TypeOK
<1>2. /\ g \in mu /\ ~opened /\ openErr = <<>>
      /\ \A h \in Goroutines : h # g => ~InWave(h)
  BY <1>1 DEF OneOpenWave, InWave
<1>3. result[g] = <<>> /\ \A i \in 1..Len(log) : log[i].hook = "open"
  BY <1>1 DEF OpeningKnows
<1>4. OneOpenWave' /\ NothingYet' /\ OneCloseWave'
  BY <1>1, <1>2, <1>3 DEF OneOpenWave, NothingYet, OneCloseWave, InWave
<1>5. LogIsOrdered' /\ LogIsTrue'
  BY <1>1, LogStays DEF LogIsOrdered, LogIsTrue, Before
<1>6. OpeningKnows' /\ RollBackKnows' /\ FailedIsUndone'
  BY <1>1, <1>2 DEF OpeningKnows, RollBackKnows, FailedIsUndone, InWave
<1>7. ClosingKnows'
  BY <1>1, <1>2, <1>3, LogStays DEF ClosingKnows, OneCloseWave, ToClose, NoFailure
<1>8. ResultsAreKept'
  BY <1>1, <1>2, <1>3 DEF ResultsAreKept
<1> QED  BY <1>4, <1>5, <1>6, <1>7, <1>8

\* The Close wave begins: no close hook has run.
LEMMA BeginCloseInv ==
  ASSUME LifecycleInv, TypeOK', NEW g \in Goroutines, BeginClose(g)
  PROVE  LifecycleInv'
<1> USE DEF LifecycleInv, flags
<1>1. /\ UNCHANGED <<mu, opened, openErr, parts, marked, undo, result, log>>
      /\ mu = {} /\ openErr = <<>> /\ ~closed /\ closed' = TRUE
      /\ pc[g] = "idle" /\ pc'[g] = "closing" /\ todo'[g] = ToClose
      /\ \A h \in Goroutines : h # g => pc'[h] = pc[h] /\ todo'[h] = todo[h]
  BY DEF BeginClose, Move, Free, TypeOK
<1>2. \A h \in Goroutines : ~InWave(h) /\ pc[h] # "closing"
  BY <1>1 DEF OneOpenWave, OneCloseWave
<1>3. \A i \in 1..Len(log) : log[i].hook = "open"
  BY <1>1 DEF OneCloseWave, NothingYet
<1>4. ~opened => ToClose = {}  BY <1>1 DEF NothingYet, ToClose
<1>5. OneOpenWave' /\ NothingYet' /\ OneCloseWave'
  BY <1>1, <1>2, <1>4 DEF OneOpenWave, NothingYet, OneCloseWave, InWave
<1>6. LogIsOrdered' /\ LogIsTrue'
  BY <1>1, LogStays DEF LogIsOrdered, LogIsTrue, Before
<1>7. OpeningKnows' /\ RollBackKnows' /\ FailedIsUndone'
  BY <1>1, <1>2 DEF OpeningKnows, RollBackKnows, FailedIsUndone, InWave
<1>8. ClosingKnows'
  <2>1. result[g] = <<>>  BY <1>1 DEF ResultsAreKept
  <2>2. \A p : NotClosed(p)'  BY <1>1, <1>3 DEF NotClosed, Runs
  <2>3. NoFailure("close")'  BY <1>1, <1>3 DEF NoFailure
  <2> QED  BY <1>1, <1>2, <2>1, <2>2, <2>3 DEF ClosingKnows, ToClose
<1>9. ResultsAreKept'
  BY <1>1, LogStays, ErrorsStay DEF ResultsAreKept
<1> QED  BY <1>5, <1>6, <1>7, <1>8, <1>9

\* The Close wave ends.
LEMMA EndCloseInv ==
  ASSUME LifecycleInv, TypeOK', NEW g \in Goroutines, EndClose(g)
  PROVE  LifecycleInv'
<1> USE DEF LifecycleInv, flags
<1>1. /\ UNCHANGED <<mu, opened, closed, openErr, parts, marked, todo, undo, result, log>>
      /\ pc[g] = "closing" /\ pc'[g] = "returned"
      /\ \A h \in Goroutines : h # g => pc'[h] = pc[h]
  BY DEF EndClose, Move, TypeOK
<1>2. OneOpenWave' /\ NothingYet' /\ OneCloseWave'
  BY <1>1 DEF OneOpenWave, NothingYet, OneCloseWave, InWave
<1>3. LogIsOrdered' /\ LogIsTrue'
  BY <1>1, LogStays DEF LogIsOrdered, LogIsTrue, Before
<1>4. OpeningKnows'
  BY <1>1 DEF OpeningKnows, Before
<1>5. RollBackKnows' /\ FailedIsUndone'
  BY <1>1, LogStays, OpenErrorsStay DEF RollBackKnows, FailedIsUndone, UndoCovers
<1>6. ClosingKnows'
  BY <1>1 DEF ClosingKnows, OneCloseWave
<1>7. ResultsAreKept'
  <2>1. \A h \in Goroutines : CloseError(result[h]) => CloseError(result[h])'
    BY <1>1, ErrorsStay
  <2>2. result[g] # <<>> => opened /\ openErr = <<>> /\ CloseError(result[g])
    BY <1>1 DEF ClosingKnows, OneOpenWave
  <2> QED  BY <1>1, <2>1, <2>2 DEF ResultsAreKept
<1> QED  BY <1>2, <1>3, <1>4, <1>5, <1>6, <1>7

\* One close hook of the Close wave.
LEMMA ClosePartInv ==
  ASSUME LifecycleInv, TypeOK', NEW g \in Goroutines, ClosePart(g)
  PROVE  LifecycleInv'
<1> USE DEF LifecycleInv, flags
<1>1. PICK p \in todo[g], ok \in BOOLEAN :
        /\ Ran("close", p, ok)
        /\ result'[g] = IF ok \/ result[g] # <<>> THEN result[g] ELSE <<p>>
        /\ todo'[g] = todo[g] \ {p}
  BY DEF ClosePart, Done, TypeOK
<1>2. /\ UNCHANGED <<mu, opened, closed, openErr, parts, marked, pc, undo>>
      /\ pc[g] = "closing"
      /\ \A h \in Goroutines : h # g => result'[h] = result[h] /\ todo'[h] = todo[h]
  BY DEF ClosePart, Done, TypeOK
<1>3. /\ opened /\ closed /\ openErr = <<>>
      /\ \A h \in Goroutines : ~InWave(h)
      /\ \A h \in Goroutines : h # g => pc[h] # "closing"
  BY <1>1, <1>2 DEF OneOpenWave, OneCloseWave
<1>4. p \in 1..Len(parts) /\ p \in marked /\ NotClosed(p)
  BY <1>2 DEF TypeOK, ClosingKnows, ToClose
<1>5. /\ Len(log) \in Nat /\ Len(log') = Len(log) + 1
      /\ \A i \in 1..Len(log) : log'[i] = log[i]
      /\ log'[Len(log) + 1].hook = "close"
      /\ log'[Len(log) + 1].part = p
      /\ log'[Len(log) + 1].ok = ok
  BY <1>1, <1>4, LogGrows
<1>6. OneOpenWave' /\ NothingYet' /\ OneCloseWave'
  BY <1>1, <1>2, <1>3 DEF OneOpenWave, NothingYet, OneCloseWave, InWave
<1>7. LogIsOrdered'
  <2>1. \A i \in 1..Len(log) : log[i].hook = "close" => log[i].part # p
    BY <1>4 DEF NotClosed, Runs
  <2>2. \A i, j \in 1..Len(log') : i < j =>
          /\ i \in 1..Len(log) /\ log'[i] = log[i]
          /\ \/ j \in 1..Len(log) /\ log'[j] = log[j]
             \/ j = Len(log) + 1
    BY <1>1, <1>4, LogPairs
  <2> QED  BY <1>2, <1>5, <2>1, <2>2 DEF LogIsOrdered, Before
<1>8. LogIsTrue'
  <2>1. \A q : WasOpened(q) => WasOpened(q)'  BY <1>1, <1>4, RunsGrow
  <2> QED  BY <1>2, <1>4, <1>5, <2>1 DEF LogIsTrue
<1>9. OpeningKnows' /\ RollBackKnows' /\ FailedIsUndone'
  BY <1>2, <1>3 DEF OpeningKnows, RollBackKnows, FailedIsUndone, InWave
<1>10. ClosingKnows'
  <2>1. \A q \in todo'[g] : NotClosed(q)'
    BY <1>1, <1>2, <1>4, RunsGrow DEF ClosingKnows
  <2>2. todo'[g] \subseteq ToClose'  BY <1>1, <1>2 DEF ClosingKnows, ToClose
  <2>3. CASE result[g] # <<>>
    <3>1. result'[g] = result[g]  BY <1>1, <2>3
    <3>2. CloseError(result[g])  BY <1>2, <1>3, <2>3 DEF ClosingKnows
    <3>3. CloseError(result[g])'  BY <1>1, <1>4, <3>1, <3>2, ErrorsStay
    <3> QED  BY <1>2, <1>3, <2>1, <2>2, <2>3, <3>1, <3>3 DEF ClosingKnows
  <2>4. CASE result[g] = <<>>
    <3>1. NoFailure("close")  BY <1>2, <1>3, <2>4 DEF ClosingKnows
    <3>2. CASE ok
      <4>1. result'[g] = <<>>  BY <1>1, <2>4, <3>2
      <4>2. NoFailure("close")'  BY <1>1, <1>4, <3>1, <3>2, FailuresGrow
      <4> QED  BY <1>2, <1>3, <2>1, <2>2, <4>1, <4>2 DEF ClosingKnows
    <3>3. CASE ~ok
      <4>1. result'[g] = <<p>>  BY <1>1, <2>4, <3>3
      <4>2. FirstFailure("close", p)'  BY <1>1, <1>4, <3>1, <3>3, FailuresGrow
      <4>3. CloseError(result[g])'  BY <4>1, <4>2, NamedFailure DEF CloseError
      <4> QED  BY <1>2, <1>3, <2>1, <2>2, <4>1, <4>3 DEF ClosingKnows
    <3> QED  BY <3>2, <3>3
  <2> QED  BY <2>3, <2>4
<1>11. ResultsAreKept'
  <2>1. \A h \in Goroutines : h # g => (CloseError(result[h]) => CloseError(result[h])')
    BY <1>1, <1>2, <1>4, ErrorsStay
  <2> QED  BY <1>2, <1>3, <2>1 DEF ResultsAreKept
<1> QED  BY <1>6, <1>7, <1>8, <1>9, <1>10, <1>11

-----------------------------------------------------------------------------
(* The theorems *)

\* The invariant holds of a step that changes nothing.
LEMMA StutterInv == ASSUME LifecycleInv, UNCHANGED vars PROVE LifecycleInv'
<1> USE DEF vars, flags
<1>1. TypeOK' /\ OneOpenWave' /\ NothingYet' /\ OneCloseWave'
  BY DEF LifecycleInv, TypeOK, OneOpenWave, NothingYet, OneCloseWave, InWave
<1>2. LogIsOrdered' /\ LogIsTrue' /\ OpeningKnows'
  BY DEF LifecycleInv, LogIsOrdered, LogIsTrue, OpeningKnows, Before, WasOpened, Runs
<1>3. RollBackKnows' /\ FailedIsUndone'
  BY OpenErrorsStay, LogStays DEF LifecycleInv, RollBackKnows, FailedIsUndone, UndoCovers
<1>4. ClosingKnows' /\ ResultsAreKept'
  <2>1. \A h \in Goroutines : CloseError(result[h]) => CloseError(result[h])'
    BY ErrorsStay DEF LifecycleInv
  <2> QED  BY <2>1, LogStays DEF LifecycleInv, ClosingKnows, ToClose, ResultsAreKept
<1> QED  BY <1>1, <1>2, <1>3, <1>4 DEF LifecycleInv

\* Every step of the specification preserves the invariant.
LEMMA NextLifecycleInv == LifecycleInv /\ [Next]_vars => LifecycleInv'
<1> SUFFICES ASSUME LifecycleInv, [Next]_vars PROVE LifecycleInv'  OBVIOUS
<1>1. TypeOK'  BY NextType DEF LifecycleInv
<1>2. CASE UNCHANGED vars  BY <1>2, StutterInv
<1>3. ASSUME NEW p \in Participants, Register(p) PROVE LifecycleInv'
  BY <1>1, <1>3, RegisterInv
<1>4. ASSUME NEW g \in Goroutines,
             OpenAgain(g) \/ BeginOpen(g) \/ CloseAgain(g) \/ BeginClose(g)
      PROVE  LifecycleInv'
  BY <1>1, <1>4, AgainInv, BeginOpenInv, BeginCloseInv
<1>5. ASSUME NEW g \in Goroutines, Wave(g) PROVE LifecycleInv'
  BY <1>1, <1>5, SkipOpenInv, OpenPartInv, FailPartInv, RollBackPartInv, FailOpenInv,
     EndOpenInv, ClosePartInv, EndCloseInv
  DEF Wave
<1> QED  BY <1>2, <1>3, <1>4, <1>5 DEF Next

\* No two waves interleave, and the log, the opened fields and the loop variables of
\* the wave in progress agree, whatever calls of Open and Close race.
THEOREM LifecycleInvariant == Spec => []LifecycleInv
<1> QED  BY InitLifecycleInv, NextLifecycleInv, PTL DEF Spec

\* Open hooks and close hooks run once, opens in phase and registration order, and
\* only what was opened is closed (Open's loop and rollback, Close's choice).
THEOREM HooksRunInOrder == Spec => []HooksAreOrderly
<1>1. LifecycleInv => HooksAreOrderly
  <2> SUFFICES ASSUME LifecycleInv PROVE HooksAreOrderly  OBVIOUS
  <2>1. HooksRunOnce
    <3> SUFFICES ASSUME NEW p \in 1..Len(parts), NEW h \in {"open", "close"},
                        NEW i \in Runs(h, p), NEW j \in Runs(h, p), i < j
                 PROVE  FALSE
      BY DEF HooksRunOnce, Runs
    <3>1. ~Before(p, p)  BY BeforeIsAnOrder DEF LifecycleInv
    <3> QED  BY <3>1 DEF LifecycleInv, LogIsOrdered, Runs
  <2>2. OnlyOpenedAreClosed
    <3> SUFFICES ASSUME NEW p \in 1..Len(parts), parts[p].open, NEW i \in Runs("close", p)
                 PROVE  \E j \in Runs("open", p) : j < i /\ log[j].ok
      BY DEF OnlyOpenedAreClosed
    <3>1. WasOpened(p)  BY DEF LifecycleInv, LogIsTrue, Runs
    <3>2. PICK j \in Runs("open", p) : log[j].ok  BY <3>1 DEF WasOpened
    <3>3. j < i
      BY DEF LifecycleInv, LogIsOrdered, Runs
    <3> QED  BY <3>2, <3>3
  <2>3. OpensByPhase
    BY DEF LifecycleInv, LogIsOrdered, OpensByPhase, Before
  <2> QED  BY <2>1, <2>2, <2>3 DEF LifecycleInv, HooksAreOrderly
<1> QED  BY <1>1, LifecycleInvariant, PTL

\* An Open that failed left nothing open, and its error, with the first rollback that
\* failed, is what every caller gets; a Close returns the first hook that failed.
THEOREM FailedWavesAreUndone == Spec => []FailedWaveIsUndone
<1>1. LifecycleInv => FailedWaveIsUndone
  <2> SUFFICES ASSUME LifecycleInv PROVE FailedWaveIsUndone  OBVIOUS
  <2>1. FailedOpenLeavesNothing
    <3> SUFFICES ASSUME openErr # <<>>, NEW p \in Live PROVE FALSE
      BY DEF FailedOpenLeavesNothing
    <3>1. parts[p].close /\ NotClosed(p) /\ WasOpened(p)
      BY DEF Live, NotClosed, WasOpened
    <3>2. p \in marked /\ parts[p].open
      BY <3>1 DEF LifecycleInv, LogIsTrue, WasOpened, Runs
    <3> QED  BY <3>1, <3>2 DEF LifecycleInv, FailedIsUndone, UndoCovers
  <2>2. FirstErrorWins
    BY DEF LifecycleInv, FirstErrorWins, FailedIsUndone, ResultsAreKept
  <2> QED  BY <2>1, <2>2 DEF FailedWaveIsUndone
<1> QED  BY <1>1, LifecycleInvariant, PTL

=============================================================================
