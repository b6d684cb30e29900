-------------------------- MODULE AtomicFileProofs --------------------------
(***************************************************************************)
(* Proofs about the files and their lock, for any number of workers and    *)
(* processes.  The lock: the mutex of a process is always handed on, and   *)
(* mutex and flock together implement the readers-writer lock of RWLock.   *)
(* The callers, which write with or without it, fail and die, move it as   *)
(* FileLock does.  The files: FileInv says what path, .bak and temporary   *)
(* hold at each place of a call, and what a reader sees and a call reports *)
(* follow from it.                                                         *)
(***************************************************************************)
EXTENDS AtomicFile, TLAPS

-----------------------------------------------------------------------------
(* The two-level lock by itself *)

\* The descriptors that hold the flock are those of the workers between the grant and
\* the release, and an exclusive one is alone.  RWLock's two sets are read off holders,
\* so the refinement needs the second half for its guards, the first for LetGo.
LockInv ==
  /\ Lock!TypeOK
  /\ Lock!MutexIsHandedOn
  /\ holders = {w \in Workers : lpc[w] \in {"acquired", "held"}}

-----------------------------------------------------------------------------
(* The inductive invariant *)

\* Nothing is locked at first.
LEMMA InitLock == Lock!Init => LockInv
BY DEF Lock!Init, LockInv, Lock!TypeOK, Lock!MutexIsHandedOn, Lock!LockPc,
       Lock!Requests, Lock!Kinds

\* One worker moves within lockAt, or releases; one process dies.
LEMMA NextLock ==
  ASSUME Home \in [Workers -> Processes], LockInv, [Lock!Next]_(Lock!vars)
  PROVE  LockInv'
<1> USE DEF LockInv, Lock!TypeOK, Lock!MutexIsHandedOn, Lock!LockPc, Lock!Step
<1>1. ASSUME NEW w \in Workers, NEW q \in Lock!Requests, Lock!LockAt(w, q)
      PROVE  LockInv'
  BY <1>1 DEF Lock!LockAt
<1>2. ASSUME NEW w \in Workers, Lock!OpenFails(w)
      PROVE  LockInv'
  BY <1>2 DEF Lock!OpenFails
<1>3. ASSUME NEW w \in Workers, Lock!TakeMutex(w)
      PROVE  LockInv'
  <2>1. \A x \in Workers : lpc'[x] = IF x = w THEN "acquiring" ELSE lpc[x]
    BY <1>3 DEF Lock!TakeMutex
  <2>2. \A p \in Processes : mutex'[p] = IF p = Home[w] THEN {w} ELSE mutex[p]
    BY <1>3 DEF Lock!TakeMutex
  <2>3. Lock!TypeOK'
    BY <1>3 DEF Lock!TakeMutex
  <2>4. Lock!MutexIsHandedOn'
    BY <1>3, <2>1, <2>2 DEF Lock!TakeMutex
  <2>5. QED
    BY <1>3, <2>1, <2>3, <2>4 DEF Lock!TakeMutex
<1>4. ASSUME NEW w \in Workers, Lock!Acquire(w)
      PROVE  LockInv'
  BY <1>4 DEF Lock!Acquire
<1>5. ASSUME NEW w \in Workers,
             Lock!FindBusy(w) \/ Lock!AcquireFails(w) \/ Lock!DropMutex(w)
      PROVE  LockInv'
  <2>1. lpc[w] \in {"acquiring", "acquired"} /\ mutex[Home[w]] = {w}
    BY <1>5 DEF Lock!FindBusy, Lock!AcquireFails, Lock!DropMutex
  <2>2. QED
    BY <1>5, <2>1 DEF Lock!FindBusy, Lock!AcquireFails, Lock!DropMutex
<1>6. ASSUME NEW w \in Workers, Lock!Release(w)
      PROVE  LockInv'
  BY <1>6 DEF Lock!Release
<1>7. ASSUME NEW P \in SUBSET Processes, Lock!Die(P)
      PROVE  LockInv'
  BY <1>7 DEF Lock!Die
<1>8. CASE UNCHANGED Lock!vars
  BY <1>8 DEF Lock!vars
<1>9. QED
  BY <1>1, <1>2, <1>3, <1>4, <1>5, <1>6, <1>7, <1>8 DEF Lock!Next, Lock!Progress

\* The invariant of the lock.
THEOREM LockInvariant ==
  ASSUME Home \in [Workers -> Processes]
  PROVE  Lock!Spec => []LockInv
BY InitLock, NextLock, PTL DEF Lock!Spec

\* Whoever leaves lockAt, served, refused or dead, leaves the mutex of its process free,
\* and at most one worker of a process is inside flock.
THEOREM MutexHandedOn ==
  ASSUME Home \in [Workers -> Processes]
  PROVE  Lock!Spec => []Lock!MutexIsHandedOn
BY LockInvariant, PTL DEF LockInv

-----------------------------------------------------------------------------
(* The two levels implement RWLock *)

\* Exclusion: next to an exclusive holder there is nobody.
Exclusive == \A v, w \in holders : request[v].kind = "exclusive" => v = w

\* A request is fixed when its call begins, and flock grants what is compatible.
LEMMA NextExclusive ==
  ASSUME Home \in [Workers -> Processes], LockInv, Exclusive, [Lock!Next]_(Lock!vars)
  PROVE  Exclusive'
<1> USE DEF LockInv, Lock!TypeOK, Exclusive, Lock!Step, Lock!Requests, Lock!Kinds
<1>1. ASSUME NEW w \in Workers, NEW q \in Lock!Requests, Lock!LockAt(w, q)
      PROVE  Exclusive'
  BY <1>1 DEF Lock!LockAt
<1>2. ASSUME NEW w \in Workers, Lock!Acquire(w)
      PROVE  Exclusive'
  BY <1>2 DEF Lock!Acquire, Lock!Compatible
<1>3. ASSUME UNCHANGED request, holders' \subseteq holders
      PROVE  Exclusive'
  BY <1>3
<1>4. QED
  BY <1>1, <1>2, <1>3
     DEF Lock!Next, Lock!Progress, Lock!vars, Lock!OpenFails, Lock!TakeMutex,
         Lock!FindBusy, Lock!AcquireFails, Lock!DropMutex,
         Lock!Release, Lock!Die

\* A step of the lock is a step of the readers-writer lock: a grant, a release, or a
\* death, under which every holder of the process lets go at once.
LEMMA StepMaps ==
  ASSUME Home \in [Workers -> Processes], LockInv, Exclusive, [Lock!Next]_(Lock!vars)
  PROVE  [Lock!RW!Next]_(Lock!RW!vars)
<1> DEFINE R == Lock!Holding("shared")
           W == Lock!Holding("exclusive")
<1> USE DEF LockInv, Lock!TypeOK, Lock!Holding, Lock!Step, Lock!Requests, Lock!Kinds,
            Lock!RW!vars
<1>1. ASSUME NEW w \in Workers, NEW q \in Lock!Requests, Lock!LockAt(w, q)
      PROVE  UNCHANGED Lock!RW!vars
  BY <1>1 DEF Lock!LockAt
<1>2. ASSUME NEW w \in Workers, Lock!Acquire(w), request[w].kind = "shared"
      PROVE  Lock!RW!Share(w)
  BY <1>2 DEF Lock!Acquire, Lock!Compatible, Lock!RW!Share
<1>3. ASSUME NEW w \in Workers, Lock!Acquire(w), request[w].kind = "exclusive"
      PROVE  Lock!RW!Own(w)
  BY <1>3 DEF Lock!Acquire, Lock!Compatible, Lock!RW!Own
<1>4. ASSUME NEW w \in Workers, Lock!Release(w)
      PROVE  Lock!RW!LetGo({w})
  BY <1>4 DEF Lock!Release, Lock!RW!LetGo
<1>5. ASSUME NEW P \in SUBSET Processes, Lock!Die(P)
      PROVE  Lock!RW!LetGo({w \in Workers : Home[w] \in P})
  BY <1>5 DEF Lock!Die, Lock!RW!LetGo
<1>6. ASSUME UNCHANGED <<holders, request>>
      PROVE  UNCHANGED Lock!RW!vars
  BY <1>6
<1>7. ASSUME NEW w \in Workers, Lock!Acquire(w)
      PROVE  Lock!RW!Next
  <2>1. request[w].kind \in {"shared", "exclusive"}
    OBVIOUS
  <2>2. QED
    BY <1>2, <1>3, <1>7, <2>1 DEF Lock!RW!Next
<1>8. ASSUME NEW w \in Workers, Lock!Release(w)
      PROVE  Lock!RW!Next
  BY <1>4, <1>8 DEF Lock!RW!Next
<1>9. ASSUME NEW P \in SUBSET Processes, Lock!Die(P)
      PROVE  Lock!RW!Next
  BY <1>5, <1>9 DEF Lock!RW!Next
<1>10. QED
  BY <1>1, <1>6, <1>7, <1>8, <1>9
     DEF Lock!Next, Lock!Progress, Lock!vars, Lock!OpenFails, Lock!TakeMutex,
         Lock!FindBusy, Lock!AcquireFails, Lock!DropMutex

\* The mutex of the process and the flock of the descriptors are together a
\* readers-writer lock, for any number of workers and processes.
THEOREM LockImplementsRWLock ==
  ASSUME Home \in [Workers -> Processes]
  PROVE  Lock!Spec => Lock!ImplementsRWLock
<1>1. Lock!Init => Lock!RW!Init /\ Exclusive
  BY DEF Lock!Init, Lock!RW!Init, Lock!Holding, Exclusive
<1>2. LockInv /\ Exclusive /\ [Lock!Next]_(Lock!vars) => Exclusive'
  BY NextExclusive
<1>3. LockInv /\ Exclusive /\ [Lock!Next]_(Lock!vars) => [Lock!RW!Next]_(Lock!RW!vars)
  BY StepMaps
<1>4. QED
  BY <1>1, <1>2, <1>3, LockInvariant, PTL
     DEF Lock!Spec, Lock!ImplementsRWLock, Lock!RW!Spec

-----------------------------------------------------------------------------
(* The callers of the lock *)

\* A worker's call, a death and a loss of power move the lock as FileLock does, or not
\* at all.
LEMMA StepLocks ==
  ASSUME [Next]_vars
  PROVE  [Lock!Next]_(Lock!vars)
<1> USE DEF Lock!vars, Lock!Step
<1>1. ASSUME NEW w \in Workers, NEW q \in Lock!Requests, Lock!LockAt(w, q)
      PROVE  Lock!Next
  BY <1>1 DEF Lock!LockAt, Lock!Next, Lock!Requests, Lock!Kinds
<1>2. ASSUME NEW w \in Workers, Locking(w)
      PROVE  Lock!Next
  BY <1>2
     DEF Locking, Lock!Progress, Lock!OpenFails, Lock!AcquireFails, Lock!TakeMutex,
         Lock!Acquire, Lock!FindBusy, Lock!DropMutex, Lock!Compatible, Lock!Next
<1>3. ASSUME NEW w \in Workers, Lock!Release(w)
      PROVE  Lock!Next
  BY <1>3 DEF Lock!Release, Lock!Next
<1>4. ASSUME NEW P \in SUBSET Processes, Lock!Die(P)
      PROVE  Lock!Next
  BY <1>4 DEF Lock!Die, Lock!Next
<1>5. ASSUME NEW w \in Writers, Write(w)
      PROVE  [Lock!Next]_(Lock!vars)
  <2>1. [kind |-> "exclusive", blocking |-> TRUE] \in Lock!Requests /\ w \in Workers
    BY DEF Lock!Requests, Lock!Kinds, Workers
  <2>2. QED
    BY <1>1, <1>5, <2>1 DEF Write, lockState
<1>6. ASSUME NEW r \in Readers, Read(r)
      PROVE  Lock!Next
  BY <1>1, <1>6 DEF Read, Workers
<1>7. ASSUME NEW w \in Workers, Unlock(w)
      PROVE  [Lock!Next]_(Lock!vars)
  BY <1>3, <1>7 DEF Unlock, lockState
<1>8. ASSUME NEW p \in Processes, Die(p)
      PROVE  Lock!Next
  BY <1>4, <1>8 DEF Die
<1>9. CASE PowerLoss
  BY <1>4, <1>9 DEF PowerLoss
<1>10. CASE UNCHANGED lockState
  BY <1>10 DEF lockState
<1>11. ASSUME NEW w \in Workers, Work(w) \/ ReadFile(w) \/ Locked(w) \/ NotLocked(w)
       PROVE  UNCHANGED lockState
  BY <1>11 DEF Work, ReadFile, Locked, NotLocked, Begin, ReadExisting, WriteBak,
               BackupFails, CreateTemp, WriteTemp, Sync, Rename, WriteFails, RereadBak,
               TruncatePath, RestorePath, RestoreFails
<1>12. QED
  BY <1>2, <1>5, <1>6, <1>7, <1>8, <1>9, <1>10, <1>11 DEF Next, vars, Workers

\* Every behaviour of the callers is one of the lock.
THEOREM CallersUseFileLock == Spec => Lock!Spec
<1>1. Init => Lock!Init
  BY DEF Init, Lock!Init
<1>2. QED
  BY <1>1, StepLocks, PTL DEF Spec, Lock!Spec

\* However the calls end, the mutex of a process is free for its next worker.
THEOREM MutexStaysFree == Spec => []MutexIsHandedOn
<1>1. Lock!Spec => []Lock!MutexIsHandedOn
  BY AtomicFileAssumption, MutexHandedOn
<1>2. QED
  BY <1>1, CallersUseFileLock, PTL DEF MutexIsHandedOn

\* What the callers have is a readers-writer lock, for any number of them.
THEOREM CallersHaveRWLock == Spec => ImplementsRWLock
<1>1. Lock!Spec => Lock!ImplementsRWLock
  BY AtomicFileAssumption, LockImplementsRWLock
<1>2. QED
  BY <1>1, CallersUseFileLock, PTL DEF ImplementsRWLock

-----------------------------------------------------------------------------
(* The inductive invariant of the files *)

Reported == {w \in withBak : result[w] \in {"error", "lost"}}

\* The rollbacks that will never be finished.
Lost == {w \in withBak : result[w] = "lost" \/ (~Alive(w) /\ fpc[w] = "restoring")}

\* How far a call is: its result, and whether it makes a .bak.
StagesFit ==
  /\ \A w \in Writers :
       /\ fpc[w] # "read"
       /\ fpc[w] \notin {"reread", "restore", "restoring", "unlock", "done"}
            => result[w] = "none"
       /\ fpc[w] \in {"reread", "restore", "restoring"} => result[w] = "error"
       /\ fpc[w] \in {"backup", "backingUp", "reread", "restore", "restoring"}
            => w \in withBak
  /\ \A r \in Readers :
       fpc[r] \in {"idle", "lock", "read", "unlock", "done"} /\ result[r] = "none"

\* A temp file is whole, and safe from a loss of power, when it is renamed.
TempsAreWhole ==
  \A w \in Writers : Alive(w) =>
    /\ fpc[w] \in {"sync", "rename"} => temp[w] = w
    /\ fpc[w] = "rename" => w \notin unsynced

\* Only a rollback writes the destination in place, and a destination that is there
\* stays there.
PathIsReplaced ==
  /\ path = Torn \/ "path" \in unsynced => Reported # {}
  /\ path = Absent => bak # Torn /\ "bak" \notin unsynced
  /\ \A w \in Writers : Alive(w) =>
       /\ fpc[w] = "backingUp" => path # Absent
       /\ fpc[w] \in {"backingUp", "restore", "restoring"} => existing[w] # Absent

Inside == FilePc \ {"idle", "lock", "done"}

\* As long as everybody locks, a writer inside its call holds the lock, exclusively,
\* and a reader holds it in some form.
InsideIsLocked ==
  /\ powerLost => \A w \in Workers : ~Alive(w)
  /\ ~mixed =>
       /\ \A w \in Workers : Alive(w) /\ fpc[w] \in Inside => lpc[w] = "held"
       /\ \A w \in Writers : fpc[w] # "idle" => request[w].kind = "exclusive"

\* What a writer under the lock knows of the destination and its .bak.
Knows(w) ==
  /\ fpc[w] \in {"backup", "backingUp", "create", "write", "sync", "rename", "reread",
                 "restore"} => path = before[w]
  /\ fpc[w] = "backingUp" => existing[w] = path
  /\ fpc[w] \in {"create", "write", "sync", "rename", "reread"} /\ w \in withBak
       => path = Absent \/ bak = path
  /\ fpc[w] \in {"restore", "restoring"} =>
       /\ before[w] = Absent \/ existing[w] = before[w]
       /\ existing[w] = Torn => Lost # {}
  /\ fpc[w] = "unlock" =>
       /\ result[w] = "ok" => path = w
       /\ result[w] = "error" => before[w] = Absent \/ path = before[w]

\* As long as everybody locks, a torn destination is under rollback or a lost rollback.
LockedCallsKnow ==
  ~mixed =>
    /\ path = Torn => \/ powerLost \/ Lost # {}
                      \/ \E w \in Writers : Alive(w) /\ fpc[w] = "restoring"
    /\ \A r \in Readers : existing[r] = Torn => Lost # {}
    /\ \A w \in Writers : Alive(w) => Knows(w)

FileInv ==
  /\ TypeOK
  /\ StagesFit
  /\ TempsAreWhole
  /\ PathIsReplaced
  /\ InsideIsLocked
  /\ LockedCallsKnow

LockFacts == LockInv /\ Exclusive

\* Under the lock a writer is alone.
LEMMA Alone ==
  ASSUME FileInv, LockFacts, ~mixed, NEW v \in Writers, NEW w \in Workers,
         Alive(v), fpc[v] \in Inside, Alive(w), fpc[w] \in Inside
  PROVE  v = w
<1>1. lpc[v] = "held" /\ lpc[w] = "held" /\ request[v].kind = "exclusive" /\ v \in Workers
  BY DEF FileInv, InsideIsLocked, Inside, Workers
<1>2. v \in holders /\ w \in holders
  BY <1>1 DEF LockFacts, LockInv
<1>3. QED
  BY <1>1, <1>2 DEF LockFacts, Exclusive

\* A step of a writer inside its call.
LEMMA WorkKeepsOthers ==
  ASSUME FileInv, LockFacts, NEW w \in Writers, Work(w)
  PROVE  /\ UNCHANGED <<lockState, withBak, mixed, powerLost>>
         /\ Alive(w) /\ fpc[w] \in Inside /\ fpc'[w] \in Inside
         /\ \A v \in Workers : v # w => /\ fpc'[v] = fpc[v] /\ result'[v] = result[v]
                                        /\ existing'[v] = existing[v]
                                        /\ before'[v] = before[v]
         /\ \A v \in Writers : v # w => /\ temp'[v] = temp[v]
                                        /\ (v \in unsynced' <=> v \in unsynced)
         /\ ~mixed => \A v \in Workers : v # w /\ Alive(v) => fpc[v] \notin Inside
<1>1. w \in Workers
  BY DEF Workers
<1>2. Alive(w) /\ fpc[w] \in Inside /\ fpc'[w] \in Inside
  BY <1>1
     DEF Work, Begin, ReadExisting, WriteBak, BackupFails, CreateTemp, WriteTemp, Sync,
         Rename, WriteFails, RereadBak, TruncatePath, RestorePath, RestoreFails, Goto,
         Inside, FilePc, FileInv, TypeOK
<1>3. UNCHANGED <<lockState, withBak, mixed, powerLost>>
  BY DEF Work, Begin, ReadExisting, WriteBak, BackupFails, CreateTemp, WriteTemp, Sync,
         Rename, WriteFails, RereadBak, TruncatePath, RestorePath, RestoreFails, files,
         history
<1>4. \A v \in Workers : v # w => /\ fpc'[v] = fpc[v] /\ result'[v] = result[v]
                                        /\ existing'[v] = existing[v]
                                        /\ before'[v] = before[v]
  BY <1>1
     DEF Work, Begin, ReadExisting, WriteBak, BackupFails, CreateTemp, WriteTemp, Sync,
         Rename, WriteFails, RereadBak, TruncatePath, RestorePath, RestoreFails, Goto,
         FileInv, TypeOK, history
<1>5. \A v \in Writers : v # w => /\ temp'[v] = temp[v]
                                        /\ (v \in unsynced' <=> v \in unsynced)
  BY AtomicFileAssumption
     DEF Work, Begin, ReadExisting, WriteBak, BackupFails, CreateTemp, WriteTemp, Sync,
         Rename, WriteFails, RereadBak, TruncatePath, RestorePath, RestoreFails, Goto,
         FileInv, TypeOK, files
<1>6. ~mixed => \A v \in Workers : v # w /\ Alive(v) => fpc[v] \notin Inside
  BY <1>2, Alone
<1>7. QED
  BY <1>2, <1>3, <1>4, <1>5, <1>6

\* The actions of a writer inside its call, one by one.
LEMMA WorkInv ==
  ASSUME FileInv, LockFacts, NEW w \in Writers, Work(w), TypeOK'
  PROVE  FileInv'
<1> USE AtomicFileAssumption DEF Workers
<1>a. /\ UNCHANGED <<lockState, withBak, mixed, powerLost>>
      /\ \A v \in Workers : Alive(v)' <=> Alive(v)
      /\ Alive(w) /\ fpc[w] \in Inside /\ fpc'[w] \in Inside
  BY WorkKeepsOthers DEF Alive, lockState
<1>b. \A v \in Workers : v # w => /\ fpc'[v] = fpc[v] /\ result'[v] = result[v]
                                  /\ existing'[v] = existing[v]
                                  /\ before'[v] = before[v]
  BY WorkKeepsOthers
<1>c. \A v \in Writers : v # w => /\ temp'[v] = temp[v]
                                  /\ (v \in unsynced' <=> v \in unsynced)
  BY WorkKeepsOthers
<1>d. ~mixed => \A v \in Workers : v # w /\ Alive(v) => fpc[v] \notin Inside
  BY WorkKeepsOthers
<1>1. StagesFit'
  <2>1. StagesFit
    BY DEF FileInv
  <2>2. result'[w] = IF BackupFails(w) \/ WriteFails(w) THEN "error"
                     ELSE IF RestoreFails(w) THEN "lost"
                     ELSE IF Rename(w) THEN "ok" ELSE result[w]
    BY DEF Work, FileInv, TypeOK, StagesFit, Begin, ReadExisting, WriteBak, BackupFails,
           CreateTemp, WriteTemp, Sync, Rename, WriteFails, RereadBak, TruncatePath,
           RestorePath, RestoreFails, history, Goto
  <2>3. QED
    BY <1>a, <1>b, <2>1, <2>2
       DEF StagesFit, Work, FileInv, TypeOK, Begin, ReadExisting, WriteBak, BackupFails,
           CreateTemp, WriteTemp, Sync, Rename, WriteFails, RereadBak, TruncatePath,
           RestorePath, RestoreFails, Goto
<1>2. TempsAreWhole'
  BY <1>a, <1>b, <1>c
     DEF TempsAreWhole, Work, FileInv, TypeOK, Begin, ReadExisting, WriteBak,
         BackupFails, CreateTemp, WriteTemp, Sync, Rename, WriteFails, RereadBak,
         TruncatePath, RestorePath, RestoreFails, Goto, files
<1>3. PathIsReplaced'
  BY <1>a, <1>b, <1>c
     DEF PathIsReplaced, Reported, TempsAreWhole, StagesFit, Work, FileInv, TypeOK,
         Begin, ReadExisting, WriteBak, BackupFails, CreateTemp, WriteTemp, Sync,
         Rename, WriteFails, RereadBak, TruncatePath, RestorePath, RestoreFails, Goto,
         files
<1>4. InsideIsLocked'
  BY <1>a, <1>b, <1>c, <1>d DEF InsideIsLocked, FileInv, Inside, TypeOK, lockState
<1>5. LockedCallsKnow'
  <2> SUFFICES ASSUME ~mixed
               PROVE  LockedCallsKnow'
    BY <1>a DEF LockedCallsKnow
  <2> USE DEF FileInv, TypeOK
  <2>1. Knows(w) /\ ~powerLost
    BY <1>a DEF LockedCallsKnow, InsideIsLocked
  <2>2. ASSUME NEW v \in Writers, v # w, Alive(v)
        PROVE  Knows(v)'
    BY <1>b, <1>d, <2>2 DEF Inside, FilePc, Knows
  <2>3. Lost \subseteq Lost'
    <3>1. \A v \in withBak : result[v] = "lost" => result'[v] = "lost"
      BY <1>b, <1>a
         DEF StagesFit, Inside, FilePc, Work, Begin, ReadExisting, WriteBak,
             BackupFails, CreateTemp, WriteTemp, Sync, Rename, WriteFails, RereadBak,
             TruncatePath, RestorePath, RestoreFails, Goto, history
    <3>2. QED
      BY <1>a, <1>b, <3>1 DEF Lost
  <2>4. path = Torn /\ fpc[w] # "restoring" => Lost # {}
    BY <1>d, <2>1 DEF LockedCallsKnow, Inside, FilePc
  <2>5. path' = Torn => \/ Lost' # {} \/ fpc'[w] = "restoring"
    BY <1>a, <2>1, <2>3, <2>4
       DEF Knows, TempsAreWhole, StagesFit, Lost, Work, Begin, ReadExisting, WriteBak,
           BackupFails, CreateTemp, WriteTemp, Sync, Rename, WriteFails, RereadBak,
           TruncatePath, RestorePath, RestoreFails, Goto, files, history
  <2>6. \A r \in Readers : existing'[r] = Torn => Lost' # {}
    BY <1>b, <2>3 DEF LockedCallsKnow
  <2>7. Knows(w)'
    BY <2>1, <2>3, <2>4
       DEF Knows, TempsAreWhole, PathIsReplaced, StagesFit, Work, Begin, ReadExisting,
           WriteBak, BackupFails, CreateTemp, WriteTemp, Sync, Rename, WriteFails,
           RereadBak, TruncatePath, RestorePath, RestoreFails, Goto, files, history
  <2>8. QED
    BY <1>a, <2>2, <2>5, <2>6, <2>7 DEF LockedCallsKnow
<1>6. QED
  BY <1>1, <1>2, <1>3, <1>4, <1>5 DEF FileInv

\* A step that is none of a writer inside its call: a worker comes, goes or dies, and a
\* reader reads.
Quiet ==
  /\ UNCHANGED <<files, result, powerLost>>
  /\ withBak \subseteq withBak' /\ \A w \in withBak' \ withBak : fpc[w] = "idle"
  /\ mixed => mixed'
  /\ \A w \in Workers : Alive(w)' => Alive(w)
  /\ \A w \in Writers :
       \/ /\ fpc'[w] = fpc[w]
          /\ Alive(w)' => existing'[w] = existing[w] /\ before'[w] = before[w]
       \/ <<fpc[w], fpc'[w]>> \in {<<"idle", "lock">>, <<"idle", "begin">>,
                                   <<"lock", "begin">>, <<"lock", "done">>,
                                   <<"unlock", "done">>}
  /\ \A r \in Readers :
       /\ fpc'[r] \in {"idle", "lock", "read", "unlock", "done"}
       /\ \/ existing'[r] \in {existing[r], Absent}
          \/ Alive(r) /\ fpc[r] = "read" /\ existing'[r] = path

\* Such a step keeps what the callers know of the files.
LEMMA QuietInv ==
  ASSUME FileInv, LockFacts, Quiet, TypeOK', InsideIsLocked'
  PROVE  FileInv'
<1> USE AtomicFileAssumption DEF Workers, FileInv, TypeOK, Quiet, files
<1>1. StagesFit'
  BY DEF StagesFit
<1>2. TempsAreWhole'
  BY DEF TempsAreWhole
<1>3. PathIsReplaced'
  BY DEF PathIsReplaced, Reported
<1>4. LockedCallsKnow'
  <2> SUFFICES ASSUME ~mixed
               PROVE  LockedCallsKnow'
    BY DEF LockedCallsKnow
  <2>1. Lost \subseteq Lost'
    BY DEF Lost, StagesFit
  <2>2. path' = Torn => \/ powerLost' \/ Lost' # {}
                        \/ \E w \in Writers : Alive(w)' /\ fpc'[w] = "restoring"
    <3>1. ASSUME NEW w \in Writers, fpc[w] = "restoring", ~Alive(w)'
          PROVE  w \in Lost'
      BY <3>1 DEF Lost, StagesFit
    <3>2. QED
      BY <2>1, <3>1 DEF LockedCallsKnow
  <2>3. ASSUME NEW r \in Readers, existing'[r] = Torn
        PROVE  Lost' # {}
    <3>1. CASE existing'[r] \in {existing[r], Absent}
      BY <2>1, <2>3, <3>1 DEF LockedCallsKnow
    <3>2. CASE Alive(r) /\ fpc[r] = "read" /\ path = Torn
      <4>1. \A w \in Writers : Alive(w) => fpc[w] # "restoring"
        BY <3>2, Alone DEF Inside, FilePc
      <4>2. QED
        BY <2>1, <3>2, <4>1 DEF LockedCallsKnow, InsideIsLocked
    <3>3. QED
      BY <2>3, <3>1, <3>2
  <2>4. ASSUME NEW w \in Writers, Alive(w)'
        PROVE  Knows(w)'
    BY <2>1, <2>4 DEF LockedCallsKnow, Knows
  <2>5. QED
    BY <2>2, <2>3, <2>4 DEF LockedCallsKnow
<1>5. QED
  BY <1>1, <1>2, <1>3, <1>4

\* When power fails, the torn files are those that were not synced, and nobody is left.
LEMMA PowerLossInv ==
  ASSUME FileInv, PowerLoss, TypeOK'
  PROVE  FileInv'
<1> USE AtomicFileAssumption DEF Workers, FileInv, TypeOK
<1>1. \A w \in Workers : ~Alive(w)'
  BY DEF PowerLoss, Lock!Die, Alive
<1>2. StagesFit'
  BY DEF PowerLoss, StagesFit
<1>3. PathIsReplaced'
  BY <1>1 DEF PowerLoss, PathIsReplaced, Reported
<1>4. InsideIsLocked'
  BY <1>1 DEF PowerLoss, InsideIsLocked, Lock!Die
<1>5. LockedCallsKnow'
  BY <1>1 DEF PowerLoss, LockedCallsKnow, Forget
<1>6. TempsAreWhole'
  BY <1>1 DEF TempsAreWhole
<1>7. QED
  BY <1>2, <1>3, <1>4, <1>5, <1>6

\* Work keeps the invariant, and coming, going, reading and dying do, as quiet steps.
LEMMA NextFileInv ==
  ASSUME FileInv, LockFacts, TypeOK', [Next]_vars
  PROVE  FileInv'
<1> USE AtomicFileAssumption DEF Workers, FileInv, TypeOK, files, history
<1>1. ASSUME NEW w \in Writers, Write(w)
      PROVE  Quiet /\ InsideIsLocked'
  <2> USE DEF Goto, Alive, Lock!LockAt, Lock!Step, lockState
  <2>1. PICK to \in {"lock", "begin"}, bakToo \in BOOLEAN :
          /\ Goto(w, "idle", to)
          /\ withBak' = IF bakToo THEN withBak \cup {w} ELSE withBak
          /\ mixed' = (mixed \/ to = "begin")
          /\ IF to = "lock"
             THEN Lock!LockAt(w, [kind |-> "exclusive", blocking |-> TRUE])
             ELSE UNCHANGED lockState
    BY <1>1 DEF Write
  <2>2. \A v \in Workers : /\ Alive(v)' <=> Alive(v)
                           /\ v # w => /\ fpc'[v] = fpc[v] /\ lpc'[v] = lpc[v]
                                       /\ request'[v] = request[v]
    BY <2>1 DEF Lock!TypeOK
  <2>3. to = "lock" => request'[w].kind = "exclusive"
    BY <2>1 DEF Lock!TypeOK
  <2>4. Quiet
    BY <1>1, <2>1, <2>2 DEF Write, Quiet, StagesFit
  <2>5. InsideIsLocked'
    BY <1>1, <2>1, <2>2, <2>3 DEF Write, InsideIsLocked, Inside
  <2>6. QED
    BY <2>4, <2>5
<1>2. ASSUME NEW r \in Readers, Read(r)
      PROVE  Quiet /\ InsideIsLocked'
  <2>1. Quiet
    BY <1>2 DEF Read, Goto, Alive, Quiet, StagesFit, Lock!LockAt, Lock!Step
  <2>2. InsideIsLocked'
    BY <1>2 DEF Read, Goto, Alive, InsideIsLocked, Inside, Lock!LockAt, Lock!Step
  <2>3. QED
    BY <2>1, <2>2
<1>3. ASSUME NEW r \in Readers, ReadFile(r)
      PROVE  Quiet /\ InsideIsLocked'
  BY <1>3
     DEF ReadFile, Goto, Alive, Quiet, StagesFit, InsideIsLocked, Inside, FilePc,
         lockState
<1>4. ASSUME NEW w \in Workers, Locking(w)
      PROVE  Quiet /\ InsideIsLocked'
  <2>1. UNCHANGED <<files, fpc, withBak, existing, result, history, request>>
    BY <1>4 DEF Locking, Lock!Progress, Lock!OpenFails, Lock!AcquireFails, Lock!TakeMutex,
                Lock!Acquire, Lock!FindBusy, Lock!DropMutex
  <2>2. lpc[w] \notin {"dead", "held"} /\ fpc[w] = "lock"
    BY <1>4 DEF Locking, Lock!Progress, Lock!OpenFails, Lock!AcquireFails, Lock!TakeMutex,
                Lock!Acquire, Lock!FindBusy, Lock!DropMutex, Lock!Step
  <2>3. /\ lpc'[w] # "dead" 
        /\ \A v \in Workers : v # w => lpc'[v] = lpc[v]
    BY <1>4 DEF Locking, Lock!Progress, Lock!OpenFails, Lock!AcquireFails, Lock!TakeMutex,
                Lock!Acquire, Lock!FindBusy, Lock!DropMutex, Lock!Step, Lock!TypeOK
  <2>4. QED
    BY <2>1, <2>2, <2>3 DEF Quiet, StagesFit, InsideIsLocked, Inside, FilePc, Alive
<1>5. ASSUME NEW w \in Workers, Locked(w) \/ NotLocked(w)
      PROVE  Quiet /\ InsideIsLocked'
  BY <1>5
     DEF Locked, NotLocked, Goto, Alive, Quiet, StagesFit, InsideIsLocked, Inside,
         FilePc, lockState
<1>6. ASSUME NEW w \in Workers, Unlock(w)
      PROVE  Quiet /\ InsideIsLocked'
  <2>1. \A v \in Workers : v # w => lpc'[v] = lpc[v]
    BY <1>6 DEF Unlock, Lock!Release, Lock!Step, lockState, Lock!TypeOK
  <2>2. lpc'[w] # "dead" /\ request' = request
    BY <1>6 DEF Unlock, Lock!Release, Lock!Step, lockState, Lock!TypeOK, Goto, Alive
  <2>3. QED
    BY <1>6, <2>1, <2>2
       DEF Unlock, Forget, Goto, Alive, Quiet, StagesFit, InsideIsLocked, Inside, FilePc
<1>7. ASSUME NEW p \in Processes, Die(p)
      PROVE  Quiet /\ InsideIsLocked'
  BY <1>7
     DEF Die, Forget, Lock!Die, Alive, Quiet, StagesFit, InsideIsLocked, Inside, FilePc
<1>8. ASSUME UNCHANGED vars
      PROVE  Quiet /\ InsideIsLocked'
  BY <1>8 DEF vars, Quiet, StagesFit, Alive, lockState, InsideIsLocked
<1>9. ASSUME NEW w \in Writers, Work(w)
      PROVE  FileInv'
  BY ONLY <1>9, FileInv, LockFacts, TypeOK', WorkInv
<1>10. CASE PowerLoss
  BY ONLY <1>10, FileInv, TypeOK', PowerLossInv
<1>11. CASE Quiet /\ InsideIsLocked'
  BY ONLY <1>11, FileInv, LockFacts, TypeOK', QuietInv
<1>12. QED
  BY ONLY <1>1, <1>2, <1>3, <1>4, <1>5, <1>6, <1>7, <1>8, <1>9, <1>10, <1>11, [Next]_vars
     DEF Next, Workers

\* Every variable keeps its type.
LEMMA NextType ==
  ASSUME TypeOK, LockInv', [Next]_vars
  PROVE  TypeOK'
<1> USE AtomicFileAssumption DEF Workers, TypeOK, Contents, FileNames, Results, FilePc
<1>1. Lock!TypeOK'
  BY DEF LockInv, Lock!TypeOK, Lock!Requests, Lock!Kinds, Lock!LockPc
<1>2. ASSUME NEW w \in Writers, Write(w)
      PROVE  TypeOK'
  BY <1>1, <1>2 DEF Write, Goto, files
<1>3. ASSUME NEW w \in Writers, Work(w)
      PROVE  TypeOK'
  <2> USE <1>1, <1>3 DEF Goto, files, history
  <2>1. CASE Begin(w)
    BY <2>1 DEF Begin
  <2>2. CASE WriteBak(w)
    BY <2>2 DEF WriteBak
  <2>3. CASE BackupFails(w)
    BY <2>3 DEF BackupFails
  <2>4. CASE ReadExisting(w)
    <3>1. unsynced' \subseteq FileNames
      BY <2>4 DEF ReadExisting
    <3>2. QED
      BY <2>4, <3>1 DEF ReadExisting
  <2>5. CASE CreateTemp(w) \/ WriteTemp(w) \/ Sync(w)
    <3>1. unsynced' \subseteq FileNames
      BY <2>5 DEF CreateTemp, WriteTemp, Sync
    <3>2. QED
      BY <2>5, <3>1 DEF CreateTemp, WriteTemp, Sync
  <2>6. CASE Rename(w)
    <3>1. unsynced' \subseteq FileNames
      BY <2>6 DEF Rename
    <3>2. QED
      BY <2>6, <3>1 DEF Rename
  <2>7. CASE WriteFails(w)
    BY <2>7 DEF WriteFails
  <2>9. CASE RereadBak(w)
    BY <2>9 DEF RereadBak
  <2>10. CASE RestorePath(w)
    BY <2>10 DEF RestorePath
  <2>11. CASE RestoreFails(w)
    BY <2>11 DEF RestoreFails
  <2>8. CASE TruncatePath(w)
    <3>1. unsynced' \subseteq FileNames
      BY <2>8 DEF TruncatePath
    <3>2. QED
      BY <2>8, <3>1 DEF TruncatePath
  <2>12. QED
    BY <2>1, <2>2, <2>3, <2>4, <2>5, <2>6, <2>7, <2>8, <2>9, <2>10, <2>11 DEF Work
<1>4. ASSUME NEW w \in Workers, Read(w) \/ ReadFile(w) \/ Locking(w)
                                  \/ Locked(w) \/ NotLocked(w)
      PROVE  TypeOK'
  <2>1. CASE Read(w)
    BY <1>1, <2>1 DEF Read, Goto, files, history
  <2>2. CASE ReadFile(w)
    <3>1. fpc' \in [Workers -> FilePc]
      BY <2>2 DEF ReadFile, Goto
    <3>2. existing' \in [Workers -> Contents]
      BY <2>2 DEF ReadFile
    <3>3. QED
      BY <1>1, <2>2, <3>1, <3>2 DEF ReadFile, files, history
  <2>3. CASE Locking(w)
    BY <1>1, <2>3 DEF Locking, files, history
  <2>4. CASE Locked(w)
    BY <1>1, <2>4 DEF Locked, Goto, files, history
  <2>5. CASE NotLocked(w)
    BY <1>1, <2>5 DEF NotLocked, Goto, files, history
  <2>6. QED
    BY <1>4, <2>1, <2>2, <2>3, <2>4, <2>5
<1>5. ASSUME NEW w \in Workers, Unlock(w)
      PROVE  TypeOK'
  BY <1>1, <1>5 DEF Unlock, Forget, Goto, files
<1>6. ASSUME NEW p \in Processes, Die(p)
      PROVE  TypeOK'
  BY <1>1, <1>6 DEF Die, Forget, files
<1>7. CASE PowerLoss
  BY <1>1, <1>7 DEF PowerLoss, Forget
<1>8. CASE UNCHANGED vars
  BY <1>1, <1>8 DEF vars, files, history
<1>9. QED
  BY <1>2, <1>3, <1>4, <1>5, <1>6, <1>7, <1>8 DEF Next

\* The invariant of the files, for any number of writers, readers and processes.
THEOREM FileInvariant == Spec => [](FileInv /\ LockFacts)
<1>1. Init => FileInv
  <2> USE AtomicFileAssumption DEF Init, Workers
  <2>1. Init => Lock!TypeOK
    BY DEF Lock!Init, Lock!TypeOK, Lock!Requests, Lock!Kinds, Lock!LockPc
  <2>2. Init => TypeOK
    BY <2>1 DEF TypeOK, Contents, FileNames, Results, FilePc
  <2>3. QED
    BY <2>2 DEF FileInv, StagesFit, TempsAreWhole, PathIsReplaced, InsideIsLocked,
                LockedCallsKnow, Knows, Inside, Reported, Lock!Init, Alive
<1>2. Spec => []LockFacts
  <2>1. Lock!Spec => []LockInv
    BY AtomicFileAssumption, LockInvariant
  <2>2. Init => Exclusive
    BY DEF Init, Lock!Init, Exclusive
  <2>3. LockInv /\ Exclusive /\ [Next]_vars => Exclusive'
    BY AtomicFileAssumption, StepLocks, NextExclusive
  <2>4. QED
    BY <2>1, <2>2, <2>3, CallersUseFileLock, PTL DEF Spec, LockFacts
<1>3. FileInv /\ LockFacts /\ LockFacts' /\ [Next]_vars => FileInv'
  <2>1. FileInv /\ LockFacts' /\ [Next]_vars => TypeOK'
    BY NextType DEF FileInv, LockFacts
  <2>2. QED
    BY <2>1, NextFileInv
<1>4. QED
  BY <1>1, <1>2, <1>3, PTL DEF Spec

\* Rename-atomicity, and no torn file for a reader that has the lock.
THEOREM ReadersNeverSeeTorn == Spec => []ReadersSeeWhole
<1>1. FileInv => ReadersSeeWhole
  <2> SUFFICES ASSUME FileInv
               PROVE  ReadersSeeWhole
    OBVIOUS
  <2>1. Lost \subseteq Failing
    BY DEF Lost, Failing
  <2>2. PathIsWhole
    BY <2>1
       DEF PathIsWhole, FileInv, PathIsReplaced, Reported, LockedCallsKnow, StagesFit,
           Failing
  <2>3. LockedReadsAreWhole
    BY <2>1 DEF LockedReadsAreWhole, FileInv, LockedCallsKnow
  <2>4. QED
    BY <2>2, <2>3 DEF ReadersSeeWhole
<1>2. QED
  BY <1>1, FileInvariant, PTL

\* A call under the lock reports what is on the disk.
THEOREM CallsReportTheTruth == Spec => []ReportsAreTrue
<1>1. FileInv => ReportsAreTrue
  BY AtomicFileAssumption DEF FileInv, StagesFit, LockedCallsKnow, Knows, ReportsAreTrue,
     FailedWriteKeepsOld, SuccessIsKept, Workers
<1>2. QED
  BY <1>1, FileInvariant, PTL
=============================================================================
