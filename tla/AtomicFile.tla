----------------------------- MODULE AtomicFile -----------------------------
(***************************************************************************)
(* internal/atomicio/atomic.go: WriteFile and WriteFileWithBak on one path *)
(* by several workers, under the Exclusive lock of FileLock or without it, *)
(* with failing system calls, dying processes and a loss of power.         *)
(*                                                                         *)
(* A writer makes one call and writes a content of its own, named by the   *)
(* writer.  A reader takes the lock in any of its four forms and calls     *)
(* ReadFile.  A file is absent, holds one content whole, or is Torn: empty *)
(* or partly written.  Each system call that another process can see is a  *)
(* step.  Permission bits are left out.                                    *)
(***************************************************************************)
EXTENDS FiniteSets

CONSTANTS
  Writers, Readers,
  Processes, Home,
  Old,            \* what an earlier program left in the files
  Absent, Torn

Workers == Writers \cup Readers

ASSUME AtomicFileAssumption ==
  /\ Home \in [Workers -> Processes]
  /\ Writers \cap Readers = {}
  /\ Absent # Torn /\ Old \notin {Absent, Torn}
  /\ {Old, Absent, Torn, "path", "bak"} \cap Writers = {}   \* contents and file names

VARIABLES
  \* FileLock
  mutex, holders, request, lpc,
  \* the directory
  path,           \* the destination
  bak,            \* path + ".bak"
  temp,           \* the temp file of each writer
  unsynced,       \* the files whose bytes are not on stable storage
  \* the calls
  fpc,            \* where each worker is in its call
  withBak,        \* the workers that call WriteFileWithBak
  existing,       \* what each worker read last, from the destination or the .bak
  result,
  \* history
  before,         \* the destination when each worker began
  mixed,          \* somebody wrote without the lock
  powerLost

Lock == INSTANCE FileLock

lockState == <<mutex, holders, request, lpc>>
files     == <<path, bak, temp, unsynced>>
history   == <<before, mixed, powerLost>>
vars == <<lockState, files, fpc, withBak, existing, result, history>>

Contents   == Writers \cup {Old, Absent, Torn}
FilePc     == {"idle", "lock", "begin", "backup", "backingUp", "create", "write",
               "sync", "rename", "reread", "restore", "restoring", "read", "unlock",
               "done"}
Results    == {"none", "ok", "error", "lost"}
FileNames  == {"path", "bak"} \cup Writers

Init ==
  /\ Lock!Init
  /\ path \in {Old, Absent}
  /\ bak \in {Old, Absent}
  /\ temp = [w \in Writers |-> Absent]
  /\ unsynced = {}
  /\ fpc = [w \in Workers |-> "idle"]
  /\ withBak = {}
  /\ existing = [w \in Workers |-> Absent]
  /\ result = [w \in Workers |-> "none"]
  /\ before = [w \in Workers |-> Absent]
  /\ mixed = FALSE
  /\ powerLost = FALSE

Alive(w) == lpc[w] # "dead"
Goto(w, from, to) == Alive(w) /\ fpc[w] = from /\ fpc' = [fpc EXCEPT ![w] = to]

-----------------------------------------------------------------------------
(* The caller, and the lock around the call *)

\* A writer decides which function to call, and whether to lock first.
Write(w) ==
  /\ \E to \in {"lock", "begin"}, bakToo \in BOOLEAN :
       /\ Goto(w, "idle", to)
       /\ withBak' = IF bakToo THEN withBak \cup {w} ELSE withBak
       /\ mixed' = (mixed \/ to = "begin")
       /\ IF to = "lock"
          THEN Lock!LockAt(w, [kind |-> "exclusive", blocking |-> TRUE])
          ELSE UNCHANGED lockState
  /\ UNCHANGED <<files, existing, result, before, powerLost>>

\* A reader asks for the lock in any form.
Read(r) ==
  /\ Goto(r, "idle", "lock")
  /\ \E q \in Lock!Requests : Lock!LockAt(r, q)
  /\ UNCHANGED <<files, withBak, existing, result, history>>

Locking(w) ==
  /\ fpc[w] = "lock"
  /\ Lock!Progress(w) \/ Lock!OpenFails(w) \/ Lock!AcquireFails(w)
  /\ UNCHANGED <<files, fpc, withBak, existing, result, history>>

\* The lock is held: the caller goes on.
Locked(w) ==
  /\ lpc[w] = "held"
  /\ Goto(w, "lock", IF w \in Writers THEN "begin" ELSE "read")
  /\ UNCHANGED <<lockState, files, withBak, existing, result, history>>

\* The lock is busy, or lockAt failed: the caller gives up.
NotLocked(w) ==
  /\ lpc[w] \in {"busy", "failed"}
  /\ Goto(w, "lock", "done")
  /\ UNCHANGED <<lockState, files, withBak, existing, result, history>>

\* ReadFile, under the lock: the whole file as it is at that moment.
ReadFile(r) ==
  /\ Goto(r, "read", "unlock")
  /\ existing' = [existing EXCEPT ![r] = path]
  /\ UNCHANGED <<lockState, files, withBak, result, history>>

Begin(w) ==
  /\ Goto(w, "begin", IF w \in withBak THEN "backup" ELSE "create")
  /\ before' = [before EXCEPT ![w] = path]
  /\ UNCHANGED <<lockState, files, withBak, existing, result, mixed, powerLost>>

\* What the calls of W knew goes with them.
Forget(W) ==
  /\ existing' = [w \in Workers |-> IF w \in W THEN Absent ELSE existing[w]]
  /\ before' = [w \in Workers |-> IF w \in W THEN Absent ELSE before[w]]

\* The caller's Release; a caller without the lock has nothing to release.
Unlock(w) ==
  /\ Goto(w, "unlock", "done")
  /\ IF lpc[w] = "held" THEN Lock!Release(w) ELSE UNCHANGED lockState
  /\ Forget({w})
  /\ UNCHANGED <<files, withBak, result, mixed, powerLost>>

-----------------------------------------------------------------------------
(* writeFileWithBak, before the atomic write *)

\* os.ReadFile of the destination; os.WriteFile truncates the .bak.
ReadExisting(w) ==
  /\ Goto(w, "backup", IF path = Absent THEN "create" ELSE "backingUp")
  /\ existing' = [existing EXCEPT ![w] = path]
  /\ IF path = Absent
     THEN UNCHANGED <<bak, unsynced>>
     ELSE bak' = Torn /\ unsynced' = unsynced \cup {"bak"}
  /\ UNCHANGED <<lockState, path, temp, withBak, result, history>>

\* os.WriteFile fills the .bak.  Nothing syncs it.
WriteBak(w) ==
  /\ Goto(w, "backingUp", "create")
  /\ bak' = existing[w]
  /\ UNCHANGED <<lockState, path, temp, unsynced, withBak, existing, result, history>>

\* Reading fails, or writing the .bak does: the destination is untouched.
BackupFails(w) ==
  /\ Alive(w) /\ fpc[w] \in {"backup", "backingUp"}
  /\ fpc' = [fpc EXCEPT ![w] = "unlock"]
  /\ result' = [result EXCEPT ![w] = "error"]
  /\ UNCHANGED <<lockState, files, withBak, existing, history>>

-----------------------------------------------------------------------------
(* writeFile *)

CreateTemp(w) ==
  /\ Goto(w, "create", "write")
  /\ temp' = [temp EXCEPT ![w] = Torn]
  /\ unsynced' = unsynced \cup {w}
  /\ UNCHANGED <<lockState, path, bak, withBak, existing, result, history>>

WriteTemp(w) ==
  /\ Goto(w, "write", "sync")
  /\ temp' = [temp EXCEPT ![w] = w]
  /\ UNCHANGED <<lockState, path, bak, unsynced, withBak, existing, result, history>>

\* Seeded fault: the temp file is not synced before the rename.
FaultSync(w) ==
  /\ Goto(w, "sync", "rename")
  /\ UNCHANGED <<lockState, files, withBak, existing, result, history>>

\* fsync, chmod and close.
Sync(w) ==
  /\ Goto(w, "sync", "rename")
  /\ unsynced' = unsynced \ {w}
  /\ UNCHANGED <<lockState, path, bak, temp, withBak, existing, result, history>>

\* The rename replaces the destination by the temp file, synced or not.
Rename(w) ==
  /\ Goto(w, "rename", "unlock")
  /\ path' = temp[w]
  /\ temp' = [temp EXCEPT ![w] = Absent]
  /\ unsynced' = (unsynced \ {w, "path"}) \cup (IF w \in unsynced THEN {"path"} ELSE {})
  /\ result' = [result EXCEPT ![w] = "ok"]
  /\ UNCHANGED <<lockState, bak, withBak, existing, history>>

\* A system call of writeFile fails, or its abort hook does: the temp file is
\* removed, and WriteFileWithBak rolls back.
WriteFails(w) ==
  /\ Alive(w) /\ fpc[w] \in {"create", "write", "sync", "rename"}
  /\ fpc' = [fpc EXCEPT ![w] = IF w \in withBak THEN "reread" ELSE "unlock"]
  /\ temp' = [temp EXCEPT ![w] = Absent]
  /\ unsynced' = unsynced \ {w}
  /\ result' = [result EXCEPT ![w] = "error"]
  /\ UNCHANGED <<lockState, path, bak, withBak, existing, history>>

-----------------------------------------------------------------------------
(* The rollback of writeFileWithBak *)

\* os.ReadFile of the .bak; without one there is nothing to restore.
RereadBak(w) ==
  /\ Goto(w, "reread", IF bak = Absent THEN "unlock" ELSE "restore")
  /\ existing' = [existing EXCEPT ![w] = bak]
  /\ UNCHANGED <<lockState, files, withBak, result, history>>

\* os.WriteFile truncates the destination in place.
TruncatePath(w) ==
  /\ Goto(w, "restore", "restoring")
  /\ path' = Torn
  /\ unsynced' = unsynced \cup {"path"}
  /\ UNCHANGED <<lockState, bak, temp, withBak, existing, result, history>>

\* Seeded fault: the restored bytes are those of the failed write.
FaultRestorePath(w) ==
  /\ Goto(w, "restoring", "unlock")
  /\ path' = w
  /\ UNCHANGED <<lockState, bak, temp, unsynced, withBak, existing, result, history>>

RestorePath(w) ==
  /\ Goto(w, "restoring", "unlock")
  /\ path' = existing[w]
  /\ UNCHANGED <<lockState, bak, temp, unsynced, withBak, existing, result, history>>

\* os.WriteFile fails: "write failed and rollback failed".
RestoreFails(w) ==
  /\ Alive(w) /\ fpc[w] \in {"restore", "restoring"}
  /\ fpc' = [fpc EXCEPT ![w] = "unlock"]
  /\ result' = [result EXCEPT ![w] = "lost"]
  /\ UNCHANGED <<lockState, files, withBak, existing, history>>

-----------------------------------------------------------------------------
(* The environment *)

\* A process dies; its temp files stay.
Die(p) ==
  /\ \E w \in Workers : Home[w] = p /\ Alive(w)
  /\ Lock!Die({p})
  /\ Forget({w \in Workers : Home[w] = p})
  /\ UNCHANGED <<files, fpc, withBak, result, mixed, powerLost>>

\* Power fails: every process dies, and any unsynced file may be torn.
PowerLoss ==
  /\ ~powerLost
  /\ powerLost' = TRUE
  /\ Lock!Die(Processes)
  /\ \E torn \in SUBSET unsynced :
       /\ path' = IF "path" \in torn THEN Torn ELSE path
       /\ bak' = IF "bak" \in torn THEN Torn ELSE bak
       /\ temp' = [w \in Writers |-> IF w \in torn THEN Torn ELSE temp[w]]
  /\ unsynced' = {}
  /\ Forget(Workers)
  /\ UNCHANGED <<fpc, withBak, result, mixed>>

-----------------------------------------------------------------------------
Work(w) ==
  \/ Begin(w)
  \/ ReadExisting(w) \/ WriteBak(w) \/ BackupFails(w)
  \/ CreateTemp(w) \/ WriteTemp(w) \/ Sync(w) \/ Rename(w) \/ WriteFails(w)
  \/ RereadBak(w) \/ TruncatePath(w) \/ RestorePath(w) \/ RestoreFails(w)

Next ==
  \/ \E w \in Writers : Write(w) \/ Work(w)
  \/ \E r \in Readers : Read(r) \/ ReadFile(r)
  \/ \E w \in Workers : Locking(w) \/ Locked(w) \/ NotLocked(w) \/ Unlock(w)
  \/ \E p \in Processes : Die(p)
  \/ PowerLoss

Spec == Init /\ [][Next]_vars

-----------------------------------------------------------------------------
(* Properties *)

\* The type of every variable.
TypeOK ==
  /\ Lock!TypeOK
  /\ path \in Contents /\ bak \in Contents
  /\ temp \in [Writers -> Contents]
  /\ unsynced \subseteq FileNames
  /\ fpc \in [Workers -> FilePc]
  /\ withBak \subseteq Writers
  /\ existing \in [Workers -> Contents] /\ before \in [Workers -> Contents]
  /\ result \in [Workers -> Results]
  /\ mixed \in BOOLEAN /\ powerLost \in BOOLEAN

\* The lock under all this is a readers-writer lock.
ImplementsRWLock == Lock!ImplementsRWLock

\* Whoever leaves lockAt, served, refused or dead, leaves the mutex of its process to
\* the next.
MutexIsHandedOn == Lock!MutexIsHandedOn

\* The calls of WriteFileWithBak that fail, whose rollback writes in place.
Failing == {w \in withBak : fpc[w] = "restoring" \/ result[w] = "lost"}

\* Rename-atomicity: a reader finds one content whole, or no file, at every moment,
\* even when several writers race without a lock, die, or lose power.  The only
\* exception is the rollback of WriteFileWithBak, which writes in place.
PathIsWhole ==
  path = Torn => \/ Failing # {}
                 \/ (mixed \/ powerLost) /\ \E w \in withBak : result[w] = "error"

\* A reader that has the lock, shared or exclusive, never reads a torn file, not
\* even during a rollback, as long as the writers lock and no rollback was cut.
LockedReadsAreWhole ==
  \A r \in Readers : existing[r] = Torn => mixed \/ Failing # {}

\* No reader meets a torn file where the code rules it out.
ReadersSeeWhole == PathIsWhole /\ LockedReadsAreWhole

\* A call under the lock that fails, and whose rollback did not, leaves the
\* destination as it found it, if there was one.
FailedWriteKeepsOld ==
  \A w \in Workers :
    /\ fpc[w] = "unlock" /\ Alive(w)
    /\ result[w] = "error"
    /\ before[w] # Absent
    /\ ~mixed
    => path = before[w]

\* Every call took the lock: a write that is reported as done is there until the
\* next holder's rename, whoever fails, dies or rolls back in between.
SuccessIsKept ==
  \A w \in Workers :
    /\ fpc[w] = "unlock" /\ Alive(w)
    /\ result[w] = "ok"
    /\ ~mixed
    => path = w

\* What a call under the lock reports, success or failure, is what is on the disk.
ReportsAreTrue == TypeOK /\ FailedWriteKeepsOld /\ SuccessIsKept
=============================================================================
