---------------------------- MODULE LadderProofs ----------------------------
(***************************************************************************)
(* What the refresh ladder promises for every number of callers, cookies   *)
(* and rewrites of the file: a rung's attempts are counted against its     *)
(* context, what a reload puts in the jar stays until a newer version or a  *)
(* reload beside it replaces it, and a stamp is never older than the       *)
(* content it is reported with.  Each needs to know what a caller half-way *)
(* through its rung has done: CallerCounts, JarInv and ReadIsPast.         *)
(***************************************************************************)
EXTENDS Ladder, TLAPS

-----------------------------------------------------------------------------
(* The inductive invariant *)

\* An attempt is left before one is started.  The attempt started after the context
\* was done is the last: the caller meets the test of the context before another.
CallerCounts(c) ==
  /\ pc[c] \in {"check", "backoff"} => level[c] \in Looping
  /\ pc[c] \in {"check", "begin", "backoff"} => attempt[c] < MaxAttempts(level[c])
  /\ pc[c] = "trying" => attempt[c] <= MaxAttempts(level[c])
  /\ pc[c] = "idle" => attempt[c] = 0
  /\ late[c] > 0 => c \in cancelled /\ pc[c] \notin {"idle", "begin", "seed"}

AttemptInv == OneLateAttempt /\ ExhaustedIsEarned /\ \A c \in Callers : CallerCounts(c)

\* Only a caller that seeds has cookies to seed, and whoever has read a profile, or
\* seeded beside another, keeps the version it has read.
SeedersKeepTheirs ==
  \A c \in Callers :
    /\ unseeded[c] # {} => pc[c] = "seed"
    /\ carried[c] # {} => pc[c] \in {"seed", "done"}
    /\ \A o \in beside[c] : pc[o] \in {"seed", "done"}

\* Who seeds now is beside a reload of this caller, or has read no older profile.
SeedersAreKnown ==
  \A c, o \in Callers :
    c # o /\ (pc[c] = "seed" \/ carried[c] # {}) /\ pc[o] = "seed"
      => o \in beside[c] \/ read[o] >= read[c]

\* A cookie that this caller has set is there, or was set by one of those.
SetIsKept ==
  \A c \in Callers : \A n \in carried[c] \ unseeded[c] :
    jar[n] >= read[c] \/ \E o \in beside[c] : jar[n] = read[o]

JarInv == SeedersKeepTheirs /\ SeedersAreKnown /\ SetIsKept

\* What a caller read is what the file holds or what it held before.
ReadIsPast == \A c \in Callers : read[c] <= file.version

StampInv == ReadIsPast /\ StampIsNotOlder

LadderInv == TypeOK /\ AttemptInv /\ JarInv /\ StampInv

-----------------------------------------------------------------------------
(* The steps of a caller *)

GaveUp == {"Exhausted", "TokenMissing"}
Causes == {{"Cause"}, {"Canceled"}}

\* ReadStorage found a good file.
StorageRead(c) ==
  /\ file.state = "good"
  /\ Goto(c, "trying", "stat")
  /\ read' = [read EXCEPT ![c] = file.version]
  /\ UNCHANGED <<shared, level, attempt, lastErr, seeding, cancelled, tokens,
                 err, late>>

\* What a step of caller c is, whichever rung it is on.
CallerStep(c) ==
  \/ \E l \in Levels : Step(c, l)
  \/ ReloadL1(c) \/ SeedJar(c) \/ Seeded(c) \/ ReloadL4(c)
  \/ Check(c) \/ Try(c) \/ Backoff(c) \/ FileMtime(c) \/ StorageRead(c)
  \/ level[c] \in Looping /\ \E cause \in Causes : AttemptFails(c, cause)
  \/ Succeed(c)
  \/ \E e \in Sentinels \ GaveUp : Refuse(c, e)
  \/ Cancel(c)

\* The attempts of the three looping rungs end in the same few ways.
LEMMA NextIsCallerStep ==
  Next => SiblingWrites \/ \E c \in Callers : CallerStep(c)
<1> SUFFICES ASSUME NEW c \in Callers,
                    \/ \E l \in Levels : Step(c, l)
                    \/ Progress(c) \/ RunRefreshCommand(c) \/ Mint(c) \/ Cancel(c)
             PROVE  CallerStep(c)
  BY DEF Next
<1>1. \A e \in {"Missing", "Malformed", "Redirect"} : e \in Sentinels \ GaveUp
  BY DEF Sentinels, GaveUp
<1>2. CASE ReadStorage(c)
  BY <1>1, <1>2 DEF ReadStorage, CallerStep, Looping, Causes, StorageRead, Refuse
<1>3. CASE Killed(c)
  BY <1>3 DEF Killed, CallerStep, Looping, Causes
<1>4. CASE RunRefreshCommand(c)
  BY <1>1, <1>4 DEF RunRefreshCommand, ParseRefreshOutput, CallerStep, Looping, Causes
<1>5. CASE Mint(c)
  BY <1>1, <1>5 DEF Mint, ExtractTokens, CallerStep, Looping, Causes
<1> QED  BY <1>2, <1>3, <1>4, <1>5 DEF Progress, CallerStep

\* A caller's step leaves the file and every other caller alone.
LEMMA OthersStay ==
  ASSUME TypeOK, NEW c \in Callers, CallerStep(c)
  PROVE  /\ file' = file
         /\ \A d \in Callers \ {c} :
              /\ pc'[d] = pc[d] /\ level'[d] = level[d] /\ attempt'[d] = attempt[d]
              /\ read'[d] = read[d] /\ carried'[d] = carried[d] /\ unseeded'[d] = unseeded[d]
              /\ tokens'[d] = tokens[d] /\ err'[d] = err[d] /\ late'[d] = late[d]
              /\ d \in cancelled' <=> d \in cancelled
<1>1. CASE \E l \in Levels : Step(c, l)
  BY <1>1 DEF Step, NotGated, Fail, Return, Goto, TypeOK, shared, seeding
<1>2. CASE ReloadL1(c)
  BY <1>2 DEF ReloadL1, Fail, Return, Goto, TypeOK, shared, seeding
<1>3. CASE SeedJar(c)
  BY <1>3 DEF SeedJar, TypeOK, shared, seeding
<1>4. CASE Seeded(c)
  BY <1>4 DEF Seeded, Return, Goto, TypeOK, shared, seeding
<1>5. CASE ReloadL4(c)
  BY <1>5 DEF ReloadL4, Fail, Return, Goto, TypeOK, shared, seeding
<1>6. CASE Check(c)
  BY <1>6 DEF Check, Fail, Return, Goto, TypeOK, shared, seeding
<1>7. CASE Try(c)
  BY <1>7 DEF Try, Goto, TypeOK, shared, seeding
<1>8. CASE Backoff(c)
  BY <1>8 DEF Backoff, Fail, Return, Goto, TypeOK, shared, seeding
<1>9. CASE FileMtime(c)
  BY <1>9 DEF FileMtime, Return, Goto, TypeOK, shared, seeding
<1>10. CASE StorageRead(c)
  BY <1>10 DEF StorageRead, Goto, TypeOK, shared, seeding
<1>11. CASE \E cause \in Causes : AttemptFails(c, cause)
  BY <1>11 DEF AttemptFails, Causes, Fail, Return, Goto, TypeOK, shared, seeding
<1>12. CASE Succeed(c)
  BY <1>12 DEF Succeed, Return, Goto, TypeOK, shared, seeding
<1>13. CASE \E e \in Sentinels \ GaveUp : Refuse(c, e)
  BY <1>13 DEF Refuse, Fail, Return, Goto, TypeOK, shared, seeding
<1>14. CASE Cancel(c)
  BY <1>14 DEF Cancel, TypeOK, shared, seeding
<1> QED  BY <1>1, <1>2, <1>3, <1>4, <1>5, <1>6, <1>7, <1>8, <1>9, <1>10, <1>11, <1>12,
              <1>13, <1>14 DEF CallerStep
-----------------------------------------------------------------------------
(* Types *)

TokenType == [version : Versions, stamp : Versions, csrf : BOOLEAN]

\* The number of attempts a rung has.
LEMMA AttemptsOfRungs == \A l \in Levels : MaxAttempts(l) \in {2, 3}
BY DEF MaxAttempts

\* A version of the file and 0 are stamps, and no tokens are tokens.
LEMMA TokensAreTokens ==
  ASSUME TypeOK
  PROVE  /\ NoTokens \in TokenType /\ file.version \in Versions /\ 0 \in Versions
         /\ \A v, w \in Versions, b \in BOOLEAN :
              [version |-> v, stamp |-> w, csrf |-> b] \in TokenType
<1>1. file.version \in Versions /\ 0 \in Versions
  BY LadderAssumption DEF TypeOK, Versions
<1> QED  BY <1>1 DEF NoTokens, TokenType

\* The errors a step gives are errors.
LEMMA ErrorsAreSentinels ==
  /\ \A l \in Levels : Exhausted(l) \in Sentinels
  /\ \A cause \in Causes : cause \subseteq Sentinels
BY DEF Sentinels, Exhausted, Causes

\* A call that returns tokens and errors of their types.
LEMMA ReturnTypes ==
  ASSUME TypeOK, NEW c \in Callers, NEW from, NEW t \in TokenType,
         NEW e \in SUBSET Sentinels, Return(c, from, t, e)
  PROVE  /\ pc' \in [Callers -> Pc] /\ err' \in [Callers -> SUBSET Sentinels]
         /\ tokens' \in [Callers -> TokenType]
BY DEF Return, Goto, TypeOK, TokenType, Pc

\* A file of a version is one, whatever is in it.
LEMMA FilesAreFiles ==
  ASSUME NEW v \in 1..MaxVersion
  PROVE  Files(v) \subseteq [version : 1..MaxVersion, state : States, cookies : SUBSET Cookies]
BY DEF Files, States

\* At the start the jar is empty, the file has its first version and nobody is in a rung.
LEMMA InitType == Init => TypeOK
<1> SUFFICES ASSUME Init PROVE TypeOK  OBVIOUS
<1>1. file \in [version : 1..MaxVersion, state : States, cookies : SUBSET Cookies]
  BY LadderAssumption, FilesAreFiles DEF Init
<1>2. tokens \in [Callers -> TokenType] /\ 0 \in Versions
  BY LadderAssumption DEF Init, NoTokens, TokenType, Versions
<1>3. wired \subseteq Levels /\ env \in RefreshCmds
  BY DEF Init, Wirings, Levels
<1>4. /\ jar \in [Cookies -> Versions] /\ read \in [Callers -> Versions]
      /\ carried \in [Callers -> SUBSET Cookies] /\ unseeded \in [Callers -> SUBSET Cookies]
      /\ beside \in [Callers -> SUBSET Callers] /\ cancelled \subseteq Callers
  BY <1>2 DEF Init
<1>5. /\ level \in [Callers -> Levels] /\ pc \in [Callers -> Pc]
      /\ attempt \in [Callers -> 0..3] /\ late \in [Callers -> 0..3]
  BY DEF Init, Levels, Pc
<1>6. /\ lastErr \in [Callers -> SUBSET Sentinels] /\ err \in [Callers -> SUBSET Sentinels]
  BY DEF Init
<1> QED  BY <1>1, <1>2, <1>3, <1>4, <1>5, <1>6 DEF TypeOK, TokenType

\* Every step of a caller, of its command and mint, and of the sibling process keeps
\* the types.
LEMMA NextType ==
  ASSUME TypeOK, \A c \in Callers : CallerCounts(c), OneLateAttempt, [Next]_vars
  PROVE  TypeOK'
<1>1. CASE UNCHANGED vars  BY <1>1 DEF vars, shared, seeding, TypeOK
<1>2. CASE SiblingWrites
  <2>1. file.version + 1 \in 1..MaxVersion
    BY <1>2, LadderAssumption DEF SiblingWrites, TypeOK
  <2>2. file' \in [version : 1..MaxVersion, state : States, cookies : SUBSET Cookies]
    BY <1>2, <2>1, FilesAreFiles DEF SiblingWrites
  <2> QED  BY <1>2, <2>2 DEF SiblingWrites, TypeOK, seeding
<1> SUFFICES ASSUME NEW c \in Callers, CallerStep(c) PROVE TypeOK'
  BY <1>1, <1>2, NextIsCallerStep
<1> DEFINE Answered == /\ pc' \in [Callers -> Pc] /\ err' \in [Callers -> SUBSET Sentinels]
                       /\ tokens' \in [Callers -> TokenType]
<1>3. \A from, e : e \subseteq Sentinels /\ Fail(c, from, e) => Answered
  BY ReturnTypes, TokensAreTokens DEF Fail
<1>4. \A from, t, e : t \in TokenType /\ e \subseteq Sentinels /\ Return(c, from, t, e)
                      => Answered
  BY ReturnTypes
<1>5. \A from, to : to \in Pc /\ Goto(c, from, to) /\ UNCHANGED <<tokens, err>> => Answered
  BY DEF Goto, TypeOK, TokenType
<1>6. /\ file.version \in Versions /\ 0 \in Versions /\ read[c] \in Versions
      /\ \A v, w \in Versions, b \in BOOLEAN :
           [version |-> v, stamp |-> w, csrf |-> b] \in TokenType
  BY TokensAreTokens DEF TypeOK
<1>7. /\ level[c] \in Levels /\ lastErr[c] \subseteq Sentinels
      /\ Exhausted(level[c]) \in Sentinels
  BY ErrorsAreSentinels DEF TypeOK
<1> HIDE DEF Answered
<1>8. CASE \E l \in Levels : Step(c, l)
  <2>1. PICK l \in Levels : Step(c, l)  BY <1>8
  <2>2. Answered
    <3>1. \A e \in {"NotImplemented", "Canceled", "NotConfigured", "NotMidSession"} :
            {e} \subseteq Sentinels
      BY DEF Sentinels
    <3> QED  BY <1>3, <1>5, <2>1, <3>1 DEF Step, NotGated, Pc
  <2>3. /\ level' = [level EXCEPT ![c] = l]
        /\ UNCHANGED <<shared, attempt, lastErr, read, seeding, cancelled, late>>
    BY <2>1 DEF Step
  <2> QED  BY <2>2, <2>3 DEF shared, seeding, Answered, TypeOK, TokenType
<1>9. CASE ReloadL1(c)
  <2>1. Answered
    <3>1. {"NotFound"} \subseteq Sentinels /\ {"Cause"} \subseteq Sentinels
      BY DEF Sentinels
    <3> QED  BY <1>3, <1>5, <1>9, <3>1 DEF ReloadL1, Pc
  <2>2. /\ read' \in [Callers -> Versions]
        /\ carried' \in [Callers -> SUBSET Cookies] /\ unseeded' \in [Callers -> SUBSET Cookies]
        /\ UNCHANGED <<shared, level, attempt, lastErr, cancelled, late>>
    BY <1>6, <1>9 DEF ReloadL1, TypeOK, seeding
  <2>3. beside' \in [Callers -> SUBSET Callers]
    BY <1>9 DEF ReloadL1, TypeOK, seeding
  <2> QED  BY <2>1, <2>2, <2>3 DEF shared, seeding, Answered, TypeOK, TokenType
<1>10. CASE SeedJar(c)  BY <1>6, <1>10 DEF SeedJar, TypeOK
<1>11. CASE Seeded(c)
  <2>1. Answered  BY <1>4, <1>6, <1>11 DEF Seeded
  <2> QED  BY <1>11, <2>1 DEF Seeded, shared, seeding, Answered, TypeOK, TokenType
<1>12. CASE ReloadL4(c)
  <2>1. Answered
    <3>1. {"Cause"} \subseteq Sentinels  BY DEF Sentinels
    <3>2. [version |-> 0, stamp |-> file.version, csrf |-> TRUE] \in TokenType
      BY <1>6
    <3>3. {} \subseteq Sentinels  OBVIOUS
    <3>4. CASE Fail(c, "begin", {"Cause"})  BY <1>3, <3>1, <3>4
    <3>5. CASE Return(c, "begin",
                      [version |-> 0, stamp |-> file.version, csrf |-> TRUE], {})
      BY <1>4, <3>2, <3>3, <3>5
    <3> QED  BY <1>12, <3>4, <3>5 DEF ReloadL4
  <2> QED  BY <1>12, <2>1 DEF ReloadL4, shared, seeding, Answered, TypeOK, TokenType
<1>13. CASE Check(c)
  <2>1. Answered
    <3>1. {"Canceled"} \subseteq Sentinels  BY DEF Sentinels
    <3> QED  BY <1>3, <1>5, <1>7, <1>13, <3>1 DEF Check, Pc
  <2> QED  BY <1>13, <2>1 DEF Check, shared, seeding, Answered, TypeOK, TokenType
<1>14. CASE Try(c)
  <2>1. attempt[c] + 1 \in 0..3
    BY <1>7, <1>14, AttemptsOfRungs DEF Try, Goto, CallerCounts, TypeOK
  <2>2. late[c] + 1 \in 0..3  BY DEF OneLateAttempt, TypeOK
  <2>3. Answered  BY <1>5, <1>14 DEF Try, Pc
  <2> QED  BY <1>14, <2>1, <2>2, <2>3 DEF Try, shared, seeding, Answered, TypeOK, TokenType
<1>15. CASE Backoff(c)
  <2>1. Answered
    <3>1. {"Canceled"} \subseteq Sentinels  BY DEF Sentinels
    <3> QED  BY <1>3, <1>5, <1>7, <1>15, <3>1 DEF Backoff, Pc
  <2> QED  BY <1>15, <2>1 DEF Backoff, shared, seeding, Answered, TypeOK, TokenType
<1>16. CASE FileMtime(c)
  <2>1. PICK stamp \in Versions :
          Return(c, "stat", [version |-> read[c], stamp |-> stamp, csrf |-> FALSE], {})
    BY <1>6, <1>16 DEF FileMtime
  <2>2. [version |-> read[c], stamp |-> stamp, csrf |-> FALSE] \in TokenType
    BY <1>6
  <2>3. Answered  BY <1>4, <2>1, <2>2
  <2> QED  BY <1>16, <2>3 DEF FileMtime, shared, seeding, Answered, TypeOK, TokenType
<1>17. CASE StorageRead(c)
  <2>1. Answered  BY <1>5, <1>17 DEF StorageRead, Pc
  <2> QED  BY <1>6, <1>17, <2>1 DEF StorageRead, shared, seeding, Answered, TypeOK, TokenType
<1>18. CASE \E cause \in Causes : AttemptFails(c, cause)
  <2>1. PICK cause \in Causes : AttemptFails(c, cause)  BY <1>18
  <2>2. cause \subseteq Sentinels  BY ErrorsAreSentinels
  <2>3. Answered  BY <1>3, <1>5, <1>7, <2>1, <2>2 DEF AttemptFails, Pc
  <2> QED  BY <2>1, <2>2, <2>3 DEF AttemptFails, shared, seeding, Answered, TypeOK, TokenType
<1>19. CASE Succeed(c)
  <2>1. Answered
    <3>1. [version |-> 0, stamp |-> file.version, csrf |-> TRUE] \in TokenType
      BY <1>6
    <3> QED  BY <1>4, <1>19, <3>1 DEF Succeed
  <2> QED  BY <1>19, <2>1 DEF Succeed, shared, seeding, Answered, TypeOK, TokenType
<1>20. CASE \E e \in Sentinels \ GaveUp : Refuse(c, e)
  <2>1. PICK e \in Sentinels : Refuse(c, e)  BY <1>20
  <2>2. Answered  BY <1>3, <2>1 DEF Refuse
  <2> QED  BY <2>1, <2>2 DEF Refuse, shared, seeding, Answered, TypeOK, TokenType
<1>21. CASE Cancel(c)  BY <1>21 DEF Cancel, shared, seeding, TypeOK
<1> QED
  BY <1>8, <1>9, <1>10, <1>11, <1>12, <1>13, <1>14, <1>15, <1>16, <1>17, <1>18, <1>19,
     <1>20, <1>21
  DEF CallerStep
-----------------------------------------------------------------------------
(* The attempts *)

\* The caller that moves stays within its count.
LEMMA CallerStepCounts ==
  ASSUME TypeOK, AttemptInv, NEW c \in Callers, CallerStep(c)
  PROVE  CallerCounts(c)' /\ late'[c] <= 1
<1>1. CallerCounts(c) /\ late[c] \in {0, 1} /\ attempt[c] \in 0..3
  BY DEF AttemptInv, OneLateAttempt, TypeOK
<1>2. CASE \E l \in Levels : Step(c, l)
  BY <1>1, AttemptsOfRungs, <1>2
  DEF Step, NotGated, Fail, Return, Goto, TypeOK, CallerCounts, MaxAttempts, Looping,
      shared, seeding
<1>3. CASE ReloadL1(c)
  BY <1>1, AttemptsOfRungs, <1>3
  DEF ReloadL1, Fail, Return, Goto, TypeOK, CallerCounts, MaxAttempts, Looping, shared, seeding
<1>4. CASE SeedJar(c)
  BY <1>1, AttemptsOfRungs, <1>4
  DEF SeedJar, TypeOK, CallerCounts, MaxAttempts, Looping, shared, seeding
<1>5. CASE Seeded(c)
  BY <1>1, AttemptsOfRungs, <1>5
  DEF Seeded, Return, Goto, TypeOK, CallerCounts, MaxAttempts, Looping, shared, seeding
<1>6. CASE ReloadL4(c)
  BY <1>1, AttemptsOfRungs, <1>6
  DEF ReloadL4, Fail, Return, Goto, TypeOK, CallerCounts, MaxAttempts, Looping, shared, seeding
<1>7. CASE Check(c)
  BY <1>1, AttemptsOfRungs, <1>7
  DEF Check, Fail, Return, Goto, TypeOK, CallerCounts, MaxAttempts, Looping, shared, seeding
<1>8. CASE Try(c)
  BY <1>1, AttemptsOfRungs, <1>8
  DEF Try, Goto, TypeOK, CallerCounts, MaxAttempts, Looping, shared, seeding
<1>9. CASE Backoff(c)
  BY <1>1, AttemptsOfRungs, <1>9
  DEF Backoff, Fail, Return, Goto, TypeOK, CallerCounts, MaxAttempts, Looping, shared, seeding
<1>10. CASE FileMtime(c)
  BY <1>1, AttemptsOfRungs, <1>10
  DEF FileMtime, Return, Goto, TypeOK, CallerCounts, MaxAttempts, Looping, shared, seeding
<1>11. CASE StorageRead(c)
  BY <1>1, AttemptsOfRungs, <1>11
  DEF StorageRead, Goto, TypeOK, CallerCounts, MaxAttempts, Looping, shared, seeding
<1>12. CASE level[c] \in Looping /\ \E cause \in Causes : AttemptFails(c, cause)
  BY <1>1, AttemptsOfRungs, <1>12
  DEF AttemptFails, Causes, Fail, Return, Goto, TypeOK, CallerCounts, MaxAttempts,
      Looping, shared, seeding
<1>13. CASE Succeed(c)
  BY <1>1, AttemptsOfRungs, <1>13
  DEF Succeed, Return, Goto, TypeOK, CallerCounts, MaxAttempts, Looping, shared, seeding
<1>14. CASE \E e \in Sentinels \ GaveUp : Refuse(c, e)
  BY <1>1, AttemptsOfRungs, <1>14
  DEF Refuse, Fail, Return, Goto, TypeOK, CallerCounts, MaxAttempts, Looping, shared, seeding
<1>15. CASE Cancel(c)
  BY <1>1, AttemptsOfRungs, <1>15
  DEF Cancel, TypeOK, CallerCounts, MaxAttempts, Looping, shared, seeding
<1> QED
  BY <1>2, <1>3, <1>4, <1>5, <1>6, <1>7, <1>8, <1>9, <1>10, <1>11, <1>12, <1>13, <1>14,
     <1>15
  DEF CallerStep

\* A call that gives up has made every attempt, or its context is done.
LEMMA CallerStepEarns ==
  ASSUME TypeOK, AttemptInv, NEW c \in Callers, CallerStep(c),
         pc'[c] = "done", err'[c] \cap GaveUp # {}
  PROVE  attempt'[c] = MaxAttempts(level[c])' \/ c \in cancelled'
<1>1. CallerCounts(c) /\ attempt[c] \in 0..3  BY DEF AttemptInv, TypeOK
<1> USE DEF GaveUp
<1>2. CASE \E l \in Levels : Step(c, l)
  BY <1>1, <1>2
  DEF Step, NotGated, Fail, Return, Goto, TypeOK, CallerCounts, MaxAttempts, Looping,
      NoTokens, shared, seeding
<1>3. CASE ReloadL1(c)
  BY <1>1, <1>3
  DEF ReloadL1, Fail, Return, Goto, TypeOK, CallerCounts, MaxAttempts, Looping,
      NoTokens, shared, seeding
<1>4. CASE SeedJar(c)
  BY <1>1, <1>4
  DEF SeedJar, TypeOK, CallerCounts, MaxAttempts, Looping, NoTokens, shared, seeding
<1>5. CASE Seeded(c)
  BY <1>1, <1>5
  DEF Seeded, Return, Goto, TypeOK, CallerCounts, MaxAttempts, Looping, NoTokens, shared, seeding
<1>6. CASE ReloadL4(c)
  BY <1>1, <1>6
  DEF ReloadL4, Fail, Return, Goto, TypeOK, CallerCounts, MaxAttempts, Looping,
      NoTokens, shared, seeding
<1>7. CASE Check(c)
  BY <1>1, <1>7
  DEF Check, Fail, Return, Goto, TypeOK, CallerCounts, MaxAttempts, Looping, NoTokens,
      shared, seeding
<1>8. CASE Try(c)
  BY <1>1, <1>8
  DEF Try, Goto, TypeOK, CallerCounts, MaxAttempts, Looping, NoTokens, shared, seeding
<1>9. CASE Backoff(c)
  BY <1>1, <1>9
  DEF Backoff, Fail, Return, Goto, TypeOK, CallerCounts, MaxAttempts, Looping, NoTokens,
      shared, seeding
<1>10. CASE FileMtime(c)
  BY <1>1, <1>10
  DEF FileMtime, Return, Goto, TypeOK, CallerCounts, MaxAttempts, Looping, NoTokens,
      shared, seeding
<1>11. CASE StorageRead(c)
  BY <1>1, <1>11
  DEF StorageRead, Goto, TypeOK, CallerCounts, MaxAttempts, Looping, NoTokens, shared, seeding
<1>12. CASE level[c] \in Looping /\ \E cause \in Causes : AttemptFails(c, cause)
  BY <1>1, <1>12
  DEF AttemptFails, Causes, Fail, Return, Goto, TypeOK, CallerCounts, MaxAttempts,
      Looping, NoTokens, shared, seeding
<1>13. CASE Succeed(c)
  BY <1>1, <1>13
  DEF Succeed, Return, Goto, TypeOK, CallerCounts, MaxAttempts, Looping, NoTokens, shared, seeding
<1>14. CASE \E e \in Sentinels \ GaveUp : Refuse(c, e)
  BY <1>1, <1>14
  DEF Refuse, Fail, Return, Goto, TypeOK, CallerCounts, MaxAttempts, Looping, NoTokens,
      shared, seeding
<1>15. CASE Cancel(c)
  BY <1>1, <1>15
  DEF Cancel, TypeOK, CallerCounts, MaxAttempts, Looping, NoTokens, shared, seeding
<1> QED
  BY <1>2, <1>3, <1>4, <1>5, <1>6, <1>7, <1>8, <1>9, <1>10, <1>11, <1>12, <1>13, <1>14,
     <1>15
  DEF CallerStep
\* The counts hold of every caller after every step.
LEMMA NextAttemptInv ==
  ASSUME TypeOK, AttemptInv, [Next]_vars
  PROVE  AttemptInv'
<1>1. CASE UNCHANGED vars
  BY <1>1
  DEF vars, shared, seeding, AttemptInv, OneLateAttempt, ExhaustedIsEarned, CallerCounts,
      MaxAttempts
<1>2. CASE SiblingWrites
  BY <1>2
  DEF SiblingWrites, AttemptInv, OneLateAttempt, ExhaustedIsEarned, CallerCounts,
      MaxAttempts
<1> SUFFICES ASSUME NEW c \in Callers, CallerStep(c) PROVE AttemptInv'
  BY <1>1, <1>2, NextIsCallerStep
<1>3. OneLateAttempt'
  BY CallerStepCounts, OthersStay DEF OneLateAttempt, AttemptInv
<1>4. ASSUME NEW d \in Callers PROVE CallerCounts(d)'
  <2>1. CASE d = c  BY <2>1, CallerStepCounts
  <2>2. CASE d # c  BY <2>2, OthersStay DEF AttemptInv, CallerCounts, MaxAttempts
  <2> QED  BY <2>1, <2>2
<1>5. ExhaustedIsEarned'
  <2> SUFFICES ASSUME NEW d \in Callers, pc'[d] = "done", err'[d] \cap GaveUp # {}
               PROVE  attempt'[d] = MaxAttempts(level[d])' \/ d \in cancelled'
    BY DEF ExhaustedIsEarned, GaveUp
  <2>1. CASE d = c  BY <2>1, CallerStepEarns
  <2>2. CASE d # c
    BY <2>2, OthersStay DEF AttemptInv, ExhaustedIsEarned, MaxAttempts, GaveUp
  <2> QED  BY <2>1, <2>2
<1> QED  BY <1>3, <1>4, <1>5 DEF AttemptInv

-----------------------------------------------------------------------------
(* The jar *)

\* The jar and the places of its seeders are touched by three steps only, and nobody who
\* seeds or has returned reads another version.
LEMMA JarSteps ==
  ASSUME TypeOK, NEW c \in Callers, CallerStep(c), ~ReloadL1(c), ~SeedJar(c), ~Seeded(c)
  PROVE  /\ UNCHANGED <<jar, carried, unseeded, beside>>
         /\ pc'[c] = "seed" <=> pc[c] = "seed"
         /\ pc[c] \in {"seed", "done"} => pc'[c] = pc[c] /\ read'[c] = read[c]
<1>1. CASE \E l \in Levels : Step(c, l)
  BY <1>1
  DEF Step, NotGated, Fail, Return, Goto, TypeOK, Looping, shared, seeding
<1>2. CASE ReloadL4(c)
  BY <1>2
  DEF ReloadL4, Fail, Return, Goto, TypeOK, Looping, shared, seeding
<1>3. CASE Check(c)
  BY <1>3
  DEF Check, Fail, Return, Goto, TypeOK, Looping, shared, seeding
<1>4. CASE Try(c)
  BY <1>4
  DEF Try, Goto, TypeOK, Looping, shared, seeding
<1>5. CASE Backoff(c)
  BY <1>5
  DEF Backoff, Fail, Return, Goto, TypeOK, Looping, shared, seeding
<1>6. CASE FileMtime(c)
  BY <1>6
  DEF FileMtime, Return, Goto, TypeOK, Looping, shared, seeding
<1>7. CASE StorageRead(c)
  BY <1>7
  DEF StorageRead, Goto, TypeOK, Looping, shared, seeding
<1>8. CASE level[c] \in Looping /\ \E cause \in Causes : AttemptFails(c, cause)
  BY <1>8
  DEF AttemptFails, Causes, Fail, Return, Goto, TypeOK, Looping, shared, seeding
<1>9. CASE Succeed(c)
  BY <1>9
  DEF Succeed, Return, Goto, TypeOK, Looping, shared, seeding
<1>10. CASE \E e \in Sentinels \ GaveUp : Refuse(c, e)
  BY <1>10
  DEF Refuse, Fail, Return, Goto, TypeOK, Looping, shared, seeding
<1>11. CASE Cancel(c)
  BY <1>11
  DEF Cancel, TypeOK, Looping, shared, seeding
<1> QED
  BY <1>1, <1>2, <1>3, <1>4, <1>5, <1>6, <1>7, <1>8, <1>9, <1>10, <1>11
  DEF CallerStep

\* A caller that seeds or has returned stays with the version it has read.
LEMMA ReadersStay ==
  ASSUME TypeOK, NEW c \in Callers, CallerStep(c)
  PROVE  \A d \in Callers : pc[d] \in {"seed", "done"} =>
           read'[d] = read[d] /\ pc'[d] \in {"seed", "done"}
<1>1. CASE ReloadL1(c)
  <2>1. pc[c] = "begin"
    BY <1>1 DEF ReloadL1, Fail, Return, Goto
  <2> QED  BY <2>1, OthersStay
<1>2. CASE SeedJar(c)
  <2>1. UNCHANGED <<pc, read>>
    BY <1>2 DEF SeedJar
  <2> QED  BY <2>1
<1>3. CASE Seeded(c)
  <2>1. pc'[c] = "done" /\ UNCHANGED read
    BY <1>3 DEF Seeded, Return, Goto, TypeOK
  <2> QED  BY <2>1, OthersStay
<1>4. CASE ~ReloadL1(c) /\ ~SeedJar(c) /\ ~Seeded(c)
  BY <1>4, JarSteps, OthersStay
<1> QED  BY <1>1, <1>2, <1>3, <1>4

\* What a caller that has read its profile knows of the jar: it is still empty of what it
\* has to set, and the others that seed are beside it.
LEMMA ReloadOpens ==
  ASSUME TypeOK, NEW c \in Callers, ReloadL1(c), pc'[c] = "seed"
  PROVE  /\ pc[c] = "begin" /\ jar' = jar /\ read'[c] = file.version
         /\ carried'[c] = unseeded'[c]
         /\ \A o \in Callers : o # c /\ pc[o] = "seed" => o \in beside'[c] /\ c \in beside'[o]
         /\ \A o \in beside'[c] : o \in Callers /\ pc[o] = "seed"
         /\ \A o \in Callers \ {c} : /\ beside[o] \subseteq beside'[o]
                                    /\ beside'[o] \subseteq beside[o] \cup {c}
<1>1. /\ pc[c] = "begin" /\ jar' = jar /\ read'[c] = file.version
      /\ carried'[c] = file.cookies /\ unseeded'[c] = file.cookies
  BY DEF ReloadL1, Fail, Return, Goto, shared, TypeOK
<1>2. beside' = [o \in Callers |-> IF o = c THEN {d \in Callers : pc[d] = "seed"}
                                   ELSE IF o \in {d \in Callers : pc[d] = "seed"}
                                        THEN beside[o] \cup {c} ELSE beside[o]]
  BY DEF ReloadL1, Fail, Return, Goto, TypeOK
<1>3. \A o \in Callers \ {c} : beside'[o] = IF pc[o] = "seed" THEN beside[o] \cup {c} ELSE beside[o]
  BY <1>2
<1>4. beside'[c] = {d \in Callers : pc[d] = "seed"}
  BY <1>2
<1> QED  BY <1>1, <1>3, <1>4

\* A reload that fails leaves the jar, and all who seed, alone.
LEMMA ReloadFails ==
  ASSUME TypeOK, NEW c \in Callers, ReloadL1(c), pc'[c] # "seed"
  PROVE  pc[c] = "begin" /\ UNCHANGED <<jar, carried, unseeded, beside, read>>
BY DEF ReloadL1, Fail, Return, Goto, shared, seeding, TypeOK

\* A reload keeps a cookie in the jar until a newer version of it comes, or one that is
\* read beside it.
LEMMA NextJarInv ==
  ASSUME TypeOK, JarInv, StampInv, [Next]_vars
  PROVE  JarInv'
<1> USE DEF JarInv
<1>1. CASE UNCHANGED vars
  BY <1>1 DEF vars, shared, seeding, SeedersKeepTheirs, SeedersAreKnown, SetIsKept
<1>2. CASE SiblingWrites
  BY <1>2 DEF SiblingWrites, seeding, SeedersKeepTheirs, SeedersAreKnown, SetIsKept
<1> SUFFICES ASSUME NEW c \in Callers, CallerStep(c) PROVE JarInv'
  BY <1>1, <1>2, NextIsCallerStep
<1>3. \A d \in Callers : read[d] \in Nat /\ read[d] <= file.version
  BY LadderAssumption DEF TypeOK, Versions, StampInv, ReadIsPast
<1>4. file.version \in Nat
  BY LadderAssumption DEF TypeOK
<1>5. CASE ReloadL1(c) /\ pc'[c] = "seed"
  <2>1. SeedersKeepTheirs'
    <3> SUFFICES ASSUME NEW d \in Callers
                 PROVE  /\ unseeded'[d] # {} => pc'[d] = "seed"
                        /\ carried'[d] # {} => pc'[d] \in {"seed", "done"}
                        /\ \A o \in beside'[d] : pc'[o] \in {"seed", "done"}
      BY DEF SeedersKeepTheirs
    <3>1. /\ beside[d] \subseteq Callers
          /\ \A o \in beside[d] : pc[o] \in {"seed", "done"}
      BY DEF SeedersKeepTheirs, TypeOK
    <3>2. \A o \in Callers : pc[o] \in {"seed", "done"} => pc'[o] \in {"seed", "done"}
      BY ReadersStay
    <3>3. CASE d = c
      <4>1. \A o \in beside'[c] : o \in Callers /\ pc[o] = "seed"
        BY <1>5, ReloadOpens
      <4> QED  BY <1>5, <3>2, <3>3, <4>1
    <3>4. CASE d # c
      <4>1. /\ unseeded'[d] = unseeded[d] /\ carried'[d] = carried[d] /\ pc'[d] = pc[d]
        BY <3>4, OthersStay
      <4>2. beside'[d] \subseteq beside[d] \cup {c}
        BY <1>5, <3>4, ReloadOpens
      <4>3. \A o \in beside'[d] : pc'[o] \in {"seed", "done"}
        BY <1>5, <3>1, <3>2, <4>2
      <4> QED  BY <4>1, <4>3 DEF SeedersKeepTheirs
    <3> QED  BY <3>3, <3>4
  <2>2. SeedersAreKnown'
    <3> SUFFICES ASSUME NEW d \in Callers, NEW o \in Callers, d # o,
                        pc'[d] = "seed" \/ carried'[d] # {}, pc'[o] = "seed"
                 PROVE  o \in beside'[d] \/ read'[o] >= read'[d]
      BY DEF SeedersAreKnown
    <3>1. CASE d = c
      BY <1>5, <3>1, ReloadOpens, OthersStay
    <3>2. CASE d # c /\ o = c
      <4>1. read'[d] = read[d] /\ read'[o] = file.version
        BY <1>5, <3>2, ReloadOpens, OthersStay
      <4> QED  BY <1>3, <1>4, <4>1
    <3>3. CASE d # c /\ o # c
      <4>1. /\ pc'[d] = pc[d] /\ carried'[d] = carried[d] /\ pc'[o] = pc[o]
            /\ read'[d] = read[d] /\ read'[o] = read[o]
        BY <3>3, OthersStay
      <4>2. o \in beside[d] \/ read[o] >= read[d]
        BY <4>1 DEF SeedersAreKnown
      <4>3. beside[d] \subseteq beside'[d]
        BY <1>5, <3>3, ReloadOpens
      <4> QED  BY <4>1, <4>2, <4>3
    <3> QED  BY <3>1, <3>2, <3>3
  <2>3. SetIsKept'
    <3> SUFFICES ASSUME NEW d \in Callers, NEW n \in carried'[d] \ unseeded'[d]
                 PROVE  jar'[n] >= read'[d] \/ \E o \in beside'[d] : jar'[n] = read'[o]
      BY DEF SetIsKept
    <3>1. d # c
      BY <1>5, ReloadOpens
    <3>2. /\ carried'[d] = carried[d] /\ unseeded'[d] = unseeded[d] /\ read'[d] = read[d]
          /\ beside[d] \subseteq beside'[d] /\ jar' = jar
      BY <1>5, <3>1, ReloadOpens, OthersStay
    <3>3. jar[n] >= read[d] \/ \E o \in beside[d] : jar[n] = read[o]
      BY <3>2 DEF SetIsKept
    <3>4. \A o \in beside[d] : read'[o] = read[o]
      BY ReadersStay DEF SeedersKeepTheirs, TypeOK
    <3> QED  BY <3>2, <3>3, <3>4
  <2> QED  BY <2>1, <2>2, <2>3
<1>6. CASE SeedJar(c)
  <2>1. PICK n \in unseeded[c] :
          /\ jar' = [jar EXCEPT ![n] = read[c]]
          /\ unseeded' = [unseeded EXCEPT ![c] = @ \ {n}]
          /\ pc[c] = "seed" /\ UNCHANGED <<pc, read, carried, beside>>
    BY <1>6 DEF SeedJar
  <2>2. SeedersKeepTheirs' /\ SeedersAreKnown'
    BY <2>1 DEF SeedersKeepTheirs, SeedersAreKnown, TypeOK
  <2>3. SetIsKept'
    <3> SUFFICES ASSUME NEW d \in Callers, NEW m \in carried[d] \ unseeded'[d]
                 PROVE  jar'[m] >= read[d] \/ \E o \in beside[d] : jar'[m] = read[o]
      BY <2>1 DEF SetIsKept
    <3>1. m \in Cookies /\ n \in Cookies
      BY DEF TypeOK
    <3>2. CASE m = n
      <4>1. jar'[m] = read[c]
        BY <2>1, <3>1, <3>2 DEF TypeOK
      <4>2. CASE d = c  BY <1>3, <4>1, <4>2
      <4>3. CASE d # c
        <5>1. c \in beside[d] \/ read[c] >= read[d]
          BY <2>1, <4>3 DEF SeedersAreKnown
        <5> QED  BY <4>1, <5>1
      <4> QED  BY <4>2, <4>3
    <3>3. CASE m # n
      <4>1. jar'[m] = jar[m] /\ m \notin unseeded[d]
        BY <2>1, <3>1, <3>3 DEF TypeOK
      <4> QED  BY <4>1 DEF SetIsKept
    <3> QED  BY <3>2, <3>3
  <2> QED  BY <2>2, <2>3
<1>7. CASE \/ ReloadL1(c) /\ pc'[c] # "seed"
           \/ Seeded(c)
           \/ ~ReloadL1(c) /\ ~SeedJar(c) /\ ~Seeded(c)
  <2>1. /\ UNCHANGED <<jar, carried, unseeded, beside>>
        /\ pc'[c] = "seed" => pc[c] = "seed"
    BY <1>7, ReloadFails, JarSteps DEF Seeded, Return, Goto, shared, seeding, TypeOK
  <2>2. pc[c] = "seed" /\ pc'[c] # "seed" => unseeded[c] = {}
    BY <1>7, ReloadFails, JarSteps DEF Seeded
  <2>3. \A d \in Callers : pc'[d] = "seed" => pc[d] = "seed"
    BY <2>1, OthersStay
  <2>4. SeedersKeepTheirs'
    BY <2>1, <2>2, ReadersStay, OthersStay DEF SeedersKeepTheirs, TypeOK
  <2>5. SeedersAreKnown'
    <3> SUFFICES ASSUME NEW d \in Callers, NEW o \in Callers, d # o,
                        pc'[d] = "seed" \/ carried[d] # {}, pc'[o] = "seed"
                 PROVE  o \in beside[d] \/ read'[o] >= read'[d]
      BY <2>1 DEF SeedersAreKnown
    <3>1. pc[o] = "seed" /\ (pc[d] = "seed" \/ carried[d] # {})
      BY <2>3
    <3>2. o \in beside[d] \/ read[o] >= read[d]
      BY <3>1 DEF SeedersAreKnown
    <3>3. read'[o] = read[o] /\ read'[d] = read[d]
      BY <3>1, ReadersStay DEF SeedersKeepTheirs
    <3> QED  BY <3>2, <3>3
  <2>6. SetIsKept'
    <3> SUFFICES ASSUME NEW d \in Callers, NEW n \in carried[d] \ unseeded[d]
                 PROVE  jar[n] >= read'[d] \/ \E o \in beside[d] : jar[n] = read'[o]
      BY <2>1 DEF SetIsKept
    <3>1. jar[n] >= read[d] \/ \E o \in beside[d] : jar[n] = read[o]
      BY DEF SetIsKept
    <3>2. read'[d] = read[d] /\ \A o \in beside[d] : read'[o] = read[o]
      BY ReadersStay DEF SeedersKeepTheirs, TypeOK
    <3> QED  BY <3>1, <3>2
  <2> QED  BY <2>4, <2>5, <2>6
<1> QED  BY <1>5, <1>6, <1>7

-----------------------------------------------------------------------------
(* The stamp *)

\* What a caller reads or returns is not ahead of the file.
LEMMA CallerStepStamps ==
  ASSUME TypeOK, StampInv, NEW c \in Callers, CallerStep(c)
  PROVE  /\ read'[c] <= file.version
         /\ tokens'[c].version > 0 =>
              tokens'[c].stamp = 0 \/ tokens'[c].stamp >= tokens'[c].version
<1>1. /\ read[c] \in Nat /\ file.version \in Nat /\ read[c] <= file.version
      /\ tokens[c].version > 0 =>
           tokens[c].stamp = 0 \/ tokens[c].stamp >= tokens[c].version
  BY LadderAssumption DEF TypeOK, Versions, StampInv, ReadIsPast, StampIsNotOlder
<1>2. CASE \E l \in Levels : Step(c, l)
  BY <1>1, <1>2
  DEF Step, NotGated, Fail, Return, Goto, TypeOK, NoTokens, shared, seeding
<1>3. CASE ReloadL1(c)
  BY <1>1, <1>3
  DEF ReloadL1, Fail, Return, Goto, TypeOK, NoTokens, shared, seeding
<1>4. CASE SeedJar(c)
  BY <1>1, <1>4
  DEF SeedJar, TypeOK, NoTokens, shared, seeding
<1>5. CASE Seeded(c)
  BY <1>1, <1>5
  DEF Seeded, Return, Goto, TypeOK, NoTokens, shared, seeding
<1>6. CASE ReloadL4(c)
  BY <1>1, <1>6
  DEF ReloadL4, Fail, Return, Goto, TypeOK, NoTokens, shared, seeding
<1>7. CASE Check(c)
  BY <1>1, <1>7
  DEF Check, Fail, Return, Goto, TypeOK, NoTokens, shared, seeding
<1>8. CASE Try(c)
  BY <1>1, <1>8
  DEF Try, Goto, TypeOK, NoTokens, shared, seeding
<1>9. CASE Backoff(c)
  BY <1>1, <1>9
  DEF Backoff, Fail, Return, Goto, TypeOK, NoTokens, shared, seeding
<1>10. CASE FileMtime(c)
  BY <1>1, <1>10
  DEF FileMtime, Return, Goto, TypeOK, NoTokens, shared, seeding
<1>11. CASE StorageRead(c)
  BY <1>1, <1>11
  DEF StorageRead, Goto, TypeOK, NoTokens, shared, seeding
<1>12. CASE level[c] \in Looping /\ \E cause \in Causes : AttemptFails(c, cause)
  BY <1>1, <1>12
  DEF AttemptFails, Causes, Fail, Return, Goto, TypeOK, NoTokens, shared, seeding
<1>13. CASE Succeed(c)
  BY <1>1, <1>13
  DEF Succeed, Return, Goto, TypeOK, NoTokens, shared, seeding
<1>14. CASE \E e \in Sentinels \ GaveUp : Refuse(c, e)
  BY <1>1, <1>14
  DEF Refuse, Fail, Return, Goto, TypeOK, NoTokens, shared, seeding
<1>15. CASE Cancel(c)
  BY <1>1, <1>15
  DEF Cancel, TypeOK, NoTokens, shared, seeding
<1> QED
  BY <1>2, <1>3, <1>4, <1>5, <1>6, <1>7, <1>8, <1>9, <1>10, <1>11, <1>12, <1>13, <1>14,
     <1>15
  DEF CallerStep

\* Stamps and reads stay behind the file, which only moves on.
LEMMA NextStampInv ==
  ASSUME TypeOK, StampInv, [Next]_vars
  PROVE  StampInv'
<1>1. CASE UNCHANGED vars
  BY <1>1 DEF vars, shared, seeding, StampInv, ReadIsPast, StampIsNotOlder
<1>2. CASE SiblingWrites
  <2>1. /\ \A c \in Callers : read[c] \in Nat
        /\ file.version \in Nat /\ file'.version = file.version + 1
    BY <1>2, LadderAssumption DEF SiblingWrites, Files, TypeOK, Versions
  <2>2. UNCHANGED <<read, tokens>>  BY <1>2 DEF SiblingWrites
  <2> QED  BY <2>1, <2>2 DEF StampInv, ReadIsPast, StampIsNotOlder
<1> SUFFICES ASSUME NEW c \in Callers, CallerStep(c) PROVE StampInv'
  BY <1>1, <1>2, NextIsCallerStep
<1> QED
  BY CallerStepStamps, OthersStay DEF StampInv, ReadIsPast, StampIsNotOlder

-----------------------------------------------------------------------------
(* The theorems *)

\* Nobody has called and nothing was read.
LEMMA InitLadderInv == Init => LadderInv
<1> SUFFICES ASSUME Init PROVE LadderInv  OBVIOUS
<1>1. AttemptInv
  BY DEF Init, AttemptInv, OneLateAttempt, ExhaustedIsEarned, CallerCounts, MaxAttempts
<1>2. JarInv  BY DEF Init, JarInv, SeedersKeepTheirs, SeedersAreKnown, SetIsKept
<1>3. StampInv
  <2>1. file.version \in 1..MaxVersion  BY InitType DEF TypeOK
  <2> QED  BY <2>1 DEF Init, StampInv, ReadIsPast, StampIsNotOlder, NoTokens
<1> QED  BY <1>1, <1>2, <1>3, InitType DEF LadderInv

\* How far each caller got, what it read and what it put in the jar agree, for every
\* number of callers, cookies and rewrites of the file.
THEOREM LadderInvariant == Spec => []LadderInv
<1>1. LadderInv /\ [Next]_vars => LadderInv'
  BY NextType, NextAttemptInv, NextJarInv, NextStampInv DEF LadderInv, AttemptInv
<1> QED  BY <1>1, InitLadderInv, PTL DEF Spec

\* A done context buys at most the attempt it raced with, and a rung is exhausted only
\* after all its attempts or under a done context (the loops of ReloadL2_0WithMtime,
\* ReloadL2_5 and ReloadL3).
THEOREM AttemptsAreWithinBudget == Spec => []AttemptsAreCounted
<1>1. LadderInv => AttemptsAreCounted
  BY DEF LadderInv, AttemptInv, AttemptsAreCounted
<1> QED  BY <1>1, LadderInvariant, PTL

\* What a reload put in the shared jar is there when it has returned and ever after, or
\* was replaced: by a version as new, or by that of a reload whose seedJar ran beside it.
THEOREM JarKeepsReloads == Spec => []ReloadsAreKept
<1>1. LadderInv => ReloadsAreKept
  BY DEF LadderInv, JarInv, SetIsKept, SeedersKeepTheirs, ReloadsAreKept
<1> QED  BY <1>1, LadderInvariant, PTL

\* ReadStorage and fileMtime look at the file one after the other: the stamp may be
\* newer than the content, never older.
THEOREM StampsAreNotOlder == Spec => []StampIsNotOlder
<1>1. LadderInv => StampIsNotOlder  BY DEF LadderInv, StampInv
<1> QED  BY <1>1, LadderInvariant, PTL
=============================================================================
