------------------------------- MODULE Ladder -------------------------------
(***************************************************************************)
(* internal/auth/refresh: WiredLadder.Step and the rungs below it, called  *)
(* by several goroutines that share one cookie jar, next to a process that *)
(* rewrites storage_state.json.                                            *)
(*                                                                         *)
(* The file is a version: its content and its mtime are both that number.  *)
(* A version carries some of the cookies, and a cookie of version v has    *)
(* the value v; those that SetCookies would not take (without a domain, or *)
(* expired) are not among them.  An error is the set of the sentinels      *)
(* errors.Is finds in it.                                                  *)
(***************************************************************************)
EXTENDS Naturals, FiniteSets

CONSTANTS
  Callers,
  Cookies,      \* the names of the cookies
  MaxVersion    \* bound on how often the file is rewritten

ASSUME LadderAssumption == MaxVersion \in Nat \ {0}

VARIABLES
  file,         \* [version, state, cookies] of storage_state.json
  jar,          \* the version of each cookie in the shared jar, 0 when absent
  wired,        \* the rungs that have an implementation
  env,          \* what the operator set for L2.5
  level,        \* the rung each caller asks for
  pc, attempt,
  lastErr,      \* the error of the last attempt
  read,         \* the version the caller has read
  carried,      \* the cookies of the profile each caller has read for the jar
  unseeded,     \* those of them that seedJar has still to set
  cancelled,    \* the callers whose context is done
  tokens,       \* what Step returned: the version read and the stamp
  err,
  late,         \* history: attempts begun after the context was done
  beside        \* history: the callers that seeded while this one did

shared  == <<file, jar, wired, env>>
seeding == <<carried, unseeded, beside>>
vars == <<shared, level, pc, attempt, lastErr, read, seeding, cancelled,
          tokens, err, late>>

Levels    == {"L1", "L2_0", "L2_5", "L3", "L4"}
Looping   == {"L2_0", "L2_5", "L3"}
Sentinels == {"NotImplemented", "Canceled", "Missing", "NotFound", "NotConfigured",
              "NotMidSession", "Malformed", "Exhausted", "Redirect", "TokenMissing",
              "Cause"}
Pc        == {"idle", "check", "begin", "trying", "stat", "backoff", "seed", "done"}
States    == {"good", "bad", "missing"}
NoTokens  == [version |-> 0, stamp |-> 0, csrf |-> FALSE]

\* What the embedding wired: all rungs, or the command alone.
Wirings == {Levels, {"L2_5"}}

\* What the operator set for the command.
RefreshCmds == {"none", "batch", "midsession"}

\* What storage_state.json may be: a profile with some cookies, or no profile.
Files(v) ==
  {[version |-> v, state |-> "good", cookies |-> some] : some \in SUBSET Cookies}
    \cup {[version |-> v, state |-> s, cookies |-> {}] : s \in States \ {"good"}}

MaxAttempts(l) == IF l = "L2_0" THEN 3 ELSE 2

\* What a rung wraps its last error in.
Exhausted(l) == IF l = "L3" THEN "TokenMissing" ELSE "Exhausted"

Init ==
  /\ file \in Files(1)
  /\ jar = [n \in Cookies |-> 0]
  /\ wired \in Wirings
  /\ env \in RefreshCmds
  /\ level = [c \in Callers |-> "L1"]
  /\ pc = [c \in Callers |-> "idle"]
  /\ attempt = [c \in Callers |-> 0]
  /\ lastErr = [c \in Callers |-> {}]
  /\ read = [c \in Callers |-> 0]
  /\ carried = [c \in Callers |-> {}]
  /\ unseeded = [c \in Callers |-> {}]
  /\ cancelled = {}
  /\ tokens = [c \in Callers |-> NoTokens]
  /\ err = [c \in Callers |-> {}]
  /\ late = [c \in Callers |-> 0]
  /\ beside = [c \in Callers |-> {}]

Goto(c, from, to) == pc[c] = from /\ pc' = [pc EXCEPT ![c] = to]

Return(c, from, t, e) ==
  /\ Goto(c, from, "done")
  /\ tokens' = [tokens EXCEPT ![c] = t]
  /\ err' = [err EXCEPT ![c] = e]

Fail(c, from, e) == Return(c, from, NoTokens, e)

-----------------------------------------------------------------------------
(* WiredLadder.Step *)

\* The gate of ReloadL2_5: both variables of the environment.
NotGated(c) ==
  /\ env # "midsession"
  /\ Fail(c, "idle", IF env = "none" THEN {"NotConfigured"} ELSE {"NotMidSession"})

\* The call, and the tests each rung makes before its first attempt.
Step(c, l) ==
  /\ pc[c] = "idle"
  /\ level' = [level EXCEPT ![c] = l]
  /\ \/ /\ l \notin wired
        /\ Fail(c, "idle", {"NotImplemented"})
     \/ /\ l \in wired \ {"L4"}
        /\ c \in cancelled
        /\ Fail(c, "idle", {"Canceled"})
     \/ l = "L2_5" /\ c \notin cancelled /\ NotGated(c)
     \/ /\ l \in wired
        /\ c \in cancelled => l = "L4"
        /\ l = "L2_5" => env = "midsession"
        /\ Goto(c, "idle", IF l \in Looping THEN "check" ELSE "begin")
        /\ UNCHANGED <<tokens, err>>
  /\ UNCHANGED <<shared, attempt, lastErr, read, seeding, cancelled, late>>

\* L4Reload, the hook: tokens or an error of its own.
ReloadL4(c) ==
  /\ level[c] = "L4"
  /\ \/ Return(c, "begin", [version |-> 0, stamp |-> file.version, csrf |-> TRUE], {})
     \/ Fail(c, "begin", {"Cause"})
  /\ UNCHANGED <<shared, level, attempt, lastErr, read, seeding, cancelled, late>>

-----------------------------------------------------------------------------
(* ReloadL1 *)

\* The profile is read.  On an error the jar is left as it is.
ReloadL1(c) ==
  /\ level[c] = "L1"
  /\ \/ /\ file.state = "good"
        /\ Goto(c, "begin", "seed")
        /\ read' = [read EXCEPT ![c] = file.version]
        /\ carried' = [carried EXCEPT ![c] = file.cookies]
        /\ unseeded' = [unseeded EXCEPT ![c] = file.cookies]
        /\ LET others == {o \in Callers : pc[o] = "seed"} IN
           beside' = [o \in Callers |-> IF o = c THEN others
                                       ELSE IF o \in others THEN beside[o] \cup {c}
                                       ELSE beside[o]]
        /\ UNCHANGED <<tokens, err>>
     \/ /\ file.state # "good"
        /\ Fail(c, "begin", IF file.state = "missing" THEN {"NotFound"} ELSE {"Cause"})
        /\ UNCHANGED <<read, seeding>>
  /\ UNCHANGED <<shared, level, attempt, lastErr, cancelled, late>>

\* Seeded fault: a cookie that the jar has already is not replaced.
FaultSeedJar(c) ==
  \E n \in unseeded[c] :
    /\ jar' = [jar EXCEPT ![n] = IF @ = 0 THEN read[c] ELSE @]
    /\ unseeded' = [unseeded EXCEPT ![c] = @ \ {n}]
    /\ pc[c] = "seed"
    /\ UNCHANGED <<file, wired, env, level, pc, attempt, lastErr, read, carried, beside,
                   cancelled, tokens, err, late>>

\* seedJar: one SetCookies per cookie, each under the jar's lock by itself.  The jar is
\* not cleared: a cookie that the profile does not carry stays as it is.
SeedJar(c) ==
  \E n \in unseeded[c] :
    /\ jar' = [jar EXCEPT ![n] = read[c]]
    /\ unseeded' = [unseeded EXCEPT ![c] = @ \ {n}]
    /\ pc[c] = "seed"
    /\ UNCHANGED <<file, wired, env, level, pc, attempt, lastErr, read, carried, beside,
                   cancelled, tokens, err, late>>

\* The jar is seeded: the tokens carry the profile read and the time of now.
Seeded(c) ==
  /\ unseeded[c] = {}
  /\ Return(c, "seed", [version |-> read[c], stamp |-> file.version, csrf |-> FALSE], {})
  /\ UNCHANGED <<shared, level, attempt, lastErr, read, seeding, cancelled, late>>

-----------------------------------------------------------------------------
(* The attempt loops of ReloadL2_0WithMtime, ReloadL2_5 and ReloadL3 *)

\* The top of the loop looks at the context; L2.5 and L3 report a cancellation
\* after a failed attempt as that failure.
Check(c) ==
  /\ IF c \in cancelled
     THEN Fail(c, "check", IF level[c] = "L2_0" \/ lastErr[c] = {} THEN {"Canceled"}
                           ELSE {Exhausted(level[c])} \cup lastErr[c])
     ELSE Goto(c, "check", "begin") /\ UNCHANGED <<tokens, err>>
  /\ UNCHANGED <<shared, level, attempt, lastErr, read, seeding, cancelled, late>>

\* ReadStorage, the command or the mint is started.
Try(c) ==
  /\ level[c] \in Looping
  /\ Goto(c, "begin", "trying")
  /\ attempt' = [attempt EXCEPT ![c] = @ + 1]
  /\ late' = [late EXCEPT ![c] = IF c \in cancelled THEN @ + 1 ELSE @]
  /\ UNCHANGED <<shared, level, lastErr, read, seeding, cancelled, tokens, err>>

\* Seeded fault: one attempt too few before giving up.
FaultAttemptFails(c, cause) ==
  /\ lastErr' = [lastErr EXCEPT ![c] = cause]
  /\ IF attempt[c] < MaxAttempts(level[c]) - 1
     THEN Goto(c, "trying", "backoff") /\ UNCHANGED <<tokens, err>>
     ELSE Fail(c, "trying", {Exhausted(level[c])} \cup cause)
  /\ UNCHANGED <<shared, level, attempt, read, seeding, cancelled, late>>

\* A failed attempt: back off, or give up after the last.
AttemptFails(c, cause) ==
  /\ lastErr' = [lastErr EXCEPT ![c] = cause]
  /\ IF attempt[c] < MaxAttempts(level[c])
     THEN Goto(c, "trying", "backoff") /\ UNCHANGED <<tokens, err>>
     ELSE Fail(c, "trying", {Exhausted(level[c])} \cup cause)
  /\ UNCHANGED <<shared, level, attempt, read, seeding, cancelled, late>>

\* The timer and the context race: a ready timer may win over a done context.
Backoff(c) ==
  /\ \/ Goto(c, "backoff", "check") /\ UNCHANGED <<tokens, err>>
     \/ /\ c \in cancelled
        /\ Fail(c, "backoff", IF level[c] = "L2_0" THEN {"Canceled"}
                              ELSE {Exhausted(level[c])} \cup lastErr[c])
  /\ UNCHANGED <<shared, level, attempt, lastErr, read, seeding, cancelled, late>>

\* DiskStorage.ReadStorage: the file is read, then asked for its mtime.  Without a
\* file there is no second attempt.
ReadStorage(c) ==
  /\ level[c] = "L2_0"
  /\ \/ /\ c \in cancelled
        /\ AttemptFails(c, {"Canceled"})
     \/ /\ c \notin cancelled /\ file.state = "bad"
        /\ AttemptFails(c, {"Cause"})
     \/ /\ c \notin cancelled /\ file.state = "missing"
        /\ Fail(c, "trying", {"Missing"})
        /\ UNCHANGED <<shared, level, attempt, lastErr, read, seeding, cancelled,
                       late>>
     \/ /\ c \notin cancelled /\ file.state = "good"
        /\ Goto(c, "trying", "stat")
        /\ read' = [read EXCEPT ![c] = file.version]
        /\ UNCHANGED <<shared, level, attempt, lastErr, seeding, cancelled, tokens,
                       err, late>>

\* Seeded fault: the mtime of an earlier version is reported.
FaultFileMtime(c) ==
  /\ Return(c, "stat", [version |-> read[c], stamp |-> 1, csrf |-> FALSE], {})
  /\ UNCHANGED <<shared, level, attempt, lastErr, read, seeding, cancelled, late>>

\* fileMtime: the zero time when the file is gone by now.
FileMtime(c) ==
  /\ LET stamp == IF file.state = "missing" THEN 0 ELSE file.version IN
     Return(c, "stat", [version |-> read[c], stamp |-> stamp, csrf |-> FALSE], {})
  /\ UNCHANGED <<shared, level, attempt, lastErr, read, seeding, cancelled, late>>

Succeed(c) ==
  /\ Return(c, "trying", [version |-> 0, stamp |-> file.version, csrf |-> TRUE], {})
  /\ UNCHANGED <<shared, level, attempt, lastErr, read, seeding, cancelled, late>>

\* An answer that another attempt would not change.
Refuse(c, e) ==
  /\ Fail(c, "trying", {e})
  /\ UNCHANGED <<shared, level, attempt, lastErr, read, seeding, cancelled, late>>

\* parseRefreshOutput: all three fields and nothing else, or no second attempt.
ParseRefreshOutput(c) == Succeed(c) \/ Refuse(c, "Malformed")

\* runRefreshCommand ends by itself.
RunRefreshCommand(c) ==
  /\ level[c] = "L2_5"
  /\ ParseRefreshOutput(c) \/ AttemptFails(c, {"Cause"})

\* extractCSRFAndSession: a page without one of the tokens is tried again.
ExtractTokens(c) == Succeed(c) \/ AttemptFails(c, {"Cause"})

\* The mint ends by itself: a page, a redirect off the allowlist, or another error.
Mint(c) ==
  /\ level[c] = "L3"
  /\ ExtractTokens(c) \/ Refuse(c, "Redirect") \/ AttemptFails(c, {"Cause"})

\* Seeded fault: the command is started without the context.
FaultKilled(c) == FALSE /\ AttemptFails(c, {"Cause"})

\* The context kills the command, or ends the mint.  A command that was running is
\* reported by its signal, not by the context's error.
Killed(c) ==
  /\ level[c] \in {"L2_5", "L3"}
  /\ c \in cancelled
  /\ \E cause \in IF level[c] = "L2_5" THEN {{"Cause"}, {"Canceled"}} ELSE {{"Canceled"}} :
       AttemptFails(c, cause)

-----------------------------------------------------------------------------
(* The environment *)

Cancel(c) ==
  /\ c \notin cancelled
  /\ pc[c] # "done"
  /\ cancelled' = cancelled \cup {c}
  /\ UNCHANGED <<shared, level, pc, attempt, lastErr, read, seeding, tokens, err,
                 late>>

\* Another process rewrites, breaks or removes the file.
SiblingWrites ==
  /\ file.version < MaxVersion
  /\ file' \in Files(file.version + 1)
  /\ UNCHANGED <<jar, wired, env, level, pc, attempt, lastErr, read, seeding,
                 cancelled, tokens, err, late>>

Progress(c) ==
  \/ ReloadL1(c) \/ SeedJar(c) \/ Seeded(c) \/ ReloadL4(c)
  \/ Check(c) \/ Try(c) \/ ReadStorage(c) \/ FileMtime(c) \/ Killed(c) \/ Backoff(c)

Next ==
  \/ \E c \in Callers, l \in Levels : Step(c, l)
  \/ \E c \in Callers : Progress(c) \/ RunRefreshCommand(c) \/ Mint(c) \/ Cancel(c)
  \/ SiblingWrites

Spec == Init /\ [][Next]_vars

\* Goroutines run and timers fire.  Nothing makes a command or a mint end by itself.
FairSpec == Spec /\ \A c \in Callers : WF_vars(Progress(c))

-----------------------------------------------------------------------------
(* Properties *)

Versions == 0..MaxVersion

\* The type of every variable.
TypeOK ==
  /\ file \in [version : 1..MaxVersion, state : States, cookies : SUBSET Cookies]
  /\ jar \in [Cookies -> Versions]
  /\ wired \subseteq Levels
  /\ env \in RefreshCmds
  /\ level \in [Callers -> Levels]
  /\ pc \in [Callers -> Pc]
  /\ attempt \in [Callers -> 0..3]
  /\ lastErr \in [Callers -> SUBSET Sentinels]
  /\ read \in [Callers -> Versions]
  /\ carried \in [Callers -> SUBSET Cookies]
  /\ unseeded \in [Callers -> SUBSET Cookies]
  /\ cancelled \subseteq Callers
  /\ tokens \in [Callers -> [version : Versions, stamp : Versions, csrf : BOOLEAN]]
  /\ err \in [Callers -> SUBSET Sentinels]
  /\ late \in [Callers -> 0..3]
  /\ beside \in [Callers -> SUBSET Callers]

\* After the context is done at most the one attempt starts whose test of the context
\* came before: a back-off timer that wins its race does not buy another.
OneLateAttempt == \A c \in Callers : late[c] <= 1

\* A rung says it is exhausted only after all its attempts, or when a cancellation
\* cut them short.
ExhaustedIsEarned ==
  \A c \in Callers :
    pc[c] = "done" /\ err[c] \cap {"Exhausted", "TokenMissing"} # {}
      => attempt[c] = MaxAttempts(level[c]) \/ c \in cancelled

\* The attempts of a rung against its context: none too many once it is done, none
\* too few before it gives up.
AttemptsAreCounted == TypeOK /\ OneLateAttempt /\ ExhaustedIsEarned

\* What a reload has put in the jar stays there until a newer version of it comes: an
\* older one comes back only from a reload that seeded beside this one.  So the jar has
\* no cookie older than the profile last read, but those that the profile does not
\* carry (seedJar clears nothing) and those of the callers beside.
ReloadsAreKept ==
  \A c \in Callers : pc[c] = "done" =>
    \A n \in carried[c] :
      jar[n] >= read[c] \/ \E o \in beside[c] : jar[n] = read[o]

\* The stamp of the tokens is never older than the content they were read from,
\* although the file may change between the read and the stat.
StampIsNotOlder ==
  \A c \in Callers :
    tokens[c].version > 0 => tokens[c].stamp = 0 \/ tokens[c].stamp >= tokens[c].version

\* A caller that gives up gets its answer, even if the operator's command or the mint
\* never ends.
CancelReturns ==
  \A c \in Callers : c \in cancelled /\ pc[c] # "idle" ~> pc[c] = "done"
=============================================================================
