------------------------------- MODULE Chain -------------------------------
(***************************************************************************)
(* One logical RPC: Runtime.Issue and the middleware chain it dispatches   *)
(* through (authed, idempotency, retry, terminal, terminalInner), with the *)
(* RefreshBudget and the deadline Budget it mints.                         *)
(*                                                                         *)
(* The environment answers each POST, lets time pass, cancels the context  *)
(* and moves the kernel's generations.  Time is counted in ticks; data is  *)
(* reduced to what the decisions read: the status class of a response, its *)
(* Retry-After hint, and the version of the credentials an envelope holds. *)
(*                                                                         *)
(* This is the inside of one RPCCall of Client, with names that are not    *)
(* Client's: newest and fenced are the kernel's gen and retired.           *)
(***************************************************************************)
EXTENDS Integers

CONSTANTS
  Timeout,       \* the call's deadline budget, in ticks
  DefaultSleep,  \* the back-off without a Retry-After header, in ticks
  Hints,         \* the sleeps a Retry-After header can ask for
  MaxGen         \* bound on the kernel's generations

ASSUME ChainAssumption ==
  /\ Timeout \in Nat
  /\ DefaultSleep \in Nat \ {0}
  /\ Hints \subseteq Int         \* a long row of digits wraps around below zero
  /\ MaxGen \in Nat \ {0}

MaxRetries == 5

Classes == {"safe", "readOnly", "probeThenCreate", "idempotentMutation",
            "unsafeMutation"}

\* What the chain distinguishes of a status: 4xx stands for every other 4xx.
Statuses == {"2xx", "401", "429", "5xx", "4xx"}

VARIABLES
  \* the call context
  class,       \* idempotency class from the policy registry
  epoch,       \* the generation taken when the call was issued
  snapshot,    \* the version of the credentials in the call context; 0: none
  spent,       \* the RefreshBudget
  elapsed,     \* ticks since the Budget's T0
  \* the goroutine
  pc,
  attempt,     \* the retry loop's counter
  leg,         \* 1: the attempt's first POST; 2: the POST after a refresh
  status,      \* the last response
  timer,       \* ticks the back-off timer still has to run
  outcome,     \* what Issue returned
  \* the world
  done,        \* the context is done
  newest,      \* the kernel's gen
  fenced,      \* the kernel's retired
  auth,        \* the version of the credentials the server last handed out
  posts,       \* POSTs put on the wire
  refreshes    \* refresh callbacks run

callState == <<class, epoch, snapshot>>
world     == <<done, newest, fenced, auth>>
rpcVars   == <<callState, spent, elapsed, pc, attempt, leg, status, timer, outcome,
               world, posts, refreshes>>

PcValues == {"issue", "loop", "assert", "send", "wire", "judge", "refresh",
             "decide", "sleep", "done"}
Outcomes == {"none", "response", "error"}

RpcInit ==
  /\ class \in Classes
  /\ epoch = 0 /\ snapshot = 0
  /\ spent = FALSE
  /\ elapsed = 0
  /\ pc = "issue"
  /\ attempt = 0
  /\ leg = 1
  /\ status = "2xx"
  /\ timer = 0
  /\ outcome = "none"
  /\ done = FALSE
  /\ newest = 1 /\ fenced = 0
  /\ auth = 0
  /\ posts = 0
  /\ refreshes = 0

Return(o) == pc' = "done" /\ outcome' = o
Go(to)    == pc' = to /\ UNCHANGED outcome

-----------------------------------------------------------------------------
(* Issue *)

\* Issue: generation, budgets, snapshot and envelope; a done context, a failing
\* build or a host off the allowlist ends the call.  The snapshot is a stub, with
\* no credentials in it.
IssueCall ==
  /\ pc = "issue"
  /\ epoch' = newest
  /\ snapshot' = 0
  /\ \/ ~done /\ Go("loop")
     \/ Return("error")
  /\ UNCHANGED <<class, spent, elapsed, attempt, leg, status, timer, world,
                 posts, refreshes>>

-----------------------------------------------------------------------------
(* The idempotency and retry middlewares *)

\* Seeded fault: probe-then-create is retried.
FaultOnlyUnsafe == {"unsafeMutation"}

\* Classes for which the idempotency middleware disables the retry loop.
NoReplay == {"unsafeMutation", "probeThenCreate"}

Expired   == elapsed >= Timeout
Remaining == IF Expired THEN 0 ELSE Timeout - elapsed

\* Budget.Clamp
Clamp(d) == IF d <= 0 THEN 0 ELSE IF d > Remaining THEN Remaining ELSE d

\* The head of the retry loop: a done context or a spent budget ends the call.
\* Without retries the chain goes straight on.
BeginAttempt ==
  /\ pc = "loop"
  /\ leg' = 1
  /\ IF class \notin NoReplay /\ (done \/ Expired)
       THEN Return("error")
       ELSE Go("assert")
  /\ UNCHANGED <<callState, spent, elapsed, attempt, status, timer, world,
                 posts, refreshes>>

Retryable(s) == s \in {"429", "5xx"}

\* shouldRetry, and the sleep from Retry-After or the default.  A hint of zero or
\* less leaves nothing to sleep, and then the response is returned.
Decide ==
  /\ pc = "decide"
  /\ IF class \in NoReplay \/ ~Retryable(status)
       THEN Return("response") /\ UNCHANGED timer
       ELSE \E d \in Hints \cup {DefaultSleep} :
              IF Clamp(d) <= 0
                THEN Return("response") /\ UNCHANGED timer
                ELSE Go("sleep") /\ timer' = Clamp(d)
  /\ UNCHANGED <<callState, spent, elapsed, attempt, leg, status, world, posts,
                 refreshes>>

\* Seeded fault: the select has lost its timer and waits for the context alone.
FaultWakeOnCancelOnly ==
  /\ pc = "sleep"
  /\ timer = 0
  /\ done
  /\ attempt' = attempt + 1
  /\ Go("loop")
  /\ UNCHANGED <<callState, spent, elapsed, leg, status, timer, world, posts,
                 refreshes>>

\* The timer fires: the next attempt, or the last response when there is none.
WakeUp ==
  /\ pc = "sleep"
  /\ timer = 0
  /\ attempt' = attempt + 1
  /\ IF attempt + 1 < MaxRetries THEN Go("loop") ELSE Return("response")
  /\ UNCHANGED <<callState, spent, elapsed, leg, status, timer, world, posts,
                 refreshes>>

\* The context is done first: the response is returned with the context's error.
GiveUpSleeping ==
  /\ pc = "sleep"
  /\ done
  /\ Return("error")
  /\ UNCHANGED <<callState, spent, elapsed, attempt, leg, status, timer, world,
                 posts, refreshes>>

-----------------------------------------------------------------------------
(* The terminal middleware and terminalInner *)

\* Seeded fault: only the first attempt asserts the generation.
FaultCheckOnce == attempt > 0 \/ (epoch # fenced /\ epoch = newest)

\* Kernel.AssertEpoch for the generation of this call.
EpochValid == epoch # fenced /\ epoch = newest

\* The envelope is rebuilt from the snapshot, then AssertEpoch.
Assert ==
  /\ pc = "assert"
  /\ IF EpochValid THEN Go("send") ELSE Return("error")
  /\ UNCHANGED <<callState, spent, elapsed, attempt, leg, status, timer, world,
                 posts, refreshes>>

\* The context is tested once more and the request goes out.
Send ==
  /\ pc = "send"
  /\ IF done
       THEN Return("error") /\ UNCHANGED posts
       ELSE Go("wire") /\ posts' = posts + 1
  /\ UNCHANGED <<callState, spent, elapsed, attempt, leg, status, timer, world,
                 refreshes>>

\* The server answers.  The first leg is judged by the terminal middleware, the
\* second goes straight back to the retry middleware.
Respond ==
  /\ pc = "wire"
  /\ status' \in Statuses
  /\ Go(IF leg = 1 THEN "judge" ELSE "decide")
  /\ UNCHANGED <<callState, spent, elapsed, attempt, leg, timer, world, posts,
                 refreshes>>

\* The exchange fails, or the body is over the cap: never retried.
FailExchange ==
  /\ pc = "wire"
  /\ Return("error")
  /\ UNCHANGED <<callState, spent, elapsed, attempt, leg, status, timer, world,
                 posts, refreshes>>

\* Seeded fault: the terminal middleware does not ask whether the budget is spent.
FaultTakeForgets == status = "401"

\* A 401 wins the refresh unless the budget is spent (RefreshBudget.Take).
WinsRefresh == status = "401" /\ ~spent

Judge ==
  /\ pc = "judge"
  /\ IF WinsRefresh
       THEN Go("refresh") /\ spent' = TRUE
       ELSE Go("decide") /\ UNCHANGED spent
  /\ UNCHANGED <<callState, elapsed, attempt, leg, status, timer, world, posts,
                 refreshes>>

\* The callback of the Client, an HTTP GET.  The server hands out new credentials;
\* the callback ignores the call context, and the envelope is rebuilt from that.
Refresh ==
  /\ pc = "refresh"
  /\ refreshes' = refreshes + 1
  /\ auth' = auth + 1
  /\ leg' = 2
  /\ Go("assert")
  /\ UNCHANGED <<callState, spent, elapsed, attempt, status, timer, done,
                 newest, fenced, posts>>

RefreshFails ==
  /\ pc = "refresh"
  /\ refreshes' = refreshes + 1
  /\ Return("error")
  /\ UNCHANGED <<callState, spent, elapsed, attempt, leg, status, timer, world,
                 posts>>

Call ==
  \/ IssueCall \/ BeginAttempt \/ Decide \/ WakeUp \/ GiveUpSleeping \/ Assert
  \/ Send \/ Respond \/ FailExchange \/ Judge \/ Refresh \/ RefreshFails

-----------------------------------------------------------------------------
(* The world *)

\* Time passes while the call waits for the server or for its timer.  Past the
\* deadline the count stops: nothing tells later times apart.
Tick ==
  /\ pc \in {"wire", "refresh", "sleep"}
  /\ elapsed < Timeout \/ timer > 0
  /\ elapsed' = elapsed + 1
  /\ timer' = IF pc = "sleep" /\ timer > 0 THEN timer - 1 ELSE timer
  /\ UNCHANGED <<callState, spent, pc, attempt, leg, status, outcome, world,
                 posts, refreshes>>

CallerCancels ==
  /\ ~done /\ pc # "done"
  /\ done' = TRUE
  /\ UNCHANGED <<callState, spent, elapsed, pc, attempt, leg, status, timer,
                 outcome, newest, fenced, auth, posts, refreshes>>

\* Somebody opens a generation, or fences the current one, or closes the kernel
\* (which does both).
MoveEpoch ==
  /\ pc # "done"
  /\ \/ newest < MaxGen /\ newest' = newest + 1 /\ fenced' \in {fenced, newest'}
     \/ fenced < newest /\ fenced' = newest /\ UNCHANGED newest
  /\ UNCHANGED <<callState, spent, elapsed, pc, attempt, leg, status, timer,
                 outcome, done, auth, posts, refreshes>>

-----------------------------------------------------------------------------
RpcNext == Call \/ Tick \/ CallerCancels \/ MoveEpoch

RpcSpec == RpcInit /\ [][RpcNext]_rpcVars

\* The goroutine runs, exchanges end (the http.Client has a timeout) and timers
\* run down.  Nothing has to be cancelled, fenced or answered favourably.
RpcFairSpec == RpcSpec /\ WF_rpcVars(Call) /\ WF_rpcVars(Tick)

-----------------------------------------------------------------------------
(* Properties *)

\* The type of every variable.
RpcTypeOK ==
  /\ class \in Classes
  /\ epoch \in Nat /\ snapshot \in Nat
  /\ spent \in BOOLEAN
  /\ elapsed \in Nat
  /\ pc \in PcValues
  /\ attempt \in 0..MaxRetries
  /\ leg \in {1, 2}
  /\ status \in Statuses
  /\ timer \in Nat
  /\ outcome \in Outcomes
  /\ done \in BOOLEAN
  /\ newest \in Nat /\ fenced \in Nat /\ auth \in Nat
  /\ posts \in Nat /\ refreshes \in Nat

\* One refresh per logical RPC, over all its retries: the RefreshBudget outlives
\* the terminal middleware that takes it.
OneRefresh == refreshes <= 1

\* The chain multiplies retries by refreshes, but the shared budget keeps the POSTs
\* of one call to one per attempt and one more.
PostsBounded == posts <= (IF class \in NoReplay THEN 1 ELSE MaxRetries) + refreshes

\* A call that must not be replayed is sent again only after a 401, never after a
\* 429, a server error or a lost answer.
ReplayedOnlyAfter401 ==
  [][posts' > posts /\ posts > 0 /\ class \in {"unsafeMutation", "probeThenCreate"}
       => status = "401"]_rpcVars

\* A back-off never outlasts the deadline of the call.
SleepFitsBudget == pc = "sleep" => elapsed + timer <= Timeout

\* The three budgets of one call (refreshes, POSTs, time) hold together, over every
\* order of answers.
BudgetsHold == RpcTypeOK /\ OneRefresh /\ PostsBounded /\ SleepFitsBudget

\* Once the call's generation is stale at most one POST still goes out, the one
\* that had already asserted it: retries do not resurrect a fenced call.
StaleCallStops ==
  \A n \in 0..MaxRetries + 1 :
    []((pc # "issue" /\ (epoch # newest \/ epoch = fenced) /\ posts = n)
         => [](posts <= n + 1))

\* The call returns, whatever the server answers.
Returns == <>(pc = "done")
=============================================================================
