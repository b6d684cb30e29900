# notebooklm-go: a TLA+ verification project

This directory models `notebooklm-go`, a Go SDK and command line for NotebookLM: the
concurrent core (admission, the transport kernel with its epochs, the
retry-and-refresh chain, the lifecycle, the client that composes them), the files and
locks it persists its session with, the session itself (storage, cookie jar, policy
gate, refresh ladder), and the calls of the SDK with their payloads, their wire format
and their decoders. TLC checks small instances; TLAPS proves every safety property of
the core, the persistence, the session and the calls for every instance, but for one
about the passages that the chat cites.

## 1. Inventory of the system

### Components, their state and their operations

| Component (source) | State | Operations | What makes it correct |
|---|---|---|---|
| Supervisor (`internal/runtime/supervisor.go`) | `inFlight` (atomic), `draining` and `waiters` (under `drainMu`), a `released` flag per lease | `Admit` (gate, counter, slot), `Release`, `BeginDrain`, `EndDrain` | no slot lost or given twice, capacity kept, no lost wakeup, a drain keeps callers out |
| Metrics (`internal/runtime/metrics.go`) | atomic counters | `Inc*`, `Snapshot` | started = succeeded + failed + running |
| Lifecycle (`internal/runtime/lifecycle.go`) | `opened`, `closed`, `openErr`, participants | `Register`, `Open` with rollback, `Close` | hooks once, in order, nothing left open after a failed Open, first error kept |
| Deadline budget (`internal/runtime/deadline.go`) | T0, timeout | `Remaining`, `Expired`, `Clamp` | sleeps fit what is left |
| Kernel (`internal/web/transport/kernel.go`) | `gen`, `retired` (under `genMu`), `closed` (under `closeMu`), `wg` | `ActivateEpoch`, `FenceEpoch`, `AssertEpoch`, `Post`, `StartInFlight`, `Close` | stale requests are not sent, Close drains and returns |
| Stream (`internal/web/transport/stream.go`) | body, bytes left, error | `PostStream`, `Read`, `Close` | counted until closed, capped |
| Runtime and chain (`runtime.go`, `middleware.go`, `refresh_budget.go`) | a call context per RPC, the spent flag | `Issue`, five middlewares, `Take` | one refresh, bounded POSTs, no unsafe replay, deadline kept |
| Executor (`executor.go`) | none | `Execute` | passes a call to `Issue` |
| SDK client (`notebooklm/client.go`) | `closed` (under `closedMu`), the parts above | `New`, `RPCCall`, `Drain`, `Close`, `RefreshAuth` | nothing on the wire without a slot, drains quiesce, closed clients refuse |
| Notebooks, sources, resolver (`notebooklm/*.go`) | none; the server's notebooks | one RPC each, id resolution | right row, right error, nothing added twice |
| Feature calls (`internal/web/features`) | none | one or two RPCs each | what comes back is what was done |
| Policy registry (`internal/web/policy`) | method to class | `Register`, `Classify` | every method classified |
| Wire codec, rows, params (`internal/web/wire`, `rows`, `params`) | none | frames, index reads, rows, streamed answers, histories, payloads | the result among whatever comes with it; slots agree between builder and server |
| Atomic files and locks (`internal/atomicio`) | files, an in-process mutex per path, `flock` | `WriteFile`, `WriteFileWithBak`, `Shared`, `Exclusive`, `Try*` | never a torn file, no success lost, the lock is a readers-writer lock |
| Refresh ladder (`internal/auth/refresh`) | the shared jar, a file, the environment | rungs L1, L2.0, L2.5, L3, L4 | bounded attempts, cancellation, a reload outlives older ones |
| Cookie jar (`internal/auth/cookiejar`) | entries | `SetCookies`, `Cookies` | host-only kept, one winner per name, nothing expired |
| Storage, profile (`internal/auth/storage`, `profile`) | `storage_state.json`, `context.json` | read with normalisation, write | what is saved is read back |
| Auth policy (`internal/auth/policy`) | none | `Validate` | no session without its bindings |
| Token pipeline (`internal/auth/tokens.go`) | the loaded session | `LoadFromStorage` | a session starts from live cookies only |
| Page-token extraction (`internal/auth/extract`) | none | regular expressions over HTML | |
| Application layer (`internal/app`) | none | classify errors and sources | the right method for an argument |
| CLI, configuration, logging, tools | process-local | flags, output | outside this project's focus |

### How they interact

    caller ── RPCCall ──> checkOpen ──> Supervisor.Admit ──> Executor ──> Runtime.Issue
                                             │                                │
                                       lease (deferred Release)   authed → idempotency → retry
                                                                     → terminal → terminalInner
                                                                          │           │
                                                        refresh callback (GET)   Kernel: AssertEpoch,
                                                                                 StartInFlight, Do
    Drain ──> BeginDrain, poll InFlight, EndDrain
    Close ──> closed flag, FenceEpoch, Lifecycle.Close ──> Kernel.Close (wg.Wait)

    NotebooksAPI, SourcesAPI, Resolve ──> params (payload) ──> RPCCall ──> wire (frames) ──> rows
    LoadFromStorage ──> storage ──> cookie jar ──> policy gate ──> tokens
    WiredLadder.Step ──> L1 profile │ L2.0 storage │ L2.5 command │ L3 mint │ L4 hook ──> jar

Everything is a direct call between goroutines; the shared state is a few
mutex-guarded groups (`closedMu`, `drainMu`, `closeMu`/`genMu`, the jar's), two atomics,
a WaitGroup, and files that several processes write. The hard behaviours come from the
gaps between them: a check is made under a lock that is dropped before its result is
used, a file changes between a read and a stat, a server does what it was asked and
the answer is lost. `PROJECT.json` lists each hazard at its line with the properties
that watch it.

### Facts found while reading, which the models take as they are

The core:

- `AuthSnapshot` is a stub: `Issue` leaves it empty. `NewKernel` stores the cookie
  jar and does not mount it on its `http.Client`, so the refresh GET does not rotate
  anything the next POST carries. `authState.refresh` is never set, so `RefreshAuth`
  always errors.
- `client.buildRegistry` classes every method as safe, so the client retries all of
  them; `Chain` is checked for all five classes, because the chain supports them.
- `Kernel.Post` and `PostStream` have no caller in the client today, `ActivateEpoch`
  only `New`. They are modelled as the package offers them.
- `IncRpcCallsSucceeded` has no production caller, so the model has no such counter.
- `Executor.Execute` returns a response with any status as a success, and nothing looks
  at the status afterwards.

The SDK:

- `client.New` hands `NewRuntime` no body builder (`client.go:329`) and `Runtime.Issue`
  does not use `params`: today every POST goes out empty, and `wire.EncodeRequest` has
  no production caller. `Sdk` takes the contract of the `Executor` interface
  (`client.go:67-80`) instead, that the payload reaches the server.
- The decoders of `GetNotebook` disagree: `NotebooksAPI.Get` reads the payload as the
  row, `features.Get` and `Sources.List` look for the row inside a list. The server's
  shape is the constant `Shapes`, and both are checked.
- Nothing calls the notebook functions of `features`, `sourceadd.Classify` or the chat
  parsers outside tests. They are modelled with a caller as their comments describe it.
- `pageFromList` takes anything that is no list for an empty page, `decodeRow` never
  fails, `isRowsNotFound` looks for a substring, and no code below the tests makes an
  `ErrNotFound`; so the second leg of `Resolve` with `auto` is unreachable.
- `wire.Unmarshal` decodes numbers as `json.Number`, which `asIndex` understands and
  three other readers of the chat stream do not (see below).

Credentials and files:

- The only production caller of `WriteFile` is a developer tool; nobody calls the file
  locks or `WriteFileWithBak`. They are modelled as the package offers them.
- `tokens.seedJar` gives a cookie without a domain the host `.google.com` and forgets
  host-only; `refresh.seedJar` keeps host-only, skips cookies without a domain and
  never clears the live jar.
- Among cookies of equal path from parent domains the jar's choice follows Go's map
  order; `CookieJar` lets any of them win.
- The allowlist holds the regional hosts with a leading dot, which the jar has trimmed
  before the gate looks, so a session with `.google.se` is refused; for `.google.de`,
  `.google.fr` and others the jar drops the cookie as a public suffix already.

## 2. Plan

1. **Core** (present): `Supervisor` with the abstract `AdmissionGate`, `Kernel`, `Chain`,
   `Lifecycle`, `Client`; proofs about all of them.
2. **Persistence and credentials** (present): `AtomicFile` over `FileLock`, which implements
   `RWLock`; `Ladder`; `Session` over `StorageState`, `CookieJar`, `AuthPolicy`; proofs about
   all of them.
3. **SDK** (present): `Wire`, `Rows`, `Params`, `NotebooksAPI`, `SourcesAPI`, `Features`,
   `ChatStream`, `ChatHistory`, composed in `Sdk`; proofs about its calls.
4. **Left**: that the kernel inside `Client` behaves as `Kernel` does, but for the second
   POST; that the client's calls implement an abstract bound on exchanges; a model of text
   in which `PassagesAreMarked` can be proved.

No module declares a `RECURSIVE` operator. Where the code loops over data, the module says
what the loop finds: the first or last place of a kind, the elements of a kind. The two
walks along a path (`At`, `RowsAt`) and the parser of the byte counts (`Awaits`) are
recursive functions over an interval, as is the search for an id in a tree (`ExtractUUID`).

## 3. Modules

| Module | Models |
|---|---|
| `AdmissionGate` | the promise of the supervisor: at most `Capacity` holders, a slot granted once per call |
| `Supervisor` | `Admit`, `Release`, `BeginDrain`, `EndDrain` |
| `Kernel` | generations, closed flag, WaitGroup; `Post`, `PostStream`, chain attempts; `Close` |
| `Chain` | one `Runtime.Issue` through the five middlewares, with budgets and clock |
| `Lifecycle` | `Register`, `Open`, rollback, `Close` |
| `Client` | `RPCCall`, `Drain`, `Close`: instances of `Supervisor` and `Kernel` sharing state |
| `RWLock` | the promise of the file lock |
| `FileLock` | the in-process mutex and `flock` of one path, with dying processes |
| `AtomicFile` | `WriteFile`, `WriteFileWithBak`, `ReadFile` under a `FileLock` or without it |
| `Ladder` | `WiredLadder.Step`, the five rungs, a shared jar, a sibling process |
| `CookieJar`, `AuthPolicy`, `StorageState` | the jar, the gate and the documents, as operators |
| `Session` | a session over its life: load, gate, fetch, requests, answers, reloads, saves |
| `Wire` | index reads, chunks, frames, results, status codes |
| `Rows` | notebook and source rows and their envelopes |
| `Params` | the payloads, the checks before them, `sourceadd.Classify` and its gate |
| `NotebooksAPI`, `SourcesAPI`, `Features` | each call: its checks, its request, what it makes of the answer |
| `ChatStream`, `ChatHistory` | a question and its streamed answer with citations; a conversation |
| `Sdk` | one call of any of these against a server and the failures between |
| `MCChain`, `MCAtomicFile`, `MCSession`, `MCSdk` | values a `.cfg` cannot write |
| `SupervisorProofs`, `KernelProofs`, `LifecycleProofs`, `ClientProofs` (with those about `Chain`, the inside of a call), `AtomicFileProofs` (with the lock's), `LadderProofs`, `SessionProofs`, `SdkProofs` | theorems and proofs |

Definitions whose name begins with `Fault` are mutations of the definition that
follows them. No specification uses them; they show that a property notices the
mistake.

**Granularity.** A step is the code between two synchronising operations (lock,
atomic, channel, select, timer, system call, HTTP exchange). Straight-line code under one
mutex is one step. An HTTP exchange is two: sending, and its outcome.

**Supervisor.** One element of `Calls` is one invocation of `Admit`; `pc` is its place:
`gate` (before `drainMu`), `parked` (in the select), `unpark` (woken by its context,
before `drainMu`), `count`, `load`, `cas`, `poll`, `fail`. A waiter channel is named by
its call, `woken` holds the closed ones. `EndDrain` takes the list under the lock;
`CloseWaiter` closes the channels one at a time, outside it. `Decrement` joins the
atomic add and the store of zero that guards against a negative counter: the invariant
shows that the store is not reached. The poll interval is abstracted to "the timer may
fire". `FairSpec`: goroutines run and leases are released, because `RPCCall` defers the
release; nobody has to cancel, to begin or to end a drain.

**Kernel.** A request goes `checkClosed` (`closeMu` in `AssertEpoch`), `checkEpoch`
(`genMu`), `register` (`closeMu` in `Post`, `PostStream`, `StartInFlight`), `ready`,
`wire`, and for a stream `open`. `tracked` are the requests that did `wg.Add` and owe a
`wg.Done`. `CloseFlip` is one step because the code holds `closeMu` and `genMu`
together. `GiveUp` is a done context or a failure to build the request. `FairSpec`
assumes that exchanges end (the `http.Client` has a 30 s timeout); `TidySpec` adds callers
that close their streams, without which `CloseReturns` does not hold.

**Chain.** The inside of one call of `Client`, with names of its own (`RpcSpec`; `newest`
and `fenced` for the kernel's `gen` and `retired`), so that one module can reason about
both. `class`, `epoch` and `snapshot` are the call context, `spent` the `RefreshBudget`,
`elapsed` and `Timeout` the deadline budget in ticks. The environment answers with a status
class or fails the exchange, moves the generations, cancels, and lets time pass while the
call waits. `leg` tells the first POST of an attempt from the one after a refresh. `Hints`
may hold zero and negative sleeps, because a long `Retry-After` wraps around. `elapsed`
stops at `Timeout` unless a timer still runs: later times cannot be told apart.

**Lifecycle.** A participant is named by its registration index. The loops of the waves keep
the set of participants still to open (`todo`), to roll back (`undo`) or to close (`todo`
again); the order is in the choice of the next: `NextToOpen` and `NextToRollBack` by phase
and registration (`Before`, which is what `sortedParts` sorts by), `NextToClose` backwards by
registration. `log` records each hook that ran with its result and is what the order
properties read. `Open` holds the
mutex for its wave (`mu`), `Close` does not. Goroutines make one call each.

**Client.** `apc` is the supervisor's `pc`, `npc` the kernel's, with requests
`<<call, leg>>`. A call may make two POSTs (`Legs`), with a retry or a refresh between
them. A first POST that failed may be followed by a second, which the code does not do
for a failed exchange: the model allows more than the code, and its safety results
cover the code. The middlewares' decisions are those of `Chain`. The supervisor's
close hook does nothing in the code, so it is not a step.

**FileLock and AtomicFile.** A worker makes one call. Every call opens a descriptor of its
own, so `flock` arbitrates between goroutines as well as processes, and the mutex of the
process is held across the `flock` call only. A file is absent, one content whole, or
`Torn`. Each system call another process can see is a step, and any of them may fail and
start the rollback; `Die` ends a process wherever it is, `PowerLoss` takes what was not
synced. A worker may also write without the lock (`mixed`), which the package allows.

**Ladder.** The file is a version, its mtime the same number, and each version carries some
of the cookies. A cookie in the jar has the version it came from, so that a mixture shows;
the jar is never cleared, so a cookie that the file no longer carries stays. Reading and
taking the mtime are two steps, seeding is one step per cookie, the back-off timer races the
context, and a command or a mint ends by itself or when its context does. `beside`
remembers who seeded while a caller did. An error is the set of sentinels `errors.Is` finds
in it.

**Session.** `LoadSeed` reads a document, drops expired rows, seeds the jar and passes the
gate; `LoadFetch` is the GET for the tokens with its `Set-Cookie`s; then requests, answers,
reloads from disk, saves and the clock interleave. A host is the sequence of its labels
from the right, a path that of its segments. `SetEach` is the loop of `SetCookies` and of the
two `seedJar`s in closed form: whether a cookie is stored does not depend on the jar, and
of one identity the last that is stored stays.

**Sdk.** A call is `posted`, perhaps `pausing` between attempts or `streaming`, `answered`,
`returned`. The server reads a payload by position, as the wire format says, and applies
it; that is what makes a builder that is one slot off visible. The kind of a source it takes
from the filled slot, and a spec without a code at the documents' slot 10 it may also refuse
(`Unread`), because code and documents do not agree about that slot. It may commit before the
exchange fails. A body is a sequence of lines: byte counts, garbage, chunks of frames of
this and other rpcs, an earlier and poorer result, a null after the result. The frames of a
body are a function of their places (line, position in the line), and a result is looked
up at the last place that has one, which is what the loop of `ExtractResult` leaves in
`found`. Another user
renames or deletes a notebook. A streamed answer is told line by line (thoughts, drafts,
the final answer, a refusal) and may be cut. Text is abstracted to what the code asks of it:
`Argument` holds the answers to the questions `Classify` and the validators ask, and
`IsUUID`, `TrimAll`, `ToLower` and others are constants. In a passage and an answer each
character of the model is one UTF-16 unit; what the code does to half a surrogate pair
is left out.

## 4. Runs

| Run | Instance | Properties | Shows |
|---|---|---|---|
| `Supervisor` | 2 calls, capacity 1, 2 releasers per lease, 2 drainers | `SlotsAreExact`, `WaitersAreSafe`, `ImplementsGate`, `ParkedCallsWake`, `QueuedCallsSettle` | slots, counters and waiter list are consistent in every interleaving; the pipeline implements `AdmissionGate`; parked calls wake, queued calls settle |
| `SupervisorUnbounded` | 3 calls, no capacity, 2 releasers per lease, 1 drainer | `SlotsAreExact` | the atomic add keeps the count exact with three leases out at once |
| `Kernel` | a post, a stream, a chain attempt, 2 closers, generations up to 2 | `DrainIsExact`, `FrozenWhenClosed`, `StaleIsNeverSent`, `CloseReturns` | the WaitGroup is exact, a stale request is never sent, Close drains posts and streams, nothing moves afterwards, Close returns if streams are closed |
| `Chain` | 6 ticks, hints -1, 0, 2, 9, generations up to 2 | `BudgetsHold`, `ReplayedOnlyAfter401`, `StaleCallStops`, `Returns` | one refresh, the POST bound, the deadline, the replay rule; a stale call stops; the call returns |
| `Lifecycle` | up to 3 participants, 2 phases, 2 names, 3 goroutines | `HooksAreOrderly`, `FailedWaveIsUndone`, `CloseReleasesAll` | hook order, once each, rollback, first error; Close releases everything |
| `Client` | 2 calls, 1 slot, a drain, a close | `SlotsCoverWire`, `CloseStopsCalls` | a call on the wire holds a slot; clean returns; the fence stops calls; a closed client admits nobody |
| `ClientLiveness` | 1 call, no capacity, 2 drains, a close | `EverybodyReturns` | everybody returns |
| `AtomicFile` | 2 writers in 2 processes, 1 reader, with and without locks, failures, deaths, a loss of power (1.7 million states) | `ReadersSeeWhole`, `ReportsAreTrue`, `MutexIsHandedOn`, `ImplementsRWLock` | a path is whole but for a rollback; readers with the lock never see a torn file; a failed write keeps the old content, a success stays; the mutex is handed on; the lock implements `RWLock` |
| `Ladder` | 2 callers, 2 cookies, 2 versions of the file with any of the cookies | `AttemptsAreCounted`, `ReloadsAreKept`, `StampIsNotOlder`, `CancelReturns` | one late attempt at most, exhaustion is earned, a reload is not undone by an older one unless they seed at once, the stamp is not older than the content, a cancelled caller returns |
| `Session` | 9 documents, 3 URLs, 3 answers, times 1 to 3 | `StartsOnLiveRows`, `SendsItsOwn`, `SetIsLocal`, `SaveRoundTrips` | sessions start on live rows; host-only cookies stay home; nothing expired or ambiguous is sent; an answer changes only what it names; a save round-trips |
| `Sdk` | every method, 2 notebooks, both shapes, 2 retries, 1 foreign edit, 3 lines of a stream | `ListingsAreWhole`, `AddsWhatWasAsked`, `ResolvesToWhatWasThere`, `RenameShowsItsTitle`, `ErrorPagesAreErrors`, `AnswerIsTheBest`, `PassagesAreMarked`, `EveryCallReturns` | whole listings, the source that was asked for, strict adds, resolution, rename, error pages, the best answer, citations, histories; every call returns |
| `SdkAddedTwice` | as `Sdk` | `AddedOnce` | **violated**, see below |

A property that names a component's whole safety (`SlotsAreExact`, `DrainIsExact`,
`BudgetsHold`, ...) is the conjunction of the type invariant and of parts that are defined and
commented one by one above it. When one fails, the parts can be listed in the `.cfg`
instead to tell which.

### What the code does against its comments

`SdkAddedTwice`: the server adds the source, its answer is lost in a 5xx, and the retry
middleware posts again, since `buildRegistry` classes every method as safe. The source is
there twice, although `sources.go:170-172` says that the create is issued with internal
retries disabled. This one is the finding of `PROJECT.json`.

The other disagreements met while modelling follow. The models behave as the code does.
First those that take an interleaving to see:

- All drains share one flag (`supervisor.go:252`): when two overlap, the `EndDrain` of the
  first clears it, and a call passes the gate while the other drain goes on, although the
  head of `supervisor.go` (lines 8-10) says that new calls are refused once a drain is in
  progress, and block until it completes. In `Supervisor`: `BeginDrain` of both, `EndDrain` of
  one, `PassGate`. With one drainer nobody passes, which is the gate's own test of the flag, so
  no property says it.
- A chain POST starts after `Close` stopped counting, and is on the wire when `Close` has
  returned: `StartInFlight` on a closed kernel does nothing (`runtime.go:145`, whose comment
  says "so Close drains it").
- The POST after a refresh carries the snapshot taken at issue (`middleware.go:421`, whose
  comment says it is rebuilt from the post-refresh snapshot).
- `Close` goes by registration, not by phase (`lifecycle.go:209-211`).
- A call past the gate is admitted after `Drain` returned (`client.go:599`).
- A fence may land between `AssertEpoch` and the send, so a request of a generation
  that is retired by then goes out (`Kernel`: `BumpEpoch` between `CheckEpoch` and `Send`).
- A stream that nobody closes blocks `Kernel.Close` for ever: `CloseReturns` holds under
  `TidySpec` and fails under `FairSpec`. The comment of `PostStream`'s `Stream` says that
  `Close` drains an unread stream.
- A generation active at issue can be fenced while a retry sleeps, although the comment
  of step 1 in `runtime.go` says it stays active at every retry.
- Leases may be out when the client's `Close` returns, since the supervisor's close hook
  waits for nothing, although the comment of `Close` says it drains the supervisor.
- The closed flag may flip between `checkOpen` and `Admit`, although the comment of
  `checkOpen` says it cannot.
- `writeFileWithBak` copies the destination over the `.bak` before it writes
  (`atomic.go:185-188`): after a rollback that was cut, the torn destination replaces the
  only good copy.
- `TryShared` and `TryExclusive` wait on the in-process mutex behind a blocking `flock`
  of another goroutine (`flock_at.go:60`), although they promise not to block.
- `ReadStorage` takes the mtime after reading (`l2_0.go:142`): old cookies may get the new
  mtime. `StampIsNotOlder` states the direction that holds.

- Two reloads that seed at once leave the jar with cookies of two versions of the file, and a
  reload of a file with fewer cookies keeps the old ones of the names it lacks: `seedJar`
  (`l1.go:115-131`) never clears the jar. No comment says otherwise, so no property forbids
  it; `ReloadsAreKept` states what is left.

Then consequences of single lines:

- The source-type code, a trailing 1, is at slot 14 of the specs of a URL and of a video
  (`url.go:114`, `youtube.go:92`: fifteen slots, the MIME at 13). `docs/04-rpc-payloads.md`
  says that the spec has eleven slots and that the 1 is at slot 10 on every kind (lines 83
  and 97), and that an index shift "is a wire break" (lines 3-4). The head of `url.go`
  (lines 14-36) says twelve, the MIME at 10, the code at 11, and calls the code the one "the
  backend reads to decide which branch to take", and `youtube.go:80-81` says 11 as well; the
  comments in the two bodies say fifteen and that the backend goes by the filled slot. `text.go` and `drive.go` keep
  the eleven of the documents. Which of them the service follows cannot be told from the
  repository. `AddsAreRead`, a part of `AddsWhatWasAsked`, states where the code is and for
  which calls the documents and the builders differ; the rest of that property holds for a
  server that goes by the filled slot and for one that refuses what has no code at slot 10.
- `ActivateEpoch` alone makes `AssertEpoch` refuse the old generation, although
  `kernel.go` (the comment of `ActivateEpoch`) calls such requests still valid.
- An unsafe mutation is sent again after a 401, although `registry.go` says its first
  failure must surface.
- `Open` runs after `Close`, although the comment of `Lifecycle` says it is an error; a
  participant without an open hook is closed, although `Open`'s comment says it is skipped.
- A row without `expires` decodes to 0 and is dropped as expired (`storage.go:83`; the
  comment at `storage.go:29` says -1). A fractional `expires` fails the whole document.
- `psidtsMissing` is inverted, so the hint misses `__Secure-1PSIDTS` (`policy.go:213`).
- `SetCookies` drops one bad cookie where its comment says the batch fails; a `Set-Cookie` with
  a past expiry is dropped without deleting the old entry (`jar.go:132`), and a cookie
  with a positive `Max-Age` never expires.
- `parseRefreshOutput` refuses unknown fields its comment tolerates; L2.5 and L3 report a
  cancellation after a failed attempt as exhaustion; L3 tries a page without tokens again.
- `DiskStore.Read` does not promote a legacy `context.json` (`document.go:65-66` says so).
- `Get` of a notebook that is not there returns a zero notebook and no error
  (`notebooks.go:368-371`), so `Resolve` never falls back from ids to titles
  (`resolve.go:236-238`).
- The HTTP status is not looked at after the chain: with a persistent 503 and an HTML or
  empty body the mutations of `NotebooksAPI` return nil and `List` an empty page
  (`notebooks.go:168-170`). `ErrorPagesAreErrors` holds for the feature calls, the Sources
  namespace and the chat parsers.
- `features.Delete` says that a 403 propagates (line 246); its null is allowed, which
  swallows status 7.
- A rejected `AddURL`, `AddText` or `AddFile` returns a zero source and no error.
- `shareStateFromEnvelope` panics on a first slot of one element.
- The terminal sequence, the next steps and the scores of a streamed answer are read as
  `int` or `float64` where `wire.Unmarshal` made a `json.Number`: `NextSteps` is always
  empty, `Score` always 0, and a stream of bookkeeping only is a parse error, not the
  `ChatError` of `chatstream.go:241`.
- `extractChunk` stops after the first frame that answers, although its comment says every
  item is examined; a citation slot of another type drops the final mark of its row.
- The comment of `decodeTurnContent` nests a citation's offsets one level deeper than
  code and tests; the notebook-id placeholder of a question is never replaced.

### Bounds, and why they are enough

- **Supervisor.** Two calls and one slot let one call find the slot taken, lose the
  compare-and-swap, and be woken while the other holds it; two releasers are the least
  that can release one lease at once; two drainers the least that overlap. Drains repeat
  without bound. The path without a capacity is checked in
  `SupervisorUnbounded`, where three calls hold a slot at once, and in `ClientLiveness`. The safety results are proved for any number of calls, drainers,
  releasers and slots.
- **Kernel.** One request of each kind meets every interleaving of one request with two
  closers. `MaxGen` caps `ActivateEpoch`: generations 0 to 2 give an
  active, a retired and a superseded one; `Close` always opens one more. The WaitGroup results
  are proved for any number.
- **Chain.** Six ticks let five attempts with one-tick sleeps finish and also let the
  deadline cut them; a hint of 9 exceeds the budget, 0 and -1 do not sleep, 2 uses it up
  in the middle. `MaxRetries` is the code's own constant.
- **Lifecycle.** Three participants (`MaxParts`) are the least in which a rollback has two
  left to close when it fails at one; two phases and two names give every order of
  registration and the duplicate-name rule.
- **Client.** `Legs = 1..2` bounds the POSTs of one call: the second stands for every
  later one, which repeats the same steps from the same state.
- **AtomicFile.** Two writers race each other, with the `.bak` between them; the reader
  shares its process with one writer and not with the other, so both levels of the lock
  arbitrate. Each worker makes one call, a death may leave any mixture behind for the
  other. Power is lost once.
- **Ladder.** Two callers and two cookies are the least that can mix a jar; the file is
  rewritten once (`MaxVersion` is 2) at any moment, with more, fewer or other cookies, which is
  enough for a newer and an older reload to cross. The attempts are the code's own.
- **Session.** Times 1 to 3 (`MaxTime`) let a cookie be live, expire while in use, and be
  refreshed. The documents have each of the normalisations and each reason of the gate;
  the two hosts are siblings under one domain, the third is the domain.
- **Sdk.** `MaxRetries` is 2 where the code has 5: an attempt that fails leads to the same
  state with a higher count. `MaxEdits` is 1, `MaxLines` is 3 (a thought, a draft, the
  answer), four source ids. One notebook has a title that is the other's id, so that
  resolution has something to confuse. One call per behaviour: the SDK keeps no state
  between calls.

`CHECK_DEADLOCK FALSE` is set where everybody may have finished: calls return, kernels
and clients are closed. The supervisor's runs check deadlock, since a drainer can
always begin again.

## 5. Fairness

Weak fairness of each goroutine's own steps: the Go scheduler runs what can run.
Exchanges end because the default `http.Client` has a timeout; drains because of their
deadline; hooks of the lifecycle return. No cancellation, drain, close, favourable
answer or stream close is assumed, with two exceptions: `TidySpec`, which the `Kernel` run
uses, adds that callers close their streams, and the supervisor's `FairSpec` that leases are
released. Weak fairness is enough for `QueuedCallsSettle`, where a call competes by
compare-and-swap, because every call is admitted once: only finitely many can win
before it. In `Ladder` nothing makes the operator's command or the mint end: a cancelled
caller returns because its context kills them. In `Sdk` an exchange ends in some way, good
or bad, a pause and a stream end, and decoding is local. `AtomicFile` and `Session` claim no
liveness.

## 6. Proofs

Every safety property of the passing runs but `PassagesAreMarked` is a
theorem, for every value of the constants under the assumption its module names:

| Assumption | Says |
|---|---|
| `SupervisorAssumption`, `ClientAssumption` | finitely many calls, a natural capacity |
| `KernelAssumption` | finitely many requests, each of one kind; at least one generation |
| `ChainAssumption` | a natural timeout, a positive default sleep, integer hints; at least one generation |
| `LifecycleAssumption` | integer phases, a natural number of participants |
| `AtomicFileAssumption` | every worker has a process, writers are not readers, contents and file names are different things |
| `LadderAssumption` | at least one version of the file |
| `SessionAssumption` | a positive bound on the clock, URLs with a host, documents and answers that are lists |
| `SdkAssumption` | natural bounds; finitely many notebook ids, of which every server keeps a record; calls of a method that their namespace has; nothing is trimmed from the empty string, and the texts of a stream have lengths |

Few of the properties are inductive. The `*Proofs` modules strengthen each to an invariant
that is, which TLC checked on the module's run before it was proved:

- **Supervisor.** `SlotInv` adds to `InFlightCountsLeases` and `SlotsBounded` what makes
  them inductive: a call at its compare-and-swap loaded a value below the capacity; a
  lease is only released when admitted; at most one releaser of a lease is at its
  decrement, and only when the flag is set. Each reservation adds one element to
  `Holding`, each decrement removes one, and the cardinality follows. `WakeInv` ties
  each parked call to the list, to a drainer that took it, or to a closed channel.
  `SupervisorImplementsGate` maps every step to a grant, a return, a turning away or a stutter, with `Holding` and `Gone` as the
  refinement mapping.
- **Kernel.** `DrainInv`: the WaitGroup is exact; a closer past its flip implies
  `closed`; once it returned nothing is tracked. A request can be counted in only while
  the flag is clear, which is why checking it under `closeMu` again, after `AssertEpoch`,
  matters. `StaleStaysHome` follows because generations only grow: a request whose
  generation was retired before its check stays behind.
- **Chain**, in `ClientProofs`. `RpcInv` relates the POSTs and refreshes to `attempt`, `leg`,
  `spent` and `pc`; the bounds follow. `GensBehind` says that a call's generation and the fenced one
  were current once, so a call that was fenced never becomes current again
  (`StaleCallsStop`): it sends the POST it had asserted, and no other.
- **Lifecycle.** `LifecycleInv` relates the log of hooks to what a wave has left to do.
  `OneOpenWave` and `OneCloseWave`: the mutex admits one wave of opens, the closed flag one
  of closes. `LogIsOrdered` and `LogIsTrue` tie the log to the participants' own flags.
  `OpeningKnows`, `RollBackKnows` and `ClosingKnows` say what the loop variables of a wave
  stand for, `ResultsAreKept` what a call without a wave has to return.
- **Client.** A step of the client is one of the supervisor or a stutter
  (`ClientUsesSupervisor`), so the supervisor's theorems hold of it. The kernel's invariant
  does not carry over so: a call's second POST is a step `Kernel` does not have, and
  `ClientInv` keeps the invariant over it with the kernel's lemmas for the rest. `CallFits`
  relates the two program counters of a call; from it come `SlotsStayCovered` (an exchange has a
  lease), `WireIsBounded` (the capacity bounds the exchanges) and `CloseStopsEveryCall`.
- **FileLock and AtomicFile**, both in `AtomicFileProofs`. `LockInv`: the mutex of a process
  belongs to the one worker between taking it and leaving `lockAt`, and the descriptors that
  hold the flock are those of the workers between the grant and the release. `Exclusive`
  says that nobody holds it next to an exclusive holder. A grant, a release and a death are
  then steps of `RWLock`, and everything else is a stutter (`LockImplementsRWLock`). The
  callers, with their failures, deaths and losses of power, move the lock as `FileLock` does
  (`CallersUseFileLock`), so its theorems are theirs. `FileInv` says what a call knows of the
  files: a temporary file is whole when it is renamed (`TempsAreWhole`), only a rollback
  writes the destination in place (`PathIsReplaced`), and as long as everybody locks, a
  writer inside its call has the lock and knows the destination and its `.bak`
  (`InsideIsLocked`, `LockedCallsKnow`). What readers see and calls report follows.
- **Ladder.** `CallerCounts` bounds a caller's attempts at each place of its rung;
  `SeedersAreKnown`: who seeds next to or after a reload was beside it or has read no older
  version; `SetIsKept`: so what the reload has set is there, or what one of those has set;
  `ReadIsPast`: nobody has read ahead of the file.
- **Session.** `SessionInv` keeps the jar to one entry of an identity, the loaded storages
  clean (rows as the decoder leaves them) and the last request at one of the URLs. A clean
  storage survives marshalling and unmarshalling unchanged, so a save is read back;
  what an answer sets is stated in closed form (`Stored`), for rows of any length.

- **Sdk.** The proof reads the code in two directions. From the wire: `At` is its steps along
  a path, whatever stands there; a body of the server is framed as it was written, however
  the chunks are cut; and the last result of an rpc is the one the server put there,
  whatever frames of other rpcs, earlier results, nulls and garbage come with it
  (`ListingsReturn`, `RenameReturns` and `StrictReturns` end this part for their calls).
  From the caller: each builder fills the slot of its kind, leaves the others empty and ends
  in its code (`URLPayload` to `DrivePayload`), so what the server makes of it is what was meant. In
  between, `CallInv` says that a call under way has the request of its leg, and that an
  error page is never more than garbage, of which no decoder makes a value (`PagesAreErrors`);
  `BodyInv`, that the body at hand was told by the server in one of the states in `served`,
  by what was then added. `TitleInv` adds for a rename that what the first leg left has
  the new title, `AddedInv` for an add that everything added was meant. `StreamInv` says of
  a question that the lines at hand tell all that was said, each refusal as one, and nothing
  else (`Transcript`); `ParseChatStream` then chooses among chunks that show exactly that
  (`ChunksOfTranscript`, `BestIsSelected`), for any number of lines, wherever the stream is
  cut. The six theorems follow: only `Decode` returns a value, and it returns what the body
  says.

The theorem of a conjunction (`SlotsStayExact`, `WaitersStaySafe`, `DrainStaysExact`,
`BudgetsAlwaysHold`) puts together the theorems of its parts.

Only model-checked:

- all liveness (`ParkedCallsWake`, `QueuedCallsSettle`, `CloseReturns`, `Returns`,
  `CloseReleasesAll`, `EverybodyReturns`, `CancelReturns`, `EveryCallReturns`), which needs
  `ENABLED` and fairness, outside the prover;
- `PassagesAreMarked`: it compares pieces of texts, and the provers know nothing of the
  characters of a string, nor what `SelectSeq` selects. What is proved of the chat is that
  its parsers return a value or an error (`ChatFits`), no value for an error page
  (`PagesAreNoAnswers`), and the best of what a stream said (`AnswersAreBest`).

## 7. Not modelled

`PROJECT.json` lists every component with its status.

- Formatting, logging, redaction, headers, error texts and permission bits, everywhere.
- Page-token extraction: regular expressions over HTML.
- `wire.EncodeRequest` and `StripAntiXSSI`, which nothing in the program calls; the
  request-id counter, which nothing calls either.
- The three body caps and the parser of `Retry-After`: what goes wrong there is a single
  read or a 64-bit product, without a state to explore. `Chain` takes any sleep, zero and
  negative ones included, from such a header. The known edges: `parseDeltaSeconds` wraps
  around (`errors.go:216`), `cappedReader` refuses a body of exactly the limit
  (`runtime.go:182`), `Stream.Read` may hand out one byte past the cap (`stream.go:160`).
- Error classes, exit codes and serialisation of `internal/app`, configuration precedence,
  the CLI, build information and the developer tools.
