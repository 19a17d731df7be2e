# Verification of LogInjector

TLA+ specifications of the concurrent and stateful parts of this repository
(`loginjector`, a Go logging package), the TLC configurations that model-check
them, and TLAPS proofs about the core. Paths are relative to the repository.

## The system

| Part | Source | State | Operations |
|---|---|---|---|
| Logger core | `logger.go` | minimum level, handlers, hooks, hook counter, an `RWMutex` | `WriteLog`, `Write`, `Hook`, `Unhook`, `SetMinLevel`; `Printf`, `Print`, `Panicf`, `Panic`, `StdLog`, `WriterAs` in front of `WriteLog` |
| Thread-safe writer, level wrapper | `handler.go` 1011-1052, `logger.go` 46-73 | one mutex per wrapper | `Write`, `ensureThreadSafe`, `WithMinLevel` |
| `RotatingFileHandler` | `handler.go` 99-382, 586-1009 | rotation index, size counter, stashed error; the files of the folder | construct (resume, fresh start, reconcile), write, rotate, gzip, prune |
| `FileByFormatHandler` | `handler.go` 384-433 | last file name; the files of the folder | write, prune |
| Timestamped and print handlers | `handler.go` 435-584 | none (the writer's mutex) | write |
| `TelegramHandler` | `handler.go` 21-96 | none (the writer's mutex) | write, which ends with `CloseOrLog` |
| `NewFileLogger`, `StdLog`, `WriterAs` | `filelogger.go`, `logger.go` 277-335 | the process-wide `log` output, the mutexes in front of a logger | construct, redirect; `log.Println` |
| Runtime-details cache | `error.go` 360-484 | provider, `sync.Once`, freeze flag, cached string | install a provider, ask for the freeze flag, construct an error |
| Error types, closers, levels, stack traces | `error.go`, `closers.go`, `levels/`, `internal/` | none | formatting |
| `httptap` | `httptap/` | per request and middleware: status, flags, buffers | the recover, access and payload handlers around an `http.HandlerFunc` |

How they interact: a goroutine calls `WriteLog`, which holds the logger's read
lock while it writes the message to every matching sink, one goroutine each, and
each sink is behind the mutex of its wrapper. A sink is a rotating file, a
printer, a Telegram request or the caller's own `io.Writer`; it may fail, panic,
or log through the logger it is a sink of (Telegram's `CloseOrLog` does, once
`WithStdLogRedirect` has pointed the standard logger back). A rotating file
outlives the process: the folder is the only state a restart finds. Several handlers
may share a folder, each with its own mutex; without options they prune each other's
files. The `httptap` handlers nest in any order, each giving the next a wrapped `ResponseWriter`; they
meet `net/http` at the outer end and the logger when they log.

What is hard here: readers and writers of the configuration against a message in
delivery; one sink reached in several ways; a lock held during I/O; a process
that dies between two file operations, and restarts with other options; file
operations that fail half-way; code that runs inside a `sync.Once`; and the order
in which nested middlewares see, buffer and forward the parts of a response.
`PROJECT.json` lists these at their lines, with the properties that cover them.

What makes each part correct:

- Logger: a message goes to exactly the sinks of the current configuration, once
  per registration; no sink runs twice at once; the result tells the truth; every
  call returns.
- Redirect: every `Println` returns, although it holds two mutexes around the lock.
- Rotating file: the folder holds a suffix of what was written, with the newest
  message, whatever dies or fails with an error; files, their number and their age
  are bounded; an error the handler is given reaches a caller of `Write`. Reads of the
  folder may fail without one: then only the bounds and the reporting hold.
- Shared folder: a handler loses its oldest messages first, whoever prunes.
- Runtime details: computed once, complete, and without late providers.
- httptap: the client sees what it would see without middleware, or one 500 after
  a panic, or nothing, and no mix of them, also when a log sink panics; a hijacked
  connection is left alone; the logs say what was sent.

## Modules

| Module | Models | Checked by |
|---|---|---|
| `Logger` | `logger.go` and the wrappers of `handler.go` | `MCLogger_*.cfg`, `LoggerProofs` |
| `AtomicLogger` | what a logger promises its callers (abstract) | by refinement |
| `LoggerProofs` | the invariants of `Logger`, and that it implements `AtomicLogger`, proved | `tlapm` |
| `StdLog` | `Logger` as the output of the standard `log` package | `MCStdLog_*.cfg`, `StdLogProofs` |
| `StdLogProofs` | the invariant of `StdLog`, proved | `tlapm` |
| `LogRing` | what a log folder promises (abstract) | `LogRingProofs`, and by refinement |
| `LogRingProofs` | the promise stated as a property of the folder | `tlapm` |
| `RotatingFile` | `RotatingFileHandler`; implements `LogRing` | `MCRotatingFile_*.cfg`, `RotatingFileProofs` |
| `RotatingFileProofs` | the invariants of `RotatingFile`, and that it implements `LogRing`, proved | `tlapm` |
| `SharedFolder` | by-format and rotating handlers in one folder; implements `LogRing` | `MCSharedFolder_*.cfg`, `SharedFolderProofs` |
| `SharedFolderProofs` | the same for `SharedFolder` | `tlapm` |
| `Extrema` | least and largest elements of sets of numbers, as lemmas | `tlapm` |
| `RuntimeDetails` | the cache of `error.go` | `MCRuntimeDetails_*.cfg`, `RuntimeDetailsProofs` |
| `RuntimeDetailsProofs` | the invariants of `RuntimeDetails`, proved | `tlapm` |
| `HttpTap` | a request through `httptap` | `MCHttpTap_*.cfg`, `HttpTapProofs` |
| `HttpTapProofs` | what the client gets from any composition, and what the logs say of it, proved | `tlapm` |

The `MC...` modules only give constants their values. Definitions commented
*Mutant* are wrong on purpose: each is the mapped definition that follows it with
a plausible bug, and shows that a property notices that bug. They are in no
specification.

### Logger

`Calls` is a set of slots for concurrent calls; `pc` says where each is.
`RLock`, `Lock`, `Unlock` are Go's `sync.RWMutex`: a writer announces itself
(`Lock`), from then on new readers wait (`rwait`), and it runs when the readers
are gone (`Exclusive`); when it is done the waiting readers hold the lock.
`Match` is the collection of the sinks, `Enter` and `SinkAccepts`, `SinkFails` or
`SinkPanics` the two ends of one `Write`, `Wait` the `WaitGroup`. A registration is
`<<"handler", h>>` or `<<"hook", id>>`; `EnsureThreadSafe` gives the mutexes a
`Write` through it takes: that of a sink this package made (`Guarded`), and a new
one for any other, or for one hidden by `WithMinLevel`. A mutex that is taken by
two wrappers in a row is taken in one step: they are always taken in the same
order, outer first. `CallFromSink` is a log call from inside a sink's `Write`,
which cannot return before it.

The inline write of a single sink and the fan-out are the same steps; they differ
in what a panic does (`SinkPanics`). The message itself is not modelled, and
neither are the formatting front ends. `CallWrite` keeps the one difference of
`Write`: it reads the minimum level before any lock.

### AtomicLogger

The logger without lock, goroutines and mutexes: a call takes effect in one step
between its beginning and its end. `Deliver` hands the message to all recipients of
the configuration of that moment; `PanicOfOne` and `PanicOfMany` are the two ends a
panicking sink makes. `Logger` implements it (`IsAtomic`) under the mapping at its end:
a call is *called* until it is at its `return` (`PhaseOf`), the result is what it then
returns (`Outcome`), the hooks are grouped by their id (`Registered`). The step of
`Logger` that is `Deliver` is `Wait`, the last moment of a delivery, so that `IsAtomic`
says that the configuration then is still the one the message went by. A re-entrant
call is a call like any other.

### StdLog

Extends `Logger` by the two mutexes a `Println` holds around its `WriteLog`: that of
`log.Logger` and, always inside it, that of the `writer` `WriterAs` makes; one variable
`outMu` stands for both. `Println` calls from outside, `CloseOrLog` from inside the
`Write` of a sink, at most once per `Write` (`spoke`): the Telegram handler's deferred
close of the response body. Both are released by `defer`, on a return as on a panic
(`OutUnlock`). The configuration stays the one `NewFileLogger` builds.

### RotatingFile and LogRing

A file is the set of numbers of the messages in it, its size and its
modification time. Every action changes the folder at most once, so `Crash` may
fall between any two changes. `Construct` computes the resume point and what is to
be removed (`doom`), `Remove` removes one file after another in the code's order.
`Open`, `WriteBody`, `WriteNewline` are the `Write` closure, `RotateStable` and
`RotateIndexed` the two kinds of rotation, `GzipCreate` ... `GzipDrop` the steps of
`compressFile` that change the folder, `Prune` the choice of `verifyFiles`
(`VerifyDoom`) or `pruneRotation` (`PruneDoom`). Each step that can fail has a
failing disjunct, the `stat`s of `rotate` and `compressFile` and the `Close` of the live
file included.

Failures are of two kinds. The error of most operations is joined into the result of a
`Write`: `Fault`. `unreported` records that one was met since a `Write` last returned an
error; `FaultsReported` says that the `Write` in progress, or the first one after a
construction, will return it. Others go unnoticed: `filepath.Glob`, which every listing
goes through (`handler.go` 777, 782, 990), ignores directory reads that fail, so that the
listing is empty or short; `backupExists` (795, 799) takes a `stat` that fails for a free
index, `listBackups` (885-888) skips the file, `reconcileCompressed` (979) keeps the
plaintext. No `Write` returns these. In a *blind* scenario every such look at the folder
sees any subset of what is there (`Sights`); one that misses something counts as a
failure (`Unnoticed`). Of the look-ups in a resume only the `stat` of the file to continue
is reported.

A `scenario` is a set of options processes may be started with, `maxFiles`, whether it is
blind, and the numbers of messages, deaths, failures and clock ticks; `Init` picks one, so
that one run covers several combinations whose product would be too large.

`Ring` is `LogRing` under the mapping *written = the messages whose body reached
the disk since the last fresh start, retained = those in a readable file*. A
message counts as written with its body: a death before the newline loses the
newline only.

Abstracted: names that are not the handler's own (the code ignores them), the size
of a `.gz` (nothing depends on it), a folder name that is no valid pattern (the one error
`filepath.Glob` does return; `SharedFolder` has the names that match something else), and
errors the code drops after the fact (closing the files of a compression that has failed or
has been read). `Tick` does not fall between a body and its newline nor inside one prune:
pruning uses the time at which it began.

### SharedFolder

Handlers are numbered in the order their prefixes sort. Each is a rotating handler
without options, or a by-format handler whose names sort by time or recur (weekdays).
`Open`, `AppendRotating` and `AppendByFormat` are a `Write` up to its prune; `Glob` and
`Remove` are `verifyFiles`, whose listing gets stale while the other handler works. A
handler may append to a file that has been unlinked since it opened it. `place` says
what the folder's name matches when `filepath.Glob` reads it as a pattern. The sizes
are left out: any `Append` may outgrow the cap. `LogRing` is implemented for the
handler whose names sort last.

### RuntimeDetails

One action per step of `cachedRuntime` that another goroutine can see; `once` is the
`sync.Once`, which callers wait for (`Wake`) and nobody can enter from inside
(`waitInside`). The cached string is represented by the provider whose text it carries.

### HttpTap

`chain` holds one record per middleware, innermost first, and the writer of
`net/http` last. `WriteHeader`, `Write`, `Flush`, `Hijack`, `SetHeaders` and `Read` are
functions of a chain: which elements the call gets through to (`Reach`), and what
each does with it. `flushTo` and the 500 of `RecoverPanic` use the same functions from
the element outside the recover handler. When the handler has ended, the
middlewares unwind from the inside: `RecoverClean`, `RecoverPanic`, `RecoverAbort`,
`AccessReturn`, `PayloadReturn`; then `Serve` is `net/http`'s end of the request. Body
bytes are numbered, 0 stands for the fallback body. The history variable `bare`
is a chain of the wire alone that receives the same calls: `Transparent` compares
the two. `net/http` and the handler are external: the first final status counts,
1xx statuses are informational, a flush or the end of the request commits a 200.

The log sink of one middleware per request may panic (`SinkPanic`). `WriteLog` passes
the panic of a single sink on to its caller, here the middleware, which goes on
unwinding with it (`PanicsInline`); with several sinks, and in the payload log's own
goroutine, nothing recovers it and the process ends (`PanicsAside`, *crashed*).

## Runs

Every passing run finishes within about two and a half minutes on two cores, most
of them within one.

| Run | Shows |
|---|---|
| `logger_deliver` | two calls of any kind, two handlers (one with `WithMinLevel`), one hook of up to two levels, a sink that fails, panics or logs itself: all safety properties, and refinement of `AtomicLogger` |
| `logger_live` | three calls on a sink that may panic, and an `Unhook` that panics: every call returns |
| `stdlog_redirect` | three calls, some of them `Println`, a file that may panic and a sink that calls `Println` itself: every call returns |
| `file_scenarios` | the six scenarios below: refinement of `LogRing`, exact size counter, complete `.gz`, nothing clobbered, every error reported, files, number and age bounded |
| `folder_shared` | two handlers of any kind prune one folder, one death: oldest messages go first, the last handler keeps a ring, files are bounded |
| `runtime_once` | the cache with three goroutines and a panicking provider |
| `http_stacks` | eleven compositions, handlers of up to four calls, three kinds of body cap, one panicking log sink |
| `logger_reentrant_deadlock`, `logger_raw_twice`, `file_compress_toggled`, `runtime_frozen`, `http_payload_in_recover` | the findings below |

Bounds and why they are enough. *Logger*: three calls are what a cycle through the
lock needs (a reader, a writer, a reader), so liveness has three; the safety
properties relate at most two calls, which two slots with a second sink, a second
level and a hook of two levels exercise, and they are proved for any number. *StdLog*:
one call writes to the sink that calls `Println`, one is that `Println`, one competes
for the mutex. *RotatingFile*: `MaxFiles` 2 or 3 with four to six messages of two
sizes (one under and one over the cap of 3) rotates more often than files are kept, so
the ring goes round. *SharedFolder*: two handlers, three messages each and a limit of
2, so each prune has files of both to choose from; a second death repeats the first.
*RuntimeDetails*: one goroutine inside the `Once`, one waiting, one late. *HttpTap*: four
calls are a status, a header and two writes, that is a body below, at and above the
cap of 2.

The scenarios of `file_scenarios`: `Restarts`, every kind of rotation and prune through
two deaths, which puts one restart after another, with and without `WithFreshStart`;
`Failures`, the rings that rename and compress with a death and two failures (the
removal of a temp after a failed step is the second); `FreshFailures`, a fresh start
that fails to remove a file; `TornWrites`, writes of which some bytes get through, enough
to fill a file; `Prunes`, every opt-in prune, with an age limit of one and three ticks;
`Blindness`, two failures that may go unnoticed, and a death, for a plain handler with and
without a fresh start and one that renames and compresses. A restart changes no option but
`WithFreshStart`, except in `file_compress_toggled` (`toggle`).

What a property leaves out: `LogRing` is promised when no operation fails and no age
limit is given, `SizeCounterExact` when no operation has failed, `NothingOverAge` when
none has failed and no process has died (a death between the rename to `.gz` and
`Chtimes` leaves the time of the compression), `NewestSurvives` when no fresh start may
fail to remove a file and no failure may go unnoticed (`OutOfOrder`), `GzIsComplete` and
`ContentOnlyGrows` when none may go unnoticed. `TypeOK`, `FaultsReported`,
`FileSizeBounded` and `FilesBoundedAtRest` hold throughout, the bounds growing by what each
failure, noticed or not, or death may add.

What a handler may do depends on the composition (`Ops`, `SoundOps`). Around a
recover handler it sends its status once, before the body, and does not stream;
under the payload log it streams, sets headers late and hijacks late or in vain; under
the access log alone it also repeats its status. The cases left out are those
the code does not carry through, see the findings. A payload log inside a recover
handler is left out of `Sound` for the same reason.

Deadlock is checked in `runtime_once` and `logger_live`; elsewhere the system really
may stop: a panic that ends the process, a sink that logs (`logger_*`, `StdLog`), and
messages, deaths or requests that run out (`RotatingFile`, `SharedFolder`, `HttpTap`).

### Fairness

`Logger`: goroutines that can run do (`WF` on the steps of a call and on the change
made under the write lock); the `Write` of a sink returns (`WF` on `LeaveSome`: files
and a Telegram request with its 20 s timeout do); `SF` on `Lock` and `EnterSome`,
because `sync.RWMutex` serialises writers by a mutex and `sync.Mutex` hands itself to
a goroutine that has waited for 1 ms, so neither can be overtaken for ever. That
readers do not starve a writer nor a writer the readers is not assumed: it follows
from the model of the `RWMutex`. New calls are not fair. `StdLog`: the
same, with `SF` on `OutLock`, a `sync.Mutex` too. `RuntimeDetails`: goroutines
inside `cachedRuntime` keep running and providers return.

## Findings

Each is a run whose property states what a comment says and which TLC refutes with
a short behaviour of the code.

| Run | What happens |
|---|---|
| `logger_raw_twice` | a caller's writer registered twice is written to concurrently |
| `logger_reentrant_deadlock` | a sink that logs deadlocks with a waiting writer |
| `file_compress_toggled` | a run without `WithCompress` makes the next one discard the newest data |
| `runtime_frozen` | a provider set after `RuntimeDetailsFrozen()` still runs |
| `http_payload_in_recover` | every response of `recover(payload(h))` is a 200 |

Also met, and reproduced by a small change to a `.cfg`:

| Change | What happens |
|---|---|
| `MCLogger_deliver.cfg`, `INVARIANT WriteNeverGated` | `Write` picks its level before the lock (`logger.go` 298) and loses its message to a concurrent `SetMinLevel` |
| `MCLogger_deliver.cfg`, `INVARIANT UnhookNeverPanics` | `Unhook` panics when there is no hook (`logger.go` 155) |
| `MCRuntimeDetails_once.cfg`, `Reentrant = {loud}`, `PROPERTY ProviderMayCallBack` | a provider that constructs a `StackTraceError` waits for ever (`error.go` 475) |
| `MCRotatingFile_scenarios.cfg`, `Scenarios <- Single`, `INVARIANT NewestSurvives` | `WithMaxFiles(1)` with a stable name or compression keeps no backup: each rotation removes the newest data (`handler.go` 856) |
| the same, `Scenarios <- Unlisted`, `PROPERTY ResumesAtHighest` | a directory read that fails is an empty listing: the handler resumes at index 1 and no `Write` returns an error, where `handler.go` 215-226 says "Any stat/glob error encountered while resolving the resume point is stashed" (`handler.go` 777) |
| the same, `NewestSurvives` without `~ OutOfOrder` | after such a resume the next backup has a low index, and the prune takes it first, the newest message with it |
| the same, `ContentOnlyGrows` or `GzIsComplete` without `~ scenario.blind` | a second failure is the `stat` in `backupExists`: a rename lands on a backup, or a plaintext beside the `.gz` of other messages (`handler.go` 795) |
| the same with all scenarios but `Blindness`, `NewestSurvives` without `~ OutOfOrder` | a file `WithFreshStart` failed to remove keeps a higher index, and the prune takes the new files first (`handler.go` 697) |
| the same, `INVARIANT NewestOfAllSurvives` | writes that fail half-way fill a file without any message, and the prune after its rotation takes the last message written, here after a death too (`handler.go` 354, 856) |
| the same, `Scenarios <- FreshGz`, `INVARIANT GzIsComplete` | a compressing `WithFreshStart` fails to remove `prefix.N.log.gz` and uses index N again; the next process takes the new `prefix.N.log` for the leftover of a compression and discards it (`handler.go` 978) |
| `MCSharedFolder_shared.cfg`, `INVARIANT NewestSurvives` | a handler's newest message goes: its names sort before another's, or recur (`handler.go` 720) |
| the same, `INVARIANT PruneNeverFails` | two prunes remove one file, and `Write` reports an error for a message that is on disk (`handler.go` 729) |
| the same, `INVARIANT FilesBoundedAnywhere` | in a folder whose name has glob metacharacters nothing is ever pruned (`handler.go` 777) |
| the same, `INVARIANT PrunesOwnFolder` | such a name may match a sibling, whose files are pruned instead |
| `MCStdLog_redirect.cfg`, `RedirectLevel = 2`, without `StdTypeOK` | a `Println` delivered to the sink that calls `Println` from its `Write`: the mutexes form a circle and nobody returns (`closers.go` 23, `filelogger.go` 193) |
| `MCHttpTap_stacks.cfg`, `flush` added to `Plain` | a flush under a recover handler commits a 200 on the wire, and no 500 follows a panic (`rw.go` 29) |
| the same, `Codes = {103, 404}` | the access log takes a 103 for the status and swallows the real one (`access.go` 78) |
| the same, `delete` or `late` added to `Plain` | a header the handler deleted, or set too late, is sent under a recover handler (`recover.go` 191-194) |
| the same, `hijackFails` or `hijackLate` added to `Plain` | the recover handler drops the response, or the status sent before the hijack (`rw.go` 41) |
| the same, `again` added to `Streaming` | the payload log shows the last status, the client got the first (`interceptor.go` 136) |
| the same, `empty` added to `Streaming` | an empty `Write` after exactly the cap marks a complete body as truncated (`interceptor.go` 120) |

## Proofs

`LoggerProofs` proves the safety properties of `Logger` for every value of the
constants that satisfies `LoggerAssumption`: any number of calls, sinks, handlers,
levels and hooks, with panicking and re-entrant sinks. The invariants are not
inductive by themselves; `IInv` adds to `TypeOK` and `DeliveryMatchesConfig`

- `LockInv`: a delivering call holds the read lock, and a writer past `Exclusive` is
  alone - why the configuration cannot change under a delivery;
- `FrameInv`: an idle call has no plan, no writes and no results, and what is
  writing, failed or accepted was planned - why `Result` is about this message;
- `HookInv`: each entry's writer takes a mutex of its own, and the entries of one hook
  differ in level - why a message matches at most one of them;
- `MutexInv`: a running write holds the mutexes of its writer, and nobody else holds
  them - why two writes of one sink exclude each other.

`StepCases` splits `Next` once; `TypeStep`, `LockStep`, `FrameStep`, `HookStep`, `MutexStep`
and `DeliveryStep` each show that a step keeps one part; `Inductive` puts them together
and `TypeCorrect`, `DeliveryIsCurrent`, `WrittenOncePerRegistration`, `SinkExclusion`,
`ResultIsTruthful` draw the conclusions.

Its second part proves `ImplementsAtomicLogger`, that is `IsAtomic` for every value of
the constants. Beside `IInv` it needs `CallInv`: a call on its way to a delivery is a log
call, one on its way to a change carries no level, and the entries of one hook share a
writer (so that grouping them by id loses nothing). `Moves` and `UnlockMoves` say what the
mapping makes of a step, `MatchedRecipients` that both loggers name the same recipients;
then there is one lemma per kind of step. Only six kinds are visible: the beginning of a
call, `Wait` (by `DeliveryMatchesConfig` the configuration is still the one the message
went by), a panic of a sink, the end of a change (the writer is alone), the panic of
`Unhook`, the return. All others stutter, the readers let in by `Unlock` included.

`StdLogProofs` proves `StdTypeOK` for any number of calls, sinks and handlers: who holds
the mutexes of the standard logger is on its way through `WriteLog` at the level of the
redirection, never returned or panicked with them locked. `StdInv` adds that nobody changes
the configuration there, so that the holder never waits for a writer, and what a call
brings to the mutexes.

`RuntimeDetailsProofs` proves the safety of the cache for any number of goroutines and
providers, panicking and re-entrant ones included. `OnceInv`: one goroutine at a time is
inside the `Once`, and nobody reads before it is done; `CallInv`: a provider has run only
where the state of the `Once` says so, and at most one has; `TextInv`: what is read, cached
and returned was installed in time.

`LogRingProofs` proves `SuffixAlways` for every set of message numbers: whatever
implements `LogRing` keeps a suffix of what was written, with the newest message.

`RotatingFileProofs` is about every set of scenarios: any caps, sizes, ages, numbers of
messages, indices, failures, deaths and restarts. `TypeInv` is `TypeOK` with `Control`,
what the program counter says of the folder (the live file is there while it is written
to, the source, the temporary file and the target of a compression from step to step). On it rest, each with its own
inductive invariant:

- `FailuresAreReported` (`Reported`: between Writes no error is pending but that of the
  construction): of the errors the handler is given, in blind scenarios too;
- `CounterIsExact` (`SizeInv`: what the counter is between the steps of a `Write`, and that
  no indexed file is beyond the live one, into which a rotation would go unawares);
- `FilesStayBounded` (`BoundInv`: the live file is within the cap whenever a message may be
  appended, by a counter that accounts for all of it but the slack that failures and deaths
  have left, and so are the files a rotation may come to);
- `ContentOnlyEverGrows` (`GzInv`: a compressing handler writes below every `.gz`, so that
  the target of a compression is free);
- `CompressedBackupsAreComplete` (`CompleteInv`: the temporary file that becomes a `.gz`
  holds what its source does, and a handler that does not compress has no `.gz`);
- `ImplementsRing`, that is `IsRing`. `RingInv` is `CompleteInv`; `AheadInv`: the file a
  handler writes to, or is about to create, comes after every other, but for those a fresh
  start is removing; `OrderInv`: the files are in the order of their messages;
  `PruneInv`: what is to be removed is closed downwards, so that each removal leaves a
  suffix, wherever the process dies; `NewestInv`: the newest message is in the live file, or
  after a rotation in the newest backup, which no prune lists. A step is then quiet (the set of readable messages stays:
  `QuietKeeps`, with every step of a compression), a rotation (`RotationKeeps`), an append
  (`AppendKeeps`), the end of a reconciliation (`ReconciliationKeeps`) or a removal
  (`RemovalCuts`, an `Expire` of the ring by `CutIsExpiry`);
- `RetainedStaysSuffix`, from the last and `SuffixAlways`;
- `LatestSurvives`, that is `NewestSurvives`, with operations that fail. `AheadInv` then
  allows the live file to stay where a failing rename leaves it. `LastInv` follows the
  message to the live file, the newest backup or that file; `LastKept` is why no prune
  lists it, by count (`HighestSpared`) or by age: `StampInv` says that a file is no
  older than its messages, also a `.gz` whose time could not be set;
- `BackupsStayYoung`, that is `NothingOverAge`. `StampInv` bounds a file's time from one
  side, `AgeInv` from the other: while nothing fails and no process dies, every file holds a
  message as young as its modification time (`Dated`), but for a live file nothing has been
  appended to and a `.gz` before `Chtimes`; and outside of a compression no index has two
  files, so that the age a prune reckons for an index is that of each file it keeps;
- `FolderStaysBounded`, that is `FilesBoundedAtRest`. `FilesInv` bounds the number of
  files between any two changes: at rest by the `Room` there is beside the live file, after
  a rotation by one more, and while a prune removes files, what it spares (`Spared`) by
  `Room` again. `Room` grows with each death, which may fall before a prune, and with each
  failure. What a prune spares is counted in `VerifySpares` and `PruneSpares`: a set from
  which all but the m lowest are not taken has at most m (`AllButTheLowest`). `KindInv`
  says that there are no files a prune does not see.

In blind scenarios `FailuresAreReported`, `FilesStayBounded` and `FolderStaysBounded` hold as
they stand: `ConstructFacts`, `RotateStableFacts` and `PruneFacts` say what a step makes of
what it sees, and that it misses nothing unless it uses up a failure. The others are about
what a handler does that sees the folder as it is.

Four assumptions on the scenarios, all met by those of `file_scenarios` (`CheckedIsProved`,
which TLC evaluates): `CleanFresh`, a fresh start of a compressing handler meets no failure
(else `GzIsComplete` fails, see `FreshGz` above); `NoToggle`, no process compresses while
another of the same folder does not (`file_compress_toggled` shows why); `Roomy`, `maxFiles`
is at least 2 unless no option is given (`Single` above); `KeepsLive`, for the number of
files alone, `maxFiles` is at least 1 unless no option is given, because a prune with an
option never removes the file the handler writes to. A theorem assumes only those it names.

`SharedFolderProofs` is about any set of handlers of any kinds, limits and names.
`IInv` consists of `TypeInv` (no index runs ahead of the number of messages);
`OnlyPrunersDoom`; `OrderInv`: for a handler whose names never come back, its files hold
its messages in the order of their names, its live file is the last of them or unlinked,
and what any prune is about to remove is closed downwards and no younger than that file;
and `NewestTwo`: two files of the last handler are later than what any prune is still to
remove. The hard case of
`OrderInv` is a listing that has become stale: the other handler has created files since,
all of them after those listed (`DoomOld`, `OrderOpen`), or has removed some (`OrderRemove`).
`LossIsAlwaysOldestFirst` follows without further assumptions; `RingOfTheLast`, that is
`TopIsRing`, needs every limit to be 2 (`Roomy`, `LimitIsRoomy` for the run): with one
file, the prune of another handler may remove the newest message.

`FolderStaysBounded` counts the files of a folder of any number of handlers, none of which
knows the others' files: by the time a prune removes what it listed, the folder is another
one. A *covering* (`Cover`) says that the folder consists of files a prune keeps, no more
than its limit, files it is still to remove, and files the handlers have created since it
listed them; `Within` bounds the latter for one handler by what it has done since (one
file, two between the opening under a new name and the prune that follows, one more for
each death). `CountInv` has one covering for the folder at rest and one for every prune
under way, numbered in the order of their listings: a prune that is done makes its covering
the folder's, unless a later one did so before. `CountStep` follows a covering through
each kind of step. At the end the files since are counted handler by handler
(`FilesOfAll`), by an injection into handlers and numbers up to `restarts + 1`.

`Extrema` has what these two need about `Min` and `Max` of sets of numbers, from the well-foundedness
of `<`: the choices of `findResumeIndex` and of the prunes are a `Max` and a `Min`.

`HttpTapProofs` is about any set of stacks, codes and caps and any number and length of
the handler's calls. A chain function (`WriteHeader`, `Write`, `Flush`, ...) is described by
three lemmas: what it keeps of every element (`...Keeps`), what it leaves alone when an
element in between does not pass it on (`...Spares`), and what it does from an element
outside another (`...Outside`). The invariants:

- `HijackInv`: when the wire is hijacked, so is every wrapper, because `Hijack` marks them
  on its way out - so `HijackersAreLeftAlone`, without any assumption;
- `FlowInv`: which elements have unwound, with what panic, and that each kind occurs once;
- `RecoverInv`: until the recover handler unwinds, nothing has passed it to the wire - so
  `AbortsPassThrough`;
- `FallbackInv`: after a panic, the wire has the fallback reply as soon as the recover
  handler has unwound, and keeps it whatever the outer elements do; with
  `BareInv` about the wire without middleware - so `PanicsGetOneReply`;
- `SyncInv`: until it unwinds, the recover handler has buffered what the wire without
  middleware has been sent, and once it has sent it, both look the same (`Settled`, `OutBody`);
- `DirectInv`: without a recover handler, the wire is at every moment the wire without
  middleware, up to a flush - so, with `SyncInv`, `NeverAMix` and `CleanResponsesAreKept`;
- `LinesInv`: a log that has unwound has written its line, whatever panics, and its element
  stays as it was then: after the handler only a recover handler further out and flushes
  touch the chain (`UnwoundStays`);
- `CaptureInv`: what an element outside of every recover handler has captured is the body
  on the wire, up to the cap, and nothing is on the wire before the recover handler unwinds.
  A step lets nothing of a body go by (`Quiet`), or it is a `Write` whose bytes grow the body
  and the capture alike (`CaptureGrows`, `ShownGrows`), or a read (`TeeGrows`) - so, with
  `LinesInv`, `CapturesAreExact`;
- `TellsInv`: what such an element knows of the status, at any moment, against the wire's
  (`Told`: an access log without a status sees a wire without a body, with none or the
  implicit 200); the first status, a write and a flush keep it - so `StatusesAreLogged`.

What they assume is `Tidy` or a part of it, the compositions and handlers for which the code
carries its promise through: no flush (`NoStreaming`), no late, failing or vain hijack
(`NoLateHijack`), no header that is late or deleted (`SettledHeaders`) and no payload log
(`NoPayloadInside`) under a recover handler; no informational status (`FinalCodes`). Each is
needed: the tables of findings above have a behaviour without it. The two theorems
about the logs have one more each, also in that table: `OneStatus` for the statuses and
`NoEmptyWrites` for the bytes, the only one the latter needs. `http_stacks` satisfies all
of them (`SoundIsTidy`), and allows what they exclude where no recover handler is around.

Every safety invariant and action property of the passing runs, and each refinement, is
proved. Only model-checked is liveness (`EveryCallReturns` and the like): the prover has no
rule for fairness and `ENABLED` here.

## Not modelled

The text of messages, timestamps, redaction, level names, stack traces and error
formatting (stateless, unit-tested); the Telegram request (a sink that may fail);
`NewFileLogger`'s checks of its arguments; failing operations of handlers that share a
folder (their errors pass through to the result; failing reads of the folder are in
`RotatingFile`); `Push`, the parsing of options and
the numbers of the payload summary; several requests at once (they share the logger
and the writer of the summary lines, which nothing serialises); the data race on `minimumLogLevel` beyond a stale value (an aligned word).

## Plan

1. Done: `Logger` with proofs; `LogRing`, `RotatingFile`; `RuntimeDetails`; `HttpTap`.
2. Done: `AtomicLogger`, `SharedFolder`, `StdLog`, failures that must be reported, log
   sinks that panic under `httptap`.
3. Done: the proofs about `Logger`, `StdLog`, `RuntimeDetails`, `SharedFolder`,
   `RotatingFile` (its refinement of `LogRing` included) and `HttpTap`: every invariant
   and action property of the passing runs.
4. Left: several requests of `httptap` on one logger and one writer of summary lines; the
   safety of `Logger` carried over to `StdLog`, whose sinks log at a level of their own.
