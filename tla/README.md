# Specifications of computer-use-jev

TLA+ models of `computer-use-jev` (`src/`), a command that drives macOS through
the Accessibility API on behalf of a language model, with TLC runs on small
instances and TLAPS proofs for instances of any size.

    tlc -config MCDecider.cfg MCDecider.tla      # a run
    tlapm Decider_proofs.tla                     # a proof

## 1. The system

One process of the command runs one goal (`-goal`) or one tool call
(`apps`, `windows`, ...):

    cmd/computer-use-jev  --->  planner  --->  typesafe client   (HTTP, one request)
            |                     '--------->  provider/transport (HTTP, a stream)
            |---------------->  decide   --->  typesafe client
            |                     |
            '------------------>  computeruse (Go client)
                                        |  stdin / stdout, one line per message
                                  herbie-computer (Swift worker process)
                                        |  Accessibility API
                                  applications of the desktop

| Component | State it keeps | Operations | Interacts through |
|---|---|---|---|
| **Tool client** `computeruse/{computeruse,worker}.go` | mutex, retained worker, per worker the next request id, a scanner goroutine, an exit goroutine | `RunContext`, `Close` | calls from goroutines; pipes and signals to the worker |
| **Worker** `computeruse/swift/main.swift` | last id, initialized, token tables of applications, windows, elements | `initialize`, nine actions | pipes to the client; the Accessibility API to the desktop |
| **Argument check** `computeruse/computeruse.go` | none | `parseComputerUseArgs` | called by `RunContext` |
| **Output** `computeruse/{render,cap,image}.go` | none | render, cap, decode images | called by `RunContext` |
| **Worker build** `computeruse/worker_darwin.go` | files of a cache directory | `computerUseWorkerPath` | the file system, shared by all processes of a user |
| **Decision loop** `decide/*.go` | tracker of the tokens seen, history, step budget | `Pursue`, `PursueSequence` | the tool; the model; the user's Ctrl-C |
| **Planner** `planner/planner.go` | none across calls | `Plan` | the model for the question whether a goal is compound; a provider to split it |
| **TypeSafe client** `typesafe/client.go` | none | `Ask` | one HTTP request |
| **Command** `cmd/computer-use-jev/main.go` | flags | `run`, `passthrough`, the goal mode | all of the above |
| **Transport** `internal/herbie/transport/*` | attempt counter, idle timer, SSE buffers | `Stream`, retries, `Delay` | HTTP; timers; a callback per event |
| **Providers** `internal/herbie/providers/*` | open blocks and tool calls of a stream | request building, event parsing | transport |
| **Anthropic turns** `providers/anthropic/anthropic.go` | server tool uses that wait for their result, ids seen, usage of the turn | `stream` | the transport; the items of a conversation |
| **Configuration** `internal/herbie/config/*` | per process: the run's and the conversation's settings, what was read of two files; the files | `Lookup`, `Set*`, presets, selections, `Persist*` | the file system, shared by all processes of a user |
| **Settings of providers** `internal/herbie/{provider,providerconfig}/*` | none | usage, headers, typed settings | configuration; the transport |
| **Text, trace, version** `internal/herbie/*` | a trace file | the diff, the width of text | - |

`internal/herbie` is copied from another project (its README says so); this
program reaches it through the planner only. Its configuration, server tools and
diff have few callers here and are modelled for what they promise to any caller.

### What is hard, and what makes each component correct

* **Tool client.** Goroutines, a process that can crash, hang, answer late or
  garble, a context and a timer that race a response. Correct when no process is
  leaked, when no call reads the answer to another, when every call returns,
  and when a call takes effect at most once and as its result says. (A restart is
  reported to the one caller whose call failed: callers that share a client must
  share the tokens too.)
* **Worker tables.** Applications quit, windows close, elements disappear and
  are renumbered between the listing, the choice and the call. Correct when a
  token never comes to mean another object to the one who was shown it.
* **Decision loop.** The model may answer anything, the desktop and the worker
  change under it. Correct when what it acts on is what the model was shown,
  when the budget is total, when "done" is believed only on evidence of the
  instruction's own, when it ends, when a dry run does nothing, and when the
  calls it builds are calls the tool accepts.
* **Worker build.** Processes that overlap or crash share files. Correct when
  what is published is the complete worker.
* **Command.** Correct when what one command prints can be used in the next, as
  its documentation shows.
* **Planner and transport.** A stream that fails after text was emitted is
  started again; the end of the context, a broken connection, an early end and a
  silent provider race. Correct when a plan is never put together from two
  attempts nor taken from a response that was cut or refused, when what was
  answered is not asked again, and when `Plan` returns. A delay must stay within
  its bounds and an event be parsed alike however its bytes are split.
* **Anthropic turns.** A use of a server's tool and its result are two blocks
  with others between them, perhaps in another continuation or turn, and an
  attempt may fail between the two. Correct when every use is handed on joined
  with its result and in its place, when nothing of a failed attempt is left
  behind, when a turn is refused exactly when its blocks do not match, and when
  usage is reported once.
* **Configuration.** Six places of different strength, a provider and a model
  that belong together, files shared without a lock, writes that fail halfway.
  Correct when no file is ever half-written, when memory follows the file, when a
  file the user must mend is kept, and when no model meets the provider of
  another.
* **Pure functions** (diff, delays, numbers, usage, headers, messages, SSE).
  Correct when the result is what the whole input says, at every boundary.

`PROJECT.json` lists these hazards one by one, at the line where each bites.

## 2. The modules and the code

    SerialTool  <== implemented by ==  ComputerUse          CompileCache
                                            .
              Worker (one call of the tool) .
             /
        Decider                                     Planner

        Config      ServerTools      Diff    Transport  Providers    (over Words)
                                       \          \     /
                                        \        Algorithms
                                         TextDiff  --'

| Module | Models | MC module, proofs |
|---|---|---|
| `SerialTool` | what a call of the tool promises: turns, at most one effect, a truthful result | - |
| `ComputerUse` | the Go client with concurrent callers, and the worker's main loop behind its pipes | `MCComputerUse`, `ComputerUse_proofs` |
| `Worker` | what one call does: token tables, handlers, argument check, restarts, as seen from one caller | (used by `Decider`) |
| `Decider` | `PursueSequence` and `pursue` on top of `Worker` | `MCDecider` with `MCDesktop`, `Decider_proofs` |
| `Planner` | `planner.Plan` with the retried stream of its splitter and the three parsers | `MCPlanner`, `Planner_proofs` |
| `CompileCache` | processes building the worker in the shared cache directory | `MCCompileCache`, `ComputerUse_proofs` |
| `Config` | processes that look up, change and write the settings they share | `MCConfig`, `Config_proofs` |
| `ServerTools` | the turns of an Anthropic conversation with server tools | `MCServerTools`, `ServerTools_proofs` |
| `Diff` | `text.UnifiedDiff` | (used by `TextDiff`) |
| `Words` | integers of a width in two's complement | (used by the two below) |
| `Transport` | `Delay`, `retryAfter`, the SSE parser | (used by `Algorithms`) |
| `Providers` | `parseScaled`, `StreamUsage.Add`, extra headers, chat messages | (used by `Algorithms`) |
| `Algorithms` | one call of any function of the two above, and what its result must be | `Algorithms_proofs` |
| `TextDiff` | the same with `UnifiedDiff`, and what a diff must be | `MCAlgorithms`, `TextDiff_proofs` |
| `Induction` | no code: induction over sequences and folds, for the proofs | (used by `ServerTools_proofs`, `Algorithms_proofs`, `TextDiff_proofs`) |

### ComputerUse

The goroutine's place in `RunContext` is `pc[c]`; `mu`, `worker` and `nextID` are
the fields of the same names. A process is a generation 1, 2, ...; its pipes are
two sequences, `proc` is what the operating system knows of it.

| Action | Code |
|---|---|
| `Invoke`, `Reject` | `RunContext` up to the mutex; arguments that do not parse |
| `Acquire` | `c.mu.Lock()` and the test for a retained worker |
| `StartFails`, `StartProcess` | `startWorker` up to `cmd.Start` |
| `Write`, `WriteFails` | `call` up to the write to stdin |
| `ReceiveInitialized`, `ReceiveResult`, `ReceiveRefused`, `ReadFails`, `CtxDone`, `Timeout` | the cases of `call`'s `select`, with `decode`, and what `startWorker` and `RunContext` do with each |
| `FailCall` (part of the above) | every path on which the worker is closed |
| `Close` | `ComputerUse.Close` |
| `Perform`, `Respond`, `RejectFrame` | the worker's loop: the effect and the answer are two steps, so a crash or a kill may come between |
| `Exit`, `Wedge`, `Reap` | the process dies, hangs; `cmd.Wait` returns and closes the read end of stdout |
| `Cancel` | the caller's context |

`SIGKILL` is asynchronous: a killed process may still carry out and answer what
it has read. A line that fits the pipe is taken whether or not the worker reads;
a longer one only while it does (`PipeAccepts`).

### Worker

A token is a kind and a number, and a listing is the function from the numbers
printed to the objects described next to them. `process` holds the Swift
process's tables (`Nothing` without a process). A handler is an operator that
returns the set of replies it may give, each with the tables it leaves behind:
`Apps` keeps the tokens of known applications, `Windows` numbers on and drops
the older tokens, `Snapshot` numbers from 1 and replaces the element table, in
the order of a walk that a limit may end anywhere. `Replies(call)` is
`RunContext` seen from its only caller: the argument check, a start on demand, a
handler's reply, and the loss of the worker before or after the handler took
effect. `DesktopStep` lets applications quit, start and come forward, and
windows close with their elements, at any time.

### Decider

| Action | Code |
|---|---|
| `Begin`, `GiveUp` | head of `PursueSequence`'s loop: remaining budget, the tracker handed on |
| `Loop`, `GiveUp` | head of `pursue`'s loop |
| `GatherApps`, `GatherWindows` | `gather`'s two calls |
| `RefreshInstruction`, `RefreshImpossible`, `RefreshFails` | `refreshInstruction` |
| `AskFails` | the request, or the one that asks again, fails |
| `Satisfied`, `Escalate` | the goal is affirmed; every return after a recorded step without one |
| `Observe` | the two fallbacks to a snapshot |
| `Choose`, `ChooseDry` | a target is accepted and the arguments are built (`ActionArgs`) |
| `Execute` | `execute`, the tracker's refresh, the recording of the step |

The question asked a second time for a target of the right kind is folded into
the answer: `Answers` is every token known, none, or one invented, and the
second question can only narrow it down.

### Planner

| Action | Code |
|---|---|
| `AskFails`, `Classify` | `plan` up to the thresholds, with `typesafe.Client.Ask` |
| `LoadFails`, `Load` | `fromEnv`; the provider decides the wire format |
| `Attempt`, `Wake` | head of `RunStreamRetry`'s loop and of `SSE`; the end of `Sleep` |
| `ConnectFails`, `BadStatus`, `Headers` | `SSE` up to the stream |
| `Receive`, `ReceiveText`, `Refuse` | an event through parser and callback |
| `EndOfStream`, `Breaks`, `CtxEnds` | the ends of `SSE` |
| `Judge` (part of these) | `RunStreamRetry` after `SSE`: accept, retry, give up |

`parser` has the fields of the providers' `events` that decide about the end. The line
`[DONE]` (`Done`) ends a response on both wires of OpenAI, before the wire is looked at.
Text is a sequence of the pieces `parseSplit` tells apart. A response is taken to
start from its beginning whenever it is asked for again: a provider may stop or
garble at any point, but does not go on where a broken attempt stopped.

### CompileCache

`computerUseWorkerPath` step by step: `Hit`/`Miss` (stat), `Truncate` and
`WriteSource` (the two halves of `os.WriteFile`), `Compile` (swiftc reads the
source and opens its output), `Link`, `Publish` (chmod, rename), `Fail` at any
of these, `Leave` (end or crash) anywhere, after which the same process id may
come again. The names of its specification begin with `Cache`, so that its
proofs can stand beside those of `ComputerUse`, which looks for its worker here.

### Config

A tier is a record of settings: `model` stands for model, effort and fast, which
the code treats alike, and `retries` for a setting whose key has a dot, which a file
may spell as a whole key (`literal`) or as a member of an object (`nested`).
`mem[p]` is the `Config` of a process, `op[p]` the write it is at, `disk` the files
and `before` what they were before their last rename.

| Action | Code |
|---|---|
| `Start` | `NewWithEnv`, `Init`, `loadFile`, `load` |
| `SetRun`, `ClearRun`, `ApplyPreset`, `ExitPreset`, `Restore`, `ApplyStartupPreset` | the operations of those names (`PresetApply`, `PresetExit`, `RestoreSelection`) |
| `Persist`, `PersistState`, `PersistSelection`, `SavePreset` | the same up to the write: checks and the next content |
| `WriteTemp`, `Sync`, `Rename`, `Fail` | `atomicJSONWithOrder`, and memory that follows when it succeeded |
| `Crash`, `PowerLoss` | a process is killed; what was not synced is torn and a rename may be undone |
| `Lookup`, `Allowed`, `MaxAttempts`, `TaskSelection` (operators) | the functions of those names; `typed` for the retries |

### ServerTools

`pairing` has the four variables `pair`, `drain` and `flushDeferred` share, `saved` what
`restorePairing` goes back to, `out` what the callback was given in this turn.
Of an event only its kind and the id of its use are kept. `DrainOnce` and `FlushOne` are
a turn of the loop of `drain` and of `flushDeferred`; a loop is a fold over what waits, since
each turn of `drain` takes an event or changes nothing more.

| Action | Code |
|---|---|
| `Begin` | `stream` up to the first request, with `PendingServerToolIDs` |
| `Usage`, `Receive` | an event through the parser, `streamRequest`'s callbacks and `pair` |
| `Complete`, `Pause`, `PauseTooOften` | the three ends of a response in `stream` |
| `Retry`, `Again` | `EventRetry` with `restorePairing`; a new parser |
| `Fail`, `Cancel` | an error status or event; the context or the callback |

### Algorithms and TextDiff

`in` is a function and an input, `out` its result, so that every input is one step.
`TextDiff` adds `UnifiedDiff` to the functions of `Algorithms`, and the run checks both.
`Diff` follows `diff.go` operator by operator: `Window`, `Region`, `MyersSplit`
with its work limit, `SlideRuns`, `Changes`, `Hunks`. A loop of `diff.go` is a function of
the turns it has made, over as many turns as it can make: `SlideNext`, `ChangeNext` and
`HunkNext` are a turn of theirs, and leave a loop that is at its end as it is. `Region` is such a function of the
depth of its calls: a part of a region is smaller than it, so its size is deep enough. The properties define the same
results again in another way: a longest common subsequence, the sum of all
usages, the events of the stream as a whole. Integers have a width where the
code's do (`numberWidth`, `secondsWidth`).

## 3. What the runs show

| Run | Bounds | Shows |
|---|---|---|
| `MCComputerUse` | 2 goroutines, 2 calls, 2 processes, small and big requests | type correctness; `NoOrphan`: no process outlives its use; `OneInFlight`: nothing is left in the pipes between calls; `SettledIsFinal`: only a lost call may still act; `ImplementsSerialTool`: refinement of `SerialTool`; `ReturnsUnlessBlocked`: every call returns unless one is blocked in `Write` |
| `MCComputerUseWedge` | 1 goroutine, 1 call, with big requests | **violates** `Returns` |
| `MCDecider` | one application with 2 windows, one element, 2 instructions, 3 steps | `TokensAgree`, `ActsOnWhatWasShown`, `BudgetRespected`, `DoneIsEvidenced`; `PursueReturnsUnlessBlocked`: the loop ends unless a call that carries text or keys never returns |
| `MCDeciderDryRun` | 2 applications with a window each, 2 steps | **violates** `DryRunRunsNoTool` |
| `MCDeciderCalls` | 2 applications with a window each, 2 steps | **violates** `WellFormedCalls` |
| `MCDeciderAlias` | the same with 3 steps | **violates** `ActiveAppKeepsItsMeaning` |
| `MCPlanner` | 3 attempts, 3 instructions, 5 pieces of text | `NeverSpliced`: no plan has text of two attempts; `NoPlanOfBadResponse`: none has text of a response that was cut by a limit, failed for good or was refused; `OnlyFailuresAreRetried`; `PlanReturns` |
| `MCCompileCache` | 3 processes, any number of crashes | `NeverPartial`; `SoundUnlessConcurrent`: crashes alone never publish a broken worker |
| `MCCompileCacheRace` | 3 processes | **violates** `PublishedIsSound` |
| `MCConfig` | see `MCConfig.cfg`: 2 processes and a handful of operations in all, three spellings of two providers, good, bad and unparsable files | `NeverTorn`, `WrittenIsRead`, `UnparsableKept`: the files; `StoredTogether`, `ModelFitsProvider`, `PromptOfItsPreset`: what belongs together |
| `MCServerTools` | 2 models, 2 ids, 2 attempts, 1 continuation, 2 turns, the events of `MCServerTools.cfg` | `PairedInOrder`, `ResultsFollowUses`, `RefusedIffBroken`, `UsageCountedOnce` |
| `MCAlgorithms` | every input of the sets in `MCAlgorithms.tla` | `DiffIsPatch`, `DiffIsShortest`, `NumbersInBounds`, `UsageIsTotal`, `EventsOfStream`, `HeadersAsConfigured`, `CallsAnswered` |

Why these bounds are enough for the cases that matter: two goroutines make one
wait for the mutex while the other loses the worker, and a goroutine may call
again (a number is of the call, not of the goroutine); two processes are a worker
and its successor, while a late answer or effect of the first is still about.
One element under a window is a table that can be shorter
or longer than the one before, and renumbered; two instructions have one
hand-over; three steps let an instruction look, lose its worker and act. Two
applications, what it takes for a token to be minted again for another one, are
in the violated runs; `MCDecider` has one with two windows, for with three steps,
liveness and dry runs two are too many to check, and its four safety
properties are proved for any desktop below. Two
processes build at once, and a third meets what they left. Three attempts have
a first, a middle and a last; five pieces hold a plan with the rest of a failed
attempt before it, and overflow. Two processes with a start each leave two
operations between them, or a crash and a start: enough for one to write what
the other has replaced, for a power failure after a rename, and for a preset
after a preset; the proofs below have no bound. Two turns of two
models and two ids hold a use in one turn whose result comes in the next, to the same
model or another; two attempts and one continuation put a failed attempt before and
after a pause. The functions are called with every input up to the size at which each of
their branches is taken: texts of five lines against a context of one line and
four steps of Myers' algorithm, streams of five bytes in every division into
chunks against a limit of three, six-digit numbers against small widths.

The runs bound counters where they are declared: `Op` the calls, `MaxGen` the
processes, `MaxSteps` the steps (a real flag), `N` the instructions, `MaxOps` the
operations of all processes, `MaxEvents` and `MaxTurns` a conversation. Building
processes, processes with settings, models and ids are symmetric (`ProcessSymmetry`, `Symmetry`); the
runs with liveness properties use no symmetry. `CHECK_DEADLOCK FALSE` stands
where the modelled program stops by design: all calls of a `ComputerUse` run
are made, a `Decider` run is over, a bound is reached, a function has returned.

### Fairness

* `ComputerUse!Fairness`: a goroutine that can go on does; Go's mutex is
  starvation free (`SF` on `Acquire`; Go hands the mutex over to a waiter
  after 1 ms); the timer of `callTimeout` fires (`WF` on the cases of the
  `select`, of which the timer's is always enabled); a process that was sent
  SIGKILL dies. Nothing is assumed of a live worker, nor of `Close` or `Cancel`.
* `Decider!FairSpec`: weak fairness of `DeciderStep`, but not while a call that
  carries text or keys is made (`MayBlock`). A request to the model ends, for its client has
  a timeout of 60 seconds (`typesafe/client.go:58`). A call of the tool is not known to:
  `Returns` is violated by a request that does not fit the pipe of a worker that hangs,
  and the text of `fill` and `type` and the keys of `press` (`keyCombo`) come from the goal,
  which nothing bounds; `execute` passes no context, so Ctrl-C does not end the wait either. The other calls have tokens
  and short names for arguments, and the pipe is empty when a call begins
  (`OneInFlight`), so they fit, and `ReturnsUnlessBlocked` says that they return; the
  decider is the only caller of its tool. `PursueReturnsUnlessBlocked` is therefore that
  the loop ends or waits for ever in such a call. Nothing is assumed of the answers, of
  Ctrl-C or of the desktop.
* `Planner!FairSpec`: weak fairness of the program's own steps (`Step`) and of the
  deadline of `split` (`Expire`), which is a timer. Nothing is assumed of the
  provider (`Answer`).

### Disagreements between the code and what it says

1. `callTimeout` "guards against a wedged process", but the request is written
   before the timer starts: a request longer than the pipe's buffer blocks for
   ever, holding the mutex (`MCComputerUseWedge`).
2. The decider offers window tokens for `activate` and builds a call without
   the application, which the tool refuses (`MCDeciderCalls`).
3. The application referenced last is remembered as a token only; after a
   restart the token is minted again, perhaps for another application
   (`MCDeciderAlias`). The worker may restart between any two calls; what the
   model chooses after `gather` is still described correctly
   (`ActsOnWhatWasShown` holds): what goes wrong is which windows are listed,
   and which application `press` and `activate` default to.
4. The staging name is per process but the source file is not: a process may
   truncate it while another's compiler reads it, and what is built then is
   published for good (`MCCompileCacheRace`).
5. `WithDryRun` is documented to report the decision "without running the tool"
   (`decide.go:77-78`), but the two fallbacks for a target that is missing or does not fit
   (`decide.go:253-269`) come before the test of `dryRun` and run the tool for a snapshot,
   which starts a worker and reads the screen (`MCDeciderDryRun`). The command's own
   `-dry-run` never gets there: `main.go:65` prints the plan and returns.

Met on the way, with no run of their own:

* `computer-use-jev windows a1` can never work, though `main.go:119` and the repository's
  `README.md:52` show it after `computer-use-jev apps`: every command makes a
  `ComputerUse`, runs one call and closes it (`main.go:45`), so it asks a fresh worker,
  whose tables are empty.
* The callback of `split` ignores the retry event and keeps the text of attempts that
  failed. An attempt may break off after what looks like a whole plan, and the next one
  say no more than that it is complete: the text of the attempt that broke off is then
  returned as the plan, though no complete response contained it. If the next attempt
  answers in full, its plan is refused, since it follows the text of the first. Nothing
  in the repository says what becomes of such text. What does hold is `NeverSpliced` and
  `NoPlanOfBadResponse`.
* `persist` writes the whole file from what the process read when it started, so two
  processes undo each other's settings. `PersistState` and `SavePreset` do not ask, as
  `Persist` does, whether the file could be parsed (`UnparsableKept` excepts
  `SavePreset`); `SavePreset` drops the prompt of the preset it replaces.
* `RestoreSelection` with an invalid preset leaves provider and model set and
  returns an error. A prompt of one tier may be used with a provider of a
  stronger one: `PromptOfItsPreset` is about each tier.
* `flushDeferred` hands on each waiting use alone; a result that waits behind its own use is then
  refused as orphaned, though the answer was sound (`anthropic.go:294`). It takes a
  use without a result, followed by one with, and a call of the client's tools.
  `WellEnded` excepts it. A result without a use that waits behind an unmatched use
  is refused only at the end of the turn, and an id used again after its result
  is refused in some orders only (`Reused`).
* `retryAfter` reads "99999x" as two minutes, for it stops at the digits.
* `Duration` multiplies by a million after `parseScaled` has checked the range in
  milliseconds: a setting of more than 292 years wraps.

## 4. What is proved

All theorems are for every value of the constants under the named assumptions
of the modules (`OpAssumption`, `MaxGenAssumption`, ... : calls are numbered
from 1, listings enumerate the applications, windows have owners, elements have
parents, windows and elements are finite in number).

**`ComputerUse_proofs`**: `TypeCorrect`, `WorkersAreNeverLeaked` (`NoOrphan`),
`CallsAreSerialized` (`OneInFlight`). Neither is inductive. The invariant `IInv`
adds: who is inside `RunContext` holds the mutex and only one is; the process a
call uses is the retained worker, or the newest one while that is starting;
processes not started yet have empty pipes and no state; and the *current*
process (the retained or the starting one) is the only one that may be live, and
has a line in its pipes only while its call awaits an answer. That a killed
process may still write is why the last part speaks of the current process
only. The step of each part is a lemma of its own (`TypeStep`, `ControlStep`,
`NotStartedStep`, `OrphanStep`, `QuietStep`); `Inductive` joins them.

Its second part is `Refines` (`ImplementsSerialTool`) and `NoLateEffect`
(`SettledIsFinal`). Invoking maps to `Call`, an argument error to `Refuse`, the mutex to
`Begin`, the worker's `Perform` to `Act` and every return to `Finish`; all else leaves the
mutex holder's call, the outcomes and the effects alone. A process that was killed may
still carry out its request, so the invariant `RInv` follows requests past the current
process: no process has more than one; a request in hand is of a call that waits for it on
this very process or was given up as lost, of no other process, and has had its
effect exactly if it was carried out; a call whose request is not written has none; an
"ok" in the pipe of a waiting call follows its own effect. `RequestsPaired` joins them.

**`Decider_proofs`**: `TokensKeepTheirMeaning` (`TokensAgree`),
`StepsActOnWhatWasShown` (`ActsOnWhatWasShown`), `BudgetIsTotal`
(`BudgetRespected`), `DoneNeedsEvidence` (`DoneIsEvidenced`). Two lemmas carry the
first: every handler leaves a worker table that agrees with the tracker once
the tracker has taken its reply (`HandledAgree`, from `AppsAgree`,
`WindowsAgree`, `SnapshotAgrees`), and so does a call that loses the worker
(`CalledAgrees`). The strengthening `IInv` adds the shape of the tables, without
which "the next window token is new" is unknown. The second needs `JInv`: the
call about to be made names tokens that are in the tracker, described as
`meant`; with `TokensAgree`, whatever the worker resolves them to is that object
(`HandlerActsOnEntry`, `CallActsAsDescribed`). `BudgetIsTotal` and `DoneNeedsEvidence` follow from `Progress`:
the steps left to the instruction never exceed those left in all, and
instructions before the current one were affirmed.

Its last part is `TypeCorrect` (`TypeOK`). What a handler answers is typed by kind
(`AppsTyped`, `WindowsTyped`, `SnapshotTyped`, ...: a listing of windows names windows), the
tracker takes that over (`RefreshTyped`), and so a decision made of its tokens is a call
(`ChosenTyped`). The bounds of the counters need `Progress`. It assumes that the desktop
is finite (`FinitenessAssumption`).

**`ComputerUse_proofs`, of `CompileCache`**: `CacheTypeCorrect`, `PublishedIsComplete` (`NeverPartial`),
`CrashesAreHarmless` (`SoundUnlessConcurrent`). The invariant says which staging
files may be partial at each place, and that without an overlap the source is
whole wherever a compiler reads it.

**`Planner_proofs`**: `TypeCorrect`, `PlansAreNotSpliced` (`NeverSpliced`),
`BadResponsesGiveNoPlan` (`NoPlanOfBadResponse`), `AnswersAreNotAskedForTwice`
(`OnlyFailuresAreRetried`). `JudgeOutcome` says what may follow an attempt; the
invariant adds that the parser is new while a connection is made, that no stream
goes on after a refusal, and that the text of an attempt starts with what cannot
stand inside an array. `parseSplit` needs this last part to keep texts apart:
the callback does not, for it ignores the retry event.

**`Config_proofs`**: all seven properties of `MCConfig`, `TypeCorrect` (`TypeOK`),
`WholeFiles` (`NeverTorn`), `AlwaysTogether` (`StoredTogether`), `PromptFollows`
(`PromptOfItsPreset`), `ModelFits` (`ModelFitsProvider`), `WrittenRead`
(`WrittenIsRead`) and `UserFileKept` (`UnparsableKept`), for any number of processes,
providers, presets and operations. They assume of the user's `config.json` that it
puts no model beside another provider (`FilesAssumption`). `Sound` says what the
operations in memory preserve of a `Config`, `WriteInv` what a write that has begun
carries with it. The invariant needs the copies of the files from before the last
rename, which a power failure brings back, and that every process running beside a
file that cannot be parsed has found it so: this is what keeps `Persist` away from it.

**`ServerTools_proofs`**: `TypeCorrect` (`TypeOK`), `NothingLost` (`PairedInOrder`),
`ResultsAnswer` (`ResultsFollowUses`), `UsageOnce` (`UsageCountedOnce`), `SoundTurnsPass` (`RefusedIffBroken`), for conversations of any
length. What a loop keeps is shown of one turn of it (`TurnCases`: a turn passes its first
event on, answers a use, refuses a result, joins a use with its result or leaves it) and then
of the loop (`DrainKeeps`, `FlushKeeps`). Each invariant says the same of the current state
and of the one a retry restores.

* `NothingLost`: `Paired(arrived) = out \o Paired(deferred)` is not kept by a turn alone: when a
  use is joined, the result must be the first after it, and no use of its id may wait
  between them. `InOrder` adds that the ids of waiting uses were seen and differ, and
  `PairedJoined` says that moving the pair to the front is what joining does.
* `ResultsAnswer`: the uses a request repeats unanswered are those `Pending` finds
  (`PendingUnanswered`), by induction over the conversation; `Answers` says that with what was
  given out so far it is `expected` that is unanswered of them, and that no result of
  another has been handed on, in any state between the events.
* `UsageOnce`: `Counted` says of each place what is still to be told.
* `SoundTurnsPass`: `drain`, `flushDeferred` and the check at the end judge a turn together, and
  no one of them alone says what a turn is worth. `SoundIsWaiting` reduces the specification's
  judgement of the events to what waits: as long as nothing was refused and no id is reused,
  the events are well formed exactly when each result that waits is expected and alone. `Heard`
  and `Given` say what `seen`, `expected` and the results handed on mean of the events.
  `TurnsSettle` shows by a shrinking length that the loop of `drain` leaves nothing, or a use
  without result first; `FlushResolves`, that `flushDeferred` then refuses exactly what is not
  well formed; and `EndIsSound` relates what is left to `WellEnded`.

**`Algorithms_proofs`**, of the specification without the diff: `NumbersHold` (`NumbersInBounds`), `UsageHolds` (`UsageIsTotal`),
`EventsHold` (`EventsOfStream`), `HeadersHold` (`HeadersAsConfigured`), `MessagesHold` (`CallsAnswered`), for inputs of any size and integers of any width. The
constants are typed by `InputsAssumption`: digits, numbers, bytes, usages and members of any value, in
sequences of any length. It says of definitions that they declare no default header empty,
as none of the code does. Delays are exact integers: `Jitter`'s product leaves an int64
only beyond a `MaxDelay` of some 230 years, and the code's one policy has 30 seconds.

* `NumbersHold`: `Backoff` is the exponential delay cut off at `MaxDelay`, though it compares
  with half of it before it doubles (`BackoffIs`); rounding twice costs `Jitter` less than two
  of its unit. `ReadSoFar` says of every prefix of a `Retry-After`: what was read is the number of its
  digits, or it was above the limit, and no product has left the integers, which takes the limit
  to be looked at before the next digit. `FitsIs`: the two quotients, rounded towards zero, refuse
  exactly the products that are no integers of the width.
* `UsageHolds`: `AccountedAll`, that after each usage the total is the sum of those before, by induction
  over the sequence. The sum over a set is a CHOOSE; that it does not depend on the order in
  which the set is emptied is `TotalWithout`.
* `EventsHold`, in three inductions. `FeedAppend`: to feed a chunk and then another is to feed their
  concatenation, one byte after the other, also where the limit or the callback ends it in
  between; so `ChunksAreOne`, what comes of a stream does not depend on where it is cut.
  `ParseIsLines`: to feed the whole stream is to read its lines, and the blank one of its end.
  `AgreesAll`: of every prefix of the lines, what the parser gave and how it ended is what
  `Promised` says of that prefix, and a parser that goes on has in `event`, `data` and
  `eventBytes` exactly what the lines since the last blank one say (`Agrees`, the strengthening:
  of the callback's events alone no step preserves anything). Its step has a case for a prefix
  with a line that is too long, for one with the event that is refused, for a next line that is too
  long, a blank one, and one with a field. What `Promised` says of a prefix and of the next line
  is in `SizesWith`, `EventOfWith`, `LimitAppend`, `EventsBeforeNext`.
* `HeadersHold`: `SentSoFarAll`, that after each member a name has the values of the members before
  it, starting over at one that is empty, so what its first value is tells whether any was
  empty last; `HeadersMerged` is the merge.
* `MessagesHold`: assumed of a conversation is what the callers of a provider see to
  (`Orderly`): after the calls of a message come their results, in order, though perhaps after
  items that are not sent. By induction over its groups, `Standing` says of what is sent so far
  that each call is answered at its own place after it, but those of the last message, which
  are what `Awaited` says of the groups (`StandingGroups`). The images are counted item by item
  (`ShownOfItems`).

**`TextDiff_proofs`**: `DiffsArePatches` (`DiffIsPatch`), for texts of any size, any limit of work, any
`contextLines` and `windowSlack`, and any budget that is doubled from `regionStepsMin` to
`regionStepsMax`. Assumed is that the inputs are texts (`DiffInputsAssumption`), and of
the budget what the constants of `diff.go` are (`DiffAssumption`: 1024 is 64 doubled four times). The
specification's one step computes the diff, so the proof is of what `UnifiedDiff` computes,
in the order of the code:

* `RegionIsSolved`: a region of the comparison in which nothing is marked yet is marked so that
  both sides are left with the same lines, and nothing outside it is marked. By induction over
  the depth of the calls: `Solvers` are the functions that do this for regions up to a size, and
  `Deeper` makes one of them a solver of greater ones (`DeeperIs`). Of `myersSplit` it needs no more than
  that its split is inside the region (`MyersSplitIs`), for a corner is refused and any other leaves both parts
  smaller (`SmallerParts`); so the optimality of Myers' algorithm, the order of the halves, the furthest points left over
  from another region, and the place where the work runs out cannot matter.
* `SlideRunsIs`: sliding a run of marks leaves the same lines, for each line a run leaves equals the
  one it takes, in both directions and though the slide may join another run.
* `ChangesAre`: when both sides are left with the same lines, those between two changes are the same,
  and as many; which is what `changes` relies on when it takes a line of each side at a time.
* `HunksAre`: so each hunk has the lines of both texts in its place, and what lies between two hunks is
  the same: context never reaches back over the hunk before, because changes nearer than twice
  the context share a hunk, and `bLo` and `bHi`, which are computed and not looked up, are in the text.
* `WindowIs`: the window starts and ends where lines do, in both texts, and what is outside it is the
  same in both, though the common suffix is cut short so that it does not overlap the prefix.
  `LinesConcat`: the lines of a text that is cut where a line ends are those of its parts. With both,
  what holds of the lines in the window holds of the texts.

**`Induction`** is what the three above rest on. The library's induction theorems take an operator
as a parameter, which the provers here cannot instantiate; but a *set* that has 0 and n + 1
with every n is all of the naturals by the well-foundedness of the naturals, and a set of
sequences closed under `Append` is all of them (`SeqSetInduction`). `FoldLeft` is a CHOOSE of a
function on sets of positions: that this function exists (`FoldExists`) and that any two agree
(`FoldUnique`) gives `FoldedByAppend`, one element more is one step more. `LoopExists` does for a loop, a
function of the turns made, what `FoldExists` does for a fold, and `FlattenIs` for `FlattenSeq`.

Model-checked only: liveness (`ReturnsUnlessBlocked`, `PursueReturnsUnlessBlocked`, `PlanReturns`), which is
beyond the prover; and `DiffIsShortest`, which is no theorem: with the budget of `regionStepsMax` spent, or
the work, a diff may be longer than it must be, and by design. It holds of the inputs of the run, which
have both to spare; how far it holds in general is the optimality of Myers' algorithm, which
`DiffIsPatch` does not need. The violated properties are settled by their
counterexamples.

## 5. What is not modelled

* A handler's own Accessibility requests: a handler is one step of the desktop.
  Where the code can fail halfway after an effect (`activate`; a request that
  times out), the half-done outcome is among the replies.
* An action that takes effect after its call was reported lost is modelled in
  `ComputerUse`, not again in `Worker`, where the worker is simply gone.
* The order in which applications are listed is unspecified by macOS; it is a
  constant, so two workers list alike. Another order per worker would make
  disagreement 3 more frequent.
* Process ids used again by the operating system after a process was reaped.
* The wording of questions, confidence thresholds (any decision may escalate),
  quoted text and key names (whether a goal names text is a constant), windows
  chosen by their flags.
* The parse of tokens out of rendered lines: `Refresh` takes them as they were printed. The
  code finds them by their form, the first match first (`decide.go:668`, `765-776`), so
  a text on the screen that has the form `[e5]` may describe `e5` by another line.
  `TokensAgree` and `ActsOnWhatWasShown` hold of screens that have no such text.
* The JSON scanner, the rendering and capping of text, image decoding: pure
  functions; only what a cap does to the tokens in a text is modelled (`Texts`).
* In `Planner`, the length of delays and the bytes of events (they are in `Transport`), the
  requests' contents, and the idle timeout of a stream: its ten minutes cannot pass within
  the minute of `split`. `pause_turn`, which only a server tool causes, is in `ServerTools`:
  the planner offers no tools, and a tool call that comes all the same is refused (`Refuse`).
* `Config`: a user who edits a file while processes run; the order of keys in a
  written file; a file that cannot be read or is over 1 MiB; settings other than
  provider, model, preset, prompt and retries, which are looked up alike.
* `ServerTools`: the contents of blocks, citations, blocks that are not JSON; the thinking
  budget and the contents of a request.
* `Diff`: hashes, which only save comparisons, texts beyond 4 GiB, the printed form of a hunk.
* `Transport`: a `Retry-After` that is a date. `Providers`: effort levels; `extra_body`, which may
  replace anything in a request; the requests of the Responses format. A definition whose default
  headers hold an empty value would send it; none does, and `MCHeaderInputs` has none.
* The command line: `passthrough` is one call on a fresh worker and prints its result, the
  goal mode calls the planner and then the decision loop, each modelled apart.
* The loopback server of OAuth, MCP definitions, the trace file, tables of
  character widths, versions: no caller here, or output only.

## 6. The plan

Done, in this order: `SerialTool`, `ComputerUse`, its runs and proofs; `Worker`
and `Decider` with theirs; `CompileCache`; `Planner` with its proofs;
`Config` with its proofs; `ServerTools` with its proofs; `Diff` with `TextDiff`
and its proofs; `Transport`, `Providers` with `Algorithms` and its proofs.

What is left, most important first:

1. **Goal mode**: the planner's routing composed with `Decider`.
2. **Pure algorithms**: the argument check's JSON scanner, the cap of tool output,
   the parse of tokens out of rendered lines.
3. **Requests** of the providers: caching, effort, thinking budgets.
