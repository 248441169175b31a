# Verification of Bombadil

Bombadil tests web applications: it drives a Chrome page through the DevTools
protocol, evaluates temporal properties on every state it sees, and answers
each state with a generated action.  This directory holds TLA+ models of its
core, the TLC configurations that check them on small instances, and TLAPS
proofs of what holds for every instance.  Paths below are relative to the
repository; line numbers are those of the commit the models were written for.

## Inventory

| Component | State it keeps | Operations | Hard because |
|---|---|---|---|
| **Browser state machine** `lib/bombadil/src/browser.rs` | `InnerState` (kind and the shared generation, console entries, exceptions, screenshot), the timers and tasks its handlers spawn, three broadcast channels | `initiate`, `next_event`, `apply`, `terminate`; one handler per pair of kind and inner event | ten merged event streams, an await in the middle of a capture, one-shot timers, channels of capacity one, a page that moves on meanwhile |
| **Test runner** `lib/bombadil/src/runner.rs` | last action, coverage edges | `run_test`: receive a state, extract, verify, observe, choose, apply | Ctrl-C at any point, errors of every callee end the test |
| **Bundler, resolver** `specification/bundler`, `specification/resolver.rs` | a queue of modules, the types named for files, the bundle | `bundle`: resolve, rewrite, emit | cycles, `export *`, files wanted under two types, two bundlings of one specification |
| **Specification runtime** `specification/internal.ts` | the list of extractors, their cells | `extract`, `runExtractors`, `update` | page and verifier run the same bundle and agree by position only |
| **Browser actions** `browser/actions.rs` | none | `apply` | runs concurrently with the page it changes; may be aborted by its timeout |
| **Browser state** `browser/state.rs`, `browser/evaluation.rs` | previous coverage buckets, in the page | reads a paused page | the page must stand still while it is read |
| **Network interception** `browser/instrumentation.rs` | none | fetch, instrument, fulfil; continue on error | a paused request must be answered exactly once |
| **Source instrumentation** `instrumentation/` | in the page: the counts of edges and the previous location | numbering hooks, running them | 64-bit hashes as doubles in 32-bit operators, counts of a byte |
| **Temporal logic** `lib/bombadil-ltl/src` | the residual formula of each property | `evaluate`, `step`, negation normal form | time bounds, violations that continue |
| **Verifier** `specification/verifier.rs`, `js.rs`, `snapshots.rs` | one `PropertyState` per property, the extractors' current values | `step` | errors half way through the properties |
| **Verifier worker** `specification/worker.rs` | a thread, a command channel | properties, step | the thread may be gone |
| **Action tree** `tree.rs` | none | map, filter, prune, pick | a branch that prunes to nothing |
| **Observer and trace** `lib/bombadil-cli/src/main.rs`, `trace/writer.rs` | violations seen, deadline, last hash, the trace file | `on_new_state`, `on_interrupted`, `write` | a write that fails between screenshot and entry |
| **Terminal driver** `lib/bombadil-terminal/src/main.rs` | pseudo terminal, reader task, bounded output channel | spawn, read, write, wait | waiting for a reader that is blocked |
| **Inspector** `lib/bombadil-inspect`, `inspect_server.rs` | a finished trace | read-only views | |
| Schema, rendering, keys, durations, release tooling | | | not core logic, not modelled |

How they interact: the runner calls `initiate`, then in a loop waits in
`next_event`; the state machine's task pauses the page, reads it and sends a
`StateChanged` over a broadcast channel of capacity one; the runner has the
worker's thread step every property with the state's snapshots, tells the
observer, picks an action from the tree the specification generated and sends
it with `apply` over another channel of capacity one; the state machine resumes
the page, spawns a task that applies the action, and captures the next state
when the action, the page's load, an exception, the action's timeout or the
thirty-second watchdog asks for it.  `terminate` closes the connection, sends
the shutdown signal and waits for the machine.

What makes each component correct, in a sentence:

* state machine: every state reported is one state of one document; nothing the
  page throws is lost; an action is applied once, to the state it was chosen
  for; it never stops by itself while the page lives, and always gets to the
  next state;
* evaluator and verifier: a verdict is final only when every continuation of the
  trace agrees, and agrees with the meaning of the formula on finite traces;
* runner and observer: each state is verified and recorded exactly once, in
  order, and the exit status says what happened;
* tree: what is picked was generated, passed the filter, and exists whenever
  pruning says so;
* interception: every paused request is answered once or has become invalid, and
  what cannot be instrumented comes to the page as it was sent;
* coverage: the runner's edges are the maxima of what ran, the transition hash is
  of what ran since the last state;
* bundler and runtime: modules export what an ES module system would have them
  export, and a property reads the snapshots of its own extractors;
* terminal driver: output is delivered in order, and waiting returns.

`PROJECT.json` lists the hazards of the code at their lines, and with each the
properties that would catch it.

## Plan

1. `BrowserMachine` with `BrowserMachineProofs` and `BrowserDebuggerProofs`: **done**.
2. `LtlValues`, `Ltl`, `Verifier` and `MCVerifier`: **done**.
3. `TestSession`, the abstract specification of a test, and `TestRun`, the
   runner with worker, observer and writer, shown to implement it; `ActionTree`
   and `MCTestRun`: **done**.
4. `TerminalDriver` and `TerminalDriverProofs`: **done**.
5. `EdgeMap` and `Coverage` with `MCCoverage` and `CoverageProofs`; `Bundler` and
   `Specification` with `MCSpecification` and `SpecificationProofs`: **done**.
6. `TestRunProofs`, with the refinement of `TestSession`: **done**.
7. `LtlProofs`: the evaluator computes the reference semantics; `VerifierProofs`: what
   follows for the verifier: **done**.
8. What an exported Always reports, and with which time (`EveryFailureReported`,
   `FirstOnsetFails`), in `VerifierProofs`: **done**.
9. That an exported Always reports nothing twice (`NoFailureRepeated`) and watches its
   subformula once (`WatchedOnce`), in `VerifierProofs`: **done**.

`TestSession`, `TestRun`, `TerminalDriver`, `Coverage`, `Bundler` and
`Specification` are written for proofs: they have no recursive operator, `TestRun`
takes the operations on trees as constants and `Coverage` what hooks compute.  `Ltl`
and `Verifier` are too, although the code recurses: a recursive function is a constant
(`Evaluate`), a plain definition says what it does in a case, with the constant for the
parts (`EvaluateCase`), and the configuration binds the one to the other.
`ActionTree` and `EdgeMap` recurse over trees and statements (and `EdgeMap` needs
`Bitwise`), so they, `MCVerifier`, `MCTestRun` and `MCCoverage` stay with TLC.

How the modules compose:

| Module | Uses | In place of |
|---|---|---|
| `TestRun` | `ActionTree` through its constants, `TestSession` by refinement | the browser: it has a state after the start and after each action, which `BrowserMachine` shows (`ChannelsNeverOverflow`, `ActionAnswersLatestReport`, `StateEventuallyReported`) |
| `Verifier` | `Ltl`, `LtlValues` | what a thunk returns: any formula of a small set |
| `Specification` | `Bundler` | what a thunk computes: only what it reads |
| `Coverage` | `EdgeMap` through its constants (`MCCoverage`) | the page's other events |
| `TerminalDriver` | | the program under test |

## The browser state machine: `BrowserMachine`

### What corresponds to what

| In the model | In the code |
|---|---|
| `kind`, `accepted`, `target` | `InnerStateKind` with the payload of `Resuming` and `Navigating` |
| `generation`, `consoleLog`, `exceptions`, `screenshot` | `InnerStateShared`; entries and exceptions are numbered in order of birth, a screenshot is the document it shows |
| `status`, `failure` | the loop of `run_state_machine`: running, waiting for a reply that never comes (`stuck`), ended by an error (named), ended by the shutdown signal |
| `capturing` | `capture_browser_state` suspended in its await for the screenshot, with the execution context it fetched before |
| `applying`, `timers`, `watchdogs` | the spawned tasks, by generation |
| `queue` | the merged streams.  Inner events (`StateRequested`, `ActionApplied`), accepted actions, and DevTools events: one stream for all of these (`Ordered`) or one for each type |
| `unread`, `lagged` | the broadcast channel of capacity one and its `Lagged` error |
| `caller`, `answering`, `shutdown`, `browserOpen` | the runner's position in its loop, and `terminate` |
| `document`, `loading`, `navigation`, `pagePaused`, `breaks` | the page: environment |
| `reports`, `toldExceptions`, `toldConsole`, `loggedIn` | history, for the properties only |

Every arm of the `match` in `process_event` is an action `Handle...`; the arm
for everything else is `UnhandledTransition`, and the errors a handler can
return are `PausedFails`, `ResumeFails` and `CallFails`.  An action is one step
between two awaits.  A handler owns the machine's state while it waits for a
DevTools reply, so most awaits are invisible; two are not and are modelled: the
one for the screenshot (`HandleStateRequested` and others begin a capture,
`FinishCapture` or `SkipCapture` ends it and the page runs in between) and the
one for a reply that never comes (`CallHangs`).

The page does what Chrome's protocol allows: it navigates, commits or restores
documents, loads, turns navigations into downloads, drops them without an
event, throws, logs, pauses on the queued `debugger;0`, with or without a call
frame, and does none of that but downloads and dropped navigations while it is
paused.  `OwnBreak` and `OutsideResume` are pauses and resumes that are not the
machine's: a `debugger` statement of the page under test, and another DevTools
client.  These, too, are inputs the code meets, but they undo the assumption
most handlers rest on, so the properties that need it say `Undisturbed`.

`Ordered` is the one switch that deserves explanation.  `select_all` merges
streams in no particular order, yet events reach the streams one at a time and
the machine is normally idle, so they are normally handled as they arrive.  With
`Ordered = FALSE` every type of event has its own stream and the machine takes
from any of them.  The properties about data (exceptions, actions, channels) are
checked that way.  `FailsOnlyWithThePage` and `PausedIsPaused` hold for
`Ordered = TRUE` only: with streams overtaking one another a `Resumed` can be
handled after the `Loaded` that followed it and ends the machine as an unhandled
transition.  `ScreenshotShowsReport`, checked beside them, is proved for both.

### What the runs show

| Run | Question | Properties |
|---|---|---|
| `browser_ordered` | a page that navigates to the origin and once more, with downloads, dropped navigations, exceptions, pauses without a frame, failing screenshots | `TypeOK`, `PausedIsPaused`: the page stands still exactly in `Paused` and while a pause is about to be handled; `ScreenshotShowsReport`: picture and state are of one document although an await lies between them; `FailsOnlyWithThePage`: downloads are the only event the machine may meet without an arm, and otherwise it ends only when its page or connection does |
| `browser_unordered` | every order of the streams, two actions | `OneActionPerGeneration`, `ActionAnswersLatestReport`, `ChannelsNeverOverflow` |
| `browser_intruded` | an existing page that pauses itself, a stranger that resumes it, unexpected reasons, destroyed targets, every order | `ExceptionsReportedOnce`, `ConsoleNeverRepeated` |
| `browser_live` | hanging calls, interrupts and navigations that come to an end | `StateEventuallyReported`, `TerminateReturns` |
| `browser_aborted` | a navigation dropped without an event | **violated**: `WatchdogForcesState`, the comment on the watchdog |
| `browser_console` | an entry logged just before a navigation | **violated**: `ConsoleOfReportedPage`, the comment on clearing between navigations |

These two violations are disagreements between comments and code:

* `browser.rs:847`, "Watchdog: if nothing happens for 30s, force a new state
  capture."  The request the watchdog sends is skipped like any other in
  `Navigating`, `Loading`, `Paused` and `Pausing` (762-772), and it fires once
  per generation.  After a navigation that neither commits nor downloads the
  machine stays in `Navigating`, the action's timeout is skipped as well, and
  no state follows.
* `browser.rs:1073`, "NOTE: clearing between page navigations, but we could
  retain logs".  The entries are cleared only if another entry arrives during
  the navigation.

### Bounds

The bounds limit the environment, never the machine: navigations, restores,
downloads, dropped navigations, exceptions, entries, actions, pauses without a
frame, skipped captures, hanging calls, frames, destroyed targets, interrupts
and intrusions, each spent by the one action that models it (`Spend`).  The
generations, reports and queues are bounded only through them.  Two of a thing
are used where two could be confused (navigations for screenshots, actions for
generations, exceptions and entries for repetition) and one where only its
meeting with the rest matters.  In `browser_unordered` no pause
comes without a frame and no navigation follows the first (which may restore a
document, become a download or be dropped), which keeps the run within minutes;
both are in `browser_ordered`.  Together the passing runs fire
every action.  Deadlock is not checked: a closed test, a machine that ended and
a page with its bounds spent are all legitimate ends.

### Fairness

`FairSpec` assumes weak fairness of what the scheduler of tokio guarantees (the
machine's steps, the timers, the shutdown signal, the two steps of `terminate`)
and of what is asked of a page: navigations in flight end, documents load,
queued evaluations run.  There is no fairness of the caller's choices, of the
page's own doings, of actions (`ApplyFinishes`: an action may hang until its
timeout aborts it) or of hanging calls.  `StateEventuallyReported` is checked
without skipped captures and dropped navigations: with the former the code has
no retry, with the latter it gets stuck as `browser_aborted` shows.

## The temporal logic and the verifier: `LtlValues`, `Ltl`, `Verifier`

### What corresponds to what

| In the model | In the code |
|---|---|
| `LtlValues` | the enums `Value`, `Residual`, `Derived` of `eval.rs` and the functions that combine values without recursion, one operator each: `EvaluateAnd`, `EvaluateOr`, `EvaluateImplies`, `AlwaysValue`, `EvaluateAndAlways`, `EventuallyValue`, `EvaluateOrEventually`, `CombineOptions`, `PendingResidual` |
| `Ltl`: `Nnf`/`GoCase`, `EvaluateCase`, `StepCase`, `StopDefaultCase` | `Syntax::nnf`, `Evaluator::evaluate`, `Evaluator::step`, `stop_default`, one level of the recursion each |
| `Go`, `Evaluate`, `Step`, `StopDefault` | the recursive calls; `VerifierVerdicts.cfg` and `VerifierOnset.cfg` bind each to its case (`Evaluate <- EvaluateCase`), which closes the recursion |
| `Call(function, state)` | what a thunk returns in a state: a formula again, which `EvaluateThunk` negates and normalises as `Verifier::step` does |
| `properties`, `answers` | the `PropertyState` of every property, `StepResult.properties` |
| `StateChanged` | `Verifier::step` as the runner calls it, with the collection of violations into `reports` and the stop on `!has_pending` |
| `Syntaxes`, `Depth` | the syntaxes of the specifications with their parts and what their functions return, each deeper than its parts: `VerifierAssumption`, which TLC evaluates with what `MCVerifier` computes of its specifications |
| `trace`, `reports` | history, for the reference semantics and the properties |

The recursion is kept apart from the combination of values: `AlwaysValue` and
`EventuallyValue` take the value of the subformula as an argument, so that what
they do with it can be proved about.  States attached to values and formulas
quoted in violations only show up in messages and are left out, and of Always
violations nested in one another only the outermost's and the innermost's time
and the innermost's content are kept, which is all the code looks at.  A thunk
or a generator that throws ends the test with an error and is not modelled.

The reference is written on syntax trees and whole traces and shares no
definition with the evaluator but the constructors and `Call`; it recurses as `Ltl`
does (`Verdict <- VerdictCase`, `TrueAtEnd <- TrueAtEndCase`).  `Verdict` is
what a prefix of the trace decides in Kleene's logic; a bounded operator looks
at the states up to and including its end and takes for its subformula what is
known of it by the last of these.  That is a choice of the code worth knowing:
what is still open at the end counts as true under `always` and as false under
`eventually`.  `TrueAtEnd` is what a formula is worth if the trace ends.

### What the runs show

`verifier` tries `now`, `next`, `always`, `eventually`, bounded and not, nested
twice, under the connectives and negated, thunks that return formulas, the
equivalences of `ltl_equivalences.rs` as pairs of properties, and pairs that
settle at different times, on every trace of up to four states whose steps take
one or two units of time, bounds being one unit (two and three in some of the
exported `always`).  A bound of one is reached exactly by a short step and
jumped over by a long one, and an obligation that begins after another needs
four states to begin, be delayed, fail and be followed by another.

* `VerdictsMatch`: a property is decided when and as the states decide it, no
  earlier and no later, until its first violation.
* `StopDefaultsMatch`: a pending residual leans as the formula does on the trace
  that ends there.
* `EveryFailureReported`, `NoFailureRepeated`, `FirstOnsetFails`: an exported
  `always` goes on after a violation, misses no later failure, reports none
  twice if its subformula fails in one way only, and dates its first report
  with the state whose obligation failed.
* `WatchedOnce`: what is left of an `always` evaluates its subformula once in
  every state until its first violation, and after any number of them if the
  subformula fails in one way only and every position was decided by the state
  there.  The second premise is on the trace and not on the formula: a thunk may
  return a formula that is open in one state and one that is false in another
  (`Either` in `MCVerifier`), and then the first leaves something to wait beside.
* `SameAnswers`: the equivalences of `ltl_equivalences.rs` (`Equates`) hold at every step,
  after violations too.
* `StopsOnlyWhenDecided`: the runner stops no test early.

`verifier_onset` is **violated**: the comment on `onset` (`eval.rs:70-73`) has
"but at T" reflect "when the subformula first started failing".  After a late
violation the obligations still pending, which began later, are wrapped under
the onset of the one that failed (468-473), and the next late violation is shown
at that old time: with `always(p implies eventually(q) within 1)`, `p` at times 1
and 3 and no `q`, both violations are dated 1.

The same continuation is why `WatchedOnce` needs its premises after a violation.  The Always that
stood on the right is kept as a residual and a new one is put beside it, so
every late violation doubles the number of copies that watch each later state:
`always(eventually(p) within 1)` with no `p` in sight and states two units apart
has 2, 4, 8, ... 256 copies after 1, 2, 3, ... 8 reports in this model.  A test
that goes on after violations pays for them in time and memory.  No document of
the repository speaks of it, so it is listed as a hazard and not as a finding.

`CHECK_DEADLOCK` is off: a test stops when all is settled and a trace when it
has `MaxStates` states.  Neither run needs fairness.

## A whole test: `TestSession`, `TestRun`, `ActionTree`

### What corresponds to what

| In the model | In the code |
|---|---|
| `pc` | where the tasks of `test`, `Runner::run` and `run_test` are, one value for each await |
| `worker`, `command`, `reply` | the thread of `VerifierWorker`, its command channel, the oneshot of the step in progress |
| `event`, `delivered` | what `next_event` will return: a state, or that the machine has stopped |
| `current`, `tree`, `pending`, `lastAction` | the locals of the loop |
| `interrupted`, `handler` | the `ctrl_c()` future of this turn of the loop, and that a handler was ever installed |
| `result`, `error` | what `run_test` returns |
| `violationsCount`, `options` | `MainObserver` |
| `lastHash`, `screenshots`, `unwritten`, `trace` | `TraceWriter`, the directory of screenshots, data handed to a thread and not yet on the disk, the appended entries |
| `exit` | the exit status of the process |
| `Converted`, `Restricted`, `Prunes`, `Chooses` | `Tree::try_map` with `to_browser_action`, `filter` outside of the origin, `prune`, `pick`: operators of `ActionTree`, of which `TestRun` assumes `TreesAssumption` |
| `Offered` | the tree the runner may choose from: only what goes back when the URL is not within the origin's domain |
| `steps`, `answered` | history, for the refinement and the properties |

An action is what the runner does between two awaits, or one step of the worker's
thread.  Every callee may fail where it can in the code (`StartFails`,
`ExtractorFails`, `WorkerReportsError`, `WorkerPanics`, `StepFails`, `WriteFails`,
`NoActionsAvailable`, `ApplyFails`, `TakeStop`, `Terminate`'s panic), and after an
error the browser is terminated all the same.  A state's number stands for
everything only the specification sees of it; what it says, the clock, which
may stand still or go back, and signals are the environment.

`TestSession` promises what somebody can rely on who reads the trace and the
status: states are verified, recorded and answered in lockstep; an action
answers a state that is in the trace, when something is pending and no
violation should have stopped the test; the status is a function of how the test
ended and of the violations in the trace.  `ImplementsSession` maps `pc` and
`reply` to its `phase` (a state is verified once the worker's answer is sent), the
two results to its `outcome`, and the trace to what was recorded.

### What the run shows

`test_run`: a test of two states with four trees of actions (an empty branch
beside leaves, a branch without weight, branches that prune to nothing outside
of the origin, a key code out of range), a URL inside of the origin's domain and
one outside, the flag and the deadline both ways, a directory that is empty or
holds an older screenshot.

* `ImplementsSession`, the refinement.
* `TraceIsAPath`: entries are the states in order, each with the action that led
  to it and the hash of the one before.
* `EntriesHaveScreenshots`: the screenshot of every entry shows that entry's state,
  and is on the disk unless the process ended by `process::exit`.
* `ActionsWereGenerated`, `ActsWhenItCan`: an applied action was generated for the
  state it answers, has a conversion and is allowed there; a test ends for want of
  actions or of weights only if there are none.  That `ActionTree` keeps the contract
  they rest on (`TreesAssumption`: what conversion, filter, prune and pick keep of a
  tree's leaves) is evaluated before the run: a prune that judged a branch before
  pruning it would fail there.
* `EveryTurnEnds` (liveness): a state that was taken is answered or the process
  ends, in spite of any error and of a panic of the worker.

Two states are what a hash, an action or a time of the one before needs to be
confused with, and the end of the loop after both is reached; one violation in
each makes the count and the flag matter; three readings of the clock (one of them
the deadline) let two states share a time or come out of order.  Fairness is
weak and of the runner's task, of the worker's thread and of the end of the
process; the browser, the user and the disk's threads owe nothing.  Deadlock is
not checked: a test ends, and one whose browser has nothing more to say waits.

Worth knowing, and in the model:

* A signal that arrives while a state is being handled is lost: each turn makes a
  new `ctrl_c()` future, and only those see it (runner.rs:226).
* The exit status is 2 after violations whenever the observer stops the test, with
  or without `--exit-on-violation`, which the manual's table
  (`docs/manual/src/04-reference.md:12`) names as the condition; when all
  properties are settled it is 0 even after violations (main.rs:453).
* A directory with an older trace makes the test fail only if two times agree to
  the microsecond.

## The terminal driver: `TerminalDriver`

| In the model | In the code |
|---|---|
| `reader`, `chunk`, `channel` | the spawned reader task, what it decoded, the bounded channel |
| `pc`, `toWrite`, `quiet` | `test_program`: reading with its timeout of a millisecond, draining, acting, writing, waiting, joining; `quiet` is the time since `render_last_at` |
| `written`, `seen`, `cuts` | history: what the program wrote, the chunks the emulator was given, and where each read ended |
| `verdict` | passed or failed by the program's status, `stuck`, or a panic of `expect` |
| `output`, `input`, `program`, `success`, `held` | environment: the kernel's two buffers, the program, a descendant that keeps the terminal open |

Bytes are those of one-byte and two-byte characters, so that a read can end inside
a character, and `Lossy` is `from_utf8_lossy` on them.  Scrolling and resizing are
the input of no bytes.  The capacities (one chunk in the channel, two bytes a read, three
bytes in each of the kernel's buffers, four bytes written) are the smallest with
which all of them fill up while data is still to come.

`terminal` shows that what the emulated terminal is given is what was written, in
order, damaged only where a read ended inside a character
(`ShowsWhatWasWritten`); that a program which stops reacting is reported
(`StuckIsNoticed`), unless the test itself waits in `write_all` for a program that
reads nothing, which its patience does not cover; and that the test ends when the
program does (`EndsWithTheProgram`), unless `wait` joins a reader that waits for
room in a channel nobody reads any more.  The exceptions are part of the
properties: both waits exist in the code.  Fairness is weak and of the reader,
of the test's task and of the clock; a program owes nothing.

## Coverage: `EdgeMap`, `Coverage`

| In the model | In the code |
|---|---|
| `If`, `For`, `Switch`, `Block`, `HookCount`, `Visits` | the statements the instrumenter's `exit_...` functions give hooks to, and the numbers they take: after everything inside, since numbers are given on the way out |
| `EdgeIndex`, `Previous`, `Increment` (in `Coverage` the constants `IndexOf`, `LocationOf`) | the expressions a hook is made of, on doubles, signed integers and bytes |
| `Paths`, `HooksVisited`, `RanThrough` | the hooks a run of a script may come by, in order, and what is left when it has |
| `Bucket` (`BucketOf`) | `bucket` in the script of `browser/state.rs` |
| `requests`, `queue`, `request`, `step`, `body`, `answers` | the stream of `EventRequestPaused` and the one `intercept` in progress |
| `document`, `scripts`, `window` | environment, and `window.__bombadil__` |
| `edges`, `transitionHash` | the runner's edges, the state's hash |

A request lasts as long as what asked for it; a call for one that no longer lives is
answered "Invalid InterceptionId".  `CallFails` is any other failure of a
DevTools call, in the recovery too.  Integers have four bits, and a count as well, so
that ids lose bits, indices turn negative and counts wrap; the map has four
edges, in which the hooks of two small sources collide.  A loop goes round once or
sixteen times, the number at which a count is back at zero.

`coverage` shows that the runner's edges are the maxima of what captured states
could show (`EdgesAreMaxima`) although a state reports differences only and documents
come and go; that the transition hash is of what ran since the last state
(`HashOfWhatRan`); that what is no success, does not decode or does not parse (one
inline script of a document is enough) comes to the page as it was sent
(`PageGetsWhatWasSent`); and, under weak fairness of the task, that every paused
request is answered or becomes invalid (`EveryRequestIsAnswered`).  Two
documents and one script of each are needed for a request to outlive its
document; one fault meets every call.  Deadlock is not checked: navigations and
runs are bounded.

Two limits of the code are part of the reference the properties compare with: an
edge whose index comes out negative is never counted, and one hit a multiple of
256 times between two states looks as if it had not been hit.

## The bundle: `Bundler`, `Specification`

| In the model | In the code |
|---|---|
| `program` | the statements the rewriter has an arm for, for each module |
| `queue`, `importTypes`, `bundle` | `keys`, `import_types` and the modules of `bundle` |
| `Rewritten` | `Rewriter`: what a statement leaves in its place and what it adds to `export_statements` |
| `RequirePath`, `Step1`, `Return` | the `require` function at the head of a bundle, a statement at a time |
| `engine`, `properties`, `generators` | the verifier's engine and what `Verifier::new` finds in the exports |
| `page` | a document's run of the page's bundle |
| `cells`, `snapshots`, `thunk` | `Extractors`, the snapshots of a state, what a step's thunks read and were given as evidence |

Modules throw, are edited between the two bundlings (`Edit`: the files of the
second need not be those of the first) and run from nothing in every document.
`ProgramsAssumption` says what parsing leaves of a file, and the same is asked of
what an edit leaves: statements of the kinds the rewriter has an arm for, with
the fields it reads.
Paths are names; how a specifier is looked up on the disk is the resolver's
library.

`specification` tries some two hundred sets of three modules, a runtime, two files
and a stub.  `TypedImportsGetTheirType`: a file is of the type all its imports name,
whichever module came first.  `ModulesExportTheirs`: after the verifier's run every
module of the bundle was run and none was missing (`EveryModuleRuns`), and where no
modules import each other in a circle (`Acyclic`) and every exported name exists
(`~Missing`) each exports what ES modules would.  The reference (`EsExport`) is written on
the source modules and knows nothing of order: a name is looked up in the sources of
an own export, otherwise in what is exported by `export *`, and the declarations that this
leads to are its exports.
`SnapshotsReachTheirExtractors`: a thunk reads what the extractor of the same
declaration gave for the state under evaluation, and it is listed as evidence.
The last is a property of the step that evaluates, not of the states after it: a
cell may keep a value of an earlier state because its document threw, and is the
same when the next document, which did not, has begun.  The premises are where the
code promises nothing: `default` and ambiguous names, bundles that do not parse,
specifications edited under way, and pages whose bundle threw, where a cell keeps
an older value of its own extractor.  Two
documents, one of which may throw, and two states give a cell an older value to
keep.  Deadlock is not checked: a refused specification and a finished test stop.

Worth knowing, and in the model:

* An import without a type for a file that another import types is no conflict:
  whichever comes off the queue first decides.
* `export *` copies `default` and `__esModule` as well, and runs where it stands;
  a specification that does it with a module whose exports are not all formulas
  or generators is refused.
* An `export const e = extract(...)` gets no name, a `const e = extract(...)` does.
* A reexport of what the module also imports makes a second `const` of one name,
  and no module of the bundle runs.
* A reexport of a name that exists nowhere, an error of ES modules, becomes an export of
  `undefined` and replaces what an `export *` has under that name:
  `Missing` keeps such programs out of the comparison, and `MCSpecification` has one.

Outside of the model: the manual says an import of type `binary` gives a
`Uint8Array` (`docs/manual/src/03-specification-language.md:70-71`), and the code
exports the `.buffer` of one (bundler/mod.rs:320); and a namespace import beside
other imports ends the process with a panic (bundler/mod.rs:426).

## What is proved

`BrowserMachineProofs` holds for every value of the constants under `ConstantsAssumption` (bounds are naturals, the reasons are
of the two known ones): any number of navigations, exceptions and actions, both
orders of delivery, both ways to get a page.

* `TypeCorrect`: `Spec => []TypeOK`.  `TypeOK` is inductive by itself.  The
  variables are typed in five groups; lemmas say that a group that is left
  alone keeps its types, that sending to and taking from the streams keeps them
  streams of well-formed events, and then one lemma per action treats the groups
  that action changes.
* `GenerationsApart`: `Spec => []OneActionPerGeneration`.  The property carries
  its own strengthening: besides "no two of one generation" it says that no
  task, timer or applied event is of a generation to come, which is why the
  generation started by a report is fresh, and that in `Paused` and `Resuming`
  nothing of the current generation is left, which is why an action started
  from `Resuming` is the only one of its generation.  All steps but two are
  *quiet* (nothing starts, nothing is reported as applied, and `Paused` is
  entered with a new generation), and `QuietKeeps` treats all of these at once;
  `ResumedKeeps` and `AppliedKeeps` treat the start and the end of an action.

Its second part follows the events on the streams.  `At` gives the
positions of the undelivered events of a type, and `Same` says that two queues carry
the same ones in the same order: what a step does to a type is then one of three
things, nothing, taking the first or sending one more, which `HandlersMove`,
`TasksMove` and `PageMoves` establish for every action, in both orders of delivery.

* `ExceptionsAreReportedOnce`: `Spec => []ExceptionsReportedOnce`.  Told, kept and
  undelivered exceptions are, in this order, one, two, three and so on up to the
  number thrown (`ExceptionsInOrder`).  The property itself says how many were
  thrown; without that it would have allowed a report of an exception before the
  page throws it, and was no invariant that could be carried from step to step.
* `ConsoleIsNeverRepeated`: `Spec => []ConsoleNeverRepeated`.  Entries may be dropped,
  so only the order remains: told before kept before undelivered, all different
  (`ConsoleInOrder`).

`BrowserDebuggerProofs` is about who stands still and whose turn it is.  None of its
properties is inductive, nor are they one by one: the document of the screenshot
stays because the page is paused, the page stays paused because nobody else
resumes it, and nobody does because only one of machine, caller and action channel
holds the turn.  `DebuggerInv` says so in three parts, all on the condition
`Undisturbed`: `Pauses` (a pause is told once, and the page stands still from when
it is hit to when the machine resumes it), `Turns` (a report, a choice and an
accepted action exclude one another and are all about the latest report) and
`Screenshots` (a break that can still be hit is of a document no younger than the
screenshot's).  Most steps are *calm*, pause and resume nothing and give nobody a
turn, and `CalmKeeps` treats them at once; each of the others has a lemma.

* `ScreenshotsShowReports`, `ChannelsDoNotOverflow`: the invariants of those names, in
  both orders of delivery.
* `ActionsAnswerLatestReport`: the action property `ActionAnswersLatestReport`.
* `PausedMeansPaused`: `Ordered => (Spec => []PausedIsPaused)`, and
  `FailsWithThePage`: the same of `FailsOnlyWithThePage`, if every pause the protocol
  tells of is of the reason the machine expects, which is what the run assumes too.
  Both need `OrderInv` on top.  Its one conjunct, `Sequel`, says what a stream in order
  can hold (`Tame`: after a pause and before the end of one only events that no
  state minds), that the machine is in `Paused` once it was told of the pause, and
  which kinds it can be in while it is still to be told of the end of one.

`TestRunProofs` is about `TestRun`, for all trees of
actions with any operators on them, URLs, clocks, signals and numbers of states
and violations.  Besides `ConstantsAssumption` they need only that what `pick`
returns is never the value that stands for "no action yet" (`ActionsAssumption`),
and, for the choice of actions alone, the contract `TreesAssumption`: conversion
keeps a tree's leaves or refuses it for one of them, the filter keeps the leaves
that go back, pruning leaves nothing only of a tree without leaves, and a choice is
a leaf or fails for a weight of zero.
Its theorems share one inductive invariant, `IInv`, because none of the properties is
inductive:

* `Types`: as much of the variables' types as the rest needs.
* `Starting`: nothing has happened before the loop, and without a handler for
  signals nothing was verified: why a signal that kills the process loses nothing.
* `Asked`: the worker has a command, or is at one, only while the runner waits for
  its answer and has none yet: why no state is verified twice and no answer is
  left over for the next state.
* `Lockstep`: the worker's answers are one ahead of the trace from the answer to the
  append, and level otherwise; the answer in hand is the last one of the worker.
* `Counting`: the observer's count is positive iff the trace, with the state being
  written, has a violation, and so is what `run_test` returned.
* `Path`: browser, runner and trace agree on how far the test has come; from
  this follows `TraceIsAPath`, which is its last conjunct.

Every step's lemma shows the six parts one by one; `FailureKeeps` treats the many
exits through `?` at once, `UnseenKeeps` what none of the parts sees.

* `TypeCorrect`: `Spec => []TypeOK`.  The bounds follow from how far the test has come
  (`Bounded`), the observer's from the answers of the worker (`Summed`: an answer
  in hand that was not counted leaves room for its violations).
* `TracesArePaths`: `Spec => []TraceIsAPath`.
* `EntriesKeepTheirScreenshots`: `Spec => []EntriesHaveScreenshots`, from `Screens`,
  which adds that a file created for the state in hand still shows it when its entry
  is appended: it rests on `create_new` refusing names that are taken.
* `ActionsComeFromTheSpecification`: `Spec => []ActionsWereGenerated`, and
  `TestsActWhenTheyCan`: `Spec => []ActsWhenItCan`, from `Choosing`, which adds that
  the tree is the one the answer in hand offers (`Offered`) while the state is written
  and decided on.  `OfferedTree` and `ChoiceOfOffered` say what can be chosen from it;
  then only `ReceiveStep`, `StepFails` and the decision have something to show, since
  no answer arrives and no state is taken while the runner waits for an event or ends
  (`Asked`).
* `TestsAreSessions`: `Spec => ImplementsSession`, the refinement.  Initial states are
  those of a session (`InitIsInitial`) and every step is `Verify`, `Record`,
  `Answer`, `End` or `Exit`, or changes nothing a session sees (`StepsMap`);
  `Lockstep` gives the last answer, `Counting` what the status counts.

`TerminalDriverProofs` is about `TerminalDriver`, for all capacities, programs and
descendants.

* `TypeCorrect`: `Spec => []TypeOK`; with it every buffer stays within its capacity.
* `WhatWasWrittenIsShown`: `Spec => []ShowsWhatWasWritten`, from `OutputInv`: the reads
  cut what was written into pieces and the kernel has the rest (`Cutting`); the
  pieces, decoded one by one, are those shown, then those in the channel, then the one in
  the reader's hand, and only a reader that nobody listens to loses one (`Passing`);
  a reader that is done has left nothing behind (`Closing`).

`SpecificationProofs` is about `Bundler` and `Specification`, for every set of
files, any program and edits of it, and any number of documents, throws and states.
Of the order in which a module's imports are queued it knows only that it is the
same for the same imports (`Sorted`; the code has them in a map sorted by key).

* `TypedImportsAreHonoured`: `Spec => []TypedImportsGetTheirType`, from `BundlerInv`:
  what is queued was asked for (`QueueImported`), no type an import names is
  forgotten or overruled (`TypesRemembered`), and a file was bundled as one of its
  imports has it (`FilesTyped`).  The property by itself says nothing while
  bundling and is not inductive.
* `SnapshotsAreOfTheirExtractors`: `Spec => SnapshotsReachTheirExtractors`.  That page
  and verifier agree by position rests on the bundler and the bundle being
  deterministic, for which an invariant must relate two things done at different
  times.  It does so through runs: `BundleOf(p, b)` says that some sequence of
  steps bundles `p` as `b`, `Runs(script, e)` that some sequence of statements gets an
  engine to `e`.  `OneBundle` and `OneEnd` show that two such sequences agree as far
  as both go; where this needs induction on their length, the least place at which
  they differ takes its part (`LeastNumber`, from the library's well-foundedness
  of the naturals).  `RunsInv` then says which runs the variables are at: the bundle
  being made is on a run of the program (`BundlesMade`), the verifier's engine has ended
  one of the first bundle (`EngineDone`), a document is on one of the second or
  left it by throwing (`PageRuns`), and each cell is of the extractor at its position
  (`CellsOfExtractors`).  So a document that has ended has the verifier's extractors,
  or if it threw some of them, from the first on (`PageAgrees`).

* `TypeCorrect`: `Spec => []TypeOK`.  The engine's stack and cells are typed because
  what it runs is code of a bundle (`EnginesTyped`), every pushed frame is of a
  module (`RequireTyped`), and a step stays within its script or leaves it
  (`ScriptOK`).  That a module's code is made of statements of the engine goes
  through the list lemmas (`ElementsOfConcat`, `ElementsOfFlattened`, `ListOfSet`) and one lemma
  per arm of the rewriter (`ShortCode` to `OtherIsCode`).  No module is on the stack
  twice (`IsStack`), because `require` enters what it calls in the cache first.
* `ModulesAllRun`: `Spec => []EveryModuleRuns`, of programs with cycles too.  `BundleInv`
  says that what a bundled module requires is bundled or queued and that nothing else is,
  so a bundle that is complete is closed under `require` and the least such set
  (`BundleClosed`).  `RunsAll` says that a module that was called has called all that its
  code requires up to the statement it is at (`IsYetAt`); the modules called when
  the stack is empty are then a closed set with the entry in it, which is all of
  the bundle.
* `ModulesExportAsTheyShould`: `Spec => []ModulesExportTheirs`.  Two things meet in it.
  The invariant is of the engine (`Truthful`): every statement that is behind its module's
  program counter still has the effect it had (`Told`), which is that what it requires has
  returned, that the names it bound or made have their values in the module's locals, and
  that what it exported or copied is among the module's exports; and every export is
  there by such a statement (`GivenBy`).  That a later statement overrules no earlier one
  rests on three facts: names are bound once (`Parses`), a module's named exports are its
  last statements (`InOrder`, from `ModuleInParts`), so `export *` never replaces one, and what
  a module on the stack requires, once called, has returned (`RequiredHasReturned`): the
  modules on the stack above it would be a circle otherwise, each waiting for the next
  (`Waiting`).  The other part is about the source: `ModuleHas` says which statements the
  rewriter makes of which, and `ExportComesFrom` unfolds the reference, a least closed set, by
  one import.  When all have run, the modules that export something wrong under a name are a
  set in which one imports none of the others (`Acyclic`), and that one is right after all
  (`OwnIsRight`, `StarIsRight`): no induction over the imports is needed.

The proof of `SnapshotsAreOfTheirExtractors` failed at first, for a good reason: the property had been
stated of all states, where a bound of two documents hid that it is false once a
third begins.  It is a property of steps now.  `ModulesExportTheirs` had been true of the small
instance only: a recursive reference that stopped at the number of modules, and no program
that exported a name that did not exist.  With such a program TLC refutes it without `~Missing`.

`CoverageProofs` is about `Coverage`, for every map of edges and limit of its counts,
all hooks and paths through them, all responses and any number of navigations, requests,
runs and failing calls.  Of the hooks it needs what the language gives
(`EdgesAssumption`): an index is a remainder by the size of the map, negative ones
included, and a bucket is at most 8 and 0 for no hit.  Of the responses it needs
that a script response is one script (`PageAssumption`).  TLC evaluates both for what
`EdgeMap` computes.  One invariant, `Inv`, has two halves.

* The page and the runner (`PageInv`): the window's counts are the hits since the last
  state as far as a count goes (`Counted`), its previous buckets are in the edges
  already, and a document without a window was not hit (`WindowCounts`).  Hence
  the buckets a state compares are those of the hits, and one that did not change
  adds nothing.  `CountsWrap` is the arithmetic, `VisitKeeps` one hook, and
  `RunKeeps` a run of any length: the recursion of `RanThrough` has a solution
  (`SomeRun`) and keeps what every hook keeps, both by a least counterexample
  (`HoldsUpTo`).  With it `EdgesAreTheMaxima`: `Spec => []EdgesAreMaxima`, and
  `HashesAreOfWhatRan`: `Spec => []HashOfWhatRan`.
* The requests (`RequestInv`): the call that is being made says what is known of
  the request (`Prepared`: a body is fetched of successes only, fulfilled only if it
  decodes and parses where it has to, and a recovery that hooks could have been for
  follows a failed call), and an answer keeps what it said of its request
  (`AllAnswered`).  With it `PageGetsIt`: `Spec => []PageGetsWhatWasSent`.
* `TypeCorrect`: `Spec => []TypeOK`, from both.

`LtlProofs` is about `LtlValues` and `Ltl`, and `VerifierProofs`, which extends it, about
`Verifier` (from `VerdictsAreRight` on): for all specifications whose syntaxes are finite
trees, all functions, states, bounds and times, and traces of any length.

* `ConnectivesAreKleene`: the connectives, `implies` included, which the code
  keeps apart for its messages, decide as Kleene's logic does whichever side an
  operand stands on; until its end a waiting Always decides as a conjunction and
  a waiting Eventually as a disjunction.  One lemma per function.
* `ViolatedAlwaysGoesOn`: a false Always carries a residual to go on from, so
  the verifier never settles it as false; a false Eventually carries none.
* `EvaluatorIsFaithful`: of every syntax and of its negation, met at any position of any
  trace, the value `evaluate` gives there and the values of the residuals it leaves,
  stepped state by state until one is decided, say at every state what the reference says
  of the trace up to it, and the residuals lean as the reference does.

  The reference speaks of prefixes of a trace and knows no residuals, so the link is what
  a residual *stands for*: a **signal**, which has for each state of the trace what is known
  by then (a verdict, which never changes once it is not 0) and what the property is worth
  if the trace ends there.  A residual *behaves as* a signal after state `n` if every run of
  `Step` from it gives the signal's values until one is decided; `Unrolled` turns that into
  one step.  `AndFollows`, `OrFollows`, `ImpliesFollows`, `AndAlwaysFollows` and
  `OrEventuallyFollows` say that what the connectives and the waiting operators build behaves
  as the combination of the signals of its sides, by going backwards from the end of the
  trace (`Backwards`).  `AlwaysFollows` and `EventuallyFollows` do the same for a family of
  signals, one per position the operator has met, of which `AlwaysFrom` is the common
  signal.  One lemma per operator makes its value faithful if those of its parts are, and
  `ByDepth` closes the induction.

  Inductions are made from the least counterexample of a set of naturals or of depths
  (`LeastNumber`), which needs no theorem with an operator parameter.
* `VerdictsAreRight`: `Spec => []VerdictsMatch`; `StopDefaultsAreRight`:
  `Spec => []StopDefaultsMatch`; `TestsStopWhenDecided`: `Spec => []StopsOnlyWhenDecided`;
  `TypeCorrect`: `Spec => []TypeOK`.  These four follow from `VerifierInv`, which holds for each
  property (`Sound`): until its first violation its state stands for it along *every* trace
  that goes on from the states so far (`Tracked`, over `Extensions`); its first violation is
  at the first state that refutes it (`FoundAt`); its residual is a finite tree of the
  evaluator's nodes over formulas of the specification (`WellBuilt`), which is what makes the
  values of steps after a violation well formed too; and the residual of an Always without
  end has an Always without end at the end of a chain of waiting ones (`Endless`), so it is
  never settled.  `VerifierInv` speaks of all extensions of a trace, so TLC cannot
  evaluate it; the properties it gives are those of the run.
* `EquivalencesHold`: `Spec => []LawsHold`, what `SameAnswers` says until the first violation,
  for all formulas, and that the same state violates both sides first.  Of each law the reference says the same of both
  sides, at every position of every trace and for every bound (`NextLaw`, `NextDuality`,
  `AlwaysLaw`, `EventuallyLaw`, `AlwaysDuality`, and the two on idempotency); and of two
  exports of which it does, `VerifierInv` makes the states and defaults the same until the
  first violation, which comes with the same state since a verdict never changes once it is
  not 0 (`SameMeaningSameAnswers`).  The lemma is of any two formulas that mean the same.
* `EveryFailureIsReported`: `Spec => []EveryFailureReported`, also after violations, when
  the residual stands for nothing the reference knows.  The invariant is `AlwaysInv`: while
  an exported Always may meet more states (`Still`), its residual *guards* (`Guards`) the
  Always derived for the next state and, for every position of the trace that is still open,
  a residual that stands for it.  To guard is to be reached from the guarded residual through
  conjunctions only, `And` or `AndAlways` of the same end (`Path`), and conjunctions can lose
  nothing: `AndPasses` and `AndAlwaysPasses` say that what one side's value retains, the whole
  retains, whether it is pending or violated with a continuation, and that it is false when a
  side is.  `GuardedPasses` takes that along a path, `AlwaysRetains` adds the position of the
  new state, and so a value *accounts* (`Accounts`) for every open position and is false when
  the state refutes one.
* `FirstOnsetIsAFailure`: `Spec => []FirstOnsetFails`.  The invariant is `OnsetInv`: until its
  first violation or its end, what is left of an exported Always is `Dated`, a chain of
  waiting ones that ends in the Always itself, in which each link has the time of an open
  position and a residual that stands for the subformula there (`Awaits`).  A value of such a
  chain goes on as one, or is false with a violation dated by a position the state has just
  refuted (`Traced`, `Blamed`; `AndAlwaysTraced`, by induction on the chain in `DatedStep`).
  It rests on two facts about violations: one of an Always names the innermost, which
  encloses no other (`Flat`), and in a value just evaluated that one has the present time
  (`Recent`), so the time is never that of an Always inside the subformula.

* `NoFailureIsRepeated`: `Spec => []NoFailureRepeated`.  The converse of
  `EveryFailureIsReported`: a value is false only if a position has just been refuted.
  That needs two things.  What a subformula that fails in one way only leaves is *single*
  (`Single`): a residual that is false without a continuation (`EvaluateSingle`,
  `StepSingle`), so that a position that has failed leaves nothing behind.  And what is left
  of the Always is *manned* (`Manned`): a tree of conjunctions, `And` and `AndAlways`, whose
  leaves are the Always itself and single residuals that stand for the subformula at open
  positions (`CrewLeaf`, `Crew`).  The values of such leaves say what the reference says of
  their positions, a conjunction is false only if a side is, and the continuation of a false
  one is manned again by the leaves that are still open (`CrewStep`, `RepeatInv`).
  A tree is the least set that has the leaves and is closed under the nodes (`Spans`), so
  no height is needed to go through it.
* `AlwaysIsWatchedOnce`: `Spec => []WatchedOnce`.  Before the first violation by the chain of
  `OnsetInv`: what its links wait for is made of formulas *beneath* the subformula
  (`Beneath`, from the least depth of a syntax a formula comes from; `EvaluateGood` and
  `StepMade` say that evaluation leaves nothing else), so the subformula itself is watched
  only at the chain's end.  After it by `AloneInv`: unless a position was open once, what is
  left is the Always alone.

The last two have the premise `Measured`, too: `FailsOnce` and `Watches` do in each case what
`FailsOnceCase` and `WatchesCase` say.  All these theorems have the premise `Recursive`: the recursive functions do in each case what
`GoCase`, `EvaluateCase`, `StepCase`, `StopDefaultCase`, `VerdictCase` and `TrueAtEndCase`
say.  These are the defining equations of the recursion, on the syntaxes of the
specification, the residuals and the traces, and the configuration's bindings make them true
by definition; that finite trees have functions that satisfy them is the recursion theorem.

## What is only model-checked

* Liveness (`StateEventuallyReported`, `TerminateReturns`, `EveryRequestIsAnswered`,
  `EveryTurnEnds`, `StuckIsNoticed`, `EndsWithTheProgram`): the prover knows neither
  fairness nor ENABLED.
* What trees and hooks compute: inductions over trees and statements.
* `SameAnswers`, for what the two sides of a law answer after a violation; until it,
  `EquivalencesHold` says more.  A continuation is not determined by what a formula means:
  `always` of a conjunction and the conjunction of two `always` keep differently shaped ones,
  and no reference is at hand that says what both should answer.
* That `ActionTree`'s recursive operators are as `TreesAssumption` says: TLC evaluates
  it for the trees of `MCTestRun`.

## What is not modelled, and why

* Starting and finding Chrome, closing its process: input and output.
* Dialogs and permissions, which are answered by calls nobody waits for.
* What a captured state contains beyond its document and coverage: url, title,
  resources and the split of the navigation history are read and passed on.
* The bits of the transition hash: it is a function of the buckets, and nothing is
  claimed of how far apart two hashes are.
* The constructors of formulas in TypeScript and their translation to syntax
  (`syntax_from_value`): one case for each operator; the random generators.
* A second page: events of other targets do not reach the page's streams, and
  destroyed targets other than the page's own are in the model.
* Wall-clock time: a timer may fire at any moment after it was started, which
  covers every duration; the times of states are inputs.
* Parsing and printing of scripts and documents, the JavaScript engine, the search for
  a module on the disk: libraries, modelled by what the code relies on.
* The inspector with its server, markup and rendering, key tables, durations, release
  tooling: views and conversions without a state that several steps could break.
