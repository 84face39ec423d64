# A TLA+ model of the workcompiler

`workcompiler` records what a coding agent does, compiles the recording into a
*build* (code, rules, prompts, small models), and runs the build again with as
few tokens as it can, asking an agent only for what nothing cheaper answers.
Workflows compiled this way can also run on a durable engine with human
approvals. This directory models the parts of it that keep state or decide
something, checks them with TLC on small instances, and proves with TLAPS, for
every value of their parameters, the safety of the durable engine and its
driver, of the executors, of the hardening loop, of build runs and their cache, of
promotion, of the proxy's traces, of what the compiler derives from them and of what
replaying a build does to a workspace.

All source paths below are relative to the repository's root (`src/` here).

## 1. Inventory

How the parts hang together: the **proxy** records the turns of an agent as
traces; the **work compiler** turns traces and behavior contracts into a Work IR
(dependency graph, one executor per action) and the **emitter** into a build
directory; the **engine** and its **executors** run a Work IR durably; **build
runs** walk a build with cache, small models and escalation to an agent;
**hardening** lets an agent repair what the **benchmark** finds different; the
**gates**, **promotion** and the **optimizer** decide when a cheaper executor
takes over.

### Components that are modelled

**Durable runtime engine** (`core/runtime/engine.py`). State: per workflow id a
`WorkflowInstance` in memory (status, completed and failed actions, step records
with attempts, pending wait, state data) and a checkpoint file. Operations:
`start_workflow`, `execute_step`, `retry_step`, `signal_event`, `trigger_timer`,
`pause`, `resume`, `complete`, `fail`, `cancel`, `save_checkpoint`,
`load_checkpoint`, and the driver `run_until_blocked_or_complete`. It calls the
executors and is called by an operator (the SDK, the command line, a person who
answers). Hard: one pending wait for a workflow whose steps may overtake each
other; waits that are answered long after, perhaps in another process; the
checkpoint is written at the end of an operation, so a crash or a failing write
leaves memory, file and caller with different views. Correct when: steps run
after their dependencies, also across reloads; a waiting workflow can be woken;
a human step is completed with what it requires or by its executor's own answer;
what a caller was told, the end of the workflow included, survives; the driver
stops, and a workflow that is driven and answered completes.

**Step executors** (`core/runtime/executors.py`). Stateless between steps, but
one execution is a sequence: the code executor resolves a handler (registered,
by name, by a dotted path the import policy allows) and calls it in one argument
shape after another; the rule executor goes through its branches; the HTTP
executor checks a destination, sends, and follows redirects; the model executors
ask a model or stand in for it. Hard: a handler that raises after it had effects
and is called again in another shape; a rule that stops early with a scalar;
redirects that answer redirects. Correct when: a handler runs once or as often as
its failures explain, a rule's output is what its branches say, and every
execution comes to a result or an exception. The human executor suspends on the
keys of the engine's state data and is modelled there.

**Build hardening** (`core/build/harden.py`). State: the artifacts of the build,
`harden.json`, and the report of the current run. It benchmarks, lets an agent
edit the artifact of a failing step, benchmarks again, keeps or restores. Hard:
a list of failures that goes stale while fixes are accepted; steps that share
an artifact; a history that outlives runs; a budget known only afterwards; the
process may die with an unjudged edit in the build. Correct when: what it
believes of the build is true of the build, convergence is real, the budget
and the history keep it from spending twice, and a run ends.

**Build runs and the escalation cache** (`core/build/run.py`,
`core/build/cache.py`, and `execute`, `execute_files`, `expand_files` of
`core/build/slm.py`). State: files on disk, one cache entry per action and
parameter set, the growing report of the run. Hard: freshness of an entry is a
fingerprint of everything said upstream, which contains file texts and replayed
outputs; what an agent made is read from disk after the fact, where other runs
and failed agents have left theirs. Correct when: an entry belongs to its
fingerprint, nothing computed from other data is replayed, and what was paid
for once is replayed for nothing.

**Gates, quality records and promotion** (`core/build/slm.py`,
`core/validation/quality_record.py`). State of promotion: `work.yaml`, the
`.work` source, `runtime.json` and `promotion.json` of each action,
`MANIFEST.json` and `PROMOTION.md`, written one after the other by `promote`
and `demote`. A model answers the recorded examples; a text gate or a file gate
judges each answer; the fold of the quality records against the thresholds
decides. Hard: a process that dies between two files; an action promoted twice;
a verdict from few, unknown or lucky records. Correct when: no action is on the
slm tier without a model to serve it, the files agree between commands, and a
model serves only after its answers to the recorded examples were as good as the
runtime asks.

**Executor optimizer** (`core/optimizer/optimizer.py`). State: the records seen
and the promotion history. Operations: `evaluate_promotion`, `promote`,
`get_active_executor`, `evaluate_batch`. Hard: thresholds over records that are
empty, lucky or of another action. Correct when a promotion is paid for by
conduct, one more failure never causes one, and report and gate agree.

**Work compiler, analyzers, Work IR** (`core/compiler/compiler.py`,
`core/compiler/analyzers/*.py`, `core/work_ir/*.py`). Traces are decomposed into
actions, successions into a dependency graph, steps into executors by detectors
that compete on confidence. Hard: loops and reversals in recordings; stated
orders that contradict them; two topological sorts (the compiler's and the
engine's) that must agree. Correct when: exactly the orderable is accepted,
recordings alone always compile, more evidence removes no dependency, and the
detector that decides is the surest.

**Tool normalisation, patch format, emitted handlers** (`adapters/proxy/tools.py`,
`core/work_ir/patchfmt.py`, `core/build/emitter.py`, `core/build/bench.py`). The
tool calls of a turn are merged into one step with commands and a patch; a code
handler replays them over a workspace, again after a crash; the benchmark
replays a recorded session, verifies the files and compares what was printed. Hard: the order of calls that
a merge loses; patches applied to files that already hold them; handlers that
share the workflow's state. Correct when: a straight session's build leaves the
agent's files, also when started again.

**Proxy capture** (`adapters/proxy/server.py`, `interceptor.py`, `agents.py`).
State: the open sessions with the steps of their traces, and the open relays.
Several agents of one session share it; results of tool calls come with later
requests; clients leave. Hard: relays end in any order, turns fail, break and
are repeated, results repeat, a disconnect cancels a relay inside its `finally`
block, a compile request comes at any time. Correct when: the trace holds every
completed turn once and in order, each call its result, and a compile takes a
whole session.

### Components that are not modelled

* **Objective oracle gate** (`core/runtime/oracle_gate.py`): a stateless verdict on one
  output by a schema and terms; the engine and the builds do not call it, only a
  demo and a test do.
* **Coding-agent backends** (`core/agents/`): subprocess
  wrappers whose outcome `BuildRun` and `HardenLoop` choose freely.
* **Command line, organisation, skills, telemetry**: argument parsing, document
  generation and append-only logs, without a state a property could be about.
* **OpenWorkLang and AgentBehavior parsers**: parsers of Markdown documents.
* **Remote training tools**: linear experiment scripts that drive a host over HTTP.

Within the modelled components: the optimizer's `generate_training_candidate`
(formats examples into a file), prompts, prices and token counts, the
reconstruction of replies from stream events and the normalisation of foreign
trace JSON (one JSON shape into another), parameter binding as text, and the
compiler's discovered states and invariants, which nothing reads at run time.

## 2. Modules

| module | models | extends |
|---|---|---|
| `DurableWorkflow` | what the engine promises: done, durable and told sets | |
| `WorkflowEngine` | the engine, one action per operation | |
| `WorkflowDriver` | the driver's loop and the operator on top of the engine | `WorkflowEngine` |
| `WorkflowEngineProofs` | theorems about the engine and the driver | `WorkflowDriver` |
| `StepExecutors` | one execution of a step by each executor | |
| `StepExecutorsProofs` | its theorems | `StepExecutors` |
| `HardenLoop` | the hardening loop over several runs | |
| `HardenLoopProofs` | its theorems | `HardenLoop` |
| `BuildRun` | runs of a build with cache, SLM tier and escalation | |
| `BuildRunProofs` | its theorems | `BuildRun` |
| `QualityRecords` | quality records, their predicates and their fold | |
| `ExecutorOptimizer` | the promotion gate and the registry over records that arrive | `QualityRecords` |
| `ExecutorOptimizerProofs` | its theorems | `ExecutorOptimizer` |
| `SlmGate` | the text gate and the file gate | `QualityRecords` |
| `TierSwitch` | what promotion promises: a model serves only once it convinced | |
| `SlmPromotion` | `promote` and `demote`, file by file, with crashes | `SlmGate` |
| `SlmPromotionProofs` | its theorems | `SlmPromotion` |
| `WorkGraph` | dependency detection and both acyclicity checks | |
| `StepAnalyzers` | detectors, classifier, tier of an action | |
| `ToolCalls` | tool normalisation, merge, patches, emitted handlers | |
| `WorkCompiler` | recording, compiling, replaying, benchmarking | the three above |
| `WorkCompilerProofs` | its theorems | `WorkCompiler` |
| `ProxyCapture` | sessions, relays and the interceptor | |
| `ProxyCaptureProofs` | its theorems | `ProxyCapture` |
| `MC...` | the instances TLC checks | the module they name |

Two abstract specifications are refined: `DurableWorkflow` by `WorkflowEngine`
(`wf`, `disk` and `acked` mapped to done, durable and told) and `TierSwitch` by
`SlmPromotion` (`runtime` mapped to what serves, the last evaluations to what
convinces).

### WorkflowEngine

`wf` is the instance in memory, `disk` the checkpoint, `acked` a history of the
steps that a call returning normally reported complete, with the mark `End` once
one reported the workflow COMPLETED or CANCELED (an operator who fails the
workflow takes the mark back, one who starts its id again begins anew). `Begin`, `Suspend`,
`Succeed`, `FailStep`, `Resolve` are the blocks of assignments the code makes to
an instance; an action takes an instance through them and ends in `Saved` or
`SaveFails`, the checkpoint (with `AutoCheckpoint`) that is written or raises
after memory has changed. `ExecutorRaises` is an exception from an executor,
which the engine does not catch. `RetryStep` changes attempt and status first
and then does what `execute_step` does; `RetryRefused` is what remains of it
when `execute_step` raises. `SignalEvent` covers the three answers to a
waiting workflow (right event, human payload with the required fields, anything
else merged into the data). `Crash` forgets the memory, `LoadCheckpoint` and every
operation that finds no instance read the file.

Abstractions: the state data is the set of its keys, the only thing the engine
and the human executor branch on: the keys callers give (which are taken not to be
names of steps) and, under the name of a human step, its recorded output; a
payload that is not a dictionary adds no keys; histories, outputs, signals, `current_step` and timestamps are written but
never read by a guard. Callers are taken to name steps of the definition, which
`execute_step` does not check. One workflow id, since no operation touches two.

### WorkflowDriver

`driver` and `todo` are the program counter and what is left of the `ready_steps`
snapshot of `run_until_blocked_or_complete`, which the `for` goes through in the
definition's order (`IsHead`); `effects` and `lost` are histories of executor
effects and of those whose record never reached the file. `Loop` is the `while`,
`RunHead`, `HeadUnsaved`, `HeadRaises` and `CrashInExecutor` are the ways one
execution of the `for` may go. The operator's actions are the engine's, between
two calls: the call is synchronous.

### StepExecutors

`request` is the step, `at` the call shape, branch or hop that comes next. A
handler is its signature (which names are required and optional, whether it
takes `**kwargs`, whether it is positional only, whether `inspect` can read it)
and the calls are the shapes of `_invoke_callable` in their order; `effects` and
`raised` count what its body did. A body may return a value or an `ActionResult`
of its own, which may be a failure or a wait (`Returned`). A rule is a list of
branches with conditions, outputs and a stop flag; `EvalCondition` has all
operators, over numbers, lists of numbers and absent fields, and of a pattern it
keeps in which values it is found. A request is what `_validate_url` tells apart
of its URL. A host is resolved twice, for the check (`executors.py:675-688`) and
when `urllib` connects (772), and the code relates the two answers by nothing:
`Valid` leaves the first open and `Respond` what the second leads to, so the model
states no property of the address that is contacted. A model is there, unusable
or missing.

### HardenLoop

`art` holds an opaque content per action; a failure is a step that is not
reproduced, with the flag that tells whether it was replayed at all, and `queue`
the failures the iteration goes through, by position. `fixing` is the one an
agent is editing for. `Start`, `Iterate`, `Fix`, `Judge`, `EndIteration`,
`IterationLimit` follow the loop in order; `Restored` puts the snapshot back;
`saved` is `harden.json`. `Die` is a death while the agent works, which an agent
or a benchmark that raises resembles in every respect. `deaths` and
`revertedCount` are histories.

### BuildRun

A build is a recorded trace and the parameter sets asked of it; Init chooses one.
What a model-tier step makes is stamped with the parameters and code outputs it
was made from, so that properties can tell whose data a file is. A fingerprint is
the context itself, sha1 being taken as injective: the places of the report whose
output is not silent, each with its output and file (`Kept`). Each disjunct of `RunStep` is
a branch of the loop over the trace; `ChangeData`, `DeleteFile` and `ClearCache`
are the world. `last` remembers the code outputs of the latest run in which
everything was done.

### QualityRecords, ExecutorOptimizer

A record is what its predicates read: approval, ratings, checks, behavior
verdicts, latency and cost. `Fold` is `evaluate_quality_fold` over them,
`EvaluatePromotion` the gate with its thresholds in percent. `Observe` adds a
record, `Promote` asks the gate for an action and a candidate and writes the
registry, as the code does.

### SlmGate, SlmPromotion, TierSwitch

An answer is reduced to the facts the gates look for: facts asserted plainly or
under a cue, blanks, placeholders, lengths; files with directory, base name,
suffix, facts and, of JSON, how far their content is the recorded one. The exact
file gate asks of a JSON file the recorded values and of another file, say
Markdown, no more than that it is not empty and lacks at most a fifth, rounded
down, of those recorded facts that the context holds (`AnchorsKept`). `Evaluate` is `evaluate`
up to the decision, and each following action writes one file:
`SaveRuntime`, `SaveSpec`, `FlipTier` or `FlipEscalation`, `SaveInfo`,
`UpdateManifest`, `WriteReport`; `Demote` writes `work.yaml` and goes on with
`RestoreTier`, `UnlinkRuntime`, `UnlinkInfo`, `UpdateManifest`. `Die` is
enabled between any two. `torn` and `again` are histories.

### WorkGraph, StepAnalyzers, ToolCalls, WorkCompiler

A turn is a batch of tool calls or a step of an instrumented program with what
the detectors see of it. `Record` normalises and merges it into a step, `Compile`
is `compile_traces_to_work_ir` and the validation of its result, `Start`,
`ReplayStep` and `Crash` are the engine over the compiled order, and
`Benchmark` the walk of `bench.py`. A file is a sequence of numbers with a
newline among them, so that hunks have something to match; a command removes or
reads a file, and what it prints is that file, a complaint about a missing one, or
nothing. `answers` is what the agent was told in each turn of the session.
What the agent's own tools did (`Live`, `Played`) is external: an
edit makes its replacements one after the other, each on what those before it
left, and fails as a whole when an old text is missing or ambiguous. Against it
stand `patchfmt.py` (`ApplyPatch`, `VerifyPatch`) and the emitted handler
(`RunHandler`), which replay what was recorded. A handler prefers the patch or
the commands among its inputs to its own (`Preferred`), and one whose patch fails
with a `ValueError` is invoked once more by the code executor, on the files the
blocks before the failing one have left (`RunPatch`); a missing file ends it. The
benchmark runs a step of the code tier with its recorded inputs, then verifies
its patch or, of a step without one, compares the recorded tool result with what
was printed, line by line in any order (`BenchStep`, `SameLines`); the numbers
that a read tool puts before its lines, and outputs re-packed as JSON, are not in
the answers. Both topological sorts are written
as the work lists they are (first in first out in the IR, last in first out in the
engine) and compared with
`Orderable`, the existence of a linear extension. `exact` and `plain` mark a
recorded step with whether no call of its turn failed and the step does again what
the turn did, and whether all calls of its turn went through, were of one kind
(commands and reads, writes, bookkeeping) and wrote no empty file; nothing reads
them but properties.

### ProxyCapture

A relay holds the results its request carried and what its client does. A
patient agent goes on when the response has ended, an eager one when it has read
the last event. `Capture` is a reply that ended, captured before the response
ends; `Break` a stream that broke, captured from its finished part; `Refuse` a
turn that leaves no step; `Hurry`/`CaptureLate` a capture after an eager client
went on; `Disconnect` with `CaptureRest` or `CutOff` a client that left, whose
relay captures what came, or is cancelled in an await. `SideCall` and
`Synthesize` are the requests that never become a relay. Between the first
attachment and the append the interceptor awaits nothing, so a capture is one
action. Call ids are unique.

## 3. Runs

| run | question | bounds |
|---|---|---|
| `engine` | dependencies, answers, waits and the end of a workflow under every order of calls, crashes and reloads | three steps: one that may wait for an event before a human one, and an independent one that may wait for a timer; two events, one of them unexpected; one attempt |
| `driver` | the driver's snapshot, repeated effects, durability and the refinement of `DurableWorkflow` when each write may fail; that calls return and workflows complete | one lost record per step |
| `executors` | handlers, rules, requests and models in one execution of a step, and that it ends | every signature over two parameters, three inputs, every two-branch rule list over ten conditions, two redirects |
| `harden` | the loop's beliefs, convergence, budget, history, termination | four steps, three actions, three contents, three runs of two iterations of two fixes, a free fix and one of 3 tokens against a budget of 4 |
| `build` | entries, replays and one-time escalation | three builds of up to four steps, two versions of the data, two parameter sets |
| `optimizer` | what causes a promotion, and whether report and gate agree | eleven kinds of record, three gates, lists of three records, two requests, two actions, two candidates |
| `promotion` | backed tiers, agreeing files and the refinement of `TierSwitch`, with crashes between any two files | four commands, a text step with two examples and a synthesized step with two files, four answers of each kind and silence; quality 50, recall and precision 60 percent |
| `compile` | acceptance of graphs, evidence, detectors, replay, restart, benchmark | twelve turns, three sets of contracts, three steps in up to two sessions, two starts |
| `proxy` | turns and results in the traces, and what a compile request takes | an agent whose requests carry the latest results and may be repeated once, an eager sub-agent whose requests carry all, a client without session id that asks for synthetic replies; two turns each, one call per turn |
| `driver_failing_step`, `promotion_files`, `replay_commands` | statements of the documentation that the code does not keep (section 6) | as the run they vary; one command in `promotion_files` |

Why these bounds are enough to be interesting. Two waits can overwrite each other
and a third step can complete in between as soon as two steps can wait and a
third depends on one of them. With `MaxAttempts = 1` a retry is both possible and
refused. Two steps with one artifact, where one content satisfies
one of them and another content both, give accepted, rejected and partly
successful fixes in one iteration, and further runs let the history matter. Two
versions of the data let a file, an entry and a context disagree and agree again.
Four commands are a promotion that dies, its repetition, a demotion and another
promotion, also of the other action. With the rates of `promotion` a model may fail
one of its two text examples, leave out a fact of two and make one up of three, and
of five anchors a Markdown file may lack one but not two. Three records are enough for a rate to pass
50 percent and fall below it, and one of another action to be left out. Three
steps can form a loop (a, b, a), two sessions a reversal. One repetition is
enough for a result to come again, one abandoned relay for a late capture between
two turns. What the bounds cut is repetition: attempts, runs, deaths, sessions.

Settings that name what a run assumes of its environment:

* `LazyAgent = FALSE` in `build`: an agent that exits with 0 has written the file
  its step is for. With `TRUE`, TLC finds `ReplayIsOfThisData` violated: `store`
  then takes whatever file an earlier run left, which the code does not check
  (section 6). No property of the cache speaks of such agents.
* `Replayable`, which TLC evaluates on the builds of `build`: agents are not lazy; one
  that succeeds says something (`Replies = {"done"}`); no model-tier action is
  recorded twice; and no model-tier step comes after one whose files an SLM writes,
  because the output of such a step is another when it is replayed. `EscalateOnce`
  holds under it only (section 6).
* `Suffix = "md"` in `promotion`: the two recorded files differ in suffix. With
  equal suffixes the file gate forgets one of them; `promotion_files` is that case,
  and evaluates `SharpGates`: the hypothesis of the refinement theorem (section 7)
  holds of the examples of `promotion` and fails of its own.

Deadlock is not checked where the system, or the bounded instance of it, really
stops: after the last run in `harden`, the last turn in `proxy`, the last command
in `promotion` and `promotion_files`, the last record and request in `optimizer`,
the result of a step in `executors`, the last start in `compile` and
`replay_commands`.

## 4. Properties

Each is stated in words above its definition. The ones that matter most:

* `DependencyOrder`: a step that was ever begun has all prerequisites completed,
  in memory and in the file, although waits are resolved without looking at
  dependencies.
* `WaitCanBeResolved`: a waiting status always names a pending wait on a step
  that is still open, although a success clears waits and a suspension
  overwrites them.
* `HumanStepsAreAnswered`: a human step counts as completed only when every field it
  requires was delivered, or when its own executor recorded an output because it
  found an answer among its inputs, perhaps that of an earlier step (section 6).
* `EndIsFinal`: a workflow whose end was reported stays over, in memory and in the
  file, through retries, signals, timers, pauses, crashes and reloads.
* `AckedIsDurable`, `Implements` (of `WorkflowEngine`): nothing a caller was told
  is lost; completions come one at a time, after their prerequisites.
* `EffectsAreAccountedFor`: recovery repeats an effect only for a record that
  was lost.
* `ScoreIsOfTheBuild`: after edits that were undone the loop's score and failures
  are still those of the build on disk.
* `NothingIsRespent`: a failure signature has one rejected fix, and at most one
  more for each run that died before it could write its history.
* `EntryIsOfItsUpstream`, `ReplayIsOfThisData`, `EscalateOnce`: the cache.
* `SlmTierIsBacked`, `FilesAgree`, `Implements` (of `SlmPromotion`): promotion and
  demotion survive a death between any two files, and a model serves only after it
  answered the asked share of the examples faithfully, as far as the gates ask:
  a text has its facts at the asked rates, a JSON file the recorded values, another
  file four fifths of its anchors.
* `PromotedOnConduct`, `FailureNeverPromotes`: the gate over records that are
  empty, lucky or of another action; the second compares two evaluations.
* `HandlerRuns`, `FittingHandlerRuns`: how often a handler's effects can happen in
  one step, by what it raises, and that a handler that fits is found.
* `ExecutionEnds`: an execution comes to a result or an exception, whatever shapes,
  branches and redirects it goes through.
* `AcceptedExactlyWhenOrderable`, `LoopsCompile`, `EvidenceGrows`: the dependency
  graph, accepted by two different sorts exactly when an order exists.
* `PlainTurnsReplay`: what normalising, merging and rendering make of a turn does
  again what the agent's own tools did, for turns that use one kind of tool.
* `StraightSessionRebuilds`, `RestartsConverge`, `BenchmarkMatches`: from recording
  to replay the files are the agent's, also after a restart over changed files, and
  the benchmark says so. `Straight` names what has to be true of a recording for
  that (one session of exact steps, no action twice, the same commands wherever
  there are some); `replay_commands` shows what happens without the last of them.
  For restarts and for the benchmark it must be `Settled` too: each file is touched
  by one step and there by one block, and an edit is one replacement that leaves its
  new text and no old one. `BenchmarkMatches` speaks of printed lines too, where the
  agent was told whole lines (`Shown`): of a command that ends in the middle of a
  line, or a turn that wrote nothing and was answered by a notice of a tool, the
  lines the proxy records are not those a handler prints.
* `EveryTurnIsCaptured`, `ResultsAreAttached`, `CompiledIsWhole`: the traces.

## 5. Fairness

Safety runs assume none. `harden` uses weak fairness of the loop's steps: a
command that was started goes on, and a call of an agent returns (the backends
run it with a timeout). `executors` uses weak fairness of the steps of one
execution, which run in one thread: a handler or a model that was called returns or
raises, and a server answers or the request's timeout breaks it off.

`driver` assumes more, in named parts. `CallSpec`: weak fairness of the driver's
own steps, since a call runs in one thread that nothing suspends. `FairSpec` adds
that a step executed over and over works in the end (strong fairness of
`RunHead` with `Counted = 1`), and what an operator has to do for a workflow to
finish: start it, reload it after a crash, resume it, answer it so that the wait
is resolved, call the driver again, each until it is saved. Strong fairness is
needed because crashes, pauses and failing writes disable these actions again
and again. Without the first assumption a call need not return: that is
`driver_failing_step`, checked under `CallSpec`.

## 6. Where the code and its documentation differ

Three are runs of their own, which find a behaviour of the code:

* `driver_failing_step`: a failing step leaves the workflow RUNNING and ready, so
  `run_until_blocked_or_complete` executes it for ever.
* `promotion_files`: the file gate keeps its checks under the suffix of a file, so
  of two recorded files with one suffix the last decides, and a model that breaks
  the first is promoted.
* `replay_commands`: an emitted command handler prefers the `cmds` among its
  inputs to its own, an override its docstring grants the caller (`emitter.py:218`); the
  engine hands it those of the previous command handler, which nobody meant as one.

Seen while modelling and without a run of their own. Most are in the models,
where a property is stated around them.

*Engine and executors.* Only `signal_event` looks at `required_fields`: an answer
key already in the state data, such as the `approved` of an earlier human step,
lets a human step complete at once, without the fields it requires
(`core/runtime/executors.py:1096`, against `docs/project-review-2026-08-28.md:27`).
`HumanStepsAreAnswered` allows for it: it tells such a step by the output its
executor recorded.
`complete`, `fail` and `cancel` are accepted in any status; `retry_step` changes
attempt and status in memory before `execute_step` refuses. A handler that raises
`TypeError` after effects is run again in the next argument shape. The model
executors stand in with a completed result when no model is configured. A
malformed URL template, a timeout that is no number and the body of an HTTP error
that cannot be read raise out of the HTTP executor instead of failing the step.

*Hardening.* A run that ends on no progress, budget or iterations does not put
what it leaves failing into `needs_human` (`harden.py:202`, against its docstring
lines 23-24). Failures with equal signatures in one iteration are each given to
the agent although the first fix was rejected.

*Build runs.* Two recorded steps of one action share a cache file and escalate in
every run (`cache.py:62`, against "Escalate once, replay forever"). A replayed
file step without text reports `(from cache)` where the run that made it reported
`(written)`, so the steps after it escalate again (`run.py:310`). An agent that
exits with 0 and wrote nothing lets an earlier run's file be stored as its result
(`cache.py:109`).

*Gates and promotion.* Promoting an action that is on the slm tier overwrites its
`previous_executor`, so demotion leaves the tier without a runtime. A promotion
that dies between `runtime.json` and `promotion.json` serves and cannot be
demoted. `demote` never undoes `slm_then_agent`. The report of a dry run goes by
the pass rate alone. Files are matched by base name, and a regenerated Markdown
file may miss a fifth of the anchors, although the docstring of `gate_files` asks
for equal values. A promotion may rest on records without any
positive evidence, which fold to PASS (`quality_record.py:246`). At a quality
threshold of 0 a single failing record turns the refusal for lack of records into
a promotion.

*Compiler and replay.* A replayable action whose name contains approve, review or
manual becomes a human step (`compiler.py:496`, where `determinism.py:684` says
that replayable evidence wins). Orders stated by behaviors are added without a
check for cycles, and the compilation is then rejected. The lookup detector is
never given the earlier steps it looks for, and a behavior with an empty name
governs every action. The topological order of a looped session can differ from
the recorded one, and of a repeated action the emitted handler replays the first
step only; the benchmark replays each recorded step with its own inputs and so
does not notice. A turn with calls of several kinds keeps the first kind only. A
failed edit is recorded and replayed as if it had worked. An added empty file is
replayed as a newline. An edit whose new text contains its old one is applied
again by a restart, and edits that build on each other fail on it. An action
taken for code by its name alone gets a scaffold that raises
`NotImplementedError`. A later trace may contradict the order compiled from an
earlier one. `classify_completion` counts a predecessor that ran after its
successor, or failed, as one that "ran successfully before it"
(`core/build/bench.py:524` and the docstring above it).

*Proxy.* A client without a session key gets a new session with every request, so
its results are never attached (against `interceptor.py:11-14`). The turn of a
client that goes on before the response has ended may be lost, reordered or lose
its results (`server.py:333-362`). A compile request without a known run id takes
the session opened last, not the one used last (`server.py:210`). A reply whose
stream broke is a step of the trace, and its repetition one more.

## 7. Proofs

Eight modules hold theorems. Each follows its component's actions, one step per
action, under an inductive invariant. What they are proved from are the named
assumptions of the modules on their constants, which TLC evaluates on every run,
and the hypotheses a theorem states.

**`WorkflowEngineProofs`** proves, for every set of steps, dependency relation,
set of events, executor results, with and without automatic checkpoints and
failing writes: `TypeCorrect`, `DependencyOrderHolds`, `WaitsCanBeResolved`,
`ReportedWorkIsDurable`, and the refinement `EngineImplementsPromise`.
They rest on `InductiveInvariant`. None of the properties is inductive: resolving a
wait keeps `DependencyOrder` only because the waiting step was begun after its
dependencies, and that must hold of the file too, because a reload brings it back.
The inductive invariant therefore says of both instances, `wf` and `disk`, that
they are `Sound`: well typed, every step begun only after its prerequisites were
completed, and waiting only on a pending wait of the right type whose step is
begun and not completed; and of `acked` that it is a set of steps, contained in
the completed steps of the file when checkpoints are automatic. The lemmas show
once that each operator on instances preserves `Sound` (and what it does to
`completed`); the proof for an action then composes them. For the refinement each
action is shown to be `Begin`, `Complete`, `Save`, `Reload`, `Crash` or a stutter
of `DurableWorkflow`. On top of that invariant, `HumanStepsAnswered` shows that a
human step is completed only in an instance whose data holds every field it requires
or its executor's own output, in memory and in the file, because the payload of a
signal is checked against the pending wait, which is the step's own (`AnsweredInv`).
`EndStaysFinal` shows that what was reported as the end stays it: every operation
leaves COMPLETED and CANCELED alone, or is the failing or starting anew that takes
the report back, and a file can be behind the memory only by a write that raised,
which reported nothing.

Its second half shows that the driver with its operator is a behaviour of
the engine (`DriverRefinesEngine`), from which the engine's theorems and its promise
hold under it. `SnapshotIsNeverStale` needs of the rest of a snapshot that it is
begun in a RUNNING workflow, of steps not completed, whose dependencies are met
(`BatchInv`); that `Order` lists a step once (`OrderAssumption`, the keys of a
dictionary) is what makes the snapshot a set. `EffectsAreRepeatedOnlyWhenLost` has
`AutoCheckpoint` as hypothesis, without which nothing is saved between two effects.
Its invariant counts a step's effects by the record in the file (`Accounted`), and
says of an instance that only the driver executes that a record COMPLETED or
WAITING is that of a completed step or of the pending wait (`Driven`), since the
driver never executes a step of a workflow that waits.

**`StepExecutorsProofs`** proves `HandlersRunAsSaid`, `FittingHandlersRun` and
`RuleOutputsAreReference` for every signature, set of inputs and list of branches.
The invariant counts a
handler's runs by the shapes already tried. For rules it says that the output so far
is that of the branches so far that matched, the last one deciding each key
(`RuleInv`), so that no induction over the list is needed: the steps are the
induction.

**`HardenLoopProofs`** proves type correctness, `ScoreIsTrue`, `ConvergenceIsClean`
and `BudgetStaysKept` for every benchmark, artifact layout, price of a fix and
number of runs, and `FailedFixesAreRemembered` (`NothingIsRespent`) under
`DistinctOutputs`, which says that no two steps of one action have equal outputs; without it
the code does spend twice (section 6). The invariant adds to the properties that
the edit under judgement can be undone (`Undoable`: score and failures are those
of the build with the snapshot put back) and that a run that converged left a
clean build (`Honest`). For the history, `SpentInv` adds that the queue holds a
step once and that each fix that was put back is in the history, but for one per
death (`Accounted`).

**`BuildRunProofs`** proves the three properties of the cache for every build, data
and parameter set, whatever agents, crashes, deletions and clearings of the cache
do. `EntriesAreOfTheirUpstream` and `ReplaysAreOfThisData` are under `~LazyAgent`: they
cover dead runs, failed agents, deleted files and changed data, and exclude the
agent that exits with 0 without having written, whose stale file the code stores and
replays (section 6). Their invariant (`BaseInv`) is that
a report follows the trace with an output wherever one is due, so that the code
outputs of a context are those of the report, and that an entry holds a file exactly
when its step writes one. `EscalatedOnlyOnce` is under `Replayable` (section 3),
each part of which some behaviour of the code needs. Two observations make it
inductive. While all of a run is done, the cache explains each of its steps from the
outputs before it, and the files on disk are those of the entries (`RunIsKept`). And
once it was done, there are outputs that the cache explains at every place, and
that any run with the same parameters repeats as far as it went, or departs from by
a code output or by not using the cache (`Remembered`). Everything that could
change an entry meanwhile is such a departure, ends in a run that replaces `last`,
or forgets it. Contexts are compared by `Kept`, of which the module proves that it
is determined by the kept places and grows by appending one.

**`SlmPromotionProofs`** proves type correctness, `SlmTierStaysBacked` and
`FilesStayInStep` for every set of actions, models, examples and answers. The
verdict of the gates is left open there: the properties hold whatever it is. The
invariant says of every point of a command which files agree already (`InStep`),
that a model is there from before `work.yaml` names its tier until after it no
longer does (`Backed`), and that a promotion knows the executor it replaced
(`PreviousIsKnown`). The refinement of the abstract switch does depend on the
gates: `PromotionImplementsSwitch` proves it for every gate that is `SharpOn` the
recorded examples, that is, passes no answer that is not `Faithful`: with the facts
of the text at the asked rates, or with every recorded file regenerated, where JSON
has the recorded values and another file four fifths of its anchors. Its invariant
`Verdict` carries the convincing evaluation from `Evaluate` to the write of
`runtime.json`. The last part then proves when the gates of the code are sharp:
the file gate when the recorded patch holds at most one JSON file and at most one
other (`OneOfAKind`; TLC shows in `promotion_files` what happens otherwise), the
text gate at any rates. From these come `FilesOfOneKindAreRegenerated`
(`PromotedFilesAreRegenerated`, the property that `promotion_files` finds violated,
holds for such patches) and `DifferentKindsImplementSwitch`. `Faithful` counts where
the gates round: that `len // 5` missing anchors are a fifth at most, and that the
rates over facts are those of the sets of facts, is what these proofs are about.

**`ExecutorOptimizerProofs`** proves type correctness, `PromotionIsPaidFor`,
`BatchAndGateAgree` and `FailuresNeverPromote` for every kind of record and every
gate: an argument about the cardinalities of the folded index sets of a list and
of the list with one more record.

**`WorkCompilerProofs`** proves, for all turns, contracts and keyword classes and
without any bound on runs, steps or actions, what the compiler derives from
recordings. The invariant is small (`CompilationStands`): what was compiled is the
compilation of runs to which the present ones have `Grown`, the last one by
further steps, the others not at all. The work is in the recursive functions.
* `AcceptedExactlyWhenOrderableHolds` is Kahn's argument for both work lists at once.
  `Consistent` says what taking *any* ready action keeps true: an action is ready
  when its prerequisites are all in the order, its count is that of the others, and
  the order respects the graph. A sort stops when nothing is ready or everything is
  ordered (`SortEnds`); if an order of all actions exists, the first of them that is
  not yet taken would be ready (`SortDecides`). So the first-in-first-out sort of the
  Work IR and the last-in-first-out one of the engine accept the same graphs
  (`BothAcceptTheOrderable`, for every graph, those with stated orderings included).
* `LoopsCompileHolds`: the order in which actions first appear honours each recorded
  edge and the stand-in chain (`RecordedIsForward`).
* `EvidenceGrowsHolds`: recording on extends the list of steps and the list of
  actions (`FlattenGrows`, `ActionOrderGrows`), so an action keeps its place and an
  edge between earlier and later actions stays one (`DependenciesGrow`).
* `PatternIsEarliestBestHolds`: a detector shows nothing or one pattern of at least 70
  and, but for 100, below 99, so neither the threshold nor the early exit at 99 hides
  a better one (`DetectedSure`, `SearchFinds`).

What a build does with the workspace is proved in the same module, for all turns,
workspaces and numbers of starts (`ReplayIsInvariant`, and from it
`PlainTurnsReplayHolds`, `StraightSessionRebuildsHolds`, `RestartsConvergeHolds` and
`BenchmarkMatchesHolds`). The inductive invariant `AllInv` adds two parts:
`SessionStands`, that each recorded step is exact when it is plain and that the
session being recorded leads to the agent's files when all its steps are exact; and
`ReplayStands`, where the replay of a straight session is (`ReplayOf`). The argument:
* Two workspaces are compared path by path (`At`, `SameEverywhere`). A block changes its own
  path and no other; what it puts there is a relation `Gives` between what was there
  and what is there (`BlockActs`), and a patch with one block per path is one such
  change per path (`PatchGives`).
* A plain turn: calls of one kind become one step with the command or the block of
  each (`MergedIs`), and by induction over the batch the agent's workspace and the
  step's are the same after each call (`ShellTurn`, `WriteTurn`, `BookkeepingTurn`).
  An edit whose every old text is found does what its hunks do (`HunksAsEdited`).
* A straight session: each of its actions depends on the one before it, and a chain
  has one order (`ChainHasOneOrder`), so whichever ready action the sort takes, the
  build replays the recording in its order (`StraightOrder`). Each action was met
  once, so its handler is of its own step (`StepsOfOne`), and the `cmds` an earlier
  step may have left in the state are its own (`OutcomeIs`). On the first start the
  workspace is `Rebuilt` at every step.
* Restarts: a workspace a crash left is `Between` the first files and the last,
  path by path. A settled block works on either (`GivesAgain`): it finds what it
  changes, or has changed it already. So every step goes through, and what it
  touches is as it was at the end (`SettledStepAgain`); when all steps have gone
  through, all paths are (`SettledEnd`).
* The benchmark: on the agent's own files a step's commands print what the agent
  was told, and joining whole answers adds no line of its own, so both sides have the
  same lines. A step goes through at its first invocation, so the second one of
  `RunPatch` is never needed there.

Two lemmas carry all recursion in the module: a function defined by what it is at 0
and how it goes on exists (`UnrollingExists`), and a set of numbers that holds 0 and
every successor up to N holds them all (`InductionTo`); both come from the least
number of a set.

**`ProxyCaptureProofs`** proves `TurnsAreCaptured`, `ResultsFindTheirCalls` and
`CompilesTakeWholeSessions` for any number of agents, eager or not, with and without
keys, and any calls, repetitions and disconnects. The invariant (`TracesAreInductive`)
speaks of sessions and relays together, because what is missing in a trace is in a
relay that still runs: a relay carries results of its agent's answered turns and is
at most one per turn that waits or was served; a completed step has the calls that
its agent's later requests answer, each with one result once the next turn but one
has begun, and a broken one calls that none of them answers; a session without a key
has one step and one relay at most; and a patient agent's completed turns are all
there, in order.

What proving changed in the models. The cases of `ChecksOf` (the gate of one file)
and of the fold's outcome overlapped, so that a `CASE` did not say which the code
takes first; they are now tests in the code's order. `Kept`, `Updated`,
`ActionOrder`, `Among`, `Pattern` and the driver's snapshot as a set replaced library
folds that computed the same, and the two sorts name the step they repeat
(`TakeOldest`, `TakeNewest`). `PatternIsEarliestBest` did not hold as it stood: of a
step without output the code looks at nothing, and it now speaks of the others. Assumptions
that were tacit got a name: `TextAssumption` (an absent file or entry is no file or
entry, a code step's output is not empty), `RuleAssumption` and
`ExamplesAreRecorded` (lists are sequences, a text has finitely many facts).

The workspace properties changed more. `Plain` used to admit turns that mix commands
with bookkeeping. Merging keeps the first call of a mixed turn alone, so a plan
followed by an `rm` is recorded without the `rm`: `PlainTurnsReplay` was false of such
a turn, which the checked instance does not have. It is about turns of one kind now.
The agent's edit checked every hunk against the file as it was at first, and now makes
its replacements one after the other, as an edit tool does. `Exact` compares what
failed as well as the files: a step that fails where its turn went through does not
do it again. `Settled` asks for different paths of the blocks of a patch; with
two blocks on one path the second may find its text only in what the first left, and
a restart on the last files does not. `Hunks`, `ApplyPatch`, `RunCommands`,
`Played`, `StepsOf` and `Benchmark` are recursive functions instead of library folds.
Two assumptions got a name: `TurnsAreBatches` (a turn is a list of calls of tools
the proxy knows) and `WorkspaceIsFiles` (a workspace maps paths to texts).

Only model-checked: liveness (`CallReturns`, `WorkflowCompletes`, `RunEnds`,
`ExecutionEnds`), which is out of the prover's reach, as is `ENABLED`. Every other property of a passing run
is stated by a theorem, and so is the property of `promotion_files`, for the examples
for which it holds. The properties of `driver_failing_step` and `replay_commands`
are false, as section 6 says.

## 8. Plan

Proofs that are left: `AllInv` says nothing of a session that is not straight. What
it would take is a replay property of sessions in which an action is taken twice,
which the code replays from the first of its steps only; the property to state first
is which files such a build leaves.

Modelling that is left: the oracle gate, should the engine ever call it; the
binding of parameters, if it comes to decide more than the text of a prompt.
Abstract specifications still worth stating are a cache that returns what was
stored for the same context (refined by `BuildRun`) and a trace that grows by
whole turns (refined by `ProxyCapture` once broken replies are told apart).
