# AgenticGoGo in TLA+

A model of `agg`, the program that runs a coding agent in sessions, judges each
session's work and lets only what passes reach the base branch. The modules here
are translated from `src/src/*.rs`; the theorems of eight modules (`*Proofs`,
section 5) are proved with TLAPS for every value of the constants, and every
statement is checked with TLC on small instances.

    tlc -config MCSpanGate_custody.cfg MCSpanGate.tla
    tlapm SteeringProofs.tla

`PROJECT.json` lists the runs, the source lines of every definition, the
hazards of the code and which property watches each of them. The twelve runs it
lists pass. Where code and documentation disagree, section 3 says which instance
shows it.

## 1. The system

One `agg run` process works through `sequence.steps`, or a Rust program drives the
same operations call by call. For each session it applies what the operator
sent, picks the step, cuts a branch, runs the worker (an external agent) under
supervision, undoes what the worker did to protected paths, stages the merge,
lets the judges grade the staged tree, keeps or rolls back, and decides whether
the run ends. Everything durable is files under `agg/private/` and git refs.
Other processes (`agg send`, `agg answer`, `agg spawn`, `agg stop`, a second
`agg run`, the worker itself) touch some of these files at any time.

| part | state | operations | what is hard | correct means |
|---|---|---|---|---|
| git custody and gate (`features/{gate,verify,gitsetup,partial}.rs`, `git/`) | base and session branches, span and its tip, parked and partial refs, work tree, index, staged merge; `verdicts.jsonl` | cut, auto-commit, stage, keep/rollback, tear a span down, save unfinished work, recover at start | each git command may fail, the process may die between any two, spans collect several sessions' branches | barred work never lands, no work becomes unreachable, what lands is what was graded and what is recorded |
| loop and steering (`loop_.rs`, `context.rs`, `bus.rs`, `features/{inject,backoff,finalize}.rs`, `os/signals.rs`) | the bus directory, pending instruction, pid file, signal flag, the wait's deferred commands | send, purge, drain, apply, pause, wait, look for a stop, end | senders are other processes; drained commands live only in memory; three places decide how a run ends | a stop or a signal ends the run, instructions reach a brief, commands keep their order and their run, waits end |
| worker supervision (`backend/worker.rs`, `os/reap.rs`, `features/run.rs`) | process group, pipes, shared flags, registered pid | launch, read, watch for a hang, kill, reap, sweep | three threads and the agent's process tree; ids are reused | the session returns, nothing of the group survives, only the own group is killed |
| spawn registry (`os/spawns.rs`) | `spawns.json` | register a task, scan, protect its group, tell of its end | load-modify-save by several processes; names are used again | every task that ended is told of once, no running one is killed or forgotten |
| bounded commands (`os/proc.rs`) | child, two readers, deadline | run with timeout | processes that keep the pipes | the call returns, a timeout kills the group |
| walk, ratchet, call ledger, resume (`core/{walk,ratchet,calls}.rs`, `features/{resume,setup}.rs`, `project.rs`) | position in the sequence, references and streaks, `calls.jsonl`, `state.json`, `project.json` | dispatch, gate, append, truncate, restore | a crash between or in the middle of writes to four files; `agg.yaml` may change | base never gets worse than the last keep, no step runs twice or is skipped, ceilings hold over resumes |
| Rust driver (`driver/`, `examples/`) | the driver's ledger position, memoized verdicts, the open span | step, judge, condition, group, gate, hil, block, replay | replay must not run what landed; what is memoized must agree with what is recorded | the replayed prefix equals the recorded one |
| double-run guard, detach, report (`os/detach.rs`, `main.rs`, `report/`) | `run.pid`, `report.json`, the snapshot's run id | begin, claim, detach, write, fall back, conclude | look and claim are two steps; a guard is dropped late | one loop per project; every ending has its own report |
| human asks (`core/asks.rs`, `features/inject.rs`) | `asks.jsonl`, request files | promote, ask, answer, withdraw, deliver, mark | append-only file written by several processes, a row and its newline in two writes | the first answer wins, each answer is delivered once, nobody waits for a question that is not there |
| judges, groups, verdicts (`core/{judge,judges,groups,engine,verdicts,model}.rs`) | goals with their last verdicts, landed rows, references | run, stage, regroup, assess, keep or restore | net progress inside groups, errored and vacuous verdicts, goals put back on the arms that discard | what is kept lost no ground, a success is of the tree that is on base |
| stop grammar (`core/stop/`) | - | accept, evaluate | errors inside alternatives, references, group aggregates | a condition that is accepted can be evaluated, and ends the run when it holds |
| metrics (`metrics/`) | shared measurements, the incumbent's reports | select, combine, measure, promote | caches keyed by tree and scope; analyzers fail one by one | a verdict is of the tree asked about, a fault never helps |
| protected paths (`protect/`, `features/protect.rs`) | snapshot, kept copies, last session's record, the span's taint | match, walk, compare, restore, bar the span | files change at any time; patterns differ by step | a change is always found, undone before the judges look, and bars the merge |
| workflow library (`workflow/`) | history, recorded commits, deferred entries, re-entry count | step, refresh, approve, repair, go back, --from/--note/--until/--reset | deferred entries are lost with a crash; the count is handed from process to process | what is not done again is current, a failing run ends |
| budgets, clock, dashboard state (`core/clock.rs`, `backend/usage.rs`, `state/`) | counters in memory, in `state.json`, in `calls.jsonl`, in `project.json`; the banked clock | record, publish, bank, restore | one number in four places, written at different moments | they stay one sum; a crash costs its last session |
| agents (`backend/{claude,codex,copilot}.rs`) | - | read a line, a whole output | three formats, usage at different lines | what was reported is told apart from zero |
| configuration, assembly, isolation (`core/config/`, `assembly.rs`, `capability.rs`, `isolation/`) | - | load, assemble, refuse, confine | what a start checks is another list than what its sessions need; rules that hide earlier rules | what is accepted starts, and is confined as it asked |
| memory, notify, hooks, UI, tools | `LOG.md`, stuck flag | fold, page, draw, scaffold | - | outside the models (section 7) |

## 2. Modules

| module | models | state and actions in the code |
|---|---|---|
| `SpanGate` | git custody, the gate, the recovery at start | `base`, `branch`, `parked`, `partial`: refs, each the set of work items reachable from it; `dirty`, `untracked`, `indexed`, `red`: the work tree; `tagged`, `recorded`: the rows of `verdicts.jsonl` and `calls.jsonl`. One action per handler: `Begin` (GitSetup), `Cut`, `Edit`/`WorkerExits`, `AutoCommit`, `StageSpan`/`StageMerge`, `Gate`, `Close` (clear_span), `Record`, `Finish`, `Crash` |
| `Steering` | bus, pause, wait, signals, endings | `inbox`: the files of `bus/in`, with senders that write and rename; `BusDrain` and `Apply` (BusDrain::run), `Paused` (wait_for_resume), `Poll`/`Requeue` (rate-limit wait), `CheckRunStop`, `Purge`, `Baseline`; `Start` beside a sender that found the run before |
| `Worker`, `Spawns` | one session's processes and threads, beside the tasks of `agg spawn` | main thread `Launch` ... `Join` (run_session), `Watchdog*`, `Signal*`, `ReaderEnds`, the agent's own steps; `registry`, `alive`, `logs`: `spawns.json` and what it speaks of; `spawner`: `agg spawn` between its load and its save; `scanner`: the loop between its; `owed`: ended tasks no brief has told of yet |
| `TimedCommand` | `run_with_timeout` | the poll, the deadline, the kill, the two joins |
| `Resume` | walk, ratchet, ledger, `--resume` | `lines`, `open`: `calls.jsonl` and whether its last line is ended; `saved`: the session count in `state.json`; `reason`: the end reason in `project.json`; `forgotten`: the sessions that `state.json` lost with a start that died. `StartFresh`, `StartResume`, `RestoreCounters`, `Baseline`, `Pick` (PickStep), `Stage`, `Gate`, `Finalize`, `RecordStep`, `RecordGate`, `CrashAppending` |
| `Driver` | the driver API and its resume | `calls`: `calls.jsonl`; `ord`, `replay`: the ordinal and the records it is answered from; `cache`, `span`, `direct`, `groups`: `Agg.verdicts`, `span`, `span_direct`, `span_groups`; `tip`, `changed`, `violation`: the open span. A driver program is a constant, a flow of calls that branch on what they returned. One action per call and way it goes: `StepReplayed`, `StepRuns`, `AsksBegin` ... `AsksEnd` (judge, condition, group), `GateReplayed`, `GateFindsNothing`, `GateFails`, `GateDecides`/`GateRecorded`, `Note*`, `Limits*`, `Wait*` (hil, block), `Refused` and `AsksLatched` after the end |
| `Samples` | the shipped driver programs | each section of `examples/{hil,selfimprove,workflow}.rs` as a flow of `Driver`'s calls |
| `Asks` | the ledger of questions | `view`, `tail`: the rows of `asks.jsonl` folded in order, and whether the last one is ended; `writing`: an appender between its row and its newline; `inbox`: request files; promotion, asking, answering, withdrawing, marking |
| `AskBoard` | what the ledger promises | a board of questions: `Put` (once), `Withdraw`, `Settle` (the first answer stands) |
| `Project` | one project directory with several starts over `Asks` | `pidfile`, `report`, `snapshot`; per start `pc`, `kind` (foreground, detached, driver), `seen` (the pid it read), `mayWrite`, `result`, `waits`, `handling`, `brief`. Look, claim, detach, run, brief and mark, conclude with its own or a fallback report, drop the guard, be killed |
| `Conditions` | parsed conditions | an expression is the sequence of its nodes, operands first; terms, references, comparisons, and/or/not, aggregates over groups, with their errors; what a start accepts |
| `Judging` | judges, goals, the gate's decision | `goals`: each judge's state and last verdict; `before`: what a discard puts back; `landed`: the fold of `verdicts.jsonl`; `gate`: references and streaks; `staged`, `plan`, `span`, `violated`. `Start`, `Baseline*`, `SkipSession`, `JudgedSession`, `RunJudges`, `Decide`, `AppendRows`, `RecordStep`, `CheckRunStop`, `Crash` |
| `Metrics`, `Measuring` | report selection and combination; their shared use | `cache`: measurements by key; `disk`, `incumbent`: copied reports; `Start`, `Cached`, `Measure`, `Stray`, `Keep`, `Discard`, `Session`, `Exit` |
| `ProtectedPaths` | the bracket around a worker | `fs`, `before`, `last`, `kept`, `bound`, `span`; patterns and their matcher, the pruning walk, `BeforeWorker`, `WorkerWrites`, `AfterWorker`, `Stray`, `Gate`, `Skip` |
| `Workflow` | named steps over commits | `head`, `hist`, `pending`: the tree, the written and the deferred history; `given`, `fixes`, `next`: notes, repairs in place, where the run goes next. `Steps` (the driver's own), `Humans` (the answer to an approval or to a proposal), `Decide` (the driver goes back by itself, `Flow::reenter`), `Operator`, `Crash` |
| `Wire`, `Usage`, `Accounting` | the agents' output lines; what they add up to; where the sums are kept | `st`: the counters in memory; `live`, `files`: the published state and what is written (`state.json`, `clock.json`, `project.json`, `report.json`); `ledger`, `late`: rows and late writers of the tail; `run`, `clock`, `wait`. `StartFresh`, `StartResume` (which publishes zeros, and keeps in `forgotten` what dies with it), `BaselineBegins`, a session's steps, waits, publishing, `Crash`, `Tick` |
| `Confinement`, `Launch` | the rules of bwrap, Seatbelt and containers for each caller (worker, one-shot judge, script, metric), the allow-list; the start | `cfg`, `host`: chosen once; `at`, `reps`: the walk; `started`, `stillborn`: processes that came up or did not; `spend`, `reported`, `untold`: dollars, those that result lines named, and those of sessions that were killed before; `bridge`: the containers' network behind the allow-list. `Load`, `Assemble`, `Capability`, `Preflight`, `Boot`, `Pick`, `Work`, `Grade`, `End`, `Fault`, `Stopped` |
| `SpanGateProofs`, `SteeringProofs`, `SessionProofs` (of `Worker` and of `Judging`), `ResumeProofs`, `ProjectProofs`, `WorkflowProofs`, `MeasuringProofs` (of `Measuring` and of `Accounting`), `LaunchProofs` (of `Launch` and of `Driver`) | theorems (section 5) | |

How they fit together:

- `SpanGate` and `Resume` look at the same handlers from two sides: `SpanGate`
  follows the work through git and abstracts the numbers, `Resume` follows the
  numbers and positions and abstracts git to the one value the base branch has.
  `Judging` opens the gate's decision itself: what each verdict means, over groups,
  ratchets and conditions. `Steering`'s loop has the same phases with git and judges
  left out.
- `Driver` is the second way to run all of this: its steps and gates are the handlers
  of `SpanGate` called by a Rust program, its ledger the file of `Resume`, read by
  ordinal instead of by position. `MCDriver` composes it with the programs of
  `Samples`.
- `Project` extends `Asks`: the questions are asked, answered and told by the
  processes of one directory, and it is shown to implement `AskBoard`
  (`Board == INSTANCE AskBoard WITH ...`, property `AsksAreKept`): whatever the
  interleaving of appends, every step of the ledger is a step of the board or
  changes nothing on it.
- `Accounting` extends `Usage` extends `Wire`; `Launch` extends `Confinement`; `Judging`
  extends `Conditions`; `Measuring` extends `Metrics`; `Worker` extends `Spawns`.

Simplifications, module by module:

- `SpanGate`: work is a set of numbered items, a conflict or a failing command is
  a choice; agg alone runs git; the base is one branch; a Rust error that leaves
  `run()` is a `Crash`; two renames within one second do not collide; the rows
  of skipped steps are not in `recorded`.
- `Steering`: commands that only set a value stand as `note`; stamps are in the
  order of sending with one sender in flight, which may outlive the run it found; the
  clock ticks only while somebody waits.
- `Worker`: the reaping and done flags are stored in one step; ids of the
  worker's children are not reused; an agent's output and CPU use are a choice.
- `Spawns`: in the standing run the saves of `agg spawn` and of the scan do not overlap.
- `TimedCommand`: the output itself and the limits on it are left out.
- `Resume`: one ratcheted judge, higher is better; the gate's state is its
  reference and the number of rollbacks (the other streaks move with these);
  tokens and cost are restored as the sessions are, and only the sessions are in
  the model; `truncate`, `RunLedger::begin` and the first publish of a fresh start
  are one step; seeds and changed scoring definitions are left out. `forgotten` is a
  history.
- `Driver`: flows are finite, a loop is unrolled; what git does with a staged span
  is a choice (`Stagings`, `changed`), the span a set of steps; of the gate's
  state one streak; a step and a judge cost one token each; the ceilings are
  sessions and tokens, not cost and time; every appended row is whole (torn
  lines are in `Resume`), and of the rows that cannot be appended only a judge's
  leaves the run going. The histories `trail`, `gap`, `kept`, `fresh` and
  `diverged` exist only for the properties.
- `Samples`: each section of a program is a flow of its own; the sixth of `hil.rs` is
  left out; a native judge that asks another one itself is one ask.
- `Asks`, `Project`: the clock an id is minted from stands still; a process that is
  killed releases nothing; the answer values and the questions are few.
- `Judging`: merge commits succeed (their failure is in `SpanGate`), numbers are
  small integers and `NaN`, a rubric's grading is a choice among `Outputs`; the
  poison guard of the ceilings is left out.
- `Metrics`, `Measuring`: integers stand for floats, one label key, no scratch
  directories.
- `ProtectedPaths`: digests are equality; all files are tracked; the gate resets the
  tree to the last merged one; nobody tampers with the kept copies.
- `Workflow`: a driver is a fixed sequence of steps of the kinds the library has; the
  commits a `--reset` needs are remembered only where `Resets` is TRUE; discussions
  and briefs are what they write.
- `Accounting`: prices are natural numbers, where the code adds `f64`s (its sums agree up to
  rounding); heartbeat and throttle are left out; a human is waited for on the
  driver's path only.
- `Confinement`: every listed path exists and none is a link, so what an engine or bwrap
  creates first is left out; so are Seatbelt's rules against unlinking the parents of a
  read-only directory. A glob of `write_deny` is the path it names.
- `Launch`: a config is a record of what the checks tell apart; no driver, no hooks; a
  judge that is run has a kind, a listed path has a component after normalisation
  (`JudgesAssumption`, `ListsAssumption`); every session costs the same, and Claude's last
  line reports it unless the session is killed; a run loses at most one mechanism; the
  proxy's port can always be opened, the relay is there or not, without its sockets.

## 3. Runs

| run | bounds | states | shows |
|---|---|---|---|
| `span_custody` | every git command may fail, new files, operator edits, 2 work items, 3 sessions, 1 run | 3.3M | no work becomes unreachable but by a veto or an overwritten partial ref; the span tip reaches the span; what is merged is what was graded |
| `steer_safety` | 3 commands of 4 kinds, slow and dying senders, no condition that names a judge, 2 runs | 0.8M | commands are applied in the order they were sent; of an earlier run's a run holds at most the one whose sender was slower than the purge; a signal ends the run unless its worker never ends |
| `worker_threads` | 2 sessions, 2 forks, tasks of one or two names, saves that do not overlap, no id reused | 0.7M | no stragglers, every task that ended is told of, sessions return, a signal ends the run |
| `resume_ledger` | 2 sequences of 2 entries, 3 values with tolerance 1, 3 sessions, 3 starts, torn lines, lost gate rows, deaths before the restored counters are written | 4.2M | the session ceiling holds over resumes but for what such a death forgot; while every merge has its gate row, the ratchet and the resumed position hold |
| `driver_replay` | 14 sections of the shipped programs and 2 flows more, every end of a session and of a staging, a judge whose row cannot be written, ceilings of 3 sessions and 6 tokens, 2 starts | 0.7M | up to the last kept gate a resume reproduces what the driver saw, redoes none of it and rebuilds the state |
| `project_custody` | 2 starts (foreground, detached, driver), 2 operators who answer differently, 2 questions, 1 request, 1 kill, failing promotions and answers; starts and appends do not overlap | 0.4M | one loop per project, its own report, the ledger of questions implements the board, waits are for a question that can be answered, answers are told once |
| `judging_gate` | a ratcheted judge and a group of two, each verdict incl. errored and vacuous, every way a merge is staged, a window of 2, 2 sessions, 2 starts | 3.9M | a success rests on verdicts of the tree that is on base, no session starts past an ending, a kept merge loses no ground of a group or of the ratchet |
| `metrics_kept` | 4 judges, 3 trees, a cache of 3, 1 session, 2 starts, 1 failed measurement, 1 stray write | 0.2M | each verdict is of the tree asked about, incumbents are one kept session's, a fault never helps |
| `protect_oracle` | 4 steps in 3 tiers, files, directories, a link; 2 sessions, 2 writes, 1 stray | 78k | the walk misses no protected path, what was changed is back before the judges look, a tainted span never merges |
| `flow_reentry` | 2 drivers, inputs of 3 versions, 1 re-entry, 2 runs, crashes, --from, --note, --until | 1.2M | what is not done again is current, an approval is of what was signed, a run that keeps failing ends, waits for a human, or is sent back by its own driver for ever |
| `accounts_counts` | a good Copilot session, a Codex one at its limit, a Claude one that cannot be resumed, a ruler of Claude's, 2 sessions, 3 launches, 1 late line, clock to 1 | 1.2M | counters in memory, state, ledger and project agree; every session is in the lifetime count; a crash costs at most its last session, and what was restored when it falls before that is published |
| `launch` | 36,818 pairs of a config and a host, 4 sessions that may be killed, loss of the wrapper, engine or relay | 1.7M | accepted sessions start; a run that aborts over cost and was not warned starts none past what its sessions reported; every process is confined as its config asks |

Two work items are enough for one to hide the other, three sessions make a span
with a middle, two runs make a restart and a resume; the resumed run may be
resumed again in `Resume` (three starts). Three values with tolerance 1 have a
step that is within the tolerance and one that is not. Three commands are the
shortest history in which a batch has a first, a middle and a last. A group of two
is the smallest in which a gain can pay for a loss; with the ratcheted judge beside
it there is a verdict the group does not count. Three trees let a cached
measurement be of the one before the incumbent's. Two operators and two questions
let answers race and cross. `Launch` has no two keys varied together unless one
check reads both: `Sliced` names the slices. A third launch in `accounts_counts` lets a
start that died before it published be resumed from what it left.

Configurations kept beside the runs, to be run by hand:

| configuration | result |
|---|---|
| `MCSpanGate_clean` | conflicts and failing checkouts, 2 runs: `BarredStaysOff`, `LedgerIsOnBase`, `GateKnowsBase` hold (all three are proved) |
| `MCSteering_honoured` | no pause, prompt senders: every stop ends the run unless its worker never ends (`StopEndsRun`), every instruction reaches a brief |
| `MCLaunch_launch` with `CheckIsTheRunsVerdict` | holds: `agg check` and `agg run` come to one verdict on every pair |
| `MCLaunch_launch` with `WalkReachesAJudge` | holds: the walk of an accepted run never skips judging for longer than its entries repeat |
| `MCTimedCommand_bounded` | `TimeoutKillsGroup`, `CallReturns` hold with 3 forks and escapes |

The disagreements with the documents come from a standing configuration with
constants changed and the one property given:

| configuration, constants | property | the code does | against |
|---|---|---|---|
| `MCSpanGate_custody`, Faults {"merge_commit"} | `MergedRowsAreOnBase` | a merge commit that fails is recorded as merged | gate.rs:154 "the staged merge was committed onto base" |
| Faults {}, NewFiles FALSE, OperatorEdits FALSE | `TeardownLosesNothing` | a veto on the judged session of a span drops the earlier sessions' work with the span | gate.rs:326 "deleting it loses nothing" |
| Faults {"cut"} | `VetoedStaysOff` | a session whose branch could not be cut keeps its vetoed work in the tree | CONFIG.md:1791 "Present ⇒ do not merge." |
| Faults {}, MaxRun 2 | `InterruptedWorkKeepsItsRef`, `SessionNumbersContinue` | a resume overwrites the interrupted session's partial ref, or reuses its number | CONFIG.md:1222 "on its partial ref, not judged", :1219 "the resumed run starts with `n+1`" |
| Faults {}, NewFiles TRUE, MaxRun 2 | `BarredStaysOff` | a dead session's new files land with the next session | gitsetup.rs:30 "They land on `refs/agg/partial/<run>/<session>`, never judged." |
| `MCSteering_safety`, Sendable {"pause", "resume"} | `ResumeUnpauses` | a resume drained together with a pause is lost | CONFIG.md:1194 "and unpauses, as always, otherwise" |
| Sendable {"pause", "stop"}, SendFaults {}, SendsWhileBooting FALSE, SkipSteps FALSE, MaxSends 2, MaxRun 1 | `StopEndsRun` | a stop drained in one batch with a pause does not end the run | GUIDE.md:797 "Graceful stop at the next session boundary" |
| Sendable {"stop"} | `StopEndsRun` | a stop sent during the start is purged | GUIDE.md:797 "Graceful stop at the next session boundary" |
| Sendable {"inject", "pause", "resume"}, or {"inject", "stop"} with slow senders; SendsWhileBooting FALSE | `InstructionsReachABrief` | instructions are dropped while paused or by the session end's look for a stop | GUIDE.md:798 "applied at the next session boundary", bus.rs:178 "would swallow an `inject`" |
| Sendable {"stop"} | `KillSwitchIsReported` | a signal during the baseline, and a stop at a `skip_judges` session's end when the ceilings hold and no condition names a judge, are reported as aborted | report/mod.rs:95 "must never be reported as anything else", CONFIG.md:797 "an operator stop ... beats both" |
| unchanged | `NoStaleCommand` | a sender that found the run before renames its file after this one's purge: the command is taken for one of this run | bus.rs:65 "clears anything stale when a workflow starts" |
| `MCWorker_threads`, PidReuse TRUE | `OnlyOwnGroupsKilled` | kills by an id that was freed | worker.rs:286 "sets this true BEFORE it calls `child.wait()`" |
| MaxFork 0 | `SignalEndsRun` | a signal before the worker is registered kills nothing | signals.rs:12 "makes the worker's blocking `child.wait()` return" |
| MaxFork 3 | `NoStragglersBesideTasks` | forks during a sweep by list survive it | GUIDE.md:265 "sweeps stragglers when a session or the loop ends" |
| Overlaps TRUE | `TasksAreAnnounced` | the later save of spawns.json drops the other's entry: a task nobody tells of | - |
| `MCTimedCommand_bounded`, Leaves TRUE | `CallReturns` | a left-over process holds the call up | CONFIG.md:142 "enforced for **every** judge" |
| `MCResume_ledger`, Faults {"unrecorded"}, Tolerance 0 | `RatchetAlwaysHolds` | a merge without its ledger row: the reference falls back | ratchet.rs:15 "may not get worse than it was at the last KEPT gate" |
| Configs OneConfig, RequireImprovement FALSE, Faults {"torn"} | `LedgerStaysReadable` | a torn last line that a resume leaves in place makes the ledger unreadable for the next | - |
| unchanged | `CeilingAlwaysHolds` | a death at a resume's start leaves zeros for the counters | CONFIG.md:1220 "a resume never launders a ceiling" |
| Faults {} | `LimitedStepIsRetried` | a rate-limited session has used up its repetition | GUIDE.md:262 "waits for the reset and retries fresh" |
| Faults {} | `MetRunsAreRefused` | a run that was satisfied at launch is resumed | CONFIG.md:1224 refused "when the last one met `done_if`" |
| `MCDriver_replay`, Flows UnconditionalFlows, StepEnds {"work"}, Stagings {}, RequireImprovement FALSE, SessionLimit 9, TokenLimit 9, Unwritable {} | `UnchangedDriverNeverDiverges` | a gate on an empty span takes no ordinal when it is live and asks for one when it is replayed, so an unchanged driver is refused | RUST_API.md: calling it unconditionally at the bottom of a `for` is "the right default" |
| the same, Flows RetriedFlows, Stagings {"failed"} | `UnchangedDriverNeverDiverges` | a replayed conflicting gate forgets the memoized verdicts the live one keeps: the next ask takes an ordinal it did not take | facade.rs:1211 "Memoization and the ledger have to agree on what counts as ONE call." |
| the same, Flows PromotedFlows, Stagings {} | `GateHoldsWhatWasAsked` | a judge asked as a condition and then by name in one step is not in the gate's set: the second ask is a cache hit | facade.rs:971 "A judge the span also asked by name stays held." |
| `MCProject_custody`, AppendsOverlap TRUE, Kinds Drivers, MaxKills 0 | `WaitsForAnAnswerableAsk`, `AsksAreKept` | two rows on one line are read by nobody: a driver waits for a question that is not there | - |
| Kinds Drivers, StartsOverlap TRUE, MaxKills 0, MaxRequests 0 | `OneLoop` | two starts look before either claims | - |
| StartsOverlap TRUE, Kinds Foreground | `ReportIsTheRuns`, `PrintsItsOwnReport`, `ToldAtMostOnce` | a refused start decided it may write before the other claimed: its fallback replaces the live run's report; or there are two loops, and both tell an answer | main.rs:587 "a refused second start must not touch it" |
| Kinds Foreground | `NeitherMeansKilled` | a run that ends on an error leaves its snapshot unfinished | report/status.rs:38 "was killed (SIGKILL, OOM, power loss)" |
| Kinds Drivers | `EndedRunsReport` | a driver that panics writes none | GUIDE.md:790 "on every ending" |
| Kinds Drivers | `PromotedOnce` | a crash between the row and the removal of its file leaves a request that is put again once the first was answered | asks.rs:286 "a request cannot be promoted twice" |
| `MCJudging_gate`, Judges TwoJudges, DoneIf BothMet, no groups, ratchets or Untils, MaxStarts 1 | `SuccessIsFullyGraded` | a goal met earlier stays met when its judge errors, and `done_if` reads that | model.rs:524 "never satisfies `done_if`" |
| Judges OneJudge, Outputs NaNs, AbortIf AbortOnLow, DoneIf DoneWhenMet, no groups, ratchets or Untils, MaxStarts 1 | `AbortSeesEveryCounter` | an error in one alternative silences the others: a counter that should abort does not | core/stop/parse.rs:147 "should surface as an error, not flip the loop" |
| `MCMeasuring_kept`, Judges OnlyOne, MaxStrays 0 | `IncumbentIsTheKept` | promote returns before it clears the directory when the kept session measured nothing | metrics/measure.rs:280 "is dropped (it describes an older tree)" |
| Judges Within, no ratchet | `ValueAlwaysDecides` | with `max` and `min` majority reports a k-th value that passes while fewer than k tools do | metrics/combine.rs:8 "more than half the tools pass iff that one does" |
| `MCProtectedPaths_oracle` | `StrayIsAlwaysUndone` | a stray write of a session is looked for with the next step's patterns only | - |
| Trees TwinTrees, Steps TwinSteps | `TaintedSpanNeverMerges` | a directory replaced by a link to one that holds an identical link takes the same snapshot: the path is another entry, what it leads to is the same | - |
| `MCProtectedPaths_oracle` | `RestoreLeavesTheRest` | putting a path back removes what is in its way, protected or not | - |
| `MCWorkflow_reentry`, Versions {0,1}, Limit 0, Resets TRUE, MaxRuns 3 | `UnchangedResultIsThere` | --reset takes commits back and leaves their history entries: the step passes as unchanged with nothing in place | workflow/agent.rs "your result is in place" |
| Versions {0,1}, MaxRuns 1 | `EveryReentryCounts` | a human's decision sends the run back without counting | workflow/task_force.rs:45 "it counts as a re-entry" |
| Versions {0,1}, Limit 0, MaxEdits 1, MaxRuns 3 | `InstructionsReachTheResult` | a step told something else since passes as unchanged | - |
| Limit 0, no Untils, MaxRuns 3 | `CurrentAfterACrash` | a crash loses the deferred entry of a result that was kept; history keeps the commit before, and a later run whose inputs are as they were then passes the step as unchanged | workflow/agent.rs "your result is in place" |
| Versions {0,1}, Limit 0, MaxRuns 1 | `EventsAreWritten` | entries deferred to the next commit are lost at the end of a run that makes none | - |
| Programs Looping, no Untils, Versions {0,1}, Limit 0 | `NoteIsTheFirstCalls` | a second call of the step that changes nothing ends the run: "its note wasn't carried out", which its brief did not hold | workflow/agent.rs:157 "the note is the first call's" |
| `MCAccounting_counts`, Worker TwoWorkers, Ruler NoRulings | `ReportUsageIsTheRuns` | the report of a resumed run sums the last launch | CONFIG.md:2034 "the run's totals" |
| same | `StatusTimeIsTheReports` | the live status forgets the rate-limit waits | CONFIG.md:2089 "as in the report" |
| Worker HungWorkers, Ruler NoRulings, DudLimit 3, SessionCeiling 3 | `BrokenNeverReachedTheModel` | a hung Claude session counts as a dud: it prices itself on its last line | context.rs:277 "it never reached the model" |
| `MCLaunch_launch` | `AcceptedJudgesStart` | a tier only `defaults` names is not asked of the host, its judges are held in it | CONFIG.md:420 "refuses at startup" |
| same | `CeilingHolds` | `limits.cost` that no condition names stops nothing | - |
| same | `DollarCeiling` | a Claude session names its price on its last line: what killed sessions spent is not counted, and sessions go on past the ceiling | CONFIG.md:811 "**dollar** ceiling" |
| Launches PortSlice | `AcceptedSessionsStart` | an allow entry for the model's host on another port is accepted | - |
| Launches TypoSlice | `WalkIsAnswerable` | the names of an `until` are first looked up when the walk asks it | - |

Three things seen while translating are in no instance. A judge is memoized until
the next step or gate (`Memoized` in `Driver`), so the shipped loops of hil.rs
that ask a human until a judge is met ("The `while` re-runs the judge", :161) get the
first verdict again and ask for ever; the flows of `Samples` unroll a loop and cannot
show that. `agg` starts the relay for the allow-list with the first session that
needs it, not with the run. A driver's run skips the demands that its steps put to
the host.

A judge row that cannot be appended (`Unwritable`) has the same effect as the empty
gate: "resume will re-run it" is not what the resume does, it diverges or takes
the next row for the judge's. A failing merge commit is in `span_custody` (nothing
is lost by it); what the ledger then says is the first row above.

`CHECK_DEADLOCK FALSE` is in every configuration but `MCLaunch_launch` because these
systems may stop for good: the run has ended and the bound on starts is reached.

## 4. Fairness

Only what the program does by itself is fair. `Steering`: the loop's own steps
(the process runs, the clock moves); no worker has to end its session, no sender, no
operator and no ceiling has to do anything. That the watchdog or a signal ends a worker
is shown in `Worker`, for a registered one. `Worker`: the main thread, the
watchdog and the signal thread; the agent may go on for ever, fork, or hang.
`TimedCommand`: the readers, the deadline and the caller. `Workflow`: the driver's own
steps, the start of the run it asks for itself included; no human answers an approval or a
proposal, no driver goes back by itself, no operator starts anything and nothing crashes of
necessity. The other modules state safety
only.

## 5. Proofs

Every theorem is of its module's specification, for all values of the constants that satisfy
the module's own assumptions: any bounds, any set of faults, any programs, judges,
commands and questions. A column says what is assumed beyond that.

| module | theorem | property | assumes |
|---|---|---|---|
| `SpanGateProofs` | `TypeCorrect` | `TypeOK` | - |
| | `GradedWorkIsMerged` | `GradedIsMerged` | - |
| | `NothingElseIsLost` | `LossOnlyByVetoOrOverwrite` | - |
| | `BaseIsGraded` | `GateKnowsBase` | - |
| | `SpanTeardownIsSafe` | `SpanReachable` | - |
| | `LedgerIsHonest` | `LedgerIsOnBase` | merge commits do not fail |
| | `BarredWorkStaysOff` | `BarredStaysOff` | only checkouts and merges may be refused, workers make no new files |
| `SteeringProofs` | `TypeCorrect` | `TypeOK` | - |
| | `SendOrderKept` | `InSendOrder` | - |
| | `PurgeLeavesTheLate` | `OnlyTheLateAreStale` | - |
| `SessionProofs`, of `Worker` | `TypeCorrect` | `TypeOK` | - |
| | `SessionsLeaveNothing` | `NoStragglers` | - |
| | `BriefsTellOfTasks` | `TasksAreAnnounced` | saves of `spawns.json` do not overlap (`~Overlaps`) |
| of `Judging` | `SuccessRestsOnBase` | `SuccessIsGraded` | the sessions run on branches of their own (`branch`) |
| | `KeptMergesHoldTheRatchet` | `RatchetHoldsGround` | - |
| | `LandedGoalsStand` | `LandedNeverRegresses` | - |
| | `GroupsKeepGround` | `GroupKeepsGround` | - |
| | `EndingsEnd` | `NoSessionTooMany` | no ending names `any_judge_error` (`NamesNoErrors`) |
| `ResumeProofs` | `Shapely` | `Shape` | - |
| | `Typed`, `Ceiling` | `TypeOK`, `CeilingHolds` | - |
| | `DenseOrdinals` | `OrdinalsAreDense` | - |
| | `KeptGateResumed` | `ResumesAtTheKeptGate` | - |
| | `RatchetKept` | `RatchetHolds` | `gate_regressions` is on |
| | `VisitsWithinCap` | `VisitWithinCap` | - |
| `ProjectProofs` | `LedgerKeepsThePromise` | `AsksAreKept`: the ledger implements `AskBoard` | appends do not overlap (`~AppendsOverlap`) |
| | `AnswersAreToldOnce` | `ToldAtMostOnce` | the same, starts and ends do not overlap (`~StartsOverlap`), and the append that marks an answer told does not fail |
| `WorkflowProofs` | `TypeCorrect` | `TypeOK` | - |
| | `SignedStands` | `ApprovalStands` | steps of one name read the same files (`OneStepPerName`) |
| | `RefreshStands` | `RefreshIsCurrent` | the same |
| `MeasuringProofs`, of `Measuring` | `TypeCorrect` | `TypeOK` | - |
| | `ToldOfTheTree` | `VerdictIsOfTheTree` | - |
| | `OneKept` | `IncumbentsAreOneKept` | - |
| | `FaultsNeverHelp` | `FailureNeverHelps` | - |
| of `Accounting` | `AccountsReconciled` | `AccountsAgree` | - |
| | `LifetimeIsCounted` | `LifetimeCountsEverySession` | - |
| | `SpendingIsSaved` | `OnlyTheLastSessionIsLost` | - |
| `LaunchProofs`, of `Launch` | `SessionsStart` | `AcceptedSessionsStart` | the host has what no stage looks at (`TakenForGranted`) |
| | `GuardHolds` | `AcceptedGuardHolds` | - |
| | `EveryProcessIsConfined` | `ConfinedAsAsked` | - |
| of `Driver` | `ReplayIsReproduced` | `ReplayReproduces` | after a gate that failed, no judge is asked before the next step or gate (`AskedAfresh`) |
| | `ResumeRebuilds` | `ResumeRebuildsTheState` | the same |
| | `NothingIsRedone` | `NothingLandedIsRedone` | the same |

An assumption holds in the run that checks the property, except `RatchetKept`'s, which
is the setting the property is about: without it the code compares with no reference.
The rows of section 3 with `AppendsOverlap`, `Overlaps`, "merge_commit", "cut" or new
files show that the others are needed; with `StartsOverlap` TRUE two loops may compose
briefs of the same answers.
`OneStepPerName` says how a driver is written: a name is the key of the history file, and
two steps that share one and read different files answer for each other's results.
`branch` is `session_branch`: without it a session edits base and a discard
has nothing to go back to. An ending with `any_judge_error` may hold for the moment between
two verdicts. `TakenForGranted` is what the start believes unseen: the host has a shell, the relay comes
up, and an entry of the allow-list for a model's host leaves its port open. Every pair
of the launch run has it. `AskedAfresh` leaves out programs that stop making gates, and
is void where no staging fails; `MCDriver` evaluates it for every program of its run
(`StandingFlowsAskAfresh`), and the row with `RetriedFlows` shows that it is needed.

None of the properties is inductive; what each proof adds to them:

- `SpanGateProofs`: `GateInv` adds what each phase of the gate knows (before staging
  nothing is staged, at "gate" the candidate is the staged branch, at "record" the
  rows are tagged); `LedgerInv` and `RowsInv` carry that to the two ledgers across
  `Close` and `Record`; `SpanInv` says that the branches of a span form a chain whose
  last is the tip, and that outside a span the tip is base; `HeldInv` says why a branch may go:
  one is cut under a new number, and what the tip reaches is also reached by what is
  checked out or staged when `clear_span` deletes the tip with the rest; `BarredInv` follows
  barred work: while its session runs it is only in that session's branch or in
  the tree, after that only in parked and partial refs, and at a gate a candidate
  with barred work is a violation.
- `SteeringProofs`: a command is in one of five pieces of a pipeline: the directory,
  what a wait has put aside, the drained batch, what is pending, what was worked on.
  `Ordered` says that each piece is in the order of sending and each lies before the
  pieces behind it; draining, putting back and dropping move a beginning of one piece to
  the end of the next or take elements out, which the lemmas about increasing
  sequences cover. `Fresh` says whose commands the pieces hold after a purge: the run's, and
  the one that was being written then. That one is the running sender's until it is
  renamed, and as it stands once in the pipeline, `Ordered` makes it the only one.
- `SessionProofs`, `Worker`: `Swept` says when a sweep goes by the list of processes (only beside a
  registered task) and that without one nothing of the group is left after the session;
  `Told` that a task that is due is in the registry, and in the copy a scan is about
  to save, because no other save can come between.
- `SessionProofs`, `Judging`: `GradedOnBase` follows the last verdicts by phase: what they were
  given on is the staged tree, then base, and a discard puts back those of base.
  `LevelIsReferred` says that a ratchet's reference is the value of the last kept grading.
  `KeptIsClean` carries the assessment behind a kept merge to the step that writes its rows;
  `GroupsKeepGround` is then a count: a group that lost no more members than it gained
  has as many as before. `ResultIsCurrent` says that a session starts only after a look at
  the endings with the counters as they are. `any_judge_error` is the one name whose
  value moves in between, and `ErrorsUnseen` that a condition without it does not see that.
- `ResumeProofs`: four layers over the file. `Numbered`: in a readable ledger the row at i has
  ordinal i - 1, and the next one is the length, unless the last line will be spoiled by
  an append. `Paired`: a gate row stands behind the step row of its session.
  `LedgerAgrees`, `PlanAgrees`: the last kept row, and what a resume read from it, is the
  last merge, as long as no merge went without a row. `Ratcheted` and `Paced` then say
  what that row holds: the value on base, and no more completed sessions than dispatches.
  `Counted` is separate: it follows the session count through `state.json` and adds what
  a start that died left out of it (`forgotten`).
- `ProjectProofs`: `GuardInv` says of every two starts that they are `Apart`: a start on
  its way in is alone with loops that neither begin nor end, the pid it read is
  that loop's, and it claims only when there is none. `ToldInv` needs it.
- `ProjectProofs`, the questions: `LedgerInv` says that what a reader folds is what was appended, every
  question with its row and no answer without one. Each action then leaves the
  folded ledger as it is or makes it grow by one row of four forms, and each form
  is a step of the board; the refinement follows. `ToldInv` adds that what a brief owes
  is marked before the next brief is composed, which needs that there is one loop.
- `WorkflowProofs`: `Placed` says that at most one entry waits for the next commit, and only
  between steps; `Current` that what is written of a step, or waits to be once it
  replaces that, is of the result that was last judged, or of one whose entry a crash
  took (`judged.lost`); `AsSigned` the same of approvals. `Spending` bounds re-entries and
  repairs.
- `MeasuringProofs`, `Measuring`: `Keyed` says that what is cached under a key is of the measurement the
  key names, `Stored` that a report on disk is of the session whose directory it is in,
  `Decided` that refused sessions and the incumbents' are over, so that a session is not
  kept and refused at once. `FaultsNeverHelp` compares two selections: if the tool that
  fails is the one that was selected there is no value, else dropping it leaves the
  selected one where it was.
- `MeasuringProofs`, `Accounting`: the invariant is `AccountsInv`. `Reconciling` says that the
  counters in memory and each snapshot in `state.json` are one account, and that the ledger's
  rows sum to the counters. `Numbered`: the project's records sum to the sessions begun, and
  the running launch's own record to what it began since it was restored, so the lifetime
  count of the next brief has them all. `Dated`: each call belongs to a launch on record and is
  not of a later session than the running one. `Saved`: a snapshot covers the output of all
  calls but those of the last session of a launch that died, the running one counted as
  dead, and of what a start that died before its first publish took with it; memory covers
  its own last session too. The sums are recursive functions:
  `StepsSolved` gives such a function its values, and the lemmas on `Total` and `Merge` (a row
  more, a row grown, two parts) are what the actions need of them. Most actions are
  one of three shapes (`Idles`, `Works`, `Closes`), each shown once to keep the invariant.
- `LaunchProofs`, `Launch`: `StagesInv` says that what a stage found to be so of the config and the host
  stays so until something is lost, `WalkInv` that the walk stays within the sequence,
  `CostInv` that the spend is what was reported and what killed sessions did not report,
  and that the reported part is at most the ceiling where a session may start. `BridgeInv` adds that a network which is closed is
  closed to what the allow-list leaves out and open to each worker's model. Confinement
  is a statement about tables: in a list of mounts the last that covers a path decides, in
  bwrap's layers the last, in Seatbelt's rules the last that matches; the lemmas
  `WritesArePromised`, `ContextsStay`, `CredentialsStay` and `WorkGoesOn` go through the
  three mechanisms with them.
- `LaunchProofs`, `Driver`: `Moved` is the replay as a function, what the next call makes of the
  place in the program, the memoized verdicts, the counters and the trail, given the
  rows. `EveryStep` is the main lemma: whatever a running process does, live or replayed,
  is a `Moved` of the ledger as the step left it, or leaves the place alone. `Followed`: so the
  rows lead from the start to where the process stands, by a chain of such moves.
  `Retraced` keeps the chain of the last kept gate through crash and truncation, because rows that are
  only appended to move a call as before (`SameMove`); a resumed process stands on that
  chain (`Led`) until it has passed its end (`Beyond`), and on the chain no call is live
  (`NothingIsLive`). The gate's row puts back the counters, and the gate itself empties the span.

Each invariant is shown to hold initially and to be kept by every action, one
step per group of actions. TLC has checked each of them as an invariant of its
module's run, but for `Followed` and `Retraced`, which quantify over chains: of these it
checks the consequences, the properties themselves.

Induction over data is not open to these provers through the library's induction
theorems, which take an operator. Where a sequence or a set of tools needs it, the
proofs take the least counterexample of a well-founded order instead (`Least` in
`SteeringProofs`, `MeasuringProofs` and `LaunchProofs`; `ByPlaces`, for the sums of
`Accounting`).

Model-checked only:

- `SignalEndsRun`, `SessionReturns`, `SignalEndsSession`, `RunsEnd`, `CallReturns`:
  liveness under fairness is outside what TLAPS proves.
- `OneLoop`, `ReportIsTheRuns`, `WaitsForAnAnswerableAsk`: they hold while starts, ends and
  appends do not overlap, which nothing in the code sees to; the run shows what is kept
  beside that, the rows of section 3 what is not.
- `ProtectedPaths`: its walks over directory trees and its matcher are RECURSIVE operators,
  which TLAPS's SMT backend does not take: `WalkMissesNothing` would be an induction over a
  tree and a pattern, and the two properties of the bracket rest on it. A theorem about them
  would also have to leave links to twins out (the row of section 3 with `TwinTrees`).
- `TimedCommand`: `TimeoutKillsGroup` is inductive as it stands (only what is left of a group
  forks), and what matters of the module is `CallReturns`.

## 6. Plan

Done: all modules of section 2 and the theorems of section 5. Left, in this order:

1. Proofs: the latch and the staged span of `Driver`.
2. `Notify` and `Memory`: one page per stuck episode, the bound on `LOG.md` over
   rollbacks.
3. The threads of the allow-list's proxy, and the background watchers of the hooks.
4. An abstract walk (every step once, in order, each judged before the next
   lands) that `Resume` without lost rows implements.

## 7. Not modelled

`PROJECT.json` has a row per part.

- Institutional memory: one writer that folds and trims `LOG.md` between sessions;
  what it does is text handling.
- Stuck notification: decided from one flag after each session; the condition it
  evaluates is in `Conditions`.
- Hooks: shell commands run through the protocol of `TimedCommand`.
- User interfaces: views of `state.json`; what they send is a command of `Steering` or an
  answer of `Asks`.
- Project tools: scaffolding, diagnostics, helpers, without a protocol.
- Within modelled parts: the command lines of the agent programs and the lexers of their
  lines, the text of sandbox profiles, parsing of `agg.yaml`, prompts and
  briefs, JSON of reports. They have no protocol of their own; what they hand to
  the loop is an input of the modules.
