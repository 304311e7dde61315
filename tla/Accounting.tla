----------------------------- MODULE Accounting -----------------------------
(* What a run counts and publishes: sessions, spending by agent and by line, *)
(* the clock, the live snapshot and its activity tail, the project's         *)
(* history and the report; across crashes and resumes.  A worker's output    *)
(* is read by a thread of its own, which may outlive the session.            *)
EXTENDS Usage

CONSTANTS
    Worker,       \* bound: what worker sessions print, how they end, and whether they
                  \* continue an agent's conversation
    Ruler,        \* bound: the ruler's calls at one judging, sequences of usages
    RulerAgent,   \* cfg.judge.agent
    Budget,       \* over_budget's limit on output tokens
    DudLimit,     \* LIMIT in worker_is_broken
    Cap,          \* RECENT_CAP
    Buffer,       \* how long after its start a rate-limit wait ends by itself
    SessionCeiling, \* max_sessions of the run
    MaxLaunches,  \* bound: launches of the program
    MaxLate,      \* bound: lines a reader has left to read when its session ends
    MaxNow        \* bound: the time

ASSUME WorkerAssumption ==
    \A w \in Worker : w.agent \in Agents /\ w.resumed \in BOOLEAN /\ w.lines \in Seq(OutputLines)
ASSUME RulerAssumption == RulerAgent \in Agents /\ Ruler \subseteq Seq(Usages)
ASSUME AccountsBounds ==
    {Budget, DudLimit, Cap, Buffer, SessionCeiling, MaxLaunches, MaxLate, MaxNow} \subseteq Nat /\ Cap > 0

VARIABLES
    phase,     \* where the loop is; "down" when no process runs
    st,        \* the counters of LoopState
    ledger,    \* usage::Ledger of this process
    run,       \* the worker of the session: its output left to read, its Shared
    late,      \* the lines a reader that outlived its session still has to read
    clock,     \* the run's Clock, in memory
    wait,      \* when the rate-limit wait began
    live,      \* LiveState: the loop's last snapshot and the activity tail
    files,     \* state.json, clock.json, project.json and report.json
    now,
    \* history
    calls,     \* every call charged in this run
    pushed,    \* every event of this process
    announced, \* sessions begun in the project
    worked,    \* the time the run was at work, by its process
    forgotten  \* output tokens of this run whose count a death in boot took

accounts == <<phase, st, ledger, run, late, clock, wait, live, files, now, calls, pushed, announced, worked, forgotten>>
history == <<calls, pushed, announced, worked, forgotten>>

------------------------------------------------------------------------------
(* The counters.                                                             *)

NoAgents == [a \in {} |-> [tokens |-> 0, cost |-> {}]]
ZeroCounters ==
    [session |-> 0, tokens |-> 0, cost |-> 0, per_agent |-> NoAgents,
     inherited |-> <<0, 0>>, lifetime_base |-> 0, streak |-> 0, waiting |-> FALSE]

\* an agent's own counters
OfAgent(per_agent, agent) ==
    IF agent \in DOMAIN per_agent THEN per_agent[agent] ELSE [tokens |-> 0, cost |-> {}]

\* charge: an agent's own tokens, and its price where it names one
Charge(per_agent, agent, u) ==
    LET before == OfAgent(per_agent, agent)
        after == [tokens |-> before.tokens + OutputOf(u), cost |-> AddOpt(before.cost, u.cost)]
    IN  [a \in DOMAIN per_agent \cup {agent} |-> IF a = agent THEN after ELSE per_agent[a]]

\* charge_usage, of one call: the counters and the record
ChargeUsage(books, role, agent, u) ==
    [counters |-> [books.counters EXCEPT !.tokens = @ + OutputOf(u), !.cost = @ + Number(u.cost),
                                         !.per_agent = Charge(@, agent, u)],
     ledger |-> Record(books.ledger, books.counters.session, role, agent, u)]

\* of several calls, one after the other
Charged(books, role, agent, usages) ==
    LET upto[n \in 0 .. Len(usages)] ==
            IF n = 0 THEN books ELSE ChargeUsage(upto[n - 1], role, agent, usages[n])
    IN  upto[Len(usages)]

Books(s) == [counters |-> s, ledger |-> ledger]

\* one role's calls, in every place that counts them
Called(role, agent, usages) ==
    calls \o [i \in DOMAIN usages |->
                [launch |-> Len(files.project), session |-> st.session, role |-> role, usage |-> usages[i]]]

Charges(s, role, agent, usages) ==
    /\ LET books == Charged(Books(s), role, agent, usages)
       IN  st' = books.counters /\ ledger' = books.ledger
    /\ calls' = Called(role, agent, usages)

------------------------------------------------------------------------------
(* The clock: end to end, less what was waited.                              *)

NewClock == [start |-> now, limited |-> 0]
Wall(c) == now - c.start
Work(c) == IF Wall(c) > c.limited THEN Wall(c) - c.limited ELSE 0

------------------------------------------------------------------------------
(* Publishing: the loop's snapshot replaces all but the activity tail, which *)
(* is the reader's; both sides write the whole file.                         *)

Lifetime(s) == s.lifetime_base + s.session
Snapshot(s, l, c) ==
    [session |-> s.session, lifetime |-> Lifetime(s), tokens |-> s.tokens, cost |-> s.cost,
     per_agent |-> s.per_agent, waiting |-> s.waiting,
     time |-> [wall |-> Wall(c), work |-> Work(c)], clock_started_at |-> c.start,
     usage |-> Summary(l).total]

\* mutant: the snapshot replaces the tail too
PublishedWhole(board, s, l, c) == [shot |-> Snapshot(s, l, c), recent |-> <<>>]

Published(board, s, l, c) == [board EXCEPT !.shot = Snapshot(s, l, c)]

Publish ==
    /\ live' = Published(live, st', ledger', clock')
    /\ files' = [files EXCEPT !.state = {live'.shot}]

\* push_event, under the snapshot's lock
PushEvent(tail, event) ==
    LET longer == Append(tail, event)
    IN  IF Len(longer) > Cap THEN SubSeq(longer, Len(longer) - Cap + 1, Len(longer)) ELSE longer

Pushes(events) ==
    /\ live' = [live EXCEPT !.recent = FoldSet(LAMBDA e, tail : PushEvent(tail, e), @, events)]
    /\ pushed' = FoldSet(LAMBDA e, seen : Append(seen, e), pushed, events)

------------------------------------------------------------------------------
(* The project's history: a record by launch.                                *)

Less(a, b) == IF a > b THEN a - b ELSE 0

RunRecord == [sessions |-> 0, tokens |-> 0, usage |-> NoTotals, ended |-> FALSE, reason |-> "crashed"]

\* RunLedger::update and set_usage: what this launch added
Updated(runs, s, l) ==
    [runs EXCEPT ![Len(runs)].sessions = Less(s.session, s.inherited[1]),
                 ![Len(runs)].tokens = Less(s.tokens, s.inherited[2]),
                 ![Len(runs)].usage = Summary(l).total]

\* RunLedger::finish
Finished(runs, reason) == [runs EXCEPT ![Len(runs)].ended = TRUE, ![Len(runs)].reason = reason]

\* drop of a ledger nobody finished: an end time, and the pessimistic reason
Dropped(runs) == [runs EXCEPT ![Len(runs)].ended = TRUE]

Total(numbers) ==
    LET upto[n \in 0 .. Len(numbers)] == IF n = 0 THEN 0 ELSE upto[n - 1] + numbers[n]
    IN  upto[Len(numbers)]

LifetimeSessions(runs) == Total([l \in DOMAIN runs |-> runs[l].sessions])

\* report::from_state; the process is gone after it
Report(s, l, c) ==
    [sessions |-> s.session, usage |-> Summary(l).total, tokens |-> s.tokens,
     time |-> [wall |-> Wall(c), work |-> Work(c)], waiting |-> s.waiting]

NoRun == [agent |-> "none", printed |-> <<>>, lines |-> <<>>, shared |-> FreshShared, exit |-> {}, resumed |-> FALSE]
Gone == /\ run' = NoRun /\ late' = <<>> /\ wait' = 0 /\ ledger' = NoLedger
        /\ pushed' = <<>> /\ st' = ZeroCounters
        /\ live' = [shot |-> {}, recent |-> <<>>]

Over(s, l, runs) ==
    /\ phase' = "down" /\ Gone /\ clock' = [start |-> 0, limited |-> 0]
    /\ files' = [files EXCEPT !.project = runs, !.state = {Snapshot(s, l, clock)},
                            !.report = {Report(s, l, clock)}]

Ends(s, l, reason) == Over(s, l, Finished(Updated(files.project, s, l), reason))

------------------------------------------------------------------------------
(* Launches.                                                                 *)

AccountsInit ==
    /\ phase = "down" /\ st = ZeroCounters /\ ledger = NoLedger /\ run = NoRun /\ late = <<>>
    /\ clock = [start |-> 0, limited |-> 0] /\ wait = 0 /\ now = 0
    /\ live = [shot |-> {}, recent |-> <<>>]
    /\ files = [state |-> {}, clock |-> {}, project |-> <<>>, report |-> {}]
    /\ calls = <<>> /\ pushed = <<>> /\ announced = 0 /\ worked = 0
    /\ forgotten = 0

\* the first snapshot is published before the counters are restored
Begins(s, c) ==
    /\ phase = "down" /\ Len(files.project) < MaxLaunches
    /\ phase' = "boot" /\ st' = s /\ clock' = c
    /\ live' = [shot |-> Snapshot(ZeroCounters, NoLedger, c), recent |-> <<>>]
    /\ files' = [files EXCEPT !.project = Append(@, RunRecord), !.clock = {c}, !.report = {},
                            !.state = {live'.shot}]
    /\ UNCHANGED <<ledger, run, late, wait, now, pushed, announced>>

StartFresh ==
    /\ Begins([ZeroCounters EXCEPT !.lifetime_base = LifetimeSessions(files.project)], NewClock)
    /\ calls' = <<>> /\ worked' = 0 /\ forgotten' = 0

\* mutants: the session numbers only; all but the agents' counters; a lifetime
\* that counts the resumed run's sessions twice
RestoredNumbers(runs, shot) ==
    [ZeroCounters EXCEPT !.session = shot.session, !.inherited = <<shot.session, 0>>,
                         !.lifetime_base = Less(LifetimeSessions(runs), shot.session)]
RestoredTotals(runs, shot) ==
    [RestoredNumbers(runs, shot) EXCEPT !.tokens = shot.tokens, !.cost = shot.cost,
                                        !.inherited = <<shot.session, shot.tokens>>]
RestoredTwice(runs, shot) ==
    [RestoredTotals(runs, shot) EXCEPT !.per_agent = shot.per_agent, !.lifetime_base = LifetimeSessions(runs)]

\* the counters the run left in state.json, the rest from the history
Restored(runs, shot) ==
    [ZeroCounters EXCEPT !.session = shot.session, !.tokens = shot.tokens, !.cost = shot.cost,
                         !.per_agent = shot.per_agent, !.inherited = <<shot.session, shot.tokens>>,
                         !.lifetime_base = Less(LifetimeSessions(runs), shot.session)]

StartResume ==
    /\ files.project # <<>> /\ files.project[Len(files.project)].reason # "goals-met"
    /\ \E shot \in files.state, c \in files.clock : Begins(Restored(files.project, shot), c)
    /\ UNCHANGED <<calls, worked, forgotten>>

BaselineBegins ==
    /\ phase = "boot" /\ phase' = "baseline"
    /\ UNCHANGED <<st, ledger, clock>> /\ Publish
    /\ UNCHANGED <<run, late, wait, now, history>>

\* the judges run once on the untouched tree
Baseline ==
    /\ phase = "baseline" /\ phase' = "between"
    /\ \E usages \in Ruler : Charges(st, "ruler", RulerAgent, usages)
    /\ clock' = clock /\ Publish
    /\ UNCHANGED <<run, late, wait, now, pushed, announced, worked, forgotten>>

\* or they end the run at once: nothing is left in its record
BaselineEnds ==
    /\ phase = "baseline"
    /\ \E usages \in Ruler :
          /\ LET books == Charged(Books(st), "ruler", RulerAgent, usages)
             IN  Over(books.counters, books.ledger, Finished(files.project, "already-satisfied"))
          /\ calls' = Called("ruler", RulerAgent, usages)
    /\ UNCHANGED <<now, announced, worked, forgotten>>

------------------------------------------------------------------------------
(* A session.                                                                *)

OverMaxSessions ==
    /\ phase = "between" /\ st.session >= SessionCeiling
    /\ Ends(st, ledger, "max-sessions")
    /\ UNCHANGED <<now, calls, announced, worked, forgotten>>

\* announce: the session counter and the history, before the next publish
Announce ==
    /\ phase = "between" /\ st.session < SessionCeiling
    /\ phase' = "announced" /\ announced' = announced + 1
    /\ st' = [st EXCEPT !.session = @ + 1]
    /\ files' = [files EXCEPT !.project = Updated(@, st', ledger)]
    /\ UNCHANGED <<ledger, run, late, clock, wait, live, now, calls, pushed, worked, forgotten>>

Launched(w) ==
    [agent |-> w.agent, printed |-> w.lines, lines |-> w.lines, shared |-> FreshShared,
     exit |-> w.exit, resumed |-> w.resumed]

LaunchWorker ==
    /\ phase = "announced" /\ phase' = "running"
    /\ \E w \in Worker : run' = Launched(w)
    /\ UNCHANGED <<st, ledger, clock>> /\ Publish
    /\ UNCHANGED <<late, wait, now, history>>

\* the reader thread, on the session's next line
ReaderReads ==
    /\ phase = "running" /\ run.lines # <<>>
    /\ run' = [run EXCEPT !.lines = Tail(@), !.shared = ReadLine(@, run.agent, run.lines[1])]
    /\ Pushes(ParseEvent(run.agent, run.lines[1]))
    /\ UNCHANGED <<phase, st, ledger, late, clock, wait, files, now, calls, announced, worked, forgotten>>

\* a reader nobody waits for any more: its events show, its usage is lost
LateReaderReads ==
    /\ late # <<>> /\ late' = Tail(late)
    /\ Pushes(ParseEvent(late[1].agent, late[1].line))
    /\ UNCHANGED <<phase, st, ledger, run, clock, wait, files, now, calls, announced, worked, forgotten>>

\* the worker is gone; the reader has ended or ten seconds have passed
Collects ==
    /\ phase = "running"
    /\ run.lines = <<>> \/ (late = <<>> /\ Len(run.lines) <= MaxLate)
    /\ late' = IF run.lines = <<>> THEN late
               ELSE [i \in DOMAIN run.lines |-> [agent |-> run.agent, line |-> run.lines[i]]]

Collected == Outcome(run.shared, run.exit, run.exit = {})

\* a conversation that could not be resumed is begun afresh, its outcome dropped
RelaunchFresh ==
    /\ Collects /\ run.resumed /\ IsDud(Collected)
    /\ \E w \in Worker : ~w.resumed /\ run' = Launched(w)
    /\ UNCHANGED <<phase, st, ledger, clock, wait, live, files, now, history>>

Streak(s, outcome) == IF IsDud(outcome) THEN s.streak + 1 ELSE 0

WorkerExits ==
    /\ Collects /\ ~(run.resumed /\ IsDud(Collected))
    /\ Charges([st EXCEPT !.streak = Streak(st, Collected)], "worker", run.agent, <<Collected.usage>>)
    /\ phase' = IF Collected.limited THEN "limited" ELSE "ran"
    /\ run' = NoRun
    /\ UNCHANGED <<clock, wait, live, files, now, pushed, announced, worked, forgotten>>

WorkerIsBroken ==
    /\ phase = "ran" /\ st.streak >= DudLimit
    /\ Over(st, ledger, Dropped(files.project))
    /\ UNCHANGED <<now, calls, announced, worked, forgotten>>

Verify ==
    /\ phase = "ran" /\ st.streak < DudLimit /\ phase' = "gate"
    /\ \E usages \in Ruler : Charges(st, "ruler", RulerAgent, usages)
    /\ clock' = clock /\ Publish
    /\ UNCHANGED <<run, late, wait, now, pushed, announced, worked, forgotten>>

\* the conditions at the gate: done beats aborted
GoalsMet ==
    /\ phase = "gate"
    /\ Ends(st, ledger, "goals-met")
    /\ UNCHANGED <<now, calls, announced, worked, forgotten>>

OverBudget ==
    /\ phase = "gate" /\ st.tokens > Budget
    /\ Ends(st, ledger, "abort")
    /\ UNCHANGED <<now, calls, announced, worked, forgotten>>

NextSession ==
    /\ phase = "gate" /\ st.tokens <= Budget /\ phase' = "between"
    /\ UNCHANGED <<st, ledger, run, late, clock, wait, live, files, now, history>>

------------------------------------------------------------------------------
(* A rate limit: the wait is announced, waited out and added to the clock.   *)

RateLimited ==
    /\ phase = "limited" /\ phase' = "waiting" /\ wait' = now
    /\ st' = [st EXCEPT !.waiting = TRUE]
    /\ UNCHANGED <<ledger, clock>> /\ Publish
    /\ UNCHANGED <<run, late, now, history>>

\* mutant: the wait that was planned
AddPlannedWait(c, since) == [c EXCEPT !.limited = @ + Buffer]

AddRateLimitWait(c, since) == [c EXCEPT !.limited = @ + (now - since)]

\* the time is up or the operator woke the loop
WaitEnds ==
    /\ phase = "waiting" /\ phase' = "between" /\ wait' = 0
    /\ clock' = AddRateLimitWait(clock, wait)
    /\ st' = [st EXCEPT !.waiting = FALSE] /\ ledger' = ledger
    /\ live' = Published(live, st', ledger, clock')
    /\ files' = [files EXCEPT !.clock = {clock'}, !.state = {live'.shot}]
    /\ UNCHANGED <<run, late, now, history>>

\* a stop, an interrupt or a ceiling: the run ends, still waiting in its report
WaitStopped ==
    /\ phase = "waiting" /\ phase' = "down" /\ Gone /\ clock' = [start |-> 0, limited |-> 0]
    /\ LET c == AddRateLimitWait(clock, wait)
       IN  files' = [files EXCEPT !.clock = {c}, !.state = {Snapshot(st, ledger, c)},
                                !.project = Finished(Updated(@, st, ledger), "stopped"),
                                !.report = {Report(st, ledger, c)}]
    /\ UNCHANGED <<now, calls, announced, worked, forgotten>>

------------------------------------------------------------------------------
(* The world.                                                                *)

\* a stop or an interrupt, between sessions or with the worker just gone
Interrupted ==
    /\ phase \in {"between", "ran", "limited"}
    /\ Ends(st, ledger, "interrupted")
    /\ UNCHANGED <<now, calls, announced, worked, forgotten>>

\* a kill leaves the files as they are: the zeros of the first snapshot too
Crash ==
    /\ phase # "down"
    /\ forgotten' = IF phase = "boot" THEN forgotten + st.tokens ELSE forgotten
    /\ phase' = "down" /\ Gone /\ clock' = [start |-> 0, limited |-> 0]
    /\ UNCHANGED <<files, now, calls, announced, worked>>

Tick ==
    /\ now < MaxNow /\ phase \in {"down", "running", "waiting"}
    /\ phase = "down" => files.project # <<>>
    /\ phase = "waiting" => now - wait < Buffer
    /\ now' = now + 1
    /\ worked' = IF phase = "running" THEN worked + 1 ELSE worked
    /\ UNCHANGED <<phase, st, ledger, run, late, clock, wait, live, files, calls, pushed, announced,
                   forgotten>>

AccountsNext ==
    \/ StartFresh \/ StartResume \/ BaselineBegins \/ Baseline \/ BaselineEnds
    \/ OverMaxSessions \/ Announce \/ LaunchWorker
    \/ ReaderReads \/ LateReaderReads \/ RelaunchFresh \/ WorkerExits
    \/ WorkerIsBroken \/ Verify \/ GoalsMet \/ OverBudget \/ NextSession
    \/ RateLimited \/ WaitEnds \/ WaitStopped \/ Interrupted \/ Crash \/ Tick

AccountsSpec == AccountsInit /\ [][AccountsNext]_accounts

------------------------------------------------------------------------------
(* What holds.                                                               *)

Up == phase # "down"
OfThisLaunch == SelectSeq(calls, LAMBDA c : c.launch = Len(files.project))

\* The three places that count spending agree with one another at any time, in
\* a resumed run as in a fresh one: the ceilings' counters, the counters by
\* agent, and what the run inherited plus the ledger's worker and ruler lines.
AgentsAgree(s) ==
    LET Of(agent) == OfAgent(s.per_agent, agent)
    IN  /\ DOMAIN s.per_agent \subseteq Agents
        /\ s.tokens = Of("claude").tokens + Of("codex").tokens + Of("copilot").tokens
        /\ s.cost = Number(Of("claude").cost) + Number(Of("codex").cost) + Number(Of("copilot").cost)
LedgerAgrees(s, l) ==
    /\ s.tokens = s.inherited[2] + Number(Summary(l).total.tokens["output"])
    /\ Summary(l).total = Merge(Summary(l).worker, Summary(l).ruler)
AccountsAgree == Up => AgentsAgree(st) /\ LedgerAgrees(st, ledger)

\* Each sum of the usage record says what its calls reported, however they were
\* filed: a kind of token is null only when no call reported it, a price is
\* "reported" when every call had one, "partial" when some had.
Tells(totals, made) ==
    LET Of(k) == {i \in DOMAIN made : made[i].usage.tokens[k] # {}}
        priced == {i \in DOMAIN made : made[i].usage.cost # {}}
    IN  /\ \A k \in Kinds : totals.tokens[k] =
              IF Of(k) = {} THEN {}
              ELSE {FoldSet(LAMBDA i, t : t + Number(made[i].usage.tokens[k]), 0, Of(k))}
        /\ totals.source = IF priced = {} THEN "unknown"
                           ELSE IF priced = DOMAIN made THEN "reported" ELSE "partial"
        /\ totals.cost = {} <=> priced = {}

UsageIsWhatWasReported ==
    Up => \A role \in Roles :
              Tells(Summary(ledger)[role], SelectSeq(OfThisLaunch, LAMBDA c : c.role = role))

\* The lifetime number of a session counts every session ever begun in the
\* project, those of crashed and resumed launches included, each once.
LifetimeCountsEverySession == Up => Lifetime(st) = announced

\* The time counted as work is never less than the time the run was at work:
\* a wait is taken off once, for as long as it was.
WorkIsNeverUndercounted == Up => Work(clock) >= worked

\* A launch that dies takes with it no more spending than its last session's, and
\* everything charged before that is in the counters a resume starts from, unless
\* a resume died before it had published the counters it restored: those are gone.
OfLastSession(made, c) ==
    \A i \in DOMAIN made : made[i].launch = c.launch => made[i].session <= c.session
Lost(made, runs, running, c) == c.launch # running /\ ~runs[c.launch].ended /\ OfLastSession(made, c)

OnlyTheLastSessionIsLost ==
    Up => LET lost == {i \in DOMAIN calls : Lost(calls, files.project, Len(files.project), calls[i])}
          IN  Total([i \in DOMAIN calls |-> OutputOf(calls[i].usage)])
                <= st.tokens + forgotten + Total([i \in DOMAIN calls |-> IF i \in lost THEN OutputOf(calls[i].usage) ELSE 0])

\* The activity tail is the last events any reader pushed, in order: the loop's
\* own snapshots, taken while a reader still runs, lose none and add none.
TailIsKept ==
    Up => live.recent = SubSeq(pushed, Less(Len(pushed), Cap) + 1, Len(pushed))

\* The reader of a session and the tally of a one-shot are written apart and
\* read the same usage from the same output.
OneShotTalliesAlike ==
    phase = "running" /\ run.lines = <<>> => run.shared.usage = TallyOneShot(run.agent, run.printed)

------------------------------------------------------------------------------
(* What the documents say and the code does not do.                          *)

\* docs/CONFIG.md: a report's usage is "the run's totals", and a resumed run is
\* the same run.
ReportUsageIsTheRuns ==
    \A r \in files.report : Number(r.usage.tokens["output"]) = r.tokens

\* docs/CONFIG.md: the live status's time is "as in the report".
LiveTime(shot) ==
    LET wall == now - shot.clock_started_at IN [wall |-> wall, work |-> wall]
StatusTimeIsTheReports ==
    phase = "between" => \A shot \in files.state : LiveTime(shot) = [wall |-> Wall(clock), work |-> Work(clock)]

\* "That means the agent CLI rejected the invocation itself; it never reached
\* the model."
BrokenNeverReachedTheModel ==
    phase = "ran" /\ st.streak >= DudLimit => \A i \in DOMAIN calls : calls[i].role = "worker" => calls[i].usage.model = {}
=============================================================================
