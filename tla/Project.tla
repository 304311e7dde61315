------------------------------ MODULE Project ------------------------------
(* The project's directory and everybody who works in it: starts of `agg     *)
(* run` (in the foreground, detached, or by a Rust driver), their guard in   *)
(* run.pid, the report they leave, the questions they put and the operators  *)
(* and readers beside them.  A start may be killed anywhere.                 *)
EXTENDS Asks

CONSTANTS
    Kinds,         \* how each run may be started
    StartsOverlap, \* starts, ends and readers of run.pid may fall into another start's way in or out
    ReportFaults,  \* the report may fail to be written
    MaxKills       \* bound: processes killed

ASSUME KindsAssumption == \A r \in Runs : Kinds[r] \subseteq {"foreground", "detached", "driver"}
ASSUME ProjectAssumption == {StartsOverlap, ReportFaults} \subseteq BOOLEAN /\ MaxKills \in Nat

VARIABLES
    pidfile,   \* agg/private/run.pid
    report,    \* agg/private/report.json
    snapshot,  \* state.json: whose it is and whether it says finished
    looking,   \* the dead pid a reader (`agg send`, serve) has read and will clean up
    pc, kind,
    seen,      \* the pid a start has read
    parent,    \* starts whose detaching parent has not written their pid yet
    mayWrite,  \* main.rs: the report file is this start's to write
    result,    \* how the run went: "done" or "error"
    waits,     \* the question a driver waits for
    handling,  \* the request file whose row has just been appended
    brief,     \* the answers in the brief of the next session
    unmarked,  \* those of them that are not marked delivered yet
    told,      \* how many sessions were told each answer
    written,   \* the starts that wrote their own report (RunHandle::written, LAST)
    kills

guardVars == <<pidfile, looking, seen, parent>>
endVars == <<report, mayWrite, result, written>>
talkVars == <<waits, handling, brief, unmarked, told>>
vars == <<askVars, guardVars, endVars, talkVars, snapshot, pc, kind, kills>>

NoReport == [run |-> NoRun, outcome |-> "none"]
ReportOf(r, outcome) == [run |-> r, outcome |-> outcome]

Starting == {"detaching", "spawned", "checking", "preparing", "guarding", "claiming",
              "beginning", "withdrawing", "booting"}
Working == {"boundary", "promoted", "asking", "waiting", "marking", "briefed", "session"}
Ending == {"reporting", "falling back", "clearing", "concluding", "amending"}

Alive(r) == r # NoRun /\ pc[r] \in Starting \cup Working \cup Ending
\* between the guard and the end of the guard's scope
Holding == {"beginning", "withdrawing", "booting"} \cup Working \cup {"reporting", "falling back", "clearing"}

Calm == \A r \in Runs : pc[r] \notin Starting \cup Ending /\ parent = {}
MayLeave(r) == StartsOverlap \/ \A other \in Runs \ {r} : pc[other] \notin Starting
MayLook == StartsOverlap \/ (Calm /\ looking = NoRun)

Init ==
    /\ AskInit
    /\ pidfile = NoRun /\ report = NoReport /\ looking = NoRun /\ parent = {} /\ kills = 0
    /\ snapshot = [run |-> NoRun, finished |-> FALSE]
    /\ pc = [r \in Runs |-> "off"] /\ kind \in {k \in [Runs -> UNION Range(Kinds)] : \A r \in Runs : k[r] \in Kinds[r]}
    /\ seen = [r \in Runs |-> NoRun] /\ mayWrite = [r \in Runs |-> FALSE]
    /\ result = [r \in Runs |-> "none"] /\ waits = [r \in Runs |-> 0]
    /\ handling = [r \in Runs |-> 0]
    /\ brief = [r \in Runs |-> {}] /\ unmarked = [r \in Runs |-> {}] /\ written = {}
    /\ told = [id \in Ids |-> 0]

\* the process is gone, and what it knew
Leaves(r, to) ==
    /\ pc' = [pc EXCEPT ![r] = to]
    /\ mayWrite' = [mayWrite EXCEPT ![r] = FALSE]
    /\ result' = [result EXCEPT ![r] = "none"] /\ written' = written \ {r}
Goes(r, to) == pc' = [pc EXCEPT ![r] = to]
At(r, from) == pc[r] = from /\ Idle(r)

------------------------------------------------------------------------------
(* os/detach.rs: live_pid reads the file, asks whether that process lives    *)
(* and removes the file of a dead one.                                       *)

Reads(r) == seen' = [seen EXCEPT ![r] = pidfile]
Blocked(r) == Alive(seen[r]) /\ seen[r] # r
Forgets(r) == seen' = [seen EXCEPT ![r] = NoRun]
RemovesAny(r) == pidfile' = NoRun
CleansUp(r) == pidfile' = IF Alive(seen[r]) \/ seen[r] = NoRun THEN pidfile ELSE NoRun

Launch(r) ==
    /\ pc[r] = "off" /\ MayLook
    /\ Reads(r)
    /\ Goes(r, CASE kind[r] = "foreground" -> "checking"
                 [] kind[r] = "detached" -> "detaching"
                 [] kind[r] = "driver" -> "guarding")
    /\ UNCHANGED <<askVars, pidfile, looking, parent, endVars, talkVars, snapshot, kind, kills>>

\* spawn_detached: the parent looks, spawns and then writes its child's pid
Detach(r) ==
    /\ At(r, "detaching")
    /\ CleansUp(r) /\ Forgets(r)
    /\ Goes(r, IF Blocked(r) THEN "over" ELSE "spawned")
    /\ parent' = IF Blocked(r) THEN parent ELSE parent \cup {r}
    /\ UNCHANGED <<askVars, looking, endVars, talkVars, snapshot, kind, kills>>

ParentWrites(r) ==
    /\ r \in parent
    /\ pidfile' = r /\ parent' = parent \ {r}
    /\ UNCHANGED <<askVars, looking, seen, endVars, talkVars, snapshot, pc, kind, kills>>

ChildLooks(r) ==
    /\ At(r, "spawned")
    /\ Reads(r) /\ Goes(r, "checking")
    /\ UNCHANGED <<askVars, pidfile, looking, parent, endVars, talkVars, snapshot, kind, kills>>

\* main.rs, run_reported: whose report.json is, decided once and used at the end
Check(r) ==
    /\ At(r, "checking")
    /\ CleansUp(r) /\ Forgets(r)
    /\ mayWrite' = [mayWrite EXCEPT ![r] = ~Blocked(r)]
    /\ report' = IF Blocked(r) THEN report ELSE NoReport
    /\ Goes(r, "preparing")
    /\ UNCHANGED <<askVars, looking, parent, result, written, talkVars, snapshot, kind, kills>>

Prepared(r) ==
    /\ At(r, "preparing")
    /\ Reads(r) /\ Goes(r, "guarding")
    /\ UNCHANGED <<askVars, pidfile, looking, parent, endVars, talkVars, snapshot, kind, kills>>

Refused(r, to) ==
    /\ result' = [result EXCEPT ![r] = "error"]
    /\ Goes(r, to)

\* a config that does not parse, an agent that is not on PATH
PrepareFails(r) ==
    /\ At(r, "preparing")
    /\ Refused(r, "concluding")
    /\ UNCHANGED <<askVars, guardVars, report, mayWrite, written, talkVars, snapshot, kind, kills>>

\* run_with, Agg::boot: the double-run guard
Turned(r) == IF kind[r] = "driver" THEN "over" ELSE "concluding"
Guard(r) ==
    /\ At(r, "guarding")
    /\ CleansUp(r) /\ Forgets(r)
    /\ IF Blocked(r) THEN Refused(r, Turned(r)) ELSE Goes(r, "claiming") /\ UNCHANGED result
    /\ UNCHANGED <<askVars, looking, parent, report, mayWrite, written, talkVars, snapshot,
                   kind, kills>>

\* write_run_pid
Claim(r) ==
    /\ At(r, "claiming")
    /\ pidfile' = r /\ Goes(r, "beginning")
    /\ UNCHANGED <<askVars, looking, seen, parent, endVars, talkVars, snapshot, kind, kills>>

\* `agg send`, serve's health check: live_pid as well
ReaderLooks ==
    /\ looking = NoRun /\ MayLook
    /\ pidfile # NoRun /\ ~Alive(pidfile)
    /\ looking' = pidfile
    /\ UNCHANGED <<askVars, pidfile, seen, parent, endVars, talkVars, snapshot, pc, kind, kills>>

ReaderCleans ==
    /\ looking # NoRun
    /\ pidfile' = NoRun /\ looking' = NoRun
    /\ UNCHANGED <<askVars, seen, parent, endVars, talkVars, snapshot, pc, kind, kills>>

------------------------------------------------------------------------------
(* report/file.rs, begin_as.                                                 *)

Begin(r) ==
    /\ At(r, "beginning")
    /\ report' = NoReport /\ Goes(r, "withdrawing")
    /\ UNCHANGED <<askVars, guardVars, mayWrite, result, written, talkVars, snapshot,
                   kind, kills>>

NothingStale == {}
Stale == OpenIds("driver")

\* no stale asks either: a driver's open ask was a wait of a process that has ended
WithdrawOne(r) ==
    /\ At(r, "withdrawing") /\ Stale # {}
    /\ \/ AppendRow(r, Withdrawn(CHOOSE id \in Stale : \A other \in Stale : id <= other)) /\ UNCHANGED pc
       \/ Fails("withdraw") /\ Goes(r, "booting")
    /\ UNCHANGED <<inbox, requested, answering, guardVars, endVars, talkVars, snapshot, kind, kills>>

WithdrawnAll(r) ==
    /\ At(r, "withdrawing") /\ Stale = {}
    /\ Goes(r, "booting")
    /\ UNCHANGED <<askVars, guardVars, endVars, talkVars, snapshot, kind, kills>>

Boot(r) ==
    /\ At(r, "booting")
    /\ snapshot' = [run |-> r, finished |-> FALSE]
    /\ Goes(r, "boundary")
    /\ UNCHANGED <<askVars, guardVars, endVars, talkVars, kind, kills>>

\* a dirty tree, a ledger that cannot be read
BootFails(r) ==
    /\ At(r, "booting")
    /\ Refused(r, IF kind[r] = "driver" THEN "clearing" ELSE "falling back")
    /\ UNCHANGED <<askVars, guardVars, report, mayWrite, written, talkVars, snapshot,
                   kind, kills>>

------------------------------------------------------------------------------
(* The sessions and the questions.                                           *)

Promote(r) ==
    /\ At(r, "boundary")
    /\ PromoteRequest(r)
    /\ handling' = [handling EXCEPT ![r] = Head(inbox).file]
    /\ Goes(r, "promoted")
    /\ UNCHANGED <<guardVars, endVars, waits, brief, unmarked, told, snapshot, kind, kills>>

RemoveFile(r) ==
    /\ At(r, "promoted")
    /\ RemoveRequest(handling[r])
    /\ handling' = [handling EXCEPT ![r] = 0]
    /\ Goes(r, "boundary")
    /\ UNCHANGED <<guardVars, endVars, waits, brief, unmarked, told, snapshot, kind, kills>>

Drop(r) ==
    /\ At(r, "boundary")
    /\ DropRequest
    /\ UNCHANGED <<guardVars, endVars, talkVars, snapshot, pc, kind, kills>>

\* hil: an ask that was not recorded must not be waited on
PutUnrecorded(r) == UNCHANGED ledgerVars
Put(r) == AppendRow(r, Open(Minted, "driver", "none"))

\* Agg::hil: the question goes on the ledger and the driver waits for its answer
Hil(r) ==
    /\ At(r, "boundary") /\ kind[r] = "driver" /\ Promoted /\ Mintable # {}
    /\ Put(r)
    /\ waits' = [waits EXCEPT ![r] = Minted]
    /\ Goes(r, "waiting")
    /\ UNCHANGED <<inbox, requested, answering, guardVars, endVars, handling, brief, unmarked,
                   told, snapshot, kind, kills>>

Poll(r) ==
    /\ At(r, "waiting") /\ All[waits[r]].answer # NoValue
    /\ waits' = [waits EXCEPT ![r] = 0]
    /\ Goes(r, "boundary")
    /\ UNCHANGED <<askVars, guardVars, endVars, handling, brief, unmarked, told, snapshot, kind, kills>>

\* compose_prompt: the answers go into the brief and are marked delivered
Brief(r) ==
    /\ At(r, "boundary") /\ Promoted
    /\ brief' = [brief EXCEPT ![r] = OwedToWorker]
    /\ unmarked' = [unmarked EXCEPT ![r] = OwedToWorker]
    /\ Goes(r, "marking")
    /\ UNCHANGED <<askVars, guardVars, endVars, waits, handling, told, snapshot, kind, kills>>

Mark(r) ==
    /\ At(r, "marking")
    /\ \E id \in unmarked[r] :
          /\ \A other \in unmarked[r] : id <= other
          /\ AppendRow(r, Delivered(id)) \/ Fails("mark")
          /\ unmarked' = [unmarked EXCEPT ![r] = @ \ {id}]
    /\ UNCHANGED <<inbox, requested, answering, guardVars, endVars, waits, handling, brief,
                   told, snapshot, pc, kind, kills>>

Session(r) ==
    /\ At(r, "marking") /\ unmarked[r] = {}
    /\ told' = [id \in Ids |-> told[id] + IF id \in brief[r] THEN 1 ELSE 0]
    /\ brief' = [brief EXCEPT ![r] = {}]
    /\ Goes(r, "session")
    /\ UNCHANGED <<askVars, guardVars, endVars, waits, handling, unmarked, snapshot, kind, kills>>

WorkerAsks(r, q) ==
    /\ pc[r] = "session"
    /\ Request(q)
    /\ UNCHANGED <<guardVars, endVars, talkVars, snapshot, pc, kind, kills>>

SessionEnds(r) ==
    /\ At(r, "session")
    /\ Goes(r, "boundary")
    /\ UNCHANGED <<askVars, guardVars, endVars, talkVars, snapshot, kind, kills>>

------------------------------------------------------------------------------
(* The end of a run.                                                         *)

\* a goal, a ceiling, a stop, or an error; only an ending the loop itself decides
\* is published as finished, and a driver's Drop takes every return for one
Ends(r, outcome) ==
    /\ MayLeave(r)
    /\ At(r, "boundary") \/ At(r, "session") \/ At(r, "waiting")
    /\ result' = [result EXCEPT ![r] = outcome]
    /\ snapshot' = IF outcome = "done" \/ kind[r] = "driver" THEN [snapshot EXCEPT !.finished = TRUE]
                   ELSE snapshot
    /\ waits' = [waits EXCEPT ![r] = 0]
    /\ Goes(r, "reporting")
    /\ UNCHANGED <<askVars, guardVars, report, mayWrite, written, handling, brief,
                   unmarked, told, kind, kills>>

DriverPanics(r) ==
    /\ kind[r] = "driver" /\ MayLeave(r)
    /\ At(r, "boundary") \/ At(r, "waiting")
    /\ waits' = [waits EXCEPT ![r] = 0]
    /\ Refused(r, "clearing")
    /\ UNCHANGED <<askVars, guardVars, report, mayWrite, written, handling, brief,
                   unmarked, told, snapshot, kind, kills>>

\* RunHandle::finish; Agg::drop cannot see an error of the driver's own
Writes(r, outcome) == report' = ReportOf(r, outcome) /\ written' = written \cup {r}
Report(r) ==
    /\ At(r, "reporting")
    /\ \/ /\ Writes(r, IF kind[r] = "driver" THEN "done" ELSE result[r])
          /\ Goes(r, "clearing") /\ UNCHANGED result
       \/ /\ ReportFaults
          /\ IF kind[r] = "driver" THEN Goes(r, "clearing") /\ UNCHANGED result
             ELSE Refused(r, "falling back")
          /\ UNCHANGED <<report, written>>
    /\ UNCHANGED <<askVars, guardVars, mayWrite, talkVars, snapshot, kind, kills>>

FallBack(r) ==
    /\ At(r, "falling back")
    /\ \/ Writes(r, "error")
       \/ ReportFaults /\ UNCHANGED <<report, written>>
    /\ Goes(r, "clearing")
    /\ UNCHANGED <<askVars, guardVars, mayWrite, result, talkVars, snapshot, kind, kills>>

\* RunPidGuard: the file goes, whoever it names
ClearPid(r) ==
    /\ At(r, "clearing")
    /\ pidfile' = NoRun
    /\ CASE kind[r] # "driver" -> Goes(r, "concluding") /\ UNCHANGED endVars
         [] kind[r] = "driver" /\ r \in written /\ result[r] = "error" -> Goes(r, "amending") /\ UNCHANGED endVars
         [] OTHER -> Leaves(r, "over") /\ UNCHANGED report
    /\ UNCHANGED <<askVars, looking, seen, parent, talkVars, snapshot, kind, kills>>

\* driver::run: the report on disk becomes an error's
Amend(r) ==
    /\ At(r, "amending")
    /\ report' = IF report = NoReport THEN report ELSE [report EXCEPT !.outcome = "error"]
    /\ Leaves(r, "over")
    /\ UNCHANGED <<askVars, guardVars, talkVars, snapshot, kind, kills>>

\* report/headless.rs: print what is there, or leave and print an error's
ExistingAny(r) == report
Existing(r) == IF mayWrite[r] THEN report ELSE NoReport
Printed(r) == IF Existing(r) = NoReport THEN ReportOf(r, "error") ELSE report
PersistsAlways(r) == TRUE
Persists(r) == mayWrite[r]
Conclude(r) ==
    /\ At(r, "concluding")
    /\ \/ report' = IF Persists(r) THEN Printed(r) ELSE report
       \/ ReportFaults /\ UNCHANGED report
    /\ Leaves(r, "over")
    /\ UNCHANGED <<askVars, guardVars, talkVars, snapshot, kind, kills>>

Kill(r) ==
    /\ Alive(r) /\ kills < MaxKills /\ MayLeave(r)
    /\ kills' = kills + 1
    /\ Tears(r)
    /\ waits' = [waits EXCEPT ![r] = 0] /\ handling' = [handling EXCEPT ![r] = 0]
    /\ brief' = [brief EXCEPT ![r] = {}] /\ unmarked' = [unmarked EXCEPT ![r] = {}]
    /\ seen' = [seen EXCEPT ![r] = NoRun]
    /\ Leaves(r, "killed")
    /\ UNCHANGED <<pidfile, looking, parent, report, told, snapshot, kind>>

Beside == UNCHANGED <<guardVars, endVars, talkVars, snapshot, pc, kind, kills>>

Next ==
    \/ \E r \in Runs :
          \/ Launch(r) \/ Detach(r) \/ ParentWrites(r) \/ ChildLooks(r) \/ Check(r)
          \/ Prepared(r) \/ PrepareFails(r) \/ Guard(r) \/ Claim(r) \/ Begin(r)
          \/ WithdrawOne(r) \/ WithdrawnAll(r) \/ Boot(r) \/ BootFails(r)
          \/ Promote(r) \/ RemoveFile(r) \/ Drop(r) \/ Hil(r) \/ Poll(r)
          \/ Brief(r) \/ Mark(r) \/ Session(r) \/ SessionEnds(r)
          \/ \E q \in Questions : WorkerAsks(r, q)
          \/ \E outcome \in {"done", "error"} : Ends(r, outcome)
          \/ DriverPanics(r) \/ Report(r) \/ FallBack(r) \/ ClearPid(r) \/ Amend(r)
          \/ Conclude(r) \/ Kill(r)
    \/ ReaderLooks \/ ReaderCleans
    \/ \E w \in Writers : Newline(w) /\ Beside
    \/ \E o \in Answerers, id \in Ids : Validate(o, id) /\ Beside
    \/ \E o \in Answerers : Record(o) /\ Beside

Spec == Init /\ [][Next]_vars

------------------------------------------------------------------------------
(* Properties.                                                               *)

\* A project runs one loop at a time, and run.pid names it.
OneLoop ==
    \A r \in Runs : pc[r] \in Holding =>
        pidfile = r /\ \A other \in Runs \ {r} : pc[other] \notin Holding

\* report/file.rs: a consumer that finds a report after a run began reads this
\* run's or none - and a refused start leaves a live run's report alone.
ReportIsTheRuns ==
    \A r \in Runs : pc[r] \in Holding \ {"beginning"} => report.run \in {NoRun, r}

\* headless.rs: what a start prints is its own report, and says how it went.
PrintsItsOwnReport ==
    [][ \A r \in Runs : pc[r] = "concluding" /\ pc'[r] = "over"
            => Printed(r) = ReportOf(r, result[r]) ]_vars

\* A driver waits only for a question that can be answered (asks.rs: one that was
\* not recorded must not be waited on) and that nobody has withdrawn.
WaitsForAnAnswerableAsk ==
    \A r \in Runs : pc[r] = "waiting" =>
        LET ask == All[waits[r]] IN IsOpen(ask) \/ (Known(All, waits[r]) /\ ask.answer # NoValue)

\* While a run works, every open question of a driver has a driver waiting for it:
\* what an ended run left behind was withdrawn (SR-P6).
OpenAsksAreWaitedFor ==
    (\E r \in Runs : pc[r] \in Working) =>
        \A id \in OpenIds("driver") : \E r \in Runs : pc[r] = "waiting" /\ waits[r] = id

\* asks.rs: an answer is delivered to the worker at most once, whatever crashes.
ToldAtMostOnce == \A id \in Ids : told[id] <= 1

\* A worker's request leaves the inbox only once its question is on the ledger.
NoRequestIsLost ==
    [][ \A i \in DOMAIN inbox : (\A j \in DOMAIN inbox' : inbox'[j] # inbox[i]) =>
            TooMany \/ \E id \in Ids : All[id].origin = "worker" /\ All[id].question = inbox[i].question ]_vars

\* A request is put to the operator once (asks.rs: "cannot be promoted twice").
PromotedOnce ==
    [][ \A r \in Runs : handling'[r] # 0 /\ handling[r] = 0 =>
            Cardinality({id \in Ids : All'[id].origin = "worker"}) <= handling'[r] ]_vars

\* A run that was not killed leaves a report of its own (CONFIG.md: every ending
\* agg can observe writes one report).
EndedRunsReport ==
    \A r \in Runs : pc[r] = "over" /\ snapshot.run = r /\ Calm => report.run = r

\* status.rs: a run that is neither running nor finished was killed.
NeitherMeansKilled ==
    snapshot.run # NoRun /\ ~snapshot.finished /\ ~Alive(pidfile) /\ Calm
        => pc[snapshot.run] = "killed"

Standing(id) ==
    LET ask == All[id] IN
    IF ~Known(All, id) THEN "unasked"
    ELSE IF ask.answer # NoValue THEN ask.answer
    ELSE IF ask.withdrawn THEN "withdrawn" ELSE "open"
Board == INSTANCE AskBoard WITH board <- [id \in Ids |-> Standing(id)]

\* The ledger keeps what the project promises about a question (AskBoard).
AsksAreKept == Board!BoardSpec
=============================================================================
