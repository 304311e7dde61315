------------------------------ MODULE Workflow ------------------------------
(* agg::workflow: a driver's named steps (scripts, agents' tasks, conditions *)
(* and approvals), the history their re-entry goes by, and the task force a  *)
(* failed step is sent to.  The driver is a fixed sequence of blocks; what   *)
(* judges, agents and humans say is free.  A commit is the tree it holds.    *)
EXTENDS Naturals, Sequences, FiniteSets

CONSTANTS
    Programs,  \* the drivers: sequences of blocks
    Files,     \* the files the steps read and write
    Versions,  \* what a file can hold, Nothing when it is not there
    Limit,     \* on_failure's limit, 0 without a task force
    Untils,    \* the steps an operator's run may stop after
    Resets,    \* may a run be started with --reset
    MaxRuns,   \* bound: runs started by the operator
    MaxEdits   \* bound: instructions the operator edits

Nothing == 0
Rounds == 3        \* of a discussion
CriticRounds == 1

Blocks == UNION {{p[k] : k \in DOMAIN p} : p \in Programs}
Names == {b.name : b \in Blocks}
Kinds == {"script", "task", "approval", "applies"}
Recorded == {"result", "approval"}
Trees == [Files -> Versions]

ASSUME BlocksAssumption ==
    \A b \in Blocks :
        /\ b.kind \in Kinds /\ b.out \in Files /\ b.reads \subseteq Files /\ b.repairs \in Nat
        /\ {b.declared, b.critic, b.climbs, b.first, b.voices, b.ladder, b.starts} \subseteq BOOLEAN
\* a condition guards the step after it
ASSUME ProgramsAssumption ==
    \A p \in Programs : p \in Seq(Blocks) /\ p # <<>> /\ p[Len(p)].kind # "applies"
ASSUME VersionsAssumption == Nothing \in Versions /\ Versions \subseteq Nat
ASSUME LimitsAssumption == {Limit, MaxRuns, MaxEdits} \subseteq Nat /\ Untils \subseteq Names /\ Resets \in BOOLEAN

VARIABLES
    \* the project
    head,     \* the base branch
    hist,     \* the history file: per step, the commits of its last result and approval
    before,   \* refs/agg/before
    kept,     \* agg/private/instructions: what a step was told, as a set
    told,     \* what its prompt files say now
    program,  \* the driver
    \* the driver's process
    run,      \* its arguments
    i, pc,    \* the block, and where in it
    work,     \* the tree of the open span
    seen, pending, given,
    fixes,    \* repairs in place
    call,     \* the current step's locals
    next,     \* REENTRY, as a set
    \* history
    judged,   \* per step, what its last result was judged on, and if its entry is lost, as a set
    signed,   \* per approval, what a human last said yes to, as a set
    runs, edits

project == <<head, hist, before, kept, told>>
process == <<run, i, pc, work, seen, pending, given, fixes, call, next>>
history == <<program, judged, signed, runs, edits>>
vars == <<project, process, history>>

------------------------------------------------------------------------------
(* The history.                                                              *)

Entry(step, kind, commit) == [step |-> step, kind |-> kind, commit |-> commit]

\* defer: the entry stands on the base branch as it is now, and waits for a flush
Defer(step, kind, commit) == pending' = Append(pending, Entry(step, kind, commit))
\* what the file says once these are appended: of each step and kind, the last
Last(positions) == CHOOSE p \in positions : \A q \in positions : q <= p
Written(h, entries) ==
    [n \in Names |-> [k \in Recorded |->
        LET mine == {p \in DOMAIN entries : entries[p].step = n /\ entries[p].kind = k}
        IN IF mine = {} THEN h[n][k] ELSE {entries[Last(mine)].commit}]]
Flush == hist' = Written(hist, pending) /\ pending' = <<>>
DeferAndFlush(step, kind, commit) ==
    /\ hist' = Written(hist, Append(pending, Entry(step, kind, commit)))
    /\ pending' = <<>>

LastCommit(name, kind) == hist[name][kind]
IsApproval(name) == hist[name].approval # {}
Same(t, u, paths) == \A f \in paths : t[f] = u[f]
UnchangedSince(commit, paths) == Same(commit, head, paths)

------------------------------------------------------------------------------
(* A run's arguments, and which steps run.                                   *)

Fresh == [from |-> {}, note |-> FALSE, decided |-> FALSE, reset |-> FALSE, until |-> {}, reentries |-> 0]
Block == program[i]
Started(s) == run.from = {} \/ run.from \subseteq s
PastUntil == run.until # {} /\ run.until \subseteq seen /\ Block.name \notin run.until
At(name) == run.from = {name}

Refreshing(b) ==
    IF b.declared /\ run.from # {} /\ ~run.reset /\ (~At(b.name) \/ run.decided) /\ b.name \notin given
    THEN LastCommit(b.name, "result") ELSE {}
InstructionsChanged(name) == ~run.reset /\ kept[name] # {} /\ kept[name] # {told[name]}
\* mutant: only what is told is compared
UntouchedAsTold(b) == ~InstructionsChanged(b.name) /\ Refreshing(b) # {}
Untouched(b) ==
    /\ ~InstructionsChanged(b.name)
    /\ \E c \in Refreshing(b) : UnchangedSince(c, b.reads)

NoCall == [since |-> {}, round |-> 0, critics |-> 0, again |-> FALSE,
           back |-> "next", outcome |-> "done"]

Init ==
    /\ program \in Programs
    /\ head = [f \in Files |-> Nothing]
    /\ hist = [n \in Names |-> [k \in Recorded |-> {}]]
    /\ before = [n \in Names |-> {}] /\ kept = [n \in Names |-> {}] /\ told = [n \in Names |-> 0]
    /\ run = Fresh /\ i = 1 /\ pc = "next" /\ work = head
    /\ seen = {} /\ pending = <<>> /\ given = {} /\ fixes = 0 /\ call = NoCall /\ next = {}
    /\ judged = [n \in Names |-> {}] /\ signed = [n \in Names |-> {}] /\ runs = 1 /\ edits = 0

Goto(p) == pc' = p /\ UNCHANGED i
\* the step's call returns; a driver climbs a ladder only after an unmet end
\* and takes the block after a condition only when that applies
After(applies) == IF applies THEN i + 1 ELSE i + 2
Return(outcome) ==
    /\ i' = After(Block.kind # "applies") /\ pc' = "next"
    /\ call' = [NoCall EXCEPT !.outcome = outcome]
Stop(how) ==
    /\ pc' = how /\ i' = 1 /\ work' = head' /\ call' = NoCall
    /\ seen' = {} /\ given' = {} /\ fixes' = 0
    /\ run' = IF next' = {} THEN Fresh ELSE run

\* halt: finish_with, the open span torn down, the entries flushed
Halt ==
    /\ UNCHANGED <<head, next>>
    /\ Stop("halted") /\ Flush

\* fail and recover: to the task force, while its limit allows
Spent == run.reentries + fixes
Fails(again, back) ==
    IF Spent < Limit
    THEN /\ Goto("force")
         /\ call' = [call EXCEPT !.again = again, !.back = back]
         /\ Flush
         /\ UNCHANGED <<head, work, next, run, seen, given, fixes>>
    ELSE Halt

------------------------------------------------------------------------------
(* Reaching a step.                                                          *)

\* runs
Reach ==
    /\ pc = "next" /\ i <= Len(program)
    /\ ~(Block.ladder /\ call.outcome # "unmet")
    /\ UNCHANGED <<head, kept, told, next, history>>
    /\ LET name == Block.name
           reached == seen \cup {name}
       IN \/ /\ PastUntil
             /\ Flush /\ Stop(IF Started(seen) THEN "met" ELSE "halted")
             /\ UNCHANGED before
          \/ /\ ~PastUntil /\ ~Started(reached)
             /\ seen' = reached /\ Return("notreached")
             /\ UNCHANGED <<hist, pending, before, run, work, given, fixes>>
          \/ /\ ~PastUntil /\ Started(reached)
             /\ seen' = reached /\ Flush
             /\ before' = IF Resets THEN [before EXCEPT ![name] = {head}] ELSE before
             /\ call' = NoCall /\ Goto("begin")
             /\ UNCHANGED <<run, work, given, fixes>>

\* the driver does not climb, or a condition did not apply
Pass ==
    /\ pc = "next" /\ i <= Len(program)
    /\ Block.ladder /\ call.outcome # "unmet"
    /\ i' = i + 1
    /\ UNCHANGED <<pc, project, run, work, seen, pending, given, fixes, call, next, history>>

\* the driver returns; what is pending is written only if it says so
Finish ==
    /\ pc = "next" /\ i > Len(program)
    /\ Flush \/ UNCHANGED <<hist, pending>>
    /\ UNCHANGED <<head, before, kept, told, next, history>>
    /\ Stop("met")

------------------------------------------------------------------------------
(* The blocks.                                                               *)

\* the gate on what the span holds: kept, or rolled back
GateKeeps(t) == head' = t /\ work' = t

GiveResult(name, commit, outcome) ==
    /\ Defer(name, "result", commit)
    /\ given' = given \cup {name}
    /\ Return(outcome)
    /\ kept' = IF outcome \in {"done", "unchanged"} THEN [kept EXCEPT ![name] = {told[name]}] ELSE kept

Judged(name, tree) == judged' = [judged EXCEPT ![name] = {[tree |-> tree, told |-> told[name], lost |-> FALSE]}]
\* the entries that were not written tell the next run nothing
Unwritten(entries) ==
    judged' = [n \in Names |->
        IF \E p \in DOMAIN entries : entries[p].step = n /\ entries[p].kind = "result"
        THEN {[j EXCEPT !.lost = TRUE] : j \in judged[n]} ELSE judged[n]]

\* keep, then the result's entry
Keep(outcome, tree) ==
    \/ /\ GateKeeps(work) /\ GiveResult(Block.name, work, outcome) /\ Judged(Block.name, tree)
       /\ UNCHANGED <<hist, run, seen, fixes, next>>
    \/ /\ work # head
       /\ Fails(FALSE, "next")
       /\ UNCHANGED <<kept, judged>>

Unmet ==
    IF Block.climbs
    THEN \/ /\ GateKeeps(work) /\ Return("unmet")
            /\ UNCHANGED <<hist, pending, run, seen, given, fixes, next>>
         \/ /\ work # head /\ Fails(FALSE, "next")
    ELSE Fails(TRUE, "done")

Work(b) == {work} \cup {[work EXCEPT ![b.out] = v] : v \in Versions \ {Nothing, work[b.out]}}

\* task: what a refresh needs no session for, then the checks before it
TaskUnchanged ==
    /\ pc = "begin" /\ Block.kind = "task" /\ Untouched(Block)
    /\ GiveResult(Block.name, head, "unchanged")
    /\ UNCHANGED <<head, hist, before, told, run, work, seen, fixes, next, history>>

AfterHooks(b, since) ==
    IF b.kind # "task" THEN b.kind
    ELSE IF b.first THEN "first" ELSE IF b.voices /\ since = {} THEN "discuss" ELSE "session"

\* on_start: what the driver does as a step starts
OnStartFails ==
    /\ pc = "begin" /\ Block.starts /\ call.back # "started"
    /\ Fails(TRUE, "started")
    /\ UNCHANGED <<before, kept, told, history>>

Begin ==
    /\ pc = "begin"
    /\ Block.kind = "task" => ~Untouched(Block)
    /\ UNCHANGED <<before, kept, told, history>>
    /\ \/ /\ Goto(AfterHooks(Block, Refreshing(Block)))
          /\ call' = [call EXCEPT !.since = IF Block.kind = "task" THEN Refreshing(Block) ELSE {}]
          /\ UNCHANGED <<head, hist, run, work, seen, given, pending, fixes, next>>
       \/ Block.kind \in {"script", "task"} /\ Fails(TRUE, "begin")

\* the first script, committed; nothing left and the judges met: no session
First ==
    /\ pc = "first"
    /\ UNCHANGED <<before, told, run, seen, fixes, next, signed, runs, edits, program>>
    /\ \E t \in Work(Block) :
          /\ head' = t /\ work' = t
          /\ \/ /\ DeferAndFlush(Block.name, "result", t)
                /\ given' = given \cup {Block.name}
                /\ Return("done")
                /\ kept' = [kept EXCEPT ![Block.name] = {told[Block.name]}]
                /\ Judged(Block.name, t)
             \/ /\ Goto(IF Block.voices /\ call.since = {} THEN "discuss" ELSE "session")
                /\ UNCHANGED <<hist, pending, given, kept, call, judged>>

\* the voices' rounds: each writes a position, until all agree or the rounds are over
Discuss ==
    /\ pc = "discuss"
    /\ UNCHANGED <<before, kept, told, history>>
    /\ \/ \E agreed \in BOOLEAN :
             LET over == (call.round > 0 /\ agreed) \/ call.round = Rounds
             IN /\ Goto(IF over THEN "session" ELSE "discuss")
                /\ call' = [call EXCEPT !.round = IF over THEN 0 ELSE @ + 1]
                /\ UNCHANGED <<head, hist, run, work, seen, given, pending, fixes, next>>
       \/ Fails(FALSE, "next")

NoteNotCarriedOut == At(Block.name) /\ run.note /\ ~run.decided

Session ==
    /\ pc = "session"
    /\ \E t \in Work(Block) :
          \/ /\ t # work \/ (call.since = {} /\ ~NoteNotCarriedOut)
             /\ work' = t /\ Goto("review")
             /\ UNCHANGED <<head, hist, kept, run, seen, pending, given, fixes, call, next, judged>>
          \/ /\ t = work /\ call.since # {}
             /\ GateKeeps(work) /\ GiveResult(Block.name, work, "unchanged") /\ Judged(Block.name, work)
             /\ UNCHANGED <<hist, run, seen, fixes, next>>
          \/ /\ t = work /\ call.since = {} /\ NoteNotCarriedOut
             /\ Unmet
             /\ UNCHANGED <<kept, judged>>
    /\ UNCHANGED <<before, told, signed, runs, edits, program>>

\* review and repaired: the checks, then the critic; repair rounds while there
\* are any, one of them the critic's
Verdicts(b) == {"met", "check"} \cup (IF b.critic THEN {"critic"} ELSE {})
RoundLeft(v) == call.round < Block.repairs /\ ~(v = "critic" /\ call.critics = CriticRounds)

Review ==
    /\ pc = "review"
    /\ \E v \in Verdicts(Block) :
          \/ v = "met" /\ Keep("done", work)
          \/ v # "met" /\ RoundLeft(v)
             /\ call' = [call EXCEPT !.round = @ + 1, !.critics = IF v = "critic" THEN @ + 1 ELSE @]
             /\ Goto("repair")
             /\ UNCHANGED <<head, hist, kept, run, work, seen, pending, given, fixes, next, judged>>
          \* blocked by another step, the worker can't fix it, or the same failure again
          \/ v # "met" /\ RoundLeft(v) /\ Unmet /\ UNCHANGED <<kept, judged>>
          \/ v = "critic" /\ ~RoundLeft(v) /\ Block.repairs > 0 /\ Keep("accepted", work)
          \/ v # "met" /\ ~RoundLeft(v) /\ ~(v = "critic" /\ Block.repairs > 0)
             /\ Unmet /\ UNCHANGED <<kept, judged>>
    /\ UNCHANGED <<before, told, signed, runs, edits, program>>

Repair ==
    /\ pc = "repair"
    /\ work' \in Work(Block)
    /\ Goto("review")
    /\ UNCHANGED <<project, run, seen, pending, given, fixes, call, next, history>>

\* script_step: met and the checks after it met, its changes are committed
Script ==
    /\ pc = "script"
    /\ UNCHANGED <<before, kept, told, history>>
    /\ \/ /\ head' \in Work(Block) /\ work' = head'
          /\ Flush /\ Return("done")
          /\ UNCHANGED <<run, seen, given, fixes, next>>
       \/ Fails(TRUE, "script")

\* applies: a condition that is not met skips the step it guards
Applies ==
    /\ pc = "applies"
    /\ UNCHANGED <<before, kept, told, history>>
    /\ \/ /\ \E met \in BOOLEAN : i' = After(met)
          /\ pc' = "next" /\ call' = NoCall
          /\ UNCHANGED <<head, hist, run, work, seen, given, pending, fixes, next>>
       \/ Fails(FALSE, "next")

\* approval
Reentered == run.from # {} /\ ~run.reset
\* mutant: an approval once given stands
StandsOnceGiven(b) == Reentered /\ LastCommit(b.name, "approval") # {}
Stands(b) == Reentered /\ \E c \in LastCommit(b.name, "approval") : UnchangedSince(c, b.reads)
ApprovalStanding ==
    /\ pc = "approval" /\ Stands(Block)
    /\ DeferAndFlush(Block.name, "approval", head)
    /\ Return("done")
    /\ UNCHANGED <<head, before, kept, told, next, run, work, seen, given, fixes, history>>

\* asked, and answered when a human does
Approval ==
    /\ pc = "approval" /\ ~Stands(Block)
    /\ UNCHANGED <<before, kept, told, next, judged, runs, edits, program>>
    /\ \/ /\ head' \in Work(Block) /\ work' = head'
          /\ DeferAndFlush(Block.name, "approval", head')
          /\ signed' = [signed EXCEPT ![Block.name] = {head'}]
          /\ Return("done")
          /\ UNCHANGED <<run, seen, given, fixes>>
       \/ /\ UNCHANGED <<head, signed>>
          /\ Stop("halted") /\ Flush

------------------------------------------------------------------------------
(* The task force.                                                           *)

CountedFix == fixes + 1
\* humans decide at an approval
Proposable(at) == at \in seen /\ ~IsApproval(at)
Reenters(name, at) ==
    /\ Proposable(at)
    /\ next' = {[at |-> at, decided |-> FALSE]}

\* its session and the gate that keeps or drops it with the step's own work,
\* then its answer
TaskForce ==
    /\ pc = "force"
    /\ \E t \in UNION {Work([out |-> f]) : f \in Files} : head' = t \/ head' = head
    /\ UNCHANGED <<before, kept, told, history>>
    /\ \/ /\ call.again /\ fixes' = CountedFix
          /\ Goto("again") /\ work' = head'
          /\ UNCHANGED <<hist, pending, run, seen, given, call, next>>
       \/ /\ \E at \in Names : Proposable(at)
          /\ Goto("ask") /\ work' = head'
          /\ UNCHANGED <<hist, pending, run, seen, given, fixes, call, next>>
       \* a proposal the driver trusts is not asked about
       \/ /\ \E at \in Names : Reenters(Block.name, at)
          /\ Stop("halted") /\ Flush
       \/ UNCHANGED next /\ Stop("halted") /\ Flush

\* a human's yes to a proposal, or no
Answered ==
    /\ pc = "ask"
    /\ (\E at \in Names : Reenters(Block.name, at)) \/ UNCHANGED next
    /\ UNCHANGED <<head, before, kept, told, history>>
    /\ Stop("halted") /\ Flush

\* judged again after a repair in place
Again ==
    /\ pc = "again"
    /\ UNCHANGED <<before, told, signed, runs, edits, program>>
    /\ \/ /\ call.back = "done" /\ Keep("done", work)
       \/ /\ call.back = "begin"
          /\ Flush
          /\ Goto(AfterHooks(Block, Refreshing(Block)))
          /\ call' = [call EXCEPT !.since = IF Block.kind = "task" THEN Refreshing(Block) ELSE {}]
          /\ UNCHANGED <<head, run, work, kept, seen, given, fixes, next, judged>>
       \/ /\ call.back = "started"
          /\ Flush /\ Goto("begin")
          /\ UNCHANGED <<head, run, work, kept, seen, given, fixes, call, next, judged>>
       \/ /\ call.back = "script"
          /\ head' \in Work(Block) /\ work' = head' /\ Flush /\ Return("done")
          /\ UNCHANGED <<kept, run, seen, given, fixes, next, judged>>
       \/ Halt /\ UNCHANGED <<kept, judged>>

------------------------------------------------------------------------------
(* The next run.                                                             *)

\* run and rerun: the same arguments with the step, the note and the count replaced
\* mutant: the arguments of the run that ended, unchanged
CountedAsBefore(decided) == run.reentries
Counted(decided) == IF decided THEN run.reentries ELSE run.reentries + 1
Starts(args, tree) ==
    /\ run' = args /\ pc' = "next" /\ head' = tree /\ work' = tree /\ i' = i
    /\ pending' = <<>> /\ next' = {}
    /\ UNCHANGED <<seen, given, fixes, call>>

Rerun ==
    /\ pc = "halted" /\ next # {}
    /\ LET n == CHOOSE n \in next : TRUE
       IN Starts([run EXCEPT !.from = {n.at}, !.note = TRUE, !.reset = FALSE, !.decided = n.decided,
                             !.reentries = Counted(n.decided)], head)
    /\ UNCHANGED <<hist, before, kept, told, history>>

\* flow.reenter: the driver goes back between two blocks, as often as it likes
Decide ==
    /\ pc = "next"
    /\ \E at \in seen : next' = {[at |-> at, decided |-> TRUE]}
    /\ UNCHANGED <<head, before, kept, told, history>>
    /\ Stop("halted") /\ Flush

\* the operator: another run, after editing what a step is told
Operator ==
    /\ pc \in {"met", "halted"} /\ next = {} /\ runs < MaxRuns
    /\ \E from \in {{}} \cup {{n} : n \in Names}, until \in {{}} \cup {{n} : n \in Untils},
          note, reset \in BOOLEAN :
          /\ note => from # {} /\ ~reset
          \* take_back: the tree before the step, which must have run
          /\ reset => Resets /\ \E n \in from : before[n] # {}
          /\ Starts([Fresh EXCEPT !.from = from, !.until = until, !.note = note, !.reset = reset],
                    IF reset THEN CHOOSE t \in Trees : \E n \in from : before[n] = {t} ELSE head)
    /\ told' \in {told} \cup {[told EXCEPT ![n] = 1] : n \in {m \in Names : edits < MaxEdits}}
    /\ edits' = IF told' = told THEN edits ELSE edits + 1
    /\ runs' = runs + 1
    /\ Unwritten(pending)
    /\ UNCHANGED <<hist, before, kept, signed, program>>

\* a crash, or an error that ends the run: what was pending is gone
Crash ==
    /\ pc \notin {"met", "halted"} /\ runs < MaxRuns
    /\ UNCHANGED <<project, next, program, signed, runs, edits>>
    /\ Stop("halted") /\ pending' = <<>> /\ Unwritten(pending)

Steps ==
    \/ Reach \/ Pass \/ Finish
    \/ TaskUnchanged \/ OnStartFails \/ Begin \/ First \/ Discuss \/ Session \/ Review \/ Repair
    \/ Script \/ Applies \/ ApprovalStanding
    \/ TaskForce \/ Again \/ Rerun
Humans == Approval \/ Answered
Next == Steps \/ Humans \/ Decide \/ Operator \/ Crash

\* the driver's process goes on, and run starts the next one; a human need not
\* answer, nor a driver go back
Spec == Init /\ [][Next]_vars /\ WF_vars(Steps)

------------------------------------------------------------------------------
(* Properties.                                                               *)

TypeOK ==
    /\ {head, work} \subseteq Trees /\ i \in 1..Len(program) + 1
    /\ seen \cup given \subseteq Names
    /\ run.reentries <= Limit /\ Spent <= Limit
    /\ \A n \in Names : hist[n].result \cup hist[n].approval \cup before[n] \subseteq Trees

UnchangedWithoutASession == pc = "begin" /\ Block.kind = "task" /\ pc' = "next"

\* A step that is passed as unchanged without a session has a result, and what
\* it reads is as it was when that result was judged: whatever was re-entered,
\* repaired in place, taken back or done again.  A result whose entry a run that
\* crashed did not write is not told apart from the one before it (see
\* CurrentAfterACrash below).
RefreshIsCurrent ==
    [][UnchangedWithoutASession =>
         \E j \in judged[Block.name] : j.lost \/ Same(j.tree, head, Block.reads)]_vars

\* An approval that stands without asking is of what a human said yes to.
ApprovalStands ==
    [][pc = "approval" /\ pc' = "next" =>
         \E t \in signed'[Block.name] : Same(t, head', Block.reads)]_vars

Asking == pc = "ask" \/ (pc = "approval" /\ ~Stands(Block))
DriverGoesBack == \E n \in next : n.decided

\* Re-entries and repairs in place use up one limit that is handed from process to
\* process: what keeps failing ends, unless a human is asked and never answers or the
\* driver itself goes back for ever with decisions, which rerun does not count.
RunsEnd == <>[](pc \in {"met", "halted"} /\ next = {}) \/ <>[]Asking \/ []<>DriverGoesBack

\* A result in place is kept only if it was made as the step is told now.
InstructionsReachTheResult ==
    [][UnchangedWithoutASession => judged[Block.name] = {} \/
         \E j \in judged[Block.name] : j.told = told[Block.name]]_vars

\* A step passed as unchanged has its result in place.
UnchangedResultIsThere == [][UnchangedWithoutASession => head[Block.out] # Nothing]_vars

\* Every run that goes back to a step counts as a re-entry.
EveryReentryCounts ==
    [][pc = "halted" /\ next # {} /\ pc' = "next" => run'.reentries = run.reentries + 1]_vars

\* The same of every result, also one whose entry was lost with the run that
\* crashed: what is in place was judged on what the step reads now.
CurrentAfterACrash ==
    [][UnchangedWithoutASession =>
         \E j \in judged[Block.name] : Same(j.tree, head, Block.reads)]_vars

\* A run that ends as it should has written what its steps came to.
EventsAreWritten == pc = "met" => pending = <<>>

\* The note is put to the step's first call only (agent.rs), so no later call's
\* session ends the run because the note was not carried out.
NoteIsTheFirstCalls ==
    [][Session /\ pc' = "halted" => Block.name \notin given]_vars
============================================================================
