------------------------------ MODULE SpanGate ------------------------------
(* Git custody of a run's work: every session works on a branch cut from the *)
(* span tip, a `skip_judges` session extends the span, a judged session      *)
(* stages the span's merge on base, and the gate commits it or aborts it.    *)
(* Rate limits, interrupts, crashes and failing git commands are included.   *)
(* Work items are numbered in the order they are made; a ref stands for the  *)
(* set of work items reachable from it.                                      *)
EXTENDS Naturals

CONSTANTS
    Faults,              \* the git commands that may fail
    NewFiles,            \* whether a worker may create untracked files
    OperatorEdits,       \* whether the operator edits the tree between runs
    GateRegressions,     \* sequence.gate_regressions
    RequireImprovement,  \* sequence.merge_requires_improvement
    MaxWork, MaxSession, MaxRun    \* bounds of the instance

FaultKinds == {"cut", "commit", "checkout", "conflict", "merge_commit", "save"}

ASSUME FaultsAssumption == Faults \subseteq FaultKinds
ASSUME PolicyAssumption ==
    /\ NewFiles \in BOOLEAN /\ OperatorEdits \in BOOLEAN
    /\ GateRegressions \in BOOLEAN /\ RequireImprovement \in BOOLEAN
ASSUME BoundsAssumption == MaxWork \in Nat /\ MaxSession \in Nat /\ MaxRun \in Nat

Work    == 1 .. MaxWork
Session == 1 .. MaxSession
Run     == 1 .. MaxRun
Base    == 0     \* the value of `head` when the base branch is checked out
Ref     == 0 .. MaxSession

VARIABLES
    \* the repository
    base,       \* work reachable from the isolation base
    branch,     \* work reachable from <prefix>/<project>/session-<n> ({}: no branch)
    parked,     \* work reachable from orphaned-<ts>/session-<n>
    partial,    \* work reachable from refs/agg/partial/<run>/<session>
    head,       \* the checked-out session branch, or Base
    dirty,      \* uncommitted work in the tree
    untracked,  \* the part of dirty that is in new files
    indexed,    \* dirty is in the index: `add -A` ran and the commit failed
    merging,    \* the session whose merge is staged on base, or 0
    red,        \* the worker's veto marker is in the tree
    \* agg/private
    run,        \* the run id in the clock
    disk,       \* state.json: session
    met,        \* the run ledger's last end reason is goals-met
    tagged,     \* work graded by rows tagged merged or baseline in verdicts.jsonl
    recorded,   \* work landed by the Kept gates of calls.jsonl
    \* the agg process
    pc, session, sbranch, tip, span, skip, before, violation, staged, fate, candidate,
    \* history
    count,      \* work items made so far: 1 .. count
    own,        \* what this session made
    barred,     \* work that must not land: vetoed, violating or unfinished
    vetoed,     \* what a vetoing session made
    highest     \* the highest session number of this run

repoVars == <<base, branch, parked, partial, head, dirty, untracked, indexed, merging,
              red>>
diskVars == <<run, disk, met, tagged, recorded>>
procVars == <<session, sbranch, tip, span, skip, before, violation, staged, fate, candidate>>
histVars == <<count, own, barred, vetoed, highest>>
vars == <<repoVars, diskVars, pc, procVars, histVars>>

Phases == {"down", "baseline", "pick", "work", "limited", "interrupted",
           "verify", "stage", "gate", "close", "record"}
Stagings == {"none", "vetoed", "nochanges", "conflict", "checkout_failed", "staged"}
Fates == {"nothing", "merged", "rolled_back", "no_improvement", "no_changes"}

------------------------------------------------------------------------------
Made == 1 .. count

\* `git status --porcelain --untracked-files=no`
Tracked == IF indexed THEN dirty ELSE dirty \ untracked

Content(b) == IF b = Base THEN base ELSE branch[b]

OnBranches == UNION {branch[s] : s \in Session}

\* update-ref refs/agg/partial/<run>/<s>
Saved(s, work) == [partial EXCEPT ![run][s] = work]

\* the ref the next session is cut from: the span tip, else the base
BaseRefIgnoresSpan == Base
BaseRef == tip

\* `git branch -D` refuses the branch that is checked out
Deleted(doomed, on) == [s \in Session |-> IF s \in doomed \ {on} THEN {} ELSE branch[s]]

Held == base \cup dirty \cup parked \cup OnBranches
        \cup UNION {partial[r][s] : r \in Run, s \in Ref}

\* what a process that ended leaves in memory
Forget ==
    /\ pc' = "down"
    /\ session' = 0 /\ sbranch' = 0 /\ tip' = 0 /\ span' = {}
    /\ skip' = FALSE /\ before' = {} /\ violation' = FALSE
    /\ staged' = "none" /\ fate' = "nothing" /\ candidate' = {}
    /\ own' = {}

Init ==
    /\ base = {} /\ parked = {} /\ dirty = {} /\ untracked = {}
    /\ branch = [s \in Session |-> {}]
    /\ partial = [r \in Run |-> [s \in Ref |-> {}]]
    /\ head = Base /\ indexed = FALSE /\ merging = 0 /\ red = FALSE
    /\ run = 0 /\ disk = 0 /\ met = FALSE /\ tagged = {} /\ recorded = {}
    /\ pc = "down" /\ session = 0 /\ sbranch = 0 /\ tip = 0 /\ span = {}
    /\ skip = FALSE /\ before = {} /\ violation = FALSE
    /\ staged = "none" /\ fate = "nothing" /\ candidate = {}
    /\ count = 0 /\ own = {} /\ barred = {} /\ vetoed = {} /\ highest = 0

------------------------------------------------------------------------------
(* Run start: load, GitSetup, the first publish.                             *)

Resumable == run > 0 /\ ~met

\* a dirty tree refuses a fresh run; a resume saves it under the dead session's
\* ref and restores the tracked files, new files stay where they are
SaveCrashedSession ==
    IF Tracked = {}
    THEN UNCHANGED <<partial, dirty, indexed>>
    ELSE /\ "save" \notin Faults
         /\ partial' = Saved(disk, Content(head) \cup dirty)
         /\ dirty' = dirty \cap untracked
         /\ indexed' = FALSE

\* a rename, never a delete
ParkByDeleting ==
    /\ branch' = [s \in Session |-> {}]
    /\ UNCHANGED parked
ParkStrandedSpan ==
    /\ parked' = parked \cup OnBranches
    /\ branch' = [s \in Session |-> {}]

Begin ==
    /\ merging' = 0      \* recover_stranded_merge
    /\ head' = Base      \* rule 1: never base a run on a session branch
    /\ ParkStrandedSpan
    /\ untracked' = dirty' \cap untracked
    /\ disk' = 0         \* published before restore_counters
    /\ pc' = "baseline"
    /\ UNCHANGED <<base, red, tagged, sbranch, tip, span, skip, before, violation,
                   staged, fate, candidate, count, own, barred, vetoed>>

StartFresh ==
    /\ pc = "down" /\ run < MaxRun
    /\ Tracked = {}
    /\ run' = run + 1
    /\ recorded' = {}    \* calls::truncate
    /\ session' = 0 /\ highest' = 0 /\ met' = FALSE
    /\ UNCHANGED <<partial, dirty, indexed>>
    /\ Begin

StartResume ==
    /\ pc = "down" /\ Resumable
    /\ SaveCrashedSession
    /\ session' = disk   \* restore_counters
    /\ UNCHANGED <<run, met, recorded, highest>>
    /\ Begin

\* the refused starts that leave something behind
StartBails ==
    /\ pc = "down"
    /\ \/ Tracked # {} /\ UNCHANGED <<partial, dirty, indexed>>
       \/ Resumable /\ head # Base /\ "checkout" \in Faults /\ SaveCrashedSession
    /\ merging' = 0
    /\ untracked' = dirty' \cap untracked
    /\ UNCHANGED <<base, branch, parked, head, red, diskVars, pc, procVars, histVars>>

Baseline ==
    /\ pc = "baseline"
    /\ tagged' = tagged \cup base
    /\ disk' = session
    /\ pc' = "pick"
    /\ UNCHANGED <<repoVars, run, met, recorded, procVars, histVars>>

------------------------------------------------------------------------------
(* One session: announce and cut, the worker, its unjudged exits.            *)

\* SessionBranchCut: create_branch deletes a stale same-named branch first
Cut(judge, ok) ==
    /\ pc = "pick" /\ session < MaxSession
    /\ ok \/ "cut" \in Faults
    /\ LET s == session + 1
           fresh == Deleted({s}, head)
       IN /\ session' = s /\ disk' = s
          /\ highest' = IF s > highest THEN s ELSE highest
          /\ branch' = IF ok THEN [fresh EXCEPT ![s] = Content(BaseRef)] ELSE fresh
          /\ head' = IF ok THEN s ELSE head
          /\ sbranch' = IF ok THEN s ELSE 0
    /\ red' = FALSE                      \* clear a stale veto
    /\ skip' = ~judge
    /\ before' = dirty \ Tracked         \* note_untracked_before
    /\ own' = {}
    /\ pc' = "work"
    /\ UNCHANGED <<base, parked, partial, dirty, untracked, indexed, merging, run, met,
                   tagged, recorded, tip, span, violation, staged, fate, candidate,
                   count, barred, vetoed>>

NextWork == count + 1

Edit(newFile) ==
    /\ pc = "work" /\ NextWork \in Work
    /\ newFile => NewFiles
    /\ count' = NextWork
    /\ own' = own \cup {NextWork}
    /\ dirty' = dirty \cup {NextWork}
    /\ untracked' = IF newFile THEN untracked \cup {NextWork} ELSE untracked
    /\ UNCHANGED <<base, branch, parked, partial, head, indexed, merging, red, diskVars,
                   pc, procVars, barred, vetoed, highest>>

\* how: the worker finished ("verify"), hit a rate limit or was interrupted;
\* veto: it wrote the red file; violates: after_worker found a protected path changed
WorkerExits(how, veto, violates) ==
    /\ pc = "work"
    /\ red' = veto
    /\ violation' = (violation \/ violates)
    /\ vetoed' = IF veto THEN vetoed \cup own ELSE vetoed
    /\ barred' = IF veto \/ violates \/ how # "verify" THEN barred \cup own ELSE barred
    /\ pc' = how
    /\ UNCHANGED <<base, branch, parked, partial, head, dirty, untracked, indexed, merging,
                   diskVars, session, sbranch, tip, span, skip, before, staged, fate,
                   candidate, count, own, highest>>

\* save_and_reset, of a session that a rate limit or an interrupt cut short
Ahead == sbranch # 0 /\ branch[sbranch] # Content(BaseRef)
Unsaved == Tracked # {} \/ dirty \ before # {}

SaveSession(ok) ==
    LET saved == ok /\ (Unsaved \/ Ahead)
        goes == saved \/ ~Ahead
    IN /\ ok \/ "save" \in Faults
       /\ partial' = IF saved
                     THEN Saved(session, Content(head) \cup (IF Unsaved THEN dirty ELSE {}))
                     ELSE partial
       /\ IF Unsaved /\ ~saved
          THEN UNCHANGED <<branch, head, dirty, untracked, indexed>>
          ELSE /\ dirty' = dirty \cap before
               /\ untracked' = dirty'
               /\ indexed' = FALSE
               /\ \/ sbranch = 0 /\ UNCHANGED <<branch, head>>
                  \/ /\ sbranch # 0
                     /\ head' = BaseRef
                     /\ branch' = IF goes THEN Deleted({sbranch}, BaseRef) ELSE branch
                  \/ sbranch # 0 /\ "checkout" \in Faults /\ UNCHANGED <<branch, head>>

\* the wait is over: the loop goes round again
RateLimited(ok) ==
    /\ pc = "limited"
    /\ SaveSession(ok)
    /\ pc' = "pick"
    /\ sbranch' = 0 /\ own' = {}
    /\ UNCHANGED <<base, parked, merging, red, diskVars, session, tip, span, skip, before,
                   violation, staged, fate, candidate, count, barred, vetoed, highest>>

Interrupted(ok) ==
    /\ pc = "interrupted"
    /\ SaveSession(ok)
    /\ Forget
    /\ UNCHANGED <<base, parked, merging, red, diskVars, count, barred, vetoed, highest>>

------------------------------------------------------------------------------
(* VERIFY: auto-commit, extend the span or stage the merge.                  *)

\* what `add -A` stages: every change, new files included
CommittableTracked == Tracked
Committable == dirty

\* add -A, then commit --no-verify
AutoCommit(ok) ==
    /\ pc = "verify"
    /\ ok \/ "commit" \in Faults
    /\ IF sbranch = 0 \/ dirty = {}
       THEN UNCHANGED <<branch, dirty, untracked, indexed>>
       ELSE IF ok
       THEN /\ branch' = [branch EXCEPT ![sbranch] = @ \cup Committable]
            /\ dirty' = dirty \ Committable
            /\ untracked' = untracked \ Committable
            /\ indexed' = FALSE
       ELSE indexed' = TRUE /\ UNCHANGED <<branch, dirty, untracked>>
    /\ pc' = "stage"
    /\ UNCHANGED <<base, parked, partial, head, merging, red, diskVars, procVars, histVars>>

\* skip_judges: extend the span tip, or leave a vetoed branch orphaned
StageSpan ==
    /\ pc = "stage" /\ skip
    /\ red' = FALSE
    /\ IF red \/ sbranch = 0
       THEN UNCHANGED <<tip, span>>
       ELSE tip' = sbranch /\ span' = span \cup {sbranch}
    /\ pc' = "pick"
    /\ own' = {}
    /\ UNCHANGED <<base, branch, parked, partial, head, dirty, untracked, indexed, merging,
                   diskVars, session, sbranch, skip, before, violation, staged, fate,
                   candidate, count, barred, vetoed, highest>>

\* stage_session checks base out first, unless there is no branch or git refuses
HeadUnlessStaged(result) == IF result = "staged" THEN head ELSE Base
HeadAfter(result) == IF result \in {"none", "checkout_failed"} THEN head ELSE Base

StagedAs(result) ==
    /\ pc = "stage" /\ ~skip
    /\ staged' = result
    /\ pc' = "gate"
    /\ head' = HeadAfter(result)
    /\ UNCHANGED <<base, parked, partial, dirty, untracked, indexed, diskVars, session,
                   sbranch, tip, span, skip, before, violation, fate, histVars>>

NoBranch ==
    /\ sbranch = 0
    /\ StagedAs("none")
    /\ UNCHANGED <<branch, merging, red, candidate>>

CheckoutFailed ==
    /\ sbranch # 0 /\ "checkout" \in Faults
    /\ StagedAs("checkout_failed")
    /\ UNCHANGED <<branch, merging, red, candidate>>

Vetoed ==
    /\ sbranch # 0 /\ red
    /\ StagedAs("vetoed")
    /\ red' = FALSE
    /\ branch' = Deleted({sbranch}, Base)
    /\ UNCHANGED <<merging, candidate>>

NoChanges ==
    /\ sbranch # 0 /\ ~red
    /\ branch[sbranch] \subseteq base
    /\ StagedAs("nochanges")
    /\ branch' = Deleted({sbranch}, Base)
    /\ UNCHANGED <<merging, red, candidate>>

HasCommits == sbranch # 0 /\ ~red /\ ~ branch[sbranch] \subseteq base

\* git merges nothing into an index that differs from HEAD
Conflict ==
    /\ HasCommits
    /\ (indexed /\ dirty # {}) \/ "conflict" \in Faults
    /\ StagedAs("conflict")
    /\ UNCHANGED <<branch, merging, red, candidate>>

StageMerge ==
    /\ HasCommits
    /\ ~ (indexed /\ dirty # {})
    /\ StagedAs("staged")
    /\ merging' = sbranch
    /\ candidate' = branch[sbranch]
    /\ UNCHANGED <<branch, red>>

------------------------------------------------------------------------------
(* GATE: keep_or_rollback, then the call ledger.                             *)

DecisionForgetsViolation(regressed, improved) ==
    CASE staged = "nochanges" -> "no_changes"
      [] staged \in {"none", "vetoed", "conflict", "checkout_failed"} -> "nothing"
      [] staged = "staged" /\ GateRegressions /\ regressed -> "rolled_back"
      [] OTHER -> IF RequireImprovement /\ ~improved THEN "no_improvement" ELSE "merged"

\* a violation, then a regression, then merge_requires_improvement
Decision(regressed, improved) ==
    CASE staged = "nochanges" -> "no_changes"
      [] staged \in {"none", "vetoed", "conflict", "checkout_failed"} -> "nothing"
      [] staged = "staged" /\ (violation \/ (GateRegressions /\ regressed)) -> "rolled_back"
      [] OTHER -> IF RequireImprovement /\ ~improved THEN "no_improvement" ELSE "merged"

\* finalize_session: its result is not looked at
Gate(regressed, improved, ok) ==
    /\ pc = "gate"
    /\ ok \/ "merge_commit" \in Faults
    /\ fate' = Decision(regressed, improved)
    /\ violation' = FALSE
    /\ IF fate' = "merged" /\ ok
       THEN base' = base \cup candidate /\ branch' = Deleted({sbranch}, head)
       ELSE UNCHANGED <<base, branch>>
    /\ merging' = 0
    /\ pc' = "close"
    /\ UNCHANGED <<parked, partial, head, dirty, untracked, indexed, red, diskVars, session,
                   sbranch, tip, span, skip, before, staged, candidate, histVars>>

\* what the rows of this gate say landed
RowsForget == {}
Rows == IF fate = "merged" THEN candidate ELSE {}

\* the verdict rows, then clear_span: every branch of the span but the one git decided about
Close ==
    /\ pc = "close"
    /\ tagged' = tagged \cup Rows
    /\ branch' = Deleted(IF staged = "none" THEN span ELSE span \ {sbranch}, head)
    /\ span' = {} /\ tip' = 0
    /\ pc' = "record"
    /\ UNCHANGED <<base, parked, partial, head, dirty, untracked, indexed, merging, red,
                   run, disk, met, recorded, session, sbranch, skip, before, violation,
                   staged, fate, candidate, histVars>>

\* Landing::Base: a staged merge that was not rolled back
LandedIfStaged == IF staged = "staged" THEN candidate ELSE {}
Landed == IF staged = "staged" /\ fate = "merged" THEN candidate ELSE {}

\* resume::record: Landing::Base is written as a Kept gate
Record ==
    /\ pc = "record"
    /\ recorded' = recorded \cup Landed
    /\ staged' = "none" /\ fate' = "nothing" /\ candidate' = {}
    /\ own' = {}
    /\ pc' = "pick"
    /\ UNCHANGED <<repoVars, run, disk, met, tagged, session, sbranch, tip, span, skip,
                   before, violation, count, barred, vetoed, highest>>

------------------------------------------------------------------------------
(* Run end, crash, the operator between two runs.                            *)

Finish(goalsMet) ==
    /\ pc = "pick"
    /\ met' = goalsMet
    /\ Forget
    /\ UNCHANGED <<repoVars, run, disk, tagged, recorded, count, barred, vetoed, highest>>

\* what an unfinished session made is never judged
Crash ==
    /\ pc # "down"
    /\ barred' = barred \cup (own \ base)
    /\ Forget
    /\ UNCHANGED <<repoVars, diskVars, count, vetoed, highest>>

OperatorEdit ==
    /\ OperatorEdits
    /\ pc = "down" /\ NextWork \in Work /\ run > 0
    /\ count' = NextWork
    /\ dirty' = dirty \cup {NextWork}
    /\ UNCHANGED <<base, branch, parked, partial, head, untracked, indexed, merging, red,
                   diskVars, pc, procVars, own, barred, vetoed, highest>>

StartStep == StartFresh \/ StartResume \/ StartBails \/ Baseline

SessionStep ==
    \/ \E judge, ok \in BOOLEAN : Cut(judge, ok)
    \/ \E newFile \in BOOLEAN : Edit(newFile)
    \/ \E how \in {"verify", "limited", "interrupted"}, veto, violates \in BOOLEAN :
          WorkerExits(how, veto, violates)
    \/ \E ok \in BOOLEAN : RateLimited(ok) \/ Interrupted(ok) \/ AutoCommit(ok)

StageStep ==
    \/ StageSpan
    \/ NoBranch \/ CheckoutFailed \/ Vetoed \/ NoChanges \/ Conflict \/ StageMerge

GateStep ==
    \/ \E regressed, improved, ok \in BOOLEAN : Gate(regressed, improved, ok)
    \/ Close \/ Record

Next ==
    \/ StartStep \/ SessionStep \/ StageStep \/ GateStep
    \/ \E goalsMet \in BOOLEAN : Finish(goalsMet)
    \/ Crash \/ OperatorEdit

Spec == Init /\ [][Next]_vars

------------------------------------------------------------------------------
(* Properties.                                                               *)

\* The shape of the state: the session branch is the one of this session, and a
\* merge is only ever staged on a checked-out base (stage_session).
NumbersOK ==
    /\ count \in 0 .. MaxWork /\ run \in 0 .. MaxRun
    /\ head \in Ref /\ disk \in Ref /\ session \in Ref /\ tip \in Ref
    /\ highest \in Ref /\ merging \in Ref /\ sbranch \in {0, session}
    /\ span \in SUBSET Session

TreesOK ==
    /\ branch \in [Session -> SUBSET Made]
    /\ partial \in [Run -> [Ref -> SUBSET Made]]
    /\ base \in SUBSET Made /\ parked \in SUBSET Made /\ dirty \in SUBSET Made
    /\ untracked \in SUBSET dirty /\ before \in SUBSET Made
    /\ tagged \in SUBSET Made /\ recorded \in SUBSET Made /\ candidate \in SUBSET Made
    /\ own \in SUBSET Made /\ barred \in SUBSET Made /\ vetoed \in SUBSET barred

PhaseOK ==
    /\ pc \in Phases /\ staged \in Stagings /\ fate \in Fates
    /\ merging # 0 => head = Base /\ pc \in {"gate", "down"}
    /\ pc \in {"down", "baseline"} => sbranch = 0

FlagsOK ==
    /\ indexed \in BOOLEAN /\ red \in BOOLEAN /\ met \in BOOLEAN
    /\ skip \in BOOLEAN /\ violation \in BOOLEAN

TypeOK == NumbersOK /\ TreesOK /\ PhaseOK /\ FlagsOK

\* clear_span, "deleting it loses nothing": while the span is open its tip reaches the
\* work of every branch of the span, so the intermediate branches may go with it.
SpanReachable == \A s \in span : tip \in span /\ branch[s] \subseteq branch[tip] \cup base

\* keep_or_rollback commits what the judges graded: a staged merge is graded in a tree
\* without a single uncommitted change, and the branch has not moved since it was staged.
GradedIsMerged ==
    staged = "staged" /\ pc = "gate" =>
        dirty = {} /\ candidate = branch[sbranch] /\ merging = sbranch

\* No step of a run makes work unreachable, except the teardown of a vetoed session and
\* a partial ref written over (save_partial, park_stranded_span, clear_span, create_branch).
LossOnlyByVetoOrOverwrite ==
    [][ \A w \in Held \ Held' :
            \/ "vetoed" \in {staged, staged'}
            \/ \E r \in Run, s \in Ref : w \in partial[r][s] \ partial'[r][s] ]_vars

\* What a vetoed, violating, interrupted, rate-limited or crashed session made never
\* reaches base while git does what it is asked (red_file, span_violation, A-18.3).
BarredStaysOff == base \cap barred = {}

\* CONFIG.md, red_file: "Present => do not merge".
VetoedStaysOff == base \cap vetoed = {}

\* The call ledger says landed only of work that is on base and has merged rows: what
\* `--resume` skips was merged (truncate_to_base, "whose effect LANDED ON BASE").
LedgerIsOnBase == recorded \subseteq base \cap tagged

\* Gated::Merged, "the staged merge was committed onto base": rows tagged merged.
MergedRowsAreOnBase == tagged \subseteq base

\* Whenever a session can start, every piece of base was graded by rows the regression
\* gate reads (landed_met): a crash between the merge commit and its rows is made good by
\* the next baseline.
GateKnowsBase == pc \in {"pick", "work", "verify", "stage"} => base \subseteq tagged

\* clear_span, "deleting it loses nothing".
TeardownLosesNothing == [][ pc = "close" /\ pc' = "record" => Held \subseteq Held' ]_vars

\* CONFIG.md, resume: "The interrupted session's work is on its partial ref".
InterruptedWorkKeepsItsRef ==
    [][ \A r \in Run, s \in Ref :
            partial[r][s] \cap barred \subseteq partial'[r][s] ]_vars

\* CONFIG.md, resume: "session numbers continue after the interrupted session n".
SessionNumbersContinue == pc \in {"pick", "work"} => session = highest
==============================================================================
