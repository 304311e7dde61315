--------------------------- MODULE SpanGateProofs ---------------------------
(* Theorems about SpanGate, for every value of its constants.                *)
EXTENDS SpanGate, TLAPS

------------------------------------------------------------------------------
(* Lemmas about the operators of SpanGate.                                   *)

\* A partial ref holds the work it is given, as a value of the type of `partial`.
LEMMA SavedTyped ==
  ASSUME partial \in [Run -> [Ref -> SUBSET Made]], NEW s, NEW work \in SUBSET Made
  PROVE  Saved(s, work) \in [Run -> [Ref -> SUBSET Made]]
<1> DEFINE row == [partial[run] EXCEPT ![s] = work]
<1>1. CASE run \in Run
  <2>1. row \in [Ref -> SUBSET Made]
    BY <1>1
  <2> QED BY <1>1, <2>1 DEF Saved
<1>2. CASE run \notin Run
  BY <1>2 DEF Saved
<1> QED BY <1>1, <1>2

\* What a tree or a ref holds is a set of the sessions that have run.
LEMMA ContentTyped ==
  ASSUME NumbersOK, TreesOK, NEW r \in Ref
  PROVE  Content(r) \in SUBSET Made
BY DEF NumbersOK, TreesOK, Content, Base, Ref, Session

\* What the branches hold is a set of the sessions that have run.
LEMMA OnBranchesTyped == TreesOK => OnBranches \in SUBSET Made
BY DEF TreesOK, OnBranches

\* save_crashed_session leaves the trees and the parked work in their types.
LEMMA SaveCrashedTyped ==
  ASSUME NumbersOK, TreesOK, SaveCrashedSession
  PROVE  partial' \in [Run -> [Ref -> SUBSET Made]] /\ dirty' \in SUBSET Made
<1>1. CASE Tracked = {}
  BY <1>1 DEF SaveCrashedSession, TreesOK
<1>2. CASE Tracked # {}
  <2>1. Content(head) \cup dirty \in SUBSET Made
    BY ContentTyped DEF NumbersOK, TreesOK
  <2> QED BY <1>2, <2>1, SavedTyped DEF SaveCrashedSession, TreesOK, NumbersOK
<1> QED BY <1>1, <1>2

\* save_and_reset leaves the trees and the partial refs in their types.
LEMMA SaveSessionTyped ==
  ASSUME NumbersOK, TreesOK, NEW ok, SaveSession(ok)
  PROVE  /\ partial' \in [Run -> [Ref -> SUBSET Made]]
         /\ dirty' \in SUBSET Made /\ untracked' \in SUBSET dirty'
         /\ branch' \in [Session -> SUBSET Made]
<1> DEFINE work == Content(head) \cup (IF Unsaved THEN dirty ELSE {})
<1>1. partial' = Saved(session, work) \/ partial' = partial
  BY DEF SaveSession
<1>2. work \in SUBSET Made
  BY ContentTyped DEF NumbersOK, TreesOK
<1>3. partial' \in [Run -> [Ref -> SUBSET Made]]
  BY <1>1, <1>2, SavedTyped DEF TreesOK
<1>4. dirty' \in SUBSET Made /\ untracked' \in SUBSET dirty'
  BY DEF SaveSession, TreesOK
<1>5. branch' = branch \/ branch' = Deleted({sbranch}, BaseRef)
  BY DEF SaveSession
<1>6. branch' \in [Session -> SUBSET Made]
  BY <1>5 DEF TreesOK, Deleted
<1> QED BY <1>3, <1>4, <1>6

\* keep_or_rollback merges nothing but a staged merge
LEMMA DecisionOfStaged ==
  ASSUME NEW regressed, NEW improved, staged \in Stagings,
         Decision(regressed, improved) = "merged"
  PROVE  staged = "staged"
BY Zenon DEF Decision, Stagings

\* keep_or_rollback's answer is one of its four fates.
LEMMA DecisionTyped ==
  ASSUME NEW regressed, NEW improved
  PROVE  Decision(regressed, improved) \in Fates
BY Zenon DEF Decision, Fates

------------------------------------------------------------------------------
(* Type correctness, one lemma per part of TypeOK.                           *)

\* The initial states have their types.
LEMMA TypeInit == Init => TypeOK
<1> SUFFICES ASSUME Init PROVE TypeOK
  OBVIOUS
<1>1. NumbersOK
  BY BoundsAssumption DEF Init, NumbersOK, Ref, Base, Session
<1>2. TreesOK
  BY DEF Init, TreesOK, Made
<1>3. PhaseOK
  BY DEF Init, PhaseOK, Phases, Stagings, Fates
<1>4. FlagsOK
  BY DEF Init, FlagsOK
<1> QED BY <1>1, <1>2, <1>3, <1>4 DEF TypeOK

\* Every step keeps the types of the flags and of the files of the run.
LEMMA FlagsNext == FlagsOK /\ [Next]_vars => FlagsOK'
<1> SUFFICES ASSUME FlagsOK, [Next]_vars PROVE FlagsOK'
  OBVIOUS
<1> USE DEF FlagsOK, repoVars, diskVars, procVars, histVars, Begin, Forget
<1>1. CASE StartStep
  <2>1. CASE StartFresh BY <2>1 DEF StartFresh
  <2>2. CASE StartResume BY <2>2 DEF StartResume, SaveCrashedSession
  <2>3. CASE StartBails BY <2>3 DEF StartBails, SaveCrashedSession
  <2>4. CASE Baseline BY <2>4 DEF Baseline
  <2> QED BY <1>1, <2>1, <2>2, <2>3, <2>4 DEF StartStep
<1>2. CASE SessionStep
  <2>1. ASSUME NEW judge \in BOOLEAN, NEW ok, Cut(judge, ok) PROVE FlagsOK'
    BY <2>1 DEF Cut
  <2>2. ASSUME NEW newFile, Edit(newFile) PROVE FlagsOK'
    BY <2>2 DEF Edit
  <2>3. ASSUME NEW how, NEW veto \in BOOLEAN, NEW violates, WorkerExits(how, veto, violates)
        PROVE  FlagsOK'
    BY <2>3 DEF WorkerExits
  <2>4. ASSUME NEW ok, RateLimited(ok) PROVE FlagsOK'
    BY <2>4 DEF RateLimited, SaveSession
  <2>5. ASSUME NEW ok, Interrupted(ok) PROVE FlagsOK'
    BY <2>5 DEF Interrupted, SaveSession
  <2>6. ASSUME NEW ok, AutoCommit(ok) PROVE FlagsOK'
    BY <2>6 DEF AutoCommit
  <2> QED BY <1>2, <2>1, <2>2, <2>3, <2>4, <2>5, <2>6 DEF SessionStep
<1>3. CASE StageStep
  BY <1>3 DEF StageStep, StageSpan, StagedAs, NoBranch, CheckoutFailed, Vetoed, NoChanges,
              Conflict, StageMerge
<1>4. CASE GateStep
  BY <1>4 DEF GateStep, Gate, Close, Record
<1>5. CASE \E goalsMet \in BOOLEAN : Finish(goalsMet)
  BY <1>5 DEF Finish
<1>6. CASE Crash \/ OperatorEdit
  BY <1>6 DEF Crash, OperatorEdit
<1>7. CASE UNCHANGED vars
  BY <1>7 DEF vars
<1> QED BY <1>1, <1>2, <1>3, <1>4, <1>5, <1>6, <1>7 DEF Next

\* Every step keeps the types of the session numbers and counters.
LEMMA NumbersNext == NumbersOK /\ PhaseOK /\ [Next]_vars => NumbersOK'
<1> SUFFICES ASSUME NumbersOK, PhaseOK, [Next]_vars PROVE NumbersOK'
  OBVIOUS
<1> USE BoundsAssumption
    DEF NumbersOK, PhaseOK, Ref, Session, Base, repoVars, diskVars, procVars, histVars,
        Begin, Forget
<1>1. CASE StartStep
  <2>1. CASE StartFresh BY <2>1 DEF StartFresh, ParkStrandedSpan
  <2>2. CASE StartResume BY <2>2 DEF StartResume, ParkStrandedSpan
  <2>3. CASE StartBails BY <2>3 DEF StartBails
  <2>4. CASE Baseline BY <2>4 DEF Baseline
  <2> QED BY <1>1, <2>1, <2>2, <2>3, <2>4 DEF StartStep
<1>2. CASE SessionStep
  <2>1. ASSUME NEW judge, NEW ok, Cut(judge, ok) PROVE NumbersOK'
    BY <2>1 DEF Cut
  <2>2. ASSUME NEW newFile, Edit(newFile) PROVE NumbersOK'
    BY <2>2 DEF Edit, NextWork, Work
  <2>3. ASSUME NEW how, NEW veto, NEW violates, WorkerExits(how, veto, violates)
        PROVE  NumbersOK'
    BY <2>3 DEF WorkerExits
  <2>4. ASSUME NEW ok, RateLimited(ok) PROVE NumbersOK'
    BY <2>4 DEF RateLimited, SaveSession, BaseRef
  <2>5. ASSUME NEW ok, Interrupted(ok) PROVE NumbersOK'
    BY <2>5 DEF Interrupted, SaveSession, BaseRef
  <2>6. ASSUME NEW ok, AutoCommit(ok) PROVE NumbersOK'
    BY <2>6 DEF AutoCommit
  <2> QED BY <1>2, <2>1, <2>2, <2>3, <2>4, <2>5, <2>6 DEF SessionStep
<1>3. CASE StageStep
  <2>1. CASE StageSpan
    <3>1. \/ tip' = tip /\ span' = span
          \/ tip' = sbranch /\ span' = span \cup {sbranch} /\ sbranch # 0
      BY <2>1 DEF StageSpan
    <3>2. sbranch # 0 => sbranch \in Session
      OBVIOUS
    <3>3. tip' \in Ref /\ span' \in SUBSET Session
      BY <3>1, <3>2
    <3> QED BY <2>1, <3>3 DEF StageSpan
  <2>2. CASE StageMerge BY <2>2 DEF StageMerge, StagedAs, HeadAfter
  <2>3. CASE NoBranch \/ CheckoutFailed \/ Vetoed \/ NoChanges \/ Conflict
    BY <2>3 DEF NoBranch, CheckoutFailed, Vetoed, NoChanges, Conflict, StagedAs, HeadAfter
  <2> QED BY <1>3, <2>1, <2>2, <2>3 DEF StageStep
<1>4. CASE GateStep
  BY <1>4 DEF GateStep, Gate, Close, Record
<1>5. CASE \E goalsMet \in BOOLEAN : Finish(goalsMet)
  BY <1>5 DEF Finish
<1>6. CASE Crash
  BY <1>6 DEF Crash
<1>7. CASE OperatorEdit
  BY <1>7 DEF OperatorEdit, NextWork, Work
<1>8. CASE UNCHANGED vars
  BY <1>8 DEF vars
<1> QED BY <1>1, <1>2, <1>3, <1>4, <1>5, <1>6, <1>7, <1>8 DEF Next

\* Every step keeps the types of the branches, the refs and the work tree.
LEMMA TreesNext == NumbersOK /\ TreesOK /\ [Next]_vars => TreesOK'
<1> SUFFICES ASSUME NumbersOK, TreesOK, [Next]_vars PROVE TreesOK'
  OBVIOUS
<1> USE DEF TreesOK, Made, repoVars, diskVars, procVars, histVars, Begin, Forget, StagedAs
<1>1. CASE StartStep
  <2>1. CASE StartFresh
    BY <2>1, OnBranchesTyped DEF StartFresh, ParkStrandedSpan
  <2>2. CASE StartResume
    BY <2>2, OnBranchesTyped, SaveCrashedTyped DEF StartResume, ParkStrandedSpan
  <2>3. CASE StartBails
    BY <2>3, SaveCrashedTyped DEF StartBails
  <2>4. CASE Baseline
    BY <2>4 DEF Baseline
  <2> QED BY <1>1, <2>1, <2>2, <2>3, <2>4 DEF StartStep
<1>2. CASE SessionStep
  <2>1. ASSUME NEW judge, NEW ok, Cut(judge, ok) PROVE TreesOK'
    <3>1. Content(BaseRef) \in SUBSET Made
      BY ContentTyped DEF NumbersOK, BaseRef
    <3> QED BY <2>1, <3>1 DEF Cut, Deleted
  <2>2. ASSUME NEW newFile, Edit(newFile) PROVE TreesOK'
    BY <2>2, BoundsAssumption DEF Edit, NextWork, Work, NumbersOK
  <2>3. ASSUME NEW how, NEW veto, NEW violates, WorkerExits(how, veto, violates)
        PROVE  TreesOK'
    BY <2>3 DEF WorkerExits
  <2>4. ASSUME NEW ok, RateLimited(ok) PROVE TreesOK'
    BY <2>4, SaveSessionTyped DEF RateLimited
  <2>5. ASSUME NEW ok, Interrupted(ok) PROVE TreesOK'
    BY <2>5, SaveSessionTyped DEF Interrupted
  <2>6. ASSUME NEW ok, AutoCommit(ok) PROVE TreesOK'
    <3>1. /\ UNCHANGED <<base, parked, partial, before, tagged, recorded, candidate, own, barred, vetoed, count>>
          /\ sbranch \in Session \/ sbranch = 0
      BY <2>6 DEF AutoCommit, NumbersOK, Ref, Session
    <3>2. branch' \in [Session -> SUBSET Made]
      BY <2>6, <3>1 DEF AutoCommit, Committable
    <3>3. dirty' \in SUBSET Made /\ untracked' \in SUBSET dirty'
      BY <2>6 DEF AutoCommit, Committable
    <3> QED BY <3>1, <3>2, <3>3
  <2> QED BY <1>2, <2>1, <2>2, <2>3, <2>4, <2>5, <2>6 DEF SessionStep
<1>3. CASE StageStep
  <2>1. CASE StageSpan BY <2>1 DEF StageSpan
  <2>2. CASE StageMerge
    <3>1. sbranch \in Session
      BY <2>2 DEF StageMerge, HasCommits, NumbersOK, Ref, Session
    <3>2. candidate' \in SUBSET Made
      BY <2>2, <3>1 DEF StageMerge
    <3> QED BY <2>2, <3>2 DEF StageMerge
  <2>3. CASE NoBranch \/ CheckoutFailed \/ Vetoed \/ NoChanges \/ Conflict
    BY <2>3 DEF NoBranch, CheckoutFailed, Vetoed, NoChanges, Conflict, Deleted
  <2> QED BY <1>3, <2>1, <2>2, <2>3 DEF StageStep
<1>4. CASE GateStep
  <2>1. ASSUME NEW regressed, NEW improved, NEW ok, Gate(regressed, improved, ok)
        PROVE  TreesOK'
    BY <2>1 DEF Gate, Deleted
  <2>2. CASE Close BY <2>2 DEF Close, Rows, Deleted
  <2>3. CASE Record BY <2>3 DEF Record, Landed
  <2> QED BY <1>4, <2>1, <2>2, <2>3 DEF GateStep
<1>5. CASE \E goalsMet \in BOOLEAN : Finish(goalsMet)
  BY <1>5 DEF Finish
<1>6. CASE Crash
  BY <1>6 DEF Crash
<1>7. CASE OperatorEdit
  BY <1>7, BoundsAssumption DEF OperatorEdit, NextWork, Work, NumbersOK
<1>8. CASE UNCHANGED vars
  BY <1>8 DEF vars
<1> QED BY <1>1, <1>2, <1>3, <1>4, <1>5, <1>6, <1>7, <1>8 DEF Next

\* Every step keeps the types of the phase and of what the phase carries.
LEMMA PhaseNext == NumbersOK /\ PhaseOK /\ [Next]_vars => PhaseOK'
<1> SUFFICES ASSUME NumbersOK, PhaseOK, [Next]_vars PROVE PhaseOK'
  OBVIOUS
<1> USE DEF PhaseOK, Phases, Stagings, repoVars, diskVars, procVars, histVars, Begin, Forget
<1>1. CASE StartStep
  BY <1>1 DEF StartStep, StartFresh, StartResume, StartBails, Baseline, Fates
<1>2. CASE SessionStep
  BY <1>2 DEF SessionStep, Cut, Edit, WorkerExits, RateLimited, Interrupted, AutoCommit,
              Fates
<1>3. CASE StageStep
  BY <1>3 DEF StageStep, StageSpan, StagedAs, HeadAfter, NoBranch, CheckoutFailed, Vetoed,
              NoChanges, Conflict, StageMerge, HasCommits, Fates
<1>4. CASE GateStep
  <2>1. ASSUME NEW regressed, NEW improved, NEW ok, Gate(regressed, improved, ok)
        PROVE  PhaseOK'
    BY <2>1, DecisionTyped DEF Gate
  <2>2. CASE Close BY <2>2 DEF Close
  <2>3. CASE Record BY <2>3 DEF Record, Fates
  <2> QED BY <1>4, <2>1, <2>2, <2>3 DEF GateStep
<1>5. CASE \E goalsMet \in BOOLEAN : Finish(goalsMet)
  BY <1>5 DEF Finish, Fates
<1>6. CASE Crash \/ OperatorEdit
  BY <1>6 DEF Crash, OperatorEdit, Fates
<1>7. CASE UNCHANGED vars
  BY <1>7 DEF vars
<1> QED BY <1>1, <1>2, <1>3, <1>4, <1>5, <1>6, <1>7 DEF Next

\* Every step keeps the type invariant.
LEMMA TypeNext == TypeOK /\ [Next]_vars => TypeOK'
BY FlagsNext, NumbersNext, TreesNext, PhaseNext DEF TypeOK

\* The shape of the state is kept by every step of a run, of a crash and of a restart.
THEOREM TypeCorrect == Spec => []TypeOK
BY TypeInit, TypeNext, PTL DEF Spec
------------------------------------------------------------------------------
(* Merges: what is graded is what is committed, what is recorded landed.     *)

\* What the phases of the gate know of the merge they decide about.
GateInv ==
    /\ pc \notin {"gate", "close", "record"} => staged = "none" /\ fate = "nothing"
    /\ pc = "gate" => fate = "nothing"
    /\ pc = "stage" /\ sbranch # 0 => dirty = {} \/ indexed
    /\ GradedIsMerged
    /\ fate = "merged" => staged = "staged"
    /\ pc = "record" => Rows \subseteq tagged
    /\ "merge_commit" \notin Faults => Rows \subseteq base

\* Every step keeps GateInv.
LEMMA GateInvNext == PhaseOK /\ GateInv /\ [Next]_vars => GateInv'
<1> SUFFICES ASSUME PhaseOK, GateInv, [Next]_vars PROVE GateInv'
  OBVIOUS
<1> USE DEF GateInv, GradedIsMerged, Rows, repoVars, diskVars, procVars, histVars, Begin,
            Forget, StagedAs
<1>1. CASE StartStep
  BY <1>1 DEF StartStep, StartFresh, StartResume, StartBails, Baseline
<1>2. CASE SessionStep
  BY <1>2 DEF SessionStep, Cut, Edit, WorkerExits, RateLimited, Interrupted, AutoCommit,
              SaveSession, Committable
<1>3. CASE StageStep
  BY <1>3 DEF StageStep, StageSpan, NoBranch, CheckoutFailed, Vetoed, NoChanges, Conflict,
              StageMerge, HasCommits
<1>4. CASE GateStep
  <2>1. ASSUME NEW regressed, NEW improved, NEW ok, Gate(regressed, improved, ok)
        PROVE  GateInv'
    <3>1. fate' = "merged" => staged = "staged"
      BY <2>1, DecisionOfStaged DEF Gate, PhaseOK
    <3>2. fate' = "merged" /\ ok => base' = base \cup candidate
      BY <2>1 DEF Gate
    <3>3. "merge_commit" \notin Faults => ok
      BY <2>1 DEF Gate
    <3>4. pc' = "close" /\ staged' = staged /\ candidate' = candidate /\ pc = "gate"
      BY <2>1 DEF Gate
    <3> QED BY <3>1, <3>2, <3>3, <3>4
  <2>2. CASE Close BY <2>2 DEF Close
  <2>3. CASE Record BY <2>3 DEF Record
  <2> QED BY <1>4, <2>1, <2>2, <2>3 DEF GateStep
<1>5. CASE \E goalsMet \in BOOLEAN : Finish(goalsMet)
  BY <1>5 DEF Finish
<1>6. CASE Crash \/ OperatorEdit
  BY <1>6 DEF Crash, OperatorEdit
<1>7. CASE UNCHANGED vars
  BY <1>7 DEF vars
<1> QED BY <1>1, <1>2, <1>3, <1>4, <1>5, <1>6, <1>7 DEF Next

LedgerInv ==
    /\ recorded \subseteq tagged
    /\ "merge_commit" \notin Faults => recorded \subseteq base

\* Every step keeps LedgerInv.
LEMMA LedgerInvNext == GateInv /\ LedgerInv /\ [Next]_vars => LedgerInv'
<1> SUFFICES ASSUME GateInv, LedgerInv, [Next]_vars PROVE LedgerInv'
  OBVIOUS
<1> USE DEF LedgerInv, repoVars, diskVars, procVars, histVars, Begin, Forget, StagedAs
<1>1. CASE StartStep
  BY <1>1 DEF StartStep, StartFresh, StartResume, StartBails, Baseline
<1>2. CASE SessionStep
  BY <1>2 DEF SessionStep, Cut, Edit, WorkerExits, RateLimited, Interrupted, AutoCommit
<1>3. CASE StageStep
  BY <1>3 DEF StageStep, StageSpan, NoBranch, CheckoutFailed, Vetoed, NoChanges, Conflict,
              StageMerge
<1>4. CASE GateStep
  <2>1. ASSUME NEW regressed, NEW improved, NEW ok, Gate(regressed, improved, ok)
        PROVE  LedgerInv'
    <3>1. base \subseteq base'
      BY <2>1 DEF Gate
    <3> QED BY <2>1, <3>1 DEF Gate
  <2>2. CASE Close BY <2>2 DEF Close
  <2>3. CASE Record BY <2>3 DEF Record, GateInv, Rows, Landed
  <2> QED BY <1>4, <2>1, <2>2, <2>3 DEF GateStep
<1>5. CASE \E goalsMet \in BOOLEAN : Finish(goalsMet)
  BY <1>5 DEF Finish
<1>6. CASE Crash \/ OperatorEdit
  BY <1>6 DEF Crash, OperatorEdit
<1>7. CASE UNCHANGED vars
  BY <1>7 DEF vars
<1> QED BY <1>1, <1>2, <1>3, <1>4, <1>5, <1>6, <1>7 DEF Next

\* What the rows know of base: all of it, but between a merge commit and its rows.
RowsInv ==
    /\ pc \notin {"down", "baseline", "close"} => base \subseteq tagged
    /\ pc = "close" => base \subseteq tagged \cup Rows

\* Every step keeps RowsInv.
LEMMA RowsInvNext == GateInv /\ RowsInv /\ [Next]_vars => RowsInv'
<1> SUFFICES ASSUME GateInv, RowsInv, [Next]_vars PROVE RowsInv'
  OBVIOUS
<1> USE DEF RowsInv, Rows, repoVars, diskVars, procVars, histVars, Begin, Forget, StagedAs
<1>1. CASE StartStep
  BY <1>1 DEF StartStep, StartFresh, StartResume, StartBails, Baseline
<1>2. CASE SessionStep
  BY <1>2 DEF SessionStep, Cut, Edit, WorkerExits, RateLimited, Interrupted, AutoCommit
<1>3. CASE StageStep
  BY <1>3 DEF StageStep, StageSpan, NoBranch, CheckoutFailed, Vetoed, NoChanges, Conflict,
              StageMerge
<1>4. CASE GateStep
  <2>1. ASSUME NEW regressed, NEW improved, NEW ok, Gate(regressed, improved, ok)
        PROVE  RowsInv'
    <3>1. base' = base \/ (fate' = "merged" /\ base' = base \cup candidate)
      BY <2>1 DEF Gate
    <3>2. /\ pc = "gate" /\ pc' = "close" /\ tagged' = tagged
          /\ candidate' = candidate
      BY <2>1 DEF Gate
    <3> QED BY <3>1, <3>2
  <2>2. CASE Close BY <2>2 DEF Close
  <2>3. CASE Record BY <2>3 DEF Record
  <2> QED BY <1>4, <2>1, <2>2, <2>3 DEF GateStep
<1>5. CASE \E goalsMet \in BOOLEAN : Finish(goalsMet)
  BY <1>5 DEF Finish
<1>6. CASE Crash \/ OperatorEdit
  BY <1>6 DEF Crash, OperatorEdit
<1>7. CASE UNCHANGED vars
  BY <1>7 DEF vars
<1> QED BY <1>1, <1>2, <1>3, <1>4, <1>5, <1>6, <1>7 DEF Next

MergeInv == TypeOK /\ GateInv /\ LedgerInv /\ RowsInv

\* The inductive invariant of merging holds in every reachable state.
LEMMA MergeInvCorrect == Spec => []MergeInv
<1>1. Init => MergeInv
  <2> SUFFICES ASSUME Init PROVE GateInv /\ LedgerInv /\ RowsInv
    BY TypeInit DEF MergeInv
  <2> QED BY DEF Init, GateInv, GradedIsMerged, LedgerInv, RowsInv, Rows
<1>2. MergeInv /\ [Next]_vars => MergeInv'
  BY TypeNext, GateInvNext, LedgerInvNext, RowsInvNext DEF MergeInv, TypeOK
<1> QED BY <1>1, <1>2, PTL DEF Spec

\* Whatever the faults, the tree the judges grade holds exactly the commits the gate
\* decides about.
THEOREM GradedWorkIsMerged == Spec => []GradedIsMerged
<1>1. MergeInv => GradedIsMerged
  BY DEF MergeInv, GateInv
<1> QED BY <1>1, MergeInvCorrect, PTL

\* Whatever the faults, crashes included, no session starts over a base that holds work
\* no verdict row knows of.
THEOREM BaseIsGraded == Spec => []GateKnowsBase
<1>1. MergeInv => GateKnowsBase
  BY DEF MergeInv, RowsInv, GateKnowsBase
<1> QED BY <1>1, MergeInvCorrect, PTL

\* If no merge commit fails, the call ledger says landed only of work that is on base.
THEOREM LedgerIsHonest == ASSUME "merge_commit" \notin Faults PROVE Spec => []LedgerIsOnBase
<1>1. MergeInv => LedgerIsOnBase
  BY DEF MergeInv, LedgerInv, LedgerIsOnBase
<1> QED BY <1>1, MergeInvCorrect, PTL
------------------------------------------------------------------------------
(* The span: its tip reaches the work of its branches.                       *)

\* A session that is at work is no part of the span yet; its branch was cut from the tip.
SpanInv ==
    /\ pc \in {"down", "baseline"} => tip = 0
    /\ tip = 0 => span = {}
    /\ tip # 0 => tip \in span
    /\ \A s \in span : s =< session
    /\ pc \notin {"down", "baseline", "pick"} => session \notin span
    /\ \A s \in span : branch[s] \subseteq branch[tip] \cup base
    /\ pc \in {"work", "limited", "interrupted", "verify", "stage"} /\ sbranch # 0 =>
          Content(tip) \subseteq branch[sbranch]

\* deleting the branch of a session outside the span leaves the span's branches alone
LEMMA DeletedOutsideSpan ==
  ASSUME NumbersOK, NEW doomed, NEW on, span \cap doomed = {}
  PROVE  \A s \in span : Deleted(doomed, on)[s] = branch[s]
BY DEF NumbersOK, Deleted

\* Every step keeps SpanInv.
LEMMA SpanInvNext == NumbersOK /\ TreesOK /\ PhaseOK /\ SpanInv /\ [Next]_vars => SpanInv'
<1> SUFFICES ASSUME NumbersOK, TreesOK, PhaseOK, SpanInv, [Next]_vars PROVE SpanInv'
  OBVIOUS
<1> USE DEF SpanInv, Content, Base, repoVars, diskVars, procVars, histVars
<1>0. session \in Nat /\ span \subseteq Session /\ tip \in Nat /\ 0 \notin Session
  BY BoundsAssumption DEF NumbersOK, Ref, Session
<1>1. CASE StartStep
  BY <1>1 DEF StartStep, StartFresh, StartResume, StartBails, Baseline, Begin,
              ParkStrandedSpan
<1>2. CASE SessionStep
  <2>1. ASSUME NEW judge, NEW ok, Cut(judge, ok) PROVE SpanInv'
    <3> DEFINE s == session + 1
               fresh == Deleted({s}, head)
    <3>1. s \in Session /\ s \notin span /\ s # tip /\ s # 0
      BY <1>0, <2>1, BoundsAssumption DEF Cut, Session
    <3>2. \A r \in span : fresh[r] = branch[r]
      BY <3>1, DeletedOutsideSpan
    <3>3. /\ session' = s /\ tip' = tip /\ span' = span /\ base' = base /\ pc' = "work"
          /\ pc = "pick"
      BY <2>1 DEF Cut
    <3>4. \/ branch' = fresh /\ sbranch' = 0
          \/ branch' = [fresh EXCEPT ![s] = Content(tip)] /\ sbranch' = s
      BY <2>1 DEF Cut, BaseRef
    <3>5. \A r \in span : branch'[r] = branch[r]
      BY <1>0, <3>1, <3>2, <3>4 DEF Deleted
    <3>6. sbranch' # 0 => branch'[sbranch'] = Content(tip)
      BY <3>1, <3>4 DEF Deleted
    <3>7. Content(tip)' = Content(tip)
      BY <3>3, <3>5
    <3>8. \A r \in span : r =< s
      BY <1>0 DEF Session
    <3> QED BY <3>1, <3>3, <3>5, <3>6, <3>7, <3>8
  <2>2. ASSUME NEW newFile, Edit(newFile) PROVE SpanInv'
    BY <2>2 DEF Edit
  <2>3. ASSUME NEW how \in {"verify", "limited", "interrupted"}, NEW veto, NEW violates,
               WorkerExits(how, veto, violates)
        PROVE  SpanInv'
    BY <2>3 DEF WorkerExits
  <2>4. ASSUME NEW ok, RateLimited(ok) PROVE SpanInv'
    <3>1. branch' = branch \/ (sbranch # 0 /\ branch' = Deleted({sbranch}, BaseRef))
      BY <2>4 DEF RateLimited, SaveSession
    <3>2. sbranch # 0 => sbranch \notin span
      BY <2>4 DEF RateLimited, NumbersOK
    <3>3. \A r \in span : branch'[r] = branch[r]
      BY <3>1, <3>2, DeletedOutsideSpan
    <3>4. /\ session' = session /\ tip' = tip /\ span' = span /\ base' = base
          /\ pc' = "pick" /\ pc = "limited"
      BY <2>4 DEF RateLimited
    <3> QED BY <3>3, <3>4
  <2>5. ASSUME NEW ok, Interrupted(ok) PROVE SpanInv'
    BY <2>5 DEF Interrupted, Forget
  <2>6. ASSUME NEW ok, AutoCommit(ok) PROVE SpanInv'
    <3>1. /\ session' = session /\ tip' = tip /\ span' = span /\ base' = base
          /\ pc' = "stage" /\ pc = "verify" /\ sbranch' = sbranch
      BY <2>6 DEF AutoCommit
    <3>2. \/ branch' = branch
          \/ /\ sbranch # 0
             /\ branch' = [branch EXCEPT ![sbranch] = @ \cup Committable]
      BY <2>6 DEF AutoCommit
    <3>3. sbranch # 0 => sbranch \notin span /\ sbranch \in Session
      BY <3>1, BoundsAssumption DEF NumbersOK, Ref, Session
    <3>4. \A r \in span : branch'[r] = branch[r]
      BY <1>0, <3>2, <3>3 DEF TreesOK
    <3>5. sbranch # 0 => branch[sbranch] \subseteq branch'[sbranch]
      BY <3>2, <3>3 DEF TreesOK
    <3>6. Content(tip)' = Content(tip)
      BY <3>1, <3>4
    <3> QED BY <3>1, <3>4, <3>5, <3>6
  <2> QED BY <1>2, <2>1, <2>2, <2>3, <2>4, <2>5, <2>6 DEF SessionStep
<1>3. CASE StageStep
  <2>1. CASE StageSpan
    <3>1. /\ session' = session /\ base' = base /\ branch' = branch /\ sbranch' = sbranch
          /\ pc' = "pick" /\ pc = "stage"
      BY <2>1 DEF StageSpan
    <3>2. \/ tip' = tip /\ span' = span
          \/ tip' = sbranch /\ span' = span \cup {sbranch} /\ sbranch # 0
      BY <2>1 DEF StageSpan
    <3>3. sbranch # 0 => sbranch = session
      BY DEF NumbersOK
    <3>4. ASSUME tip' = sbranch, span' = span \cup {sbranch}, sbranch # 0 PROVE SpanInv'
      <4>1. \A s \in span : branch[s] \subseteq branch[sbranch] \cup base
        BY <3>1, <3>4
      <4>2. \A s \in span' : s =< session
        BY <1>0, <3>3, <3>4
      <4> QED BY <3>1, <3>4, <4>1, <4>2
    <3> QED BY <3>1, <3>2, <3>4
  <2>2. CASE NoBranch \/ CheckoutFailed \/ Conflict \/ StageMerge
    BY <2>2 DEF NoBranch, CheckoutFailed, Conflict, StageMerge, StagedAs
  <2>3. CASE Vetoed \/ NoChanges
    <3>1. /\ session' = session /\ base' = base /\ tip' = tip /\ span' = span
          /\ pc' = "gate" /\ pc = "stage" /\ sbranch # 0
          /\ branch' = Deleted({sbranch}, Base)
      BY <2>3 DEF Vetoed, NoChanges, StagedAs
    <3>2. sbranch \notin span
      BY <3>1 DEF NumbersOK
    <3>3. \A r \in span : branch'[r] = branch[r]
      BY <3>1, <3>2, DeletedOutsideSpan
    <3> QED BY <3>1, <3>3
  <2> QED BY <1>3, <2>1, <2>2, <2>3 DEF StageStep
<1>4. CASE GateStep
  <2>1. ASSUME NEW regressed, NEW improved, NEW ok, Gate(regressed, improved, ok)
        PROVE  SpanInv'
    <3>1. /\ session' = session /\ tip' = tip /\ span' = span /\ base \subseteq base'
          /\ pc' = "close" /\ pc = "gate"
      BY <2>1 DEF Gate
    <3>2. branch' = branch \/ branch' = Deleted({sbranch}, head)
      BY <2>1 DEF Gate
    <3>3. sbranch \notin span
      BY <1>0, <3>1 DEF NumbersOK
    <3>4. \A r \in span : branch'[r] = branch[r]
      BY <3>2, <3>3, DeletedOutsideSpan
    <3> QED BY <3>1, <3>4
  <2>2. CASE Close BY <2>2 DEF Close
  <2>3. CASE Record BY <2>3 DEF Record
  <2> QED BY <1>4, <2>1, <2>2, <2>3 DEF GateStep
<1>5. CASE \E goalsMet \in BOOLEAN : Finish(goalsMet)
  BY <1>5 DEF Finish, Forget
<1>6. CASE Crash \/ OperatorEdit
  BY <1>6 DEF Crash, OperatorEdit, Forget
<1>7. CASE UNCHANGED vars
  BY <1>7 DEF vars
<1> QED BY <1>1, <1>2, <1>3, <1>4, <1>5, <1>6, <1>7 DEF Next

\* SpanInv holds in every reachable state.
LEMMA SpanInvCorrect == Spec => [](TypeOK /\ SpanInv)
<1>1. Init => TypeOK /\ SpanInv
  <2> SUFFICES ASSUME Init PROVE SpanInv
    BY TypeInit
  <2> QED BY DEF Init, SpanInv
<1>2. TypeOK /\ SpanInv /\ [Next]_vars => (TypeOK /\ SpanInv)'
  BY TypeNext, SpanInvNext DEF TypeOK
<1> QED BY <1>1, <1>2, PTL DEF Spec

\* Whatever the faults, deleting the intermediate branches of a span whose tip landed
\* deletes no work.
THEOREM SpanTeardownIsSafe == Spec => []SpanReachable
<1>1. TypeOK /\ SpanInv => SpanReachable
  BY DEF SpanInv, SpanReachable
<1> QED BY <1>1, SpanInvCorrect, PTL
------------------------------------------------------------------------------
(* What is barred stays off base, while git does what it is asked.           *)

\* git may refuse a checkout or a merge, and workers only edit tracked files
CleanFaults == Faults \subseteq {"conflict", "checkout"} /\ ~NewFiles

\* Work that is barred is out of the tip's reach, or the run knows of a violation that
\* the next gate will roll back; a session's own work is in nothing but its tree and
\* its branch until it is judged.
BarredInv ==
    /\ untracked = {} /\ before = {} /\ indexed = FALSE
    /\ BarredStaysOff
    /\ pc \in {"baseline", "pick", "stage", "gate", "close", "record"} => dirty = {}
    /\ pc \in {"work", "verify"} => dirty \subseteq own
    /\ pc \in {"work", "verify", "stage"} => sbranch # 0
    /\ pc \in {"baseline", "pick", "work", "limited", "verify", "stage", "record"} =>
          violation \/ Content(tip) \cap barred = {}
    /\ pc = "work" => own \cap (barred \cup base \cup Content(tip) \cup branch[sbranch]) = {}
    /\ pc = "work" => violation \/ branch[sbranch] \cap barred = {}
    /\ pc = "verify" => red \/ violation \/ (own \cup branch[sbranch]) \cap barred = {}
    /\ pc = "stage" => red \/ violation \/ branch[sbranch] \cap barred = {}
    /\ pc = "gate" /\ staged = "staged" => violation \/ candidate \cap barred = {}

\* A session that broke a protected path is never kept.
LEMMA DecisionOfViolation ==
  ASSUME NEW regressed, NEW improved, staged \in Stagings, violation
  PROVE  Decision(regressed, improved) # "merged"
BY Zenon DEF Decision, Stagings

\* Deleting a branch adds no work to any branch.
LEMMA DeletedShrinks ==
  ASSUME TreesOK, NEW doomed, NEW on, NEW r \in Session
  PROVE  Deleted(doomed, on)[r] \subseteq branch[r]
BY DEF TreesOK, Deleted

\* Every step keeps BarredInv.
LEMMA BarredInvNext ==
  ASSUME CleanFaults
  PROVE  TypeOK /\ SpanInv /\ GateInv /\ BarredInv /\ [Next]_vars => BarredInv'
<1> SUFFICES ASSUME TypeOK, SpanInv, GateInv, BarredInv, [Next]_vars PROVE BarredInv'
  OBVIOUS
<1> USE DEF BarredInv, BarredStaysOff, repoVars, diskVars, procVars, histVars
<1>0. /\ NumbersOK /\ TreesOK /\ PhaseOK
      /\ {"cut", "commit", "merge_commit", "save"} \cap Faults = {}
  BY DEF TypeOK, CleanFaults
<1>a. tip = 0 \/ tip \in Session
  BY <1>0 DEF NumbersOK, Ref, Session
<1>1. CASE StartStep
  <2>1. CASE StartFresh
    BY <2>1 DEF StartFresh, Begin, Tracked, SpanInv, Content, Base
  <2>2. CASE StartResume
    BY <2>2 DEF StartResume, SaveCrashedSession, Begin, Tracked, SpanInv, Content, Base
  <2>3. CASE StartBails
    BY <2>3 DEF StartBails, SaveCrashedSession, Tracked
  <2>4. CASE Baseline
    BY <2>4 DEF Baseline, Content
  <2> QED BY <1>1, <2>1, <2>2, <2>3, <2>4 DEF StartStep
<1>2. CASE SessionStep
  <2>1. ASSUME NEW judge, NEW ok, Cut(judge, ok) PROVE BarredInv'
    <3> DEFINE s == session + 1
               fresh == Deleted({s}, head)
    <3>1. /\ pc = "pick" /\ pc' = "work" /\ own' = {} /\ before' = {} /\ dirty = {}
          /\ UNCHANGED <<base, dirty, untracked, indexed, tip, violation, barred>>
      BY <2>1 DEF Cut
    <3>2. ok /\ s \in Session
      BY <1>0, <2>1, BoundsAssumption DEF Cut, NumbersOK, Ref, Session
    <3>3. branch' = [fresh EXCEPT ![s] = Content(tip)] /\ sbranch' = s
      BY <2>1, <3>2 DEF Cut, BaseRef
    <3>4. branch'[sbranch'] = Content(tip) /\ sbranch' # 0
      BY <3>2, <3>3 DEF Deleted, Session
    <3>5. tip \in Session => branch'[tip] \subseteq Content(tip)
      BY <1>0, <3>2, <3>3, DeletedShrinks DEF Content, Base, Deleted, Session
    <3>6. Content(tip)' \subseteq Content(tip)
      BY <1>a, <3>1, <3>5 DEF Content, Base
    <3> QED BY <3>1, <3>4, <3>6
  <2>2. ASSUME NEW newFile \in BOOLEAN, Edit(newFile) PROVE BarredInv'
    <3>1. NextWork \notin Made
      BY <1>0 DEF NumbersOK, NextWork, Made
    <3>2. NextWork \notin barred \cup base \cup Content(tip) \cup branch[sbranch]
      <4>1. Content(tip) \in SUBSET Made
        BY <1>0, ContentTyped DEF NumbersOK
      <4>2. sbranch \in Session
        BY <1>0, <2>2 DEF Edit, NumbersOK, Ref, Session
      <4> QED BY <1>0, <3>1, <4>1, <4>2 DEF TreesOK
    <3>3. /\ pc = "work" /\ pc' = "work" /\ untracked' = untracked
          /\ own' = own \cup {NextWork} /\ dirty' = dirty \cup {NextWork}
          /\ UNCHANGED <<base, branch, indexed, before, tip, sbranch, violation, barred, staged,
                         candidate>>
      BY <2>2 DEF Edit, CleanFaults
    <3>4. Content(tip)' = Content(tip)
      BY <3>3 DEF Content
    <3> QED BY <3>2, <3>3, <3>4
  <2>3. ASSUME NEW how \in {"verify", "limited", "interrupted"}, NEW veto \in BOOLEAN,
               NEW violates \in BOOLEAN, WorkerExits(how, veto, violates)
        PROVE  BarredInv'
    <3>1. /\ pc = "work" /\ pc' = how /\ red' = veto
          /\ violation' = (violation \/ violates)
          /\ UNCHANGED <<base, branch, dirty, untracked, indexed, before, tip, sbranch, own,
                         staged, candidate>>
      BY <2>3 DEF WorkerExits
    <3>2. barred' = barred \cup own \/ (barred' = barred /\ ~veto /\ ~violates)
      BY <2>3 DEF WorkerExits
    <3>3. how = "verify" /\ barred' = barred \cup own => barred' = barred \/ veto \/ violates
      BY <2>3 DEF WorkerExits
    <3>4. Content(tip)' = Content(tip)
      BY <3>1 DEF Content
    <3> QED BY <3>1, <3>2, <3>3, <3>4
  <2>4. ASSUME NEW ok, RateLimited(ok) PROVE BarredInv'
    <3>1. /\ pc = "limited" /\ pc' = "pick"
          /\ UNCHANGED <<base, before, tip, violation, barred>>
      BY <2>4 DEF RateLimited
    <3>2. dirty' = {} /\ untracked' = {} /\ indexed' = FALSE
      BY <1>0, <2>4 DEF RateLimited, SaveSession, Unsaved, Tracked
    <3>3. branch' = branch \/ branch' = Deleted({sbranch}, BaseRef)
      BY <2>4 DEF RateLimited, SaveSession
    <3>4. Content(tip)' \subseteq Content(tip)
      BY <1>0, <1>a, <3>1, <3>3, DeletedShrinks DEF Content, Base, Session
    <3> QED BY <3>1, <3>2, <3>4
  <2>5. ASSUME NEW ok, Interrupted(ok) PROVE BarredInv'
    <3>1. dirty' \subseteq dirty /\ untracked' = {} /\ indexed' = FALSE
      BY <1>0, <2>5 DEF Interrupted, SaveSession
    <3> QED BY <2>5, <3>1 DEF Interrupted, Forget
  <2>6. ASSUME NEW ok, AutoCommit(ok) PROVE BarredInv'
    <3>1. /\ pc = "verify" /\ pc' = "stage" /\ ok
          /\ UNCHANGED <<base, red, before, tip, sbranch, violation, own, staged, candidate,
                         barred>>
      BY <1>0, <2>6 DEF AutoCommit
    <3>2. dirty' = {} /\ untracked' = {} /\ indexed' = FALSE
      BY <2>6, <3>1 DEF AutoCommit, Committable
    <3>3. \/ branch' = branch
          \/ branch' = [branch EXCEPT ![sbranch] = @ \cup dirty]
      BY <2>6, <3>1 DEF AutoCommit, Committable
    <3>4. sbranch \in Session /\ sbranch # tip
      BY <1>0, <3>1 DEF NumbersOK, SpanInv, Ref, Session
    <3>5. branch'[sbranch] \subseteq branch[sbranch] \cup own
      BY <1>0, <3>1, <3>3, <3>4 DEF TreesOK
    <3>6. Content(tip)' = Content(tip)
      BY <1>0, <1>a, <3>1, <3>3, <3>4 DEF Content, Base, TreesOK
    <3> QED BY <3>1, <3>2, <3>5, <3>6
  <2> QED BY <1>2, <2>1, <2>2, <2>3, <2>4, <2>5, <2>6 DEF SessionStep
<1>3. CASE StageStep
  <2>1. CASE StageSpan
    <3>1. /\ pc = "stage" /\ pc' = "pick"
          /\ UNCHANGED <<base, branch, dirty, untracked, indexed, before, violation, barred>>
      BY <2>1 DEF StageSpan
    <3>2. tip' = tip \/ (~red /\ tip' = sbranch /\ sbranch # 0)
      BY <2>1 DEF StageSpan
    <3>3. tip' = tip => Content(tip)' = Content(tip)
      BY <3>1 DEF Content
    <3>4. tip' = sbranch /\ sbranch # 0 => Content(tip)' = branch[sbranch]
      BY <3>1 DEF Content, Base
    <3> QED BY <3>1, <3>2, <3>3, <3>4
  <2>2. CASE NoBranch \/ CheckoutFailed \/ Vetoed \/ NoChanges \/ Conflict
    BY <2>2 DEF NoBranch, CheckoutFailed, Vetoed, NoChanges, Conflict, StagedAs
  <2>3. CASE StageMerge
    BY <2>3 DEF StageMerge, HasCommits, StagedAs
  <2> QED BY <1>3, <2>1, <2>2, <2>3 DEF StageStep
<1>4. CASE GateStep
  <2>1. ASSUME NEW regressed, NEW improved, NEW ok, Gate(regressed, improved, ok)
        PROVE  BarredInv'
    <3>1. /\ pc = "gate" /\ pc' = "close"
          /\ UNCHANGED <<dirty, untracked, indexed, before, barred>>
      BY <2>1 DEF Gate
    <3>2. base' = base \/ (fate' = "merged" /\ base' = base \cup candidate)
      BY <2>1 DEF Gate
    <3>3. fate' = "merged" => ~violation /\ staged = "staged"
      BY <1>0, <2>1, DecisionOfViolation, DecisionOfStaged DEF Gate, PhaseOK
    <3> QED BY <3>1, <3>2, <3>3
  <2>2. CASE Close
    BY <2>2 DEF Close, Content, Base
  <2>3. CASE Record
    BY <2>3 DEF Record, Content
  <2> QED BY <1>4, <2>1, <2>2, <2>3 DEF GateStep
<1>5. CASE \E goalsMet \in BOOLEAN : Finish(goalsMet)
  BY <1>5 DEF Finish, Forget
<1>6. CASE Crash \/ OperatorEdit
  BY <1>6 DEF Crash, OperatorEdit, Forget
<1>7. CASE UNCHANGED vars
  BY <1>7 DEF vars, Content
<1> QED BY <1>1, <1>2, <1>3, <1>4, <1>5, <1>6, <1>7 DEF Next

\* While git may only refuse checkouts and merges and workers edit tracked files, nothing
\* vetoed, violating or unfinished reaches base, over any number of crashes and resumes.
THEOREM BarredWorkStaysOff == ASSUME CleanFaults PROVE Spec => []BarredStaysOff
<1>1. Init => BarredInv
  BY DEF Init, BarredInv, BarredStaysOff
<1>2. TypeOK /\ SpanInv /\ GateInv /\ BarredInv /\ [Next]_vars => BarredInv'
  BY BarredInvNext
<1>3. MergeInv => GateInv
  BY DEF MergeInv
<1>4. BarredInv => BarredStaysOff
  BY DEF BarredInv
<1> QED BY <1>1, <1>2, <1>3, <1>4, MergeInvCorrect, SpanInvCorrect, PTL DEF Spec
------------------------------------------------------------------------------
(* What is lost: only what a veto deletes or a partial ref is written over.  *)

AtWork == {"work", "limited", "interrupted", "verify", "stage"}

\* A numbered branch is new when it is cut; the session's branch is checked out; what the
\* tip reaches is also reached by what is checked out or staged, so that clear_span may
\* delete the tip with the span.
HeldInv ==
    /\ pc # "down" => run \in Run /\ \A s \in Session : s > session => branch[s] = {}
    /\ pc \in AtWork /\ sbranch # 0 => head = sbranch
    /\ pc \in {"pick"} \cup AtWork => Content(tip) \subseteq Content(head) \cup base
    /\ pc \in {"gate", "close"} /\ staged # "vetoed" =>
          Content(tip) \subseteq Content(IF staged = "none" THEN head ELSE sbranch) \cup base
    /\ pc = "record" => tip = 0

\* Work that a partial ref held and the next state's does not.
Overwritten(w) == \E r \in Run, s \in Ref : w \in partial[r][s] \ partial'[r][s]

OnPartials == UNION {partial[r][s] : r \in Run, s \in Ref}

\* Writing a partial ref keeps what is written and loses what the ref held.
LEMMA SavedKeeps ==
  ASSUME TreesOK, run \in Run, NEW s \in Ref, NEW work, partial' = Saved(s, work)
  PROVE  /\ work \subseteq OnPartials'
         /\ \A w \in OnPartials \ OnPartials' : Overwritten(w)
<1>1. partial'[run][s] = work
  BY DEF TreesOK, Saved
<1>2. work \subseteq OnPartials'
  BY <1>1 DEF OnPartials
<1>3. ASSUME NEW w \in OnPartials \ OnPartials' PROVE Overwritten(w)
  <2>1. PICK r \in Run, t \in Ref : w \in partial[r][t]
    BY <1>3 DEF OnPartials
  <2>2. w \notin partial'[r][t]
    BY <1>3, <2>1 DEF OnPartials
  <2> QED BY <2>1, <2>2 DEF Overwritten
<1> QED BY <1>2, <1>3

\* The work that is held, piece by piece.
LEMMA HeldPieces ==
  /\ Held = base \cup dirty \cup parked \cup OnBranches \cup OnPartials
  /\ Held' = base' \cup dirty' \cup parked' \cup OnBranches' \cup OnPartials'
BY DEF Held, OnPartials

\* What is checked out is held.
LEMMA ContentIsHeld ==
  ASSUME NEW r \in Ref
  PROVE  Content(r) \subseteq base \cup OnBranches
BY DEF Content, OnBranches, Base, Ref, Session

\* A branch that is not deleted holds what it held.
LEMMA DeletedKeeps ==
  ASSUME NumbersOK, NEW doomed, NEW on, branch' = Deleted(doomed, on),
         \A s \in Session \cap (doomed \ {on}) : branch[s] \subseteq base \cup OnBranches' \cup OnPartials'
  PROVE  OnBranches \subseteq base \cup OnBranches' \cup OnPartials'
<1> SUFFICES ASSUME NEW s \in Session, NEW w \in branch[s]
             PROVE  w \in base \cup OnBranches' \cup OnPartials'
  BY DEF OnBranches
<1>1. CASE s \in doomed \ {on}
  BY <1>1
<1>2. CASE s \notin doomed \ {on}
  <2>1. branch'[s] = branch[s]
    BY <1>2 DEF Deleted
  <2> QED BY <2>1 DEF OnBranches
<1> QED BY <1>1, <1>2

\* Every step keeps HeldInv.
LEMMA HeldInvNext ==
  TypeOK /\ SpanInv /\ GateInv /\ HeldInv /\ [Next]_vars => HeldInv'
<1> SUFFICES ASSUME TypeOK, SpanInv, GateInv, HeldInv, [Next]_vars PROVE HeldInv'
  OBVIOUS
<1> USE DEF HeldInv, AtWork, repoVars, diskVars, procVars, histVars
<1>0. /\ NumbersOK /\ TreesOK /\ PhaseOK
      /\ session \in Nat /\ span \subseteq Session /\ tip \in Ref /\ head \in Ref /\ sbranch \in Ref
      /\ Session \subseteq Nat /\ 0 \notin Session /\ Ref = Session \cup {0}
  BY BoundsAssumption DEF TypeOK, NumbersOK, Ref, Session
<1>1. CASE StartStep
  <2>1. CASE StartFresh \/ StartResume
    <3>1. pc' = "baseline" /\ \A s \in Session : branch'[s] = {}
      BY <2>1 DEF StartFresh, StartResume, Begin, ParkStrandedSpan
    <3>2. run' \in Run
      BY <1>0, <2>1, BoundsAssumption DEF StartFresh, StartResume, Resumable, NumbersOK, Run
    <3> QED BY <3>1, <3>2
  <2>2. CASE StartBails
    BY <2>2 DEF StartBails, Content
  <2>3. CASE Baseline
    BY <2>3, <1>0 DEF Baseline, Content, Base, SpanInv
  <2> QED BY <1>1, <2>1, <2>2, <2>3 DEF StartStep
<1>2. CASE SessionStep
  <2>1. ASSUME NEW judge \in BOOLEAN, NEW ok \in BOOLEAN, Cut(judge, ok) PROVE HeldInv'
    <3> DEFINE s == session + 1
               fresh == Deleted({s}, head)
    <3>1. s \in Session /\ s # 0 /\ pc = "pick" /\ pc' = "work" /\ session' = s /\ run' = run
          /\ tip' = tip /\ base' = base
      BY <1>0, <2>1, BoundsAssumption DEF Cut, Session
    <3>2. branch[s] = {}
      BY <1>0, <3>1
    <3>3. fresh = branch
      BY <1>0, <3>1, <3>2 DEF Deleted, TreesOK
    <3>4. tip # s
      BY <1>0, <3>1 DEF SpanInv, Session
    <3>5. \A r \in Session : r > s => branch[r] = {}
      BY <1>0, <3>1
    <3>6. CASE ok
      <4>1. branch' = [branch EXCEPT ![s] = Content(tip)] /\ head' = s /\ sbranch' = s
        BY <3>3, <3>6, <2>1 DEF Cut, BaseRef
      <4>2. branch'[s] = Content(tip) /\ \A r \in Session \ {s} : branch'[r] = branch[r]
        BY <3>1, <4>1, <1>0 DEF TreesOK
      <4>3. Content(tip)' = Content(tip) /\ Content(head)' = branch'[s]
        BY <3>1, <3>4, <4>1, <4>2, <1>0 DEF Content, Base
      <4>4. \A r \in Session : r > s => branch'[r] = {}
        BY <1>0, <3>1, <3>5, <4>2
      <4> QED BY <3>1, <4>1, <4>2, <4>3, <4>4
    <3>7. CASE ~ok
      <4>1. branch' = branch /\ head' = head /\ sbranch' = 0
        BY <3>3, <3>7, <2>1 DEF Cut
      <4>2. Content(tip)' = Content(tip) /\ Content(head)' = Content(head)
        BY <3>1, <4>1 DEF Content
      <4> QED BY <3>1, <3>5, <4>1, <4>2
    <3> QED BY <3>6, <3>7
  <2>2. ASSUME NEW newFile, Edit(newFile) PROVE HeldInv'
    BY <2>2 DEF Edit, Content
  <2>3. ASSUME NEW how \in {"verify", "limited", "interrupted"}, NEW veto, NEW violates,
               WorkerExits(how, veto, violates)
        PROVE  HeldInv'
    BY <2>3 DEF WorkerExits, Content
  <2>4. ASSUME NEW ok \in BOOLEAN, RateLimited(ok) PROVE HeldInv'
    <3>1. /\ session' = session /\ tip' = tip /\ base' = base /\ run' = run
          /\ pc' = "pick" /\ pc = "limited" /\ sbranch' = 0
      BY <2>4 DEF RateLimited
    <3>2. \/ head' = head /\ branch' = branch
          \/ head' = tip /\ (branch' = branch \/ branch' = Deleted({sbranch}, tip))
      BY <2>4 DEF RateLimited, SaveSession, BaseRef
    <3>3. \A r \in Session : r > session => branch'[r] = {}
      BY <3>1, <3>2 DEF Deleted
    <3>4. Content(tip)' \subseteq Content(head)' \cup base'
      BY <3>1, <3>2 DEF Content
    <3> QED BY <3>1, <3>3, <3>4
  <2>5. ASSUME NEW ok, Interrupted(ok) PROVE HeldInv'
    BY <2>5 DEF Interrupted, Forget
  <2>6. ASSUME NEW ok, AutoCommit(ok) PROVE HeldInv'
    <3>1. /\ session' = session /\ tip' = tip /\ base' = base /\ run' = run /\ head' = head
          /\ pc' = "stage" /\ pc = "verify" /\ sbranch' = sbranch
      BY <2>6 DEF AutoCommit
    <3>2. \/ branch' = branch
          \/ /\ sbranch # 0
             /\ branch' = [branch EXCEPT ![sbranch] = @ \cup Committable]
      BY <2>6 DEF AutoCommit
    <3>3. sbranch # 0 => sbranch \in Session /\ sbranch = session /\ sbranch # tip
      BY <1>0, <3>1 DEF NumbersOK, SpanInv
    <3>4. \A r \in Session : branch[r] \subseteq branch'[r] /\ (r # sbranch => branch'[r] = branch[r])
      BY <3>2, <3>3, <1>0 DEF TreesOK
    <3>5. Content(tip)' = Content(tip) /\ Content(head) \subseteq Content(head)'
      BY <1>0, <3>1, <3>3, <3>4 DEF Content, Base
    <3>6. \A r \in Session : r > session => branch'[r] = {}
      BY <1>0, <3>1, <3>3, <3>4
    <3> QED BY <3>1, <3>5, <3>6
  <2> QED BY <1>2, <2>1, <2>2, <2>3, <2>4, <2>5, <2>6 DEF SessionStep
<1>3. CASE StageStep
  <2>1. CASE StageSpan
    <3>1. /\ session' = session /\ base' = base /\ branch' = branch /\ run' = run /\ head' = head
          /\ pc' = "pick" /\ pc = "stage"
      BY <2>1 DEF StageSpan
    <3>2. tip' = tip \/ (tip' = sbranch /\ sbranch # 0)
      BY <2>1 DEF StageSpan
    <3>3. Content(tip)' \subseteq Content(head)' \cup base'
      BY <3>1, <3>2 DEF Content
    <3> QED BY <3>1, <3>3
  <2>2. ASSUME NoBranch \/ CheckoutFailed \/ Conflict \/ StageMerge PROVE HeldInv'
    <3>1. /\ session' = session /\ base' = base /\ branch' = branch /\ run' = run /\ tip' = tip
          /\ sbranch' = sbranch /\ pc' = "gate" /\ pc = "stage"
      BY <2>2 DEF NoBranch, CheckoutFailed, Conflict, StageMerge, StagedAs
    <3>2. IF staged' = "none" THEN head' = head ELSE sbranch # 0
      BY <2>2 DEF NoBranch, CheckoutFailed, Conflict, StageMerge, StagedAs, HeadAfter, HasCommits
    <3> QED BY <3>1, <3>2 DEF Content
  <2>3. CASE Vetoed
    BY <2>3 DEF Vetoed, StagedAs, Deleted
  <2>4. CASE NoChanges
    <3>1. /\ session' = session /\ base' = base /\ tip' = tip /\ run' = run /\ sbranch' = sbranch
          /\ pc' = "gate" /\ pc = "stage" /\ sbranch # 0 /\ staged' = "nochanges"
          /\ branch' = Deleted({sbranch}, Base) /\ branch[sbranch] \subseteq base
      BY <2>4 DEF NoChanges, StagedAs
    <3>2. Content(tip) \subseteq base
      BY <3>1, <1>0 DEF Content, Base
    <3>3. Content(tip)' \subseteq Content(tip)
      BY <3>1, <1>0 DEF Content, Deleted, Base
    <3>4. \A r \in Session : r > session => branch'[r] = {}
      BY <3>1 DEF Deleted
    <3> QED BY <3>1, <3>2, <3>3, <3>4
  <2> QED BY <1>3, <2>1, <2>2, <2>3, <2>4 DEF StageStep
<1>4. CASE GateStep
  <2>1. ASSUME NEW regressed, NEW improved, NEW ok, Gate(regressed, improved, ok)
        PROVE  HeldInv'
    <3>1. /\ session' = session /\ tip' = tip /\ run' = run /\ sbranch' = sbranch /\ head' = head
          /\ staged' = staged /\ pc' = "close" /\ pc = "gate"
      BY <2>1 DEF Gate
    <3>2. \/ branch' = branch /\ base' = base
          \/ /\ fate' = "merged" /\ branch' = Deleted({sbranch}, head)
             /\ base' = base \cup candidate
      BY <2>1 DEF Gate
    <3>3. CASE branch' = branch /\ base' = base
      BY <3>1, <3>3 DEF Content
    <3>4. CASE fate' = "merged" /\ branch' = Deleted({sbranch}, head) /\ base' = base \cup candidate
      <4>1. staged = "staged"
        BY <2>1, <3>4, DecisionOfStaged, <1>0 DEF Gate, PhaseOK
      <4>2. candidate = branch[sbranch] /\ sbranch \in Ref
        BY <1>0, <3>1, <4>1 DEF GateInv, GradedIsMerged
      <4>3. Content(sbranch) \subseteq base \cup candidate
        BY <4>2 DEF Content
      <4>4. Content(tip)' \subseteq Content(tip) \cup base'
        BY <1>0, <3>1, <3>4 DEF Content, Deleted, Base
      <4>5. Content(tip) \subseteq base'
        BY <3>1, <3>4, <4>1, <4>3
      <4>6. \A r \in Session : r > session => branch'[r] = {}
        BY <3>1, <3>4 DEF Deleted
      <4> QED BY <3>1, <4>4, <4>5, <4>6
    <3> QED BY <3>2, <3>3, <3>4
  <2>2. CASE Close
    <3>1. pc' = "record" /\ run' = run /\ session' = session /\ pc = "close" /\ tip' = 0
      BY <2>2 DEF Close
    <3>2. \A r \in Session : r > session => branch'[r] = {}
      BY <2>2, <3>1 DEF Close, Deleted
    <3> QED BY <3>1, <3>2
  <2>3. CASE Record
    <3>1. /\ pc' = "pick" /\ run' = run /\ session' = session /\ branch' = branch /\ tip' = tip
          /\ pc = "record" /\ base' = base
      BY <2>3 DEF Record
    <3>2. tip = 0
      BY <3>1
    <3> QED BY <3>1, <3>2 DEF Content, Base
  <2> QED BY <1>4, <2>1, <2>2, <2>3 DEF GateStep
<1>5. CASE \E goalsMet \in BOOLEAN : Finish(goalsMet)
  BY <1>5 DEF Finish, Forget
<1>6. CASE Crash \/ OperatorEdit
  BY <1>6 DEF Crash, OperatorEdit, Forget
<1>7. CASE UNCHANGED vars
  BY <1>7 DEF vars, Content
<1> QED BY <1>1, <1>2, <1>3, <1>4, <1>5, <1>6, <1>7 DEF Next

\* Every piece of what is held goes into what is held next, or is lost as the property says.
Kept(piece) == \A w \in piece \ Held' : Overwritten(w)

\* Partial refs are written only by the two saves, which keep what they take from the tree.
LEMMA SaveCrashedKeeps ==
  ASSUME TypeOK, run \in Run, SaveCrashedSession
  PROVE  Kept(OnPartials) /\ Kept(dirty)
<1>1. CASE Tracked = {}
  <2>1. partial' = partial /\ dirty' = dirty
    BY <1>1 DEF SaveCrashedSession
  <2> QED BY <2>1, HeldPieces DEF Kept, OnPartials
<1>2. CASE Tracked # {}
  <2>1. partial' = Saved(disk, Content(head) \cup dirty)
    BY <1>2 DEF SaveCrashedSession
  <2>2. /\ Content(head) \cup dirty \subseteq OnPartials'
        /\ \A w \in OnPartials \ OnPartials' : Overwritten(w)
    BY <2>1, SavedKeeps DEF TypeOK, NumbersOK
  <2> QED BY <2>2, HeldPieces DEF Kept
<1> QED BY <1>1, <1>2

\* save_and_reset: a branch goes only when it was saved or is where its base ref is.
LEMMA SaveSessionKeeps ==
  ASSUME TypeOK, HeldInv, NEW ok \in BOOLEAN, SaveSession(ok), pc \in {"limited", "interrupted"},
         base' = base, parked' = parked
  PROVE  \A w \in Held \ Held' : Overwritten(w)
<1>0. NumbersOK /\ TreesOK /\ run \in Run /\ (sbranch # 0 => head = sbranch)
  BY DEF TypeOK, HeldInv, AtWork
<1>1. session \in Ref /\ sbranch \in Ref /\ tip \in Ref /\ (sbranch # 0 => sbranch \in Session)
  BY <1>0, BoundsAssumption DEF NumbersOK, Ref, Session
<1> DEFINE saved == ok /\ (Unsaved \/ Ahead)
           work == Content(head) \cup (IF Unsaved THEN dirty ELSE {})
<1>2. /\ saved => work \subseteq OnPartials'
      /\ \A w \in OnPartials \ OnPartials' : Overwritten(w)
  <2>1. CASE saved
    <3>1. partial' = Saved(session, work)
      BY <2>1 DEF SaveSession
    <3>2. /\ work \subseteq OnPartials'
          /\ \A w \in OnPartials \ OnPartials' : Overwritten(w)
      <4> HIDE DEF work
      <4> QED BY <1>0, <1>1, <3>1, SavedKeeps
    <3> QED BY <3>2
  <2>2. CASE ~saved
    <3>1. partial' = partial
      BY <2>2 DEF SaveSession
    <3> QED BY <2>2, <3>1 DEF OnPartials
  <2> QED BY <2>1, <2>2
<1>3. dirty \subseteq dirty' \cup OnPartials'
  <2>1. CASE Unsaved /\ ~saved
    BY <2>1 DEF SaveSession
  <2>2. CASE Unsaved /\ saved
    BY <1>2, <2>2
  <2>3. CASE ~Unsaved
    <3>1. dirty' = dirty \cap before
      BY <2>3 DEF SaveSession
    <3> QED BY <2>3, <3>1 DEF Unsaved
  <2> QED BY <2>1, <2>2, <2>3
<1>4. OnBranches \subseteq base \cup OnBranches' \cup OnPartials'
  <2>1. \/ branch' = branch
        \/ branch' = Deleted({sbranch}, tip) /\ sbranch # 0 /\ (saved \/ ~Ahead)
    BY DEF SaveSession, BaseRef
  <2>2. CASE branch' = branch
    BY <2>2 DEF OnBranches
  <2>3. CASE branch' = Deleted({sbranch}, tip) /\ sbranch # 0 /\ (saved \/ ~Ahead)
    <3>1. ASSUME sbranch # tip PROVE branch[sbranch] \subseteq base \cup OnBranches' \cup OnPartials'
      <4>1. CASE saved
        BY <1>0, <1>1, <1>2, <2>3, <4>1 DEF Content, Base
      <4>2. CASE ~Ahead
        <5>1. branch[sbranch] = Content(tip)
          BY <2>3, <4>2 DEF Ahead, BaseRef
        <5>2. tip \in Session => branch'[tip] = branch[tip]
          BY <2>3, <3>1 DEF Deleted
        <5> QED BY <1>1, <5>1, <5>2 DEF Content, Base, Ref, Session, OnBranches
      <4> QED BY <2>3, <4>1, <4>2
    <3>2. \A s \in Session \cap ({sbranch} \ {tip}) :
             branch[s] \subseteq base \cup OnBranches' \cup OnPartials'
      BY <3>1
    <3> QED BY <1>0, <2>3, <3>2, DeletedKeeps
  <2> QED BY <2>1, <2>2, <2>3
<1> QED BY <1>2, <1>3, <1>4, HeldPieces

\* clear_span: what a branch of the span holds is on base, or in what is not deleted.
LEMMA CloseKeeps ==
  ASSUME TypeOK, SpanInv, HeldInv, Close, staged # "vetoed"
  PROVE  Held \subseteq Held'
<1>0. NumbersOK /\ TreesOK /\ span \subseteq Session /\ head \in Ref /\ sbranch \in Ref /\ Ref = Session \cup {0}
      /\ 0 \notin Session
  BY BoundsAssumption DEF TypeOK, NumbersOK, Ref, Session
<1> DEFINE anchor == IF staged = "none" THEN head ELSE sbranch
           doomed == IF staged = "none" THEN span ELSE span \ {sbranch}
<1>1. /\ branch' = Deleted(doomed, head) /\ base' = base /\ partial' = partial
      /\ dirty' = dirty /\ parked' = parked /\ pc = "close"
  BY DEF Close
<1>2. Content(tip) \subseteq Content(anchor) \cup base
  BY <1>1 DEF HeldInv
<1>3. Content(anchor) \subseteq base \cup OnBranches'
  <2>1. anchor \in Session => anchor \notin doomed \ {head}
    OBVIOUS
  <2>2. anchor \in Session => branch'[anchor] = branch[anchor]
    BY <1>1, <2>1 DEF Deleted
  <2>3. anchor \in Ref
    BY <1>0
  <2> HIDE DEF anchor
  <2> QED BY <1>0, <2>2, <2>3 DEF Content, Base, OnBranches
<1>4. \A s \in span : branch[s] \subseteq Content(tip) \cup base
  BY <1>0 DEF SpanInv, Content, Base
<1>5. \A s \in Session \cap (doomed \ {head}) : branch[s] \subseteq base \cup OnBranches' \cup OnPartials'
  <2>1. doomed \subseteq span
    OBVIOUS
  <2> HIDE DEF doomed, anchor
  <2> QED BY <1>2, <1>3, <1>4, <2>1
<1>6. OnBranches \subseteq base \cup OnBranches' \cup OnPartials'
  <2> HIDE DEF doomed, anchor
  <2> QED BY <1>0, <1>1, <1>5, DeletedKeeps
<1>7. OnPartials' = OnPartials
  BY <1>1 DEF OnPartials
<1> QED BY <1>1, <1>6, <1>7, HeldPieces

\* No step loses work but by a veto or by writing a partial ref over.
LEMMA LossNext ==
  ASSUME TypeOK, SpanInv, GateInv, HeldInv, Next, "vetoed" \notin {staged, staged'}
  PROVE  \A w \in Held \ Held' : Overwritten(w)
<1> USE DEF repoVars, diskVars, procVars, histVars
<1>0. /\ NumbersOK /\ TreesOK /\ PhaseOK
      /\ session \in Nat /\ head \in Ref /\ sbranch \in Ref
      /\ Session \subseteq Nat /\ 0 \notin Session /\ Ref = Session \cup {0}
  BY BoundsAssumption DEF TypeOK, NumbersOK, Ref, Session
<1>a. ASSUME base \subseteq base', dirty \subseteq dirty', parked' = parked, partial' = partial,
             OnBranches \subseteq base' \cup OnBranches'
      PROVE  Held \subseteq Held'
  <2>1. OnPartials' = OnPartials
    BY <1>a DEF OnPartials
  <2> QED BY <1>a, <2>1, HeldPieces
<1>1. CASE StartStep
  <2>1. CASE StartFresh \/ StartResume
    <3>1. base' = base /\ parked' = parked \cup OnBranches
      BY <2>1 DEF StartFresh, StartResume, Begin, ParkStrandedSpan
    <3>2. Kept(OnPartials) /\ Kept(dirty)
      <4>1. CASE StartFresh
        BY <4>1, HeldPieces DEF StartFresh, Kept, OnPartials
      <4>2. CASE StartResume
        <5>1. run \in Run
          BY <1>0, <4>2, BoundsAssumption DEF StartResume, Resumable, NumbersOK, Run
        <5> QED BY <4>2, <5>1, SaveCrashedKeeps DEF StartResume
      <4> QED BY <2>1, <4>1, <4>2
    <3> QED BY <3>1, <3>2, HeldPieces DEF Kept
  <2>2. CASE StartBails
    <3>1. base' = base /\ parked' = parked /\ OnBranches' = OnBranches
      BY <2>2 DEF StartBails, OnBranches
    <3>2. Kept(OnPartials) /\ Kept(dirty)
      <4>1. CASE UNCHANGED <<partial, dirty, indexed>>
        BY <4>1, HeldPieces DEF Kept, OnPartials
      <4>2. CASE Resumable /\ SaveCrashedSession
        <5>1. run \in Run
          BY <1>0, <4>2, BoundsAssumption DEF Resumable, NumbersOK, Run
        <5> QED BY <4>2, <5>1, SaveCrashedKeeps
      <4> QED BY <2>2, <4>1, <4>2 DEF StartBails
    <3> QED BY <3>1, <3>2, HeldPieces DEF Kept
  <2>3. CASE Baseline
    BY <2>3, <1>a DEF Baseline, OnBranches
  <2> QED BY <1>1, <2>1, <2>2, <2>3 DEF StartStep
<1>2. CASE SessionStep
  <2>1. ASSUME NEW judge \in BOOLEAN, NEW ok \in BOOLEAN, Cut(judge, ok) PROVE Held \subseteq Held'
    <3> DEFINE s == session + 1
    <3>1. base' = base /\ dirty' = dirty /\ parked' = parked /\ partial' = partial /\ s \in Session
      BY <1>0, <2>1, BoundsAssumption DEF Cut, Session
    <3>2. branch[s] = {}
      BY <1>0, <2>1, <3>1 DEF Cut, HeldInv
    <3>3. \A r \in Session \ {s} : branch'[r] = branch[r]
      BY <2>1 DEF Cut, Deleted
    <3>4. OnBranches \subseteq OnBranches'
      BY <3>2, <3>3 DEF OnBranches
    <3> QED BY <3>1, <3>4, <1>a
  <2>2. ASSUME NEW newFile, Edit(newFile) PROVE Held \subseteq Held'
    BY <2>2, <1>a DEF Edit, OnBranches
  <2>3. ASSUME NEW how, NEW veto, NEW violates, WorkerExits(how, veto, violates)
        PROVE  Held \subseteq Held'
    BY <2>3, <1>a DEF WorkerExits, OnBranches
  <2>4. ASSUME NEW ok \in BOOLEAN, RateLimited(ok) \/ Interrupted(ok)
        PROVE  \A w \in Held \ Held' : Overwritten(w)
    BY <2>4, SaveSessionKeeps DEF RateLimited, Interrupted
  <2>5. ASSUME NEW ok, AutoCommit(ok) PROVE Held \subseteq Held'
    <3>1. base' = base /\ parked' = parked /\ partial' = partial
      BY <2>5 DEF AutoCommit
    <3>2. CASE UNCHANGED <<branch, dirty>>
      BY <3>1, <3>2, <1>a DEF OnBranches
    <3>3. CASE /\ sbranch # 0 /\ branch' = [branch EXCEPT ![sbranch] = @ \cup Committable]
               /\ dirty' = dirty \ Committable
      <4>1. sbranch \in Session
        BY <1>0, <3>3
      <4>2. dirty \subseteq branch'[sbranch] /\ \A r \in Session : branch[r] \subseteq branch'[r]
        BY <1>0, <3>3, <4>1 DEF Committable, TreesOK
      <4>3. OnBranches \cup dirty \subseteq OnBranches'
        BY <4>1, <4>2 DEF OnBranches
      <4>4. OnPartials' = OnPartials
        BY <3>1 DEF OnPartials
      <4> QED BY <3>1, <4>3, <4>4, HeldPieces
    <3> QED BY <2>5, <3>2, <3>3 DEF AutoCommit
  <2> QED BY <1>2, <2>1, <2>2, <2>3, <2>4, <2>5 DEF SessionStep
<1>3. CASE StageStep
  <2>1. CASE StageSpan
    BY <2>1, <1>a DEF StageSpan, OnBranches
  <2>2. CASE NoBranch \/ CheckoutFailed \/ Conflict \/ StageMerge
    BY <2>2, <1>a DEF NoBranch, CheckoutFailed, Conflict, StageMerge, StagedAs, OnBranches
  <2>3. CASE Vetoed
    BY <2>3 DEF Vetoed, StagedAs
  <2>4. CASE NoChanges
    <3>1. /\ base' = base /\ dirty' = dirty /\ parked' = parked /\ partial' = partial
          /\ branch' = Deleted({sbranch}, Base) /\ branch[sbranch] \subseteq base
      BY <2>4 DEF NoChanges, StagedAs
    <3>2. OnBranches \subseteq base \cup OnBranches'
      BY <3>1 DEF OnBranches, Deleted
    <3> QED BY <3>1, <3>2, <1>a
  <2> QED BY <1>3, <2>1, <2>2, <2>3, <2>4 DEF StageStep
<1>4. CASE GateStep
  <2>1. ASSUME NEW regressed, NEW improved, NEW ok, Gate(regressed, improved, ok)
        PROVE  Held \subseteq Held'
    <3>1. dirty' = dirty /\ parked' = parked /\ partial' = partial /\ pc = "gate"
      BY <2>1 DEF Gate
    <3>2. CASE UNCHANGED <<base, branch>>
      BY <3>1, <3>2, <1>a DEF OnBranches
    <3>3. CASE fate' = "merged" /\ branch' = Deleted({sbranch}, head) /\ base' = base \cup candidate
      <4>1. staged = "staged"
        BY <2>1, <3>3, DecisionOfStaged, <1>0 DEF Gate, PhaseOK
      <4>2. candidate = branch[sbranch]
        BY <3>1, <4>1 DEF GateInv, GradedIsMerged
      <4>3. OnBranches \subseteq base' \cup OnBranches'
        BY <3>3, <4>2 DEF OnBranches, Deleted
      <4> QED BY <3>1, <3>3, <4>3, <1>a
    <3> QED BY <2>1, <3>2, <3>3 DEF Gate
  <2>2. CASE Close
    BY <2>2, CloseKeeps
  <2>3. CASE Record
    BY <2>3, <1>a DEF Record, OnBranches
  <2> QED BY <1>4, <2>1, <2>2, <2>3 DEF GateStep
<1>5. CASE \E goalsMet \in BOOLEAN : Finish(goalsMet)
  BY <1>5, <1>a DEF Finish, OnBranches
<1>6. CASE Crash \/ OperatorEdit
  BY <1>6, <1>a DEF Crash, OperatorEdit, OnBranches
<1> QED BY <1>1, <1>2, <1>3, <1>4, <1>5, <1>6 DEF Next

\* No step of a run makes work unreachable, whichever git commands fail and wherever the
\* process dies, but the teardown of a vetoed session and a partial ref written over
\* (save_partial, park_stranded_span, clear_span, create_branch).
THEOREM NothingElseIsLost == Spec => LossOnlyByVetoOrOverwrite
<1> DEFINE Loss == \A w \in Held \ Held' :
                      \/ "vetoed" \in {staged, staged'}
                      \/ \E r \in Run, s \in Ref : w \in partial[r][s] \ partial'[r][s]
           LossInv == TypeOK /\ SpanInv /\ GateInv /\ HeldInv
<1>1. Init => HeldInv
  BY DEF Init, HeldInv, AtWork
<1>2. LossInv /\ [Next]_vars => HeldInv'
  BY HeldInvNext
<1>3. LossInv /\ [Next]_vars => [Loss]_vars
  <2> SUFFICES ASSUME LossInv, Next PROVE Loss
    OBVIOUS
  <2>1. CASE "vetoed" \in {staged, staged'}
    BY <2>1
  <2>2. CASE "vetoed" \notin {staged, staged'}
    BY <2>2, LossNext DEF Overwritten
  <2> QED BY <2>1, <2>2
<1>4. MergeInv => GateInv
  BY DEF MergeInv
<1>5. Spec => [][Loss]_vars
  <2> HIDE DEF Loss
  <2> QED BY <1>1, <1>2, <1>3, <1>4, MergeInvCorrect, SpanInvCorrect, PTL DEF Spec
<1> QED BY <1>5 DEF LossOnlyByVetoOrOverwrite
==============================================================================
