--------------------------- MODULE WorkflowProofs ---------------------------
(* Theorems of Workflow: what may stand without being done again.  The       *)
(* history file and what is deferred to it together tell of the result that  *)
(* is in place (Current) and of what was signed (AsSigned); an entry waits   *)
(* only between two steps, one at a time (Placed).                           *)
EXTENDS Workflow, TLAPS

\* A name stands for one step: tiers of one step read the same files.
OneStepPerName == \A b, c \in Blocks : b.name = c.name => b.reads = c.reads

EntryType == [step : Names, kind : {"result"}, commit : Trees]
HistoryType == [Names -> [Recorded -> SUBSET Trees]]
RunType == [from : SUBSET Names, note : BOOLEAN, decided : BOOLEAN, reset : BOOLEAN,
            until : SUBSET Names, reentries : Nat]
Ended == {"met", "halted"}
Between == {"next"} \cup Ended

Shaped ==
    /\ program \in Programs /\ i \in 1 .. Len(program) + 1
    /\ head \in Trees /\ work \in Trees
    /\ seen \in SUBSET Names /\ given \in SUBSET Names
    /\ hist \in HistoryType
    /\ before \in [Names -> SUBSET Trees]
    /\ \A n \in Names : before[n] # {} => \E t \in Trees : before[n] = {t}
    /\ told \in [Names -> Nat]
    /\ judged \in [Names -> SUBSET [tree : Trees, told : Nat, lost : BOOLEAN]]
    /\ signed \in [Names -> SUBSET Trees]

Placed ==
    /\ next \in SUBSET [at : Names, decided : BOOLEAN]
    /\ next # {} => pc = "halted" /\ pending = <<>>
    /\ pending = <<>> \/ \E e \in EntryType : pending = <<e>>
    /\ pc \notin Between => pending = <<>> /\ i \in DOMAIN program
    /\ pc = "applies" => Block.kind = "applies"

Spending ==
    /\ run \in RunType /\ fixes \in Nat /\ Spent <= Limit
    /\ pc \in {"force", "ask"} => Spent < Limit
    /\ pc \in Ended => fixes = 0
    /\ \A n \in next : ~n.decided => run.reentries < Limit

Kept == Shaped /\ Placed /\ Spending

Tells(n, commit, reads) == \E j \in judged[n] : j.lost \/ Same(j.tree, commit, reads)

\* What is written or waits to be is of the result that is in place.
Current ==
    \A b \in Blocks :
        /\ pending = <<>> => \A c \in hist[b.name]["result"] : Tells(b.name, c, b.reads)
        /\ \A e \in EntryType : pending = <<e>> =>
               IF e.step = b.name THEN Tells(b.name, e.commit, b.reads)
               ELSE \A c \in hist[b.name]["result"] : Tells(b.name, c, b.reads)

AsSigned ==
    \A b \in Blocks : \A c \in hist[b.name]["approval"] :
        \E t \in signed[b.name] : Same(t, c, b.reads)

------------------------------------------------------------------------------
(* The operators.                                                            *)

\* The bounds are numbers, and the steps an operator may stop after are steps.
LEMMA Bounds == Limit \in Nat /\ MaxRuns \in Nat /\ Untils \subseteq Names
BY LimitsAssumption

\* The block a driver is at is one of its program's, with the fields a block has.
LEMMA AtABlock ==
    ASSUME program \in Programs, i \in DOMAIN program
    PROVE  /\ Block \in Blocks /\ Block.name \in Names
           /\ Block.out \in Files /\ Block.reads \subseteq Files
<1>1. Block \in Blocks BY DEF Block, Blocks
<1>2. Block.name \in Names BY <1>1 DEF Names
<1>3. Block.out \in Files /\ Block.reads \subseteq Files BY <1>1, BlocksAssumption
<1> QED BY <1>1, <1>2, <1>3

\* Returning from a step leaves the driver at a block or at its end: a condition is not the last.
LEMMA ReturnsInside ==
    ASSUME program \in Programs, i \in DOMAIN program, NEW applies \in BOOLEAN,
           ~applies => Block.kind = "applies"
    PROVE  After(applies) \in 1 .. Len(program) + 1
<1>1. program \in Seq(Blocks) /\ program[Len(program)].kind # "applies" BY ProgramsAssumption
<1>2. i \in 1 .. Len(program) /\ Len(program) \in Nat BY <1>1
<1>3. CASE applies BY <1>2, <1>3 DEF After
<1>4. CASE ~applies
  <2>1. Block.kind = "applies" BY <1>4
  <2>2. i # Len(program) BY <2>1, <1>1 DEF Block
  <2> QED BY <1>2, <1>4, <2>2 DEF After
<1> QED BY <1>3, <1>4

\* A step or a session writes one file: what it leaves is a tree.
LEMMA WorkIsATree ==
    ASSUME work \in Trees, NEW b, b.out \in Files, NEW t \in Work(b)
    PROVE  t \in Trees
BY DEF Work, Trees

\* Nothing to write leaves the file as it is.
LEMMA NothingWritten ==
    ASSUME NEW h \in HistoryType
    PROVE  Written(h, <<>>) = h
<1>1. DOMAIN <<>> = {} OBVIOUS
<1>2. \A n \in Names, k \in Recorded :
        {p \in DOMAIN <<>> : <<>>[p].step = n /\ <<>>[p].kind = k} = {}
  BY <1>1
<1>3. Written(h, <<>>) = [n \in Names |-> [k \in Recorded |-> h[n][k]]] BY <1>2 DEF Written
<1>4. \A n \in Names : [k \in Recorded |-> h[n][k]] = h[n] BY DEF HistoryType
<1> QED BY <1>3, <1>4 DEF HistoryType

\* One entry replaces what the file said of its step and kind, and nothing else.
LEMMA OneWritten ==
    ASSUME NEW h \in HistoryType, NEW e
    PROVE  /\ Written(h, <<e>>) = [n \in Names |-> [k \in Recorded |->
                  IF e.step = n /\ e.kind = k THEN {e.commit} ELSE h[n][k]]]
<1> DEFINE s == <<e>>
           Mine(n, k) == {p \in DOMAIN s : s[p].step = n /\ s[p].kind = k}
<1>1. DOMAIN s = {1} /\ s[1] = e OBVIOUS
<1> HIDE DEF s
<1>2. \A n, k : Mine(n, k) = IF e.step = n /\ e.kind = k THEN {1} ELSE {} BY <1>1
<1>3. Last({1}) = 1 BY DEF Last
<1> DEFINE said(n, k) == IF Mine(n, k) = {} THEN h[n][k] ELSE {s[Last(Mine(n, k))].commit}
           says(n, k) == IF e.step = n /\ e.kind = k THEN {e.commit} ELSE h[n][k]
<1>4. \A n \in Names, k \in Recorded : said(n, k) = says(n, k)
  BY <1>1, <1>2, <1>3
<1>5. Written(h, s) = [n \in Names |-> [k \in Recorded |-> said(n, k)]]
  BY DEF Written
<1>6. Written(h, s) = [n \in Names |-> [k \in Recorded |-> says(n, k)]]
  <2> HIDE DEF said, says
  <2> QED BY <1>4, <1>5
<1> QED BY <1>6 DEF s, says

\* What is written are commits.
LEMMA WrittenTyped ==
    ASSUME NEW h \in HistoryType, NEW e, e.commit \in Trees
    PROVE  Written(h, <<e>>) \in HistoryType
<1> DEFINE v(n, k) == IF e.step = n /\ e.kind = k THEN {e.commit} ELSE h[n][k]
<1>1. \A n \in Names, k \in Recorded : v(n, k) \in SUBSET Trees BY DEF HistoryType
<1>2. Written(h, <<e>>) = [n \in Names |-> [k \in Recorded |-> v(n, k)]] BY OneWritten
<1> HIDE DEF v
<1> QED BY <1>1, <1>2 DEF HistoryType

\* What waits to be written are commits too, so the file keeps its shape.
LEMMA FlushTyped ==
    ASSUME Shaped, Placed, hist' = Written(hist, pending)
    PROVE  hist' \in HistoryType
<1>1. CASE pending = <<>> BY <1>1, NothingWritten DEF Shaped
<1>2. CASE \E e \in EntryType : pending = <<e>>
  <2>1. PICK e \in EntryType : pending = <<e>> BY <1>2
  <2>2. e.commit \in Trees BY DEF EntryType
  <2> QED BY <2>1, <2>2, WrittenTyped DEF Shaped
<1> QED BY <1>1, <1>2 DEF Placed

------------------------------------------------------------------------------
(* What the parts of a step come to.                                         *)

\* Where a step may leave the process and the project.
Moves ==
    /\ program' = program /\ i' \in 1 .. Len(program) + 1
    /\ head' \in Trees /\ work' \in Trees
    /\ seen' \in SUBSET Names /\ given' \in SUBSET Names
    /\ hist' \in HistoryType

Waits == pending' = <<>> \/ \E e \in EntryType : pending' = <<e>>

\* What the next states are of in Placed and Spending, by how a step goes on.
GoesOn ==
    /\ pc' \notin Between /\ i' = i /\ pending' = <<>> /\ next' = {} /\ run' = run /\ fixes' = fixes
    /\ pc' = "applies" => Block.kind = "applies"
Returns == pc' = "next" /\ Waits /\ next' = {} /\ run' = run /\ fixes' = fixes
Ends == pc' \in Ended /\ pending' = <<>> /\ next' = {} /\ run' = Fresh /\ fixes' = 0
Asks == GoesOn /\ (pc' \in {"force", "ask"} => Spent < Limit)

\* A fresh run has spent nothing.
LEMMA FreshRun == Fresh \in RunType /\ Fresh.reentries = 0
BY DEF Fresh, RunType

\* A process that ends leaves nothing of the step it was in.
LEMMA StopMoves ==
    ASSUME Kept, NEW how \in Ended, Stop(how), head' \in Trees, hist' \in HistoryType,
           program' = program
    PROVE  Moves
<1>1. program # <<>> /\ Len(program) \in Nat BY ProgramsAssumption DEF Kept, Shaped
<1> QED BY <1>1 DEF Stop, Moves

\* Inside a step nothing waits to be written, and no run is due.
LEMMA InAStep ==
    ASSUME Kept, pc \notin Between
    PROVE  /\ pending = <<>> /\ next = {} /\ i \in DOMAIN program /\ Written(hist, pending) = hist
           /\ hist \in HistoryType
           /\ Block \in Blocks /\ Block.name \in Names /\ Block.out \in Files
<1>1. pending = <<>> /\ next = {} /\ i \in DOMAIN program BY DEF Kept, Placed, Between, Ended
<1>2. hist \in HistoryType /\ program \in Programs BY DEF Kept, Shaped
<1>3. Written(hist, pending) = hist BY <1>1, <1>2, NothingWritten
<1> QED BY <1>1, <1>2, <1>3, AtABlock

\* halt ends the process with what it had kept.
LEMMA HaltMoves ==
    ASSUME Kept, pc \notin Between, Halt, program' = program
    PROVE  Moves /\ Ends /\ hist' = hist
<1>1. hist' = hist /\ hist \in HistoryType /\ pending' = <<>> /\ next' = {} /\ head' = head
  BY InAStep DEF Halt, Flush
<1>2. Stop("halted") /\ head' \in Trees BY <1>1 DEF Halt, Kept, Shaped
<1>3. Moves BY <1>1, <1>2, StopMoves DEF Ended
<1> QED BY <1>1, <1>2, <1>3 DEF Stop, Ends, Ended

\* A failed step is sent to the task force while its limit allows, and ends the run else.
LEMMA FailsMoves ==
    ASSUME Kept, pc \notin Between, NEW again, NEW back, Fails(again, back), program' = program
    PROVE  Moves /\ (Asks \/ Ends) /\ hist' = hist
<1>1. CASE Spent < Limit
  <2>1. hist' = hist /\ hist \in HistoryType /\ pending' = <<>> /\ next' = {}
    BY <1>1, InAStep DEF Fails, Flush
  <2>2. pc' = "force" /\ UNCHANGED <<i, head, work, run, seen, given, fixes>>
    BY <1>1 DEF Fails, Goto
  <2>3. Moves BY <2>1, <2>2 DEF Moves, Kept, Shaped
  <2> QED BY <1>1, <2>1, <2>2, <2>3 DEF Asks, GoesOn, Between, Ended
<1>2. CASE ~(Spent < Limit) BY <1>2, HaltMoves DEF Fails
<1> QED BY <1>1, <1>2

\* A step that returns leaves the driver at a block or at its end.
LEMMA ReturnInside ==
    ASSUME Kept, i \in DOMAIN program, NEW outcome, Return(outcome)
    PROVE  i' \in 1 .. Len(program) + 1 /\ pc' = "next"
BY ReturnsInside DEF Return, Kept, Shaped

\* A result waits to be written until the next step.
LEMMA GiveMoves ==
    ASSUME Kept, pc \notin Between, NEW outcome, NEW commit \in Trees,
           GiveResult(Block.name, commit, outcome), UNCHANGED <<program, hist, run, seen, fixes, next>>,
           head' \in Trees, work' \in Trees
    PROVE  /\ Moves /\ Returns
           /\ pending' = <<Entry(Block.name, "result", commit)>>
           /\ Entry(Block.name, "result", commit) \in EntryType
<1>0. pending = <<>> /\ next = {} /\ i \in DOMAIN program /\ hist \in HistoryType /\ Block.name \in Names
  BY InAStep
<1>1. pending' = <<Entry(Block.name, "result", commit)>> BY <1>0 DEF GiveResult, Defer
<1>2. Entry(Block.name, "result", commit) \in EntryType BY <1>0 DEF Entry, EntryType
<1>3. i' \in 1 .. Len(program) + 1 /\ pc' = "next" BY <1>0, ReturnInside DEF GiveResult
<1>4. given' \in SUBSET Names BY <1>0 DEF GiveResult, Kept, Shaped
<1>5. Moves BY <1>0, <1>3, <1>4 DEF Moves, Kept, Shaped
<1> QED BY <1>0, <1>1, <1>2, <1>3, <1>5 DEF Returns, Waits

------------------------------------------------------------------------------
(* What the steps come to.                                                   *)

\* What a step's end does to the history, and to what is known of its result.
Quiet == hist' = hist /\ pending' = <<>> /\ judged' = judged /\ signed' = signed
JudgedOn(commit) ==
    judged' = [judged EXCEPT ![Block.name] = {[tree |-> commit, told |-> told[Block.name], lost |-> FALSE]}]
Carries ==
    /\ hist' = hist /\ pending' = <<Entry(Block.name, "result", head)>>
    /\ judged' = judged /\ signed' = signed
    /\ \E c \in hist[Block.name]["result"] : Same(c, head, Block.reads)
Gives(commit) ==
    /\ hist' = hist /\ pending' = <<Entry(Block.name, "result", commit)>>
    /\ signed' = signed /\ JudgedOn(commit)
Commits(commit) ==
    /\ hist' = Written(hist, <<Entry(Block.name, "result", commit)>>) /\ pending' = <<>>
    /\ signed' = signed /\ JudgedOn(commit)
Records == Quiet \/ Carries \/ (\E c \in Trees : Gives(c)) \/ (\E c \in Trees : Commits(c))
StandsOn(reads) ==
    /\ hist' = Written(hist, <<Entry(Block.name, "approval", head')>>) /\ pending' = <<>>
    /\ judged' = judged /\ signed' = signed
    /\ head' = head /\ \E c \in hist[Block.name]["approval"] : Same(c, head, reads)
Signs ==
    /\ hist' = Written(hist, <<Entry(Block.name, "approval", head')>>) /\ pending' = <<>>
    /\ judged' = judged /\ signed' = [signed EXCEPT ![Block.name] = {head'}]

Told == UNCHANGED <<before, told>>

\* Keeping a step's work records it, or fails.
LEMMA KeepMoves ==
    ASSUME Kept, pc \notin Between, NEW outcome, Keep(outcome, work), Told,
           UNCHANGED <<program, signed>>
    PROVE  Moves /\ (Asks \/ Ends \/ Returns) /\ Records
<1>0. work \in Trees /\ pending = <<>> /\ hist \in HistoryType BY InAStep DEF Kept, Shaped
<1>1. CASE /\ GateKeeps(work) /\ GiveResult(Block.name, work, outcome) /\ Judged(Block.name, work)
           /\ UNCHANGED <<hist, run, seen, fixes, next>>
  <2>1. head' = work /\ work' = work BY <1>1 DEF GateKeeps
  <2>2. Moves /\ Returns /\ pending' = <<Entry(Block.name, "result", work)>>
    BY <1>0, <1>1, <2>1, GiveMoves
  <2>3. JudgedOn(work) BY <1>1 DEF Judged, JudgedOn
  <2>4. Gives(work) BY <1>1, <2>2, <2>3 DEF Gives
  <2> QED BY <1>0, <2>2, <2>4 DEF Records
<1>2. CASE Fails(FALSE, "next") /\ UNCHANGED judged
  <2>1. Moves /\ (Asks \/ Ends) /\ hist' = hist BY <1>2, FailsMoves
  <2>2. pending' = <<>> BY <2>1 DEF Asks, GoesOn, Ends
  <2>3. Quiet BY <1>2, <2>1, <2>2 DEF Quiet
  <2> QED BY <2>1, <2>3 DEF Records
<1> QED BY <1>1, <1>2 DEF Keep

\* An unmet end hands the work on, or fails.
LEMMA UnmetMoves ==
    ASSUME Kept, pc \notin Between, Unmet, Told, UNCHANGED <<program, judged, signed>>
    PROVE  Moves /\ (Asks \/ Ends \/ Returns) /\ Records
<1>0. work \in Trees /\ pending = <<>> /\ hist \in HistoryType /\ next = {} /\ i \in DOMAIN program
  BY InAStep DEF Kept, Shaped
<1>1. CASE /\ GateKeeps(work) /\ Return("unmet")
           /\ UNCHANGED <<hist, pending, run, seen, given, fixes, next>>
  <2>1. i' \in 1 .. Len(program) + 1 /\ pc' = "next" BY <1>0, <1>1, ReturnInside
  <2>2. Moves BY <1>0, <1>1, <2>1 DEF Moves, GateKeeps, Kept, Shaped
  <2>3. Returns BY <1>0, <1>1, <2>1 DEF Returns, Waits
  <2>4. Quiet BY <1>0, <1>1 DEF Quiet
  <2> QED BY <2>2, <2>3, <2>4 DEF Records
<1>2. CASE \E again \in BOOLEAN, back \in {"next", "done"} : Fails(again, back)
  <2>1. Moves /\ (Asks \/ Ends) /\ hist' = hist BY <1>2, FailsMoves
  <2>2. pending' = <<>> BY <2>1 DEF Asks, GoesOn, Ends
  <2>3. Quiet BY <2>1, <2>2 DEF Quiet
  <2> QED BY <2>1, <2>3 DEF Records
<1> QED BY <1>1, <1>2 DEF Unmet

\* A failure records nothing.
LEMMA FailsRecords ==
    ASSUME Kept, pc \notin Between, NEW again, NEW back, Fails(again, back),
           UNCHANGED <<program, judged, signed>>
    PROVE  Moves /\ (Asks \/ Ends \/ Returns) /\ Records
<1>1. Moves /\ (Asks \/ Ends) /\ hist' = hist BY FailsMoves
<1>2. pending' = <<>> BY <1>1 DEF Asks, GoesOn, Ends
<1>3. Quiet BY <1>1, <1>2 DEF Quiet
<1> QED BY <1>1, <1>3 DEF Records

\* Going on inside a step moves only its work and its place.
LEMMA GoesOnMoves ==
    ASSUME Kept, pc \notin Between, NEW p, p \notin Between, p \notin {"force", "ask"}, Goto(p), p = "applies" => Block.kind = "applies",
           head' \in Trees, work' \in Trees,
           UNCHANGED <<program, hist, run, seen, given, pending, fixes, next, judged, signed>>
    PROVE  Moves /\ (Asks \/ Ends \/ Returns) /\ Records
<1>0. pending = <<>> /\ next = {} /\ hist \in HistoryType BY InAStep
<1>1. GoesOn /\ pc' \notin {"force", "ask"} BY <1>0 DEF GoesOn, Goto
<1>2. Moves BY <1>0, <1>1 DEF Moves, GoesOn, Kept, Shaped
<1>3. Quiet BY <1>0 DEF Quiet
<1> QED BY <1>1, <1>2, <1>3 DEF Asks, Records

Steady == Moves /\ (Asks \/ Ends \/ Returns) /\ Records /\ Told

\* What a step's hooks leave it to is inside the step.
LEMMA AfterHooksInside ==
    ASSUME NEW b \in Blocks, NEW since
    PROVE  /\ AfterHooks(b, since) \notin Between /\ AfterHooks(b, since) \notin {"force", "ask"}
           /\ AfterHooks(b, since) = "applies" => b.kind = "applies"
BY BlocksAssumption DEF AfterHooks, Kinds, Between, Ended

\* A step passed as unchanged hands on the result it found current.
LEMMA TaskUnchangedSteady ==
    ASSUME Kept, TaskUnchanged
    PROVE  Steady
<1>0. pc \notin Between BY DEF TaskUnchanged, Between, Ended
<1>1. head \in Trees /\ head' = head /\ work' = work BY DEF TaskUnchanged, Kept, Shaped
<1>2. UNCHANGED <<program, hist, run, seen, fixes, next, judged, signed>> BY DEF TaskUnchanged, history
<1>3. GiveResult(Block.name, head, "unchanged") BY DEF TaskUnchanged
<1>4. Moves /\ Returns /\ pending' = <<Entry(Block.name, "result", head)>>
  <2>1. work \in Trees BY DEF Kept, Shaped
  <2> QED BY <1>0, <1>1, <1>2, <1>3, <2>1, GiveMoves
<1>5. \E c \in hist[Block.name]["result"] : Same(c, head, Block.reads)
  BY DEF TaskUnchanged, Untouched, Refreshing, LastCommit, UnchangedSince
<1>6. Carries BY <1>2, <1>4, <1>5 DEF Carries
<1>7. Told BY DEF Told, TaskUnchanged
<1> QED BY <1>4, <1>6, <1>7 DEF Steady, Records

\* A step that fails as it starts is repaired or ends the run.
LEMMA OnStartFailsSteady ==
    ASSUME Kept, OnStartFails
    PROVE  Steady
<1>1. pc \notin Between BY DEF OnStartFails, Between, Ended
<1>2. Fails(TRUE, "started") /\ UNCHANGED <<program, judged, signed>> /\ Told
  BY DEF OnStartFails, history, Told
<1> QED BY <1>1, <1>2, FailsRecords DEF Steady

\* The hooks before a step, then the step.
LEMMA BeginSteady ==
    ASSUME Kept, Begin
    PROVE  Steady
<1>1. pc \notin Between BY DEF Begin, Between, Ended
<1>2. Block \in Blocks BY <1>1, InAStep
<1>3. UNCHANGED <<program, judged, signed>> /\ Told BY DEF Begin, history, Told
<1>4. CASE /\ Goto(AfterHooks(Block, Refreshing(Block)))
           /\ UNCHANGED <<head, hist, run, work, seen, given, pending, fixes, next>>
  <2>1. head' \in Trees /\ work' \in Trees BY <1>4 DEF Kept, Shaped
  <2> QED BY <1>1, <1>2, <1>3, <1>4, <2>1, AfterHooksInside, GoesOnMoves DEF Steady
<1>5. CASE Fails(TRUE, "begin") BY <1>1, <1>3, <1>5, FailsRecords DEF Steady
<1> QED BY <1>4, <1>5 DEF Begin

\* A first script's work is committed, and its entry written at once.
LEMMA FirstSteady ==
    ASSUME Kept, First
    PROVE  Steady
<1>0. pc \notin Between BY DEF First, Between, Ended
<1>1. /\ pending = <<>> /\ next = {} /\ i \in DOMAIN program /\ hist \in HistoryType
      /\ Block \in Blocks /\ Block.name \in Names /\ Block.out \in Files
  BY <1>0, InAStep
<1>2. Told /\ UNCHANGED <<run, seen, fixes, next, signed, program>> BY DEF First, Told
<1>3. PICK t \in Work(Block) :
          /\ head' = t /\ work' = t
          /\ \/ /\ DeferAndFlush(Block.name, "result", t)
                /\ given' = given \cup {Block.name}
                /\ Return("done")
                /\ Judged(Block.name, t)
             \/ /\ Goto(IF Block.voices /\ call.since = {} THEN "discuss" ELSE "session")
                /\ UNCHANGED <<hist, pending, given, kept, call, judged>>
  BY DEF First
<1>4. t \in Trees BY <1>1, WorkIsATree DEF Kept, Shaped
<1>5. CASE /\ DeferAndFlush(Block.name, "result", t)
           /\ given' = given \cup {Block.name}
           /\ Return("done")
           /\ Judged(Block.name, t)
  <2>1. Append(<<>>, Entry(Block.name, "result", t)) = <<Entry(Block.name, "result", t)>> OBVIOUS
  <2>2. hist' = Written(hist, <<Entry(Block.name, "result", t)>>) /\ pending' = <<>>
    BY <1>1, <1>5, <2>1 DEF DeferAndFlush
  <2>3. hist' \in HistoryType BY <1>1, <1>4, <2>2, WrittenTyped DEF Entry
  <2>4. i' \in 1 .. Len(program) + 1 /\ pc' = "next" BY <1>1, <1>5, ReturnInside
  <2>5. Moves BY <1>1, <1>2, <1>3, <1>4, <1>5, <2>3, <2>4 DEF Moves, Kept, Shaped
  <2>6. Returns BY <1>1, <1>2, <2>2, <2>4 DEF Returns, Waits
  <2>7. Commits(t) BY <1>2, <1>5, <2>2 DEF Commits, Judged, JudgedOn
  <2> QED BY <1>2, <1>4, <2>5, <2>6, <2>7 DEF Steady, Records
<1>6. CASE /\ Goto(IF Block.voices /\ call.since = {} THEN "discuss" ELSE "session")
           /\ UNCHANGED <<hist, pending, given, kept, call, judged>>
  <2>1. \E p \in {"discuss", "session"} : Goto(p) BY <1>6
  <2>2. \A p \in {"discuss", "session"} : p \notin Between /\ p \notin {"force", "ask"} BY DEF Between, Ended
  <2>3. UNCHANGED <<program, hist, run, seen, given, pending, fixes, next, judged, signed>> BY <1>2, <1>6
  <2> QED BY <1>0, <1>2, <1>3, <1>4, <2>1, <2>2, <2>3, GoesOnMoves DEF Steady
<1> QED BY <1>3, <1>5, <1>6

\* The voices' rounds change nothing of the project.
LEMMA DiscussSteady ==
    ASSUME Kept, Discuss
    PROVE  Steady
<1>1. pc \notin Between BY DEF Discuss, Between, Ended
<1>3. UNCHANGED <<program, judged, signed>> /\ Told BY DEF Discuss, history, Told
<1>4. CASE /\ \E p \in {"discuss", "session"} : Goto(p)
           /\ UNCHANGED <<head, hist, run, work, seen, given, pending, fixes, next>>
  <2>1. head' \in Trees /\ work' \in Trees BY <1>4 DEF Kept, Shaped
  <2>2. \A p \in {"discuss", "session"} : p \notin Between /\ p \notin {"force", "ask"} BY DEF Between, Ended
  <2> QED BY <1>1, <1>3, <1>4, <2>1, <2>2, GoesOnMoves DEF Steady
<1>5. CASE Fails(FALSE, "next") BY <1>1, <1>3, <1>5, FailsRecords DEF Steady
<1> QED BY <1>4, <1>5 DEF Discuss

\* A session's end goes to its review, stands as it was, or is unmet.
LEMMA SessionSteady ==
    ASSUME Kept, Session
    PROVE  Steady
<1>0. pc \notin Between BY DEF Session, Between, Ended
<1>1. Block.out \in Files /\ work \in Trees BY <1>0, InAStep DEF Kept, Shaped
<1>2. Told /\ UNCHANGED <<signed, program>> BY DEF Session, Told
<1>3. PICK t \in Work(Block) :
          \/ /\ work' = t /\ Goto("review")
             /\ UNCHANGED <<head, hist, run, seen, pending, given, fixes, next, judged>>
          \/ /\ GateKeeps(work) /\ GiveResult(Block.name, work, "unchanged") /\ Judged(Block.name, work)
             /\ UNCHANGED <<hist, run, seen, fixes, next>>
          \/ Unmet /\ UNCHANGED judged
  BY DEF Session
<1>4. t \in Trees BY <1>1, WorkIsATree
<1>5. CASE /\ work' = t /\ Goto("review")
           /\ UNCHANGED <<head, hist, run, seen, pending, given, fixes, next, judged>>
  <2>1. head' \in Trees BY <1>5 DEF Kept, Shaped
  <2>2. "review" \notin Between BY DEF Between, Ended
  <2> QED BY <1>0, <1>2, <1>4, <1>5, <2>1, <2>2, GoesOnMoves DEF Steady
<1>6. CASE /\ GateKeeps(work) /\ GiveResult(Block.name, work, "unchanged") /\ Judged(Block.name, work)
           /\ UNCHANGED <<hist, run, seen, fixes, next>>
  <2>1. head' = work /\ work' = work BY <1>6 DEF GateKeeps
  <2>2. Moves /\ Returns /\ pending' = <<Entry(Block.name, "result", work)>>
    BY <1>0, <1>1, <1>2, <1>6, <2>1, GiveMoves
  <2>3. Gives(work) BY <1>2, <1>6, <2>2 DEF Gives, Judged, JudgedOn
  <2> QED BY <1>1, <1>2, <2>2, <2>3 DEF Steady, Records
<1>7. CASE Unmet /\ UNCHANGED judged BY <1>0, <1>2, <1>7, UnmetMoves DEF Steady
<1> QED BY <1>3, <1>5, <1>6, <1>7

\* A review keeps the work, asks for a repair, or is unmet.
LEMMA ReviewSteady ==
    ASSUME Kept, Review
    PROVE  Steady
<1>0. pc \notin Between BY DEF Review, Between, Ended
<1>2. Told /\ UNCHANGED <<signed, program>> BY DEF Review, Told
<1>3. \/ \E outcome : Keep(outcome, work)
      \/ /\ Goto("repair")
         /\ UNCHANGED <<head, hist, kept, run, work, seen, pending, given, fixes, next, judged>>
      \/ Unmet /\ UNCHANGED judged
  BY DEF Review
<1>4. CASE \E outcome : Keep(outcome, work) BY <1>0, <1>2, <1>4, KeepMoves DEF Steady
<1>5. CASE /\ Goto("repair")
           /\ UNCHANGED <<head, hist, kept, run, work, seen, pending, given, fixes, next, judged>>
  <2>1. head' \in Trees /\ work' \in Trees BY <1>5 DEF Kept, Shaped
  <2>2. "repair" \notin Between BY DEF Between, Ended
  <2> QED BY <1>0, <1>2, <1>5, <2>1, <2>2, GoesOnMoves DEF Steady
<1>6. CASE Unmet /\ UNCHANGED judged BY <1>0, <1>2, <1>6, UnmetMoves DEF Steady
<1> QED BY <1>3, <1>4, <1>5, <1>6

\* A repair moves the work only.
LEMMA RepairSteady ==
    ASSUME Kept, Repair
    PROVE  Steady
<1>0. pc \notin Between BY DEF Repair, Between, Ended
<1>1. work' \in Trees /\ head' \in Trees BY <1>0, InAStep, WorkIsATree DEF Repair, Kept, Shaped, project
<1>2. UNCHANGED <<program, hist, run, seen, given, pending, fixes, next, judged, signed>> /\ Told
  BY DEF Repair, project, history, Told
<1>3. Goto("review") /\ "review" \notin Between BY DEF Repair, Between, Ended
<1> QED BY <1>0, <1>1, <1>2, <1>3, GoesOnMoves DEF Steady

\* A script that met its checks is committed, and recorded by no entry of its own.
LEMMA ScriptReturns ==
    ASSUME Kept, pc \notin Between, head' \in Work(Block), work' = head', Flush, Return("done"),
           UNCHANGED <<run, seen, given, fixes, next, program, judged, signed>>
    PROVE  Moves /\ Returns /\ Records
<1>1. /\ pending = <<>> /\ next = {} /\ i \in DOMAIN program /\ hist \in HistoryType
      /\ Block.out \in Files /\ Written(hist, pending) = hist
  BY InAStep
<1>2. head' \in Trees BY <1>1, WorkIsATree DEF Kept, Shaped
<1>3. i' \in 1 .. Len(program) + 1 /\ pc' = "next" BY <1>1, ReturnInside
<1>4. hist' = hist /\ pending' = <<>> BY <1>1 DEF Flush
<1>5. Moves BY <1>1, <1>2, <1>3, <1>4 DEF Moves, Kept, Shaped
<1> QED BY <1>1, <1>3, <1>4, <1>5 DEF Returns, Waits, Records, Quiet

\* A script's step fails or returns.
LEMMA ScriptSteady ==
    ASSUME Kept, Script
    PROVE  Steady
<1>1. pc \notin Between BY DEF Script, Between, Ended
<1>2. UNCHANGED <<program, judged, signed>> /\ Told BY DEF Script, history, Told
<1>3. CASE /\ head' \in Work(Block) /\ work' = head'
           /\ Flush /\ Return("done")
           /\ UNCHANGED <<run, seen, given, fixes, next>>
  BY <1>1, <1>2, <1>3, ScriptReturns DEF Steady
<1>4. CASE Fails(TRUE, "script") BY <1>1, <1>2, <1>4, FailsRecords DEF Steady
<1> QED BY <1>3, <1>4 DEF Script

\* A condition moves the driver to the step it guards or over it.
LEMMA AppliesSteady ==
    ASSUME Kept, Applies
    PROVE  Steady
<1>1. pc \notin Between /\ Block.kind = "applies" BY DEF Applies, Between, Ended, Kept, Placed
<1>2. UNCHANGED <<program, judged, signed>> /\ Told BY DEF Applies, history, Told
<1>3. /\ pending = <<>> /\ next = {} /\ i \in DOMAIN program /\ hist \in HistoryType
      /\ program \in Programs
  BY <1>1, InAStep DEF Kept, Shaped
<1>4. CASE /\ \E met \in BOOLEAN : i' = After(met)
           /\ pc' = "next" /\ call' = NoCall
           /\ UNCHANGED <<head, hist, run, work, seen, given, pending, fixes, next>>
  <2>1. i' \in 1 .. Len(program) + 1 BY <1>1, <1>3, <1>4, ReturnsInside
  <2>2. Moves BY <1>2, <1>3, <1>4, <2>1 DEF Moves, Kept, Shaped
  <2>3. Returns /\ Quiet BY <1>2, <1>3, <1>4 DEF Returns, Waits, Quiet
  <2> QED BY <1>2, <2>2, <2>3 DEF Steady, Records
<1>5. CASE Fails(FALSE, "next") BY <1>1, <1>2, <1>5, FailsRecords DEF Steady
<1> QED BY <1>4, <1>5 DEF Applies

\* An approval stands on what was signed, is signed, or halts the run.
LEMMA ApprovalMoves ==
    ASSUME Kept, ApprovalStanding \/ Approval
    PROVE  /\ Moves /\ Told
           /\ (Returns /\ (StandsOn(Block.reads) \/ Signs)) \/ (Ends /\ Quiet)
<1>0. pc \notin Between BY DEF ApprovalStanding, Approval, Between, Ended
<1>1. /\ pending = <<>> /\ next = {} /\ i \in DOMAIN program /\ hist \in HistoryType
      /\ Block.out \in Files /\ Block.name \in Names /\ Written(hist, pending) = hist
  BY <1>0, InAStep
<1>2. Told /\ UNCHANGED <<next, judged, program>>
  BY DEF ApprovalStanding, Approval, Told, history
<1> DEFINE e == Entry(Block.name, "approval", head')
<1>3. Append(<<>>, e) = <<e>> OBVIOUS
<1>4. ASSUME DeferAndFlush(Block.name, "approval", head'), head' \in Trees, Return("done")
      PROVE  /\ hist' = Written(hist, <<e>>) /\ pending' = <<>> /\ hist' \in HistoryType
             /\ i' \in 1 .. Len(program) + 1 /\ pc' = "next"
  <2>1. hist' = Written(hist, <<e>>) /\ pending' = <<>> BY <1>1, <1>3, <1>4 DEF DeferAndFlush
  <2>2. hist' \in HistoryType BY <1>1, <1>4, <2>1, WrittenTyped DEF Entry
  <2> QED BY <1>1, <1>4, <2>1, <2>2, ReturnInside
<1>5. CASE ApprovalStanding
  <2>0. /\ Stands(Block)
        /\ DeferAndFlush(Block.name, "approval", head)
        /\ Return("done")
        /\ UNCHANGED <<head, run, work, seen, given, fixes, signed>>
    BY <1>5 DEF ApprovalStanding, history
  <2>1. head' = head /\ head \in Trees BY <2>0 DEF Kept, Shaped
  <2>2. /\ hist' = Written(hist, <<e>>) /\ pending' = <<>> /\ hist' \in HistoryType
        /\ i' \in 1 .. Len(program) + 1 /\ pc' = "next"
    BY <1>4, <2>0, <2>1
  <2>3. Moves BY <1>1, <1>2, <2>0, <2>1, <2>2 DEF Moves, Kept, Shaped
  <2>4. Returns BY <1>1, <1>2, <2>0, <2>2 DEF Returns, Waits
  <2>5. \E c \in hist[Block.name]["approval"] : Same(c, head, Block.reads)
    BY <2>0 DEF Stands, LastCommit, UnchangedSince
  <2>6. StandsOn(Block.reads) BY <1>2, <2>0, <2>1, <2>2, <2>5 DEF StandsOn
  <2> QED BY <1>2, <2>3, <2>4, <2>6
<1>6. CASE /\ ~Stands(Block)
           /\ head' \in Work(Block) /\ work' = head'
           /\ DeferAndFlush(Block.name, "approval", head')
           /\ signed' = [signed EXCEPT ![Block.name] = {head'}]
           /\ Return("done")
           /\ UNCHANGED <<run, seen, given, fixes>>
  <2>1. head' \in Trees BY <1>1, <1>6, WorkIsATree DEF Kept, Shaped
  <2>2. /\ hist' = Written(hist, <<e>>) /\ pending' = <<>> /\ hist' \in HistoryType
        /\ i' \in 1 .. Len(program) + 1 /\ pc' = "next"
    BY <1>4, <1>6, <2>1
  <2>3. Moves BY <1>1, <1>2, <1>6, <2>1, <2>2 DEF Moves, Kept, Shaped
  <2>4. Returns BY <1>1, <1>2, <1>6, <2>2 DEF Returns, Waits
  <2>5. Signs BY <1>2, <1>6, <2>2 DEF Signs
  <2> QED BY <1>2, <2>3, <2>4, <2>5
<1>7. CASE /\ ~Stands(Block)
           /\ UNCHANGED <<head, signed>>
           /\ Stop("halted") /\ Flush
  <2>1. Halt BY <1>2, <1>7 DEF Halt
  <2>2. Moves /\ Ends /\ hist' = hist BY <1>0, <1>2, <2>1, HaltMoves
  <2>3. Quiet BY <1>2, <1>7, <2>2 DEF Quiet, Ends
  <2> QED BY <1>2, <2>2, <2>3
<1> QED BY <1>5, <1>6, <1>7 DEF Approval

\* The task force repairs in place, sends the run back, or ends it.
Repairs == pc' = "again" /\ i' = i /\ pending' = <<>> /\ next' = {} /\ run' = run /\ fixes' = CountedFix
GoesBack ==
    /\ pc' = "halted" /\ pending' = <<>> /\ run' = run /\ fixes' = 0
    /\ \E at \in Names, decided \in BOOLEAN :
          next' = {[at |-> at, decided |-> decided]} /\ (~decided => run.reentries < Limit)

\* A task force stops the run, repairs in place, has a human asked, or halts the run to have it started again from
\* an earlier step, unasked only below the limit.
LEMMA ForceMoves ==
    ASSUME Kept, TaskForce
    PROVE  Moves /\ Told /\ Quiet /\ (Repairs \/ Asks \/ GoesBack \/ Ends)
<1>0. pc \notin Between /\ pc = "force" BY DEF TaskForce, Between, Ended
<1>1. /\ pending = <<>> /\ next = {} /\ i \in DOMAIN program /\ hist \in HistoryType
      /\ Written(hist, pending) = hist
  BY <1>0, InAStep
<1>2. Told /\ UNCHANGED <<judged, signed, program>> BY DEF TaskForce, Told, history
<1>3. head' \in Trees
  <2>1. PICK f \in Files : \E t \in Work([out |-> f]) : head' = t \/ head' = head BY DEF TaskForce
  <2>2. [out |-> f].out \in Files OBVIOUS
  <2> QED BY <2>1, <2>2, WorkIsATree DEF Kept, Shaped
<1>4. CASE /\ call.again /\ fixes' = CountedFix
           /\ Goto("again") /\ work' = head'
           /\ UNCHANGED <<hist, pending, run, seen, given, call, next>>
  <2>1. Moves BY <1>1, <1>2, <1>3, <1>4 DEF Moves, Goto, Kept, Shaped
  <2>2. Repairs /\ Quiet BY <1>1, <1>2, <1>4 DEF Repairs, Goto, Quiet
  <2> QED BY <1>2, <2>1, <2>2
<1>5. CASE /\ \E at \in Names : Reenters(Block.name, at)
           /\ Stop("halted") /\ Flush
  <2>1. hist' = hist /\ pending' = <<>> BY <1>1, <1>5 DEF Flush
  <2>2. Moves BY <1>1, <1>2, <1>3, <1>5, <2>1, StopMoves DEF Ended
  <2>3. PICK at \in Names : next' = {[at |-> at, decided |-> FALSE]} BY <1>5 DEF Reenters
  <2>4. run' = run /\ pc' = "halted" /\ fixes' = 0 BY <1>5, <2>3 DEF Stop
  <2>5. run.reentries < Limit
    BY <1>0, Bounds DEF Kept, Spending, Spent, RunType
  <2>6. GoesBack BY <2>1, <2>3, <2>4, <2>5 DEF GoesBack
  <2> QED BY <1>2, <2>1, <2>2, <2>6 DEF Quiet
<1>6. CASE UNCHANGED next /\ Stop("halted") /\ Flush
  <2>1. hist' = hist /\ pending' = <<>> BY <1>1, <1>6 DEF Flush
  <2>2. Moves BY <1>1, <1>2, <1>3, <1>6, <2>1, StopMoves DEF Ended
  <2>3. Ends BY <1>1, <1>6, <2>1 DEF Ends, Stop, Ended
  <2> QED BY <1>2, <2>1, <2>2, <2>3 DEF Quiet
<1>7. CASE /\ Goto("ask") /\ work' = head'
           /\ UNCHANGED <<hist, pending, run, seen, given, fixes, call, next>>
  <2>1. Moves BY <1>1, <1>2, <1>3, <1>7 DEF Moves, Goto, Kept, Shaped
  <2>2. Spent < Limit BY <1>0 DEF Kept, Spending
  <2>3. Asks BY <1>1, <1>7, <2>2 DEF Asks, GoesOn, Goto, Between, Ended
  <2> QED BY <1>1, <1>2, <1>7, <2>1, <2>3 DEF Quiet
<1> QED BY <1>4, <1>5, <1>6, <1>7 DEF TaskForce

\* A human's yes has the run started again below the limit, and a no ends it.
LEMMA AnsweredMoves ==
    ASSUME Kept, Answered
    PROVE  Moves /\ Told /\ Quiet /\ (GoesBack \/ Ends)
<1>0. pc \notin Between /\ pc = "ask" BY DEF Answered, Between, Ended
<1>1. /\ pending = <<>> /\ next = {} /\ i \in DOMAIN program /\ hist \in HistoryType
      /\ Written(hist, pending) = hist
  BY <1>0, InAStep
<1>2. Told /\ UNCHANGED <<head, judged, signed, program>> BY DEF Answered, Told, history
<1>3. Stop("halted") /\ hist' = hist /\ pending' = <<>> BY <1>1 DEF Answered, Flush
<1>4. Moves BY <1>1, <1>2, <1>3, StopMoves DEF Ended, Kept, Shaped
<1>5. CASE \E at \in Names : Reenters(Block.name, at)
  <2>1. PICK at \in Names : next' = {[at |-> at, decided |-> FALSE]} BY <1>5 DEF Reenters
  <2>2. run' = run /\ pc' = "halted" /\ fixes' = 0 BY <1>3, <2>1 DEF Stop
  <2>3. run.reentries < Limit BY <1>0, Bounds DEF Kept, Spending, Spent, RunType
  <2>4. GoesBack BY <1>3, <2>1, <2>2, <2>3 DEF GoesBack
  <2> QED BY <1>2, <1>3, <1>4, <2>4 DEF Quiet
<1>6. CASE UNCHANGED next
  <2>1. Ends BY <1>1, <1>3, <1>6 DEF Ends, Stop, Ended
  <2> QED BY <1>2, <1>3, <1>4, <2>1 DEF Quiet
<1> QED BY <1>5, <1>6 DEF Answered

\* Judged again, a repaired step goes on where it failed, or ends the run.
LEMMA AgainSteady ==
    ASSUME Kept, Again
    PROVE  Steady
<1>0. pc \notin Between BY DEF Again, Between, Ended
<1>1. /\ pending = <<>> /\ next = {} /\ i \in DOMAIN program /\ hist \in HistoryType
      /\ Written(hist, pending) = hist /\ Block \in Blocks /\ head \in Trees /\ work \in Trees
  BY <1>0, InAStep DEF Kept, Shaped
<1>2. Told /\ UNCHANGED <<signed, program>> BY DEF Again, Told
<1>3. CASE Keep("done", work) BY <1>0, <1>2, <1>3, KeepMoves DEF Steady
<1>4. ASSUME NEW p, p \notin Between, p \notin {"force", "ask"}, Goto(p), p = "applies" => Block.kind = "applies",
             Flush, UNCHANGED <<head, run, work, seen, given, fixes, next, judged>>
      PROVE  Steady
  <2>1. hist' = hist /\ pending' = pending BY <1>1, <1>4 DEF Flush
  <2> QED BY <1>0, <1>1, <1>2, <1>4, <2>1, GoesOnMoves DEF Steady
<1>5. CASE /\ Flush
           /\ Goto(AfterHooks(Block, Refreshing(Block)))
           /\ UNCHANGED <<head, run, work, seen, given, fixes, next, judged>>
  BY <1>1, <1>4, <1>5, AfterHooksInside
<1>6. CASE /\ Flush /\ Goto("begin")
           /\ UNCHANGED <<head, run, work, seen, given, fixes, next, judged>>
  <2>1. "begin" \notin Between BY DEF Between, Ended
  <2> QED BY <1>4, <1>6, <2>1
<1>7. CASE /\ head' \in Work(Block) /\ work' = head' /\ Flush /\ Return("done")
           /\ UNCHANGED <<run, seen, given, fixes, next, judged>>
  BY <1>0, <1>2, <1>7, ScriptReturns DEF Steady
<1>8. CASE Halt /\ UNCHANGED judged
  <2>1. Moves /\ Ends /\ hist' = hist BY <1>0, <1>2, <1>8, HaltMoves
  <2>2. Quiet BY <1>2, <1>8, <2>1 DEF Quiet, Ends
  <2> QED BY <1>2, <2>1, <2>2 DEF Steady, Records
<1> QED BY <1>3, <1>5, <1>6, <1>7, <1>8 DEF Again

------------------------------------------------------------------------------
(* The shape of the state, and the limit.                                    *)

\* What is known of a result is of a tree and of what the step was told.
LEMMA JudgedTyped ==
    ASSUME Kept, pc \notin Between, NEW c \in Trees, JudgedOn(c)
    PROVE  judged' \in [Names -> SUBSET [tree : Trees, told : Nat, lost : BOOLEAN]]
<1>1. Block.name \in Names /\ told[Block.name] \in Nat BY InAStep DEF Kept, Shaped
<1>2. [tree |-> c, told |-> told[Block.name], lost |-> FALSE] \in [tree : Trees, told : Nat, lost : BOOLEAN]
  BY <1>1
<1> QED BY <1>1, <1>2 DEF JudgedOn, Kept, Shaped

\* A step inside the process keeps the shape.
LEMMA InsideShaped ==
    ASSUME Kept, pc \notin Between, Moves, Told, Records \/ StandsOn(Block.reads) \/ Signs
    PROVE  Shaped'
<1>1. judged' \in [Names -> SUBSET [tree : Trees, told : Nat, lost : BOOLEAN]]
  <2>1. judged' = judged \/ \E c \in Trees : JudgedOn(c)
    BY DEF Records, Quiet, Carries, Gives, Commits, StandsOn, Signs
  <2> QED BY <2>1, JudgedTyped DEF Kept, Shaped
<1>2. signed' \in [Names -> SUBSET Trees]
  <2>1. signed' = signed \/ signed' = [signed EXCEPT ![Block.name] = {head'}]
    BY DEF Records, Quiet, Carries, Gives, Commits, StandsOn, Signs
  <2>2. head' \in Trees BY DEF Moves
  <2> QED BY <2>1, <2>2 DEF Kept, Shaped
<1> QED BY <1>1, <1>2 DEF Kept, Shaped, Moves, Told

\* A step inside the process keeps its place and what waits.
LEMMA InsidePlaced ==
    ASSUME Kept, pc \notin Between, Moves, Asks \/ Ends \/ Returns \/ Repairs \/ GoesBack
    PROVE  Placed'
<1>0. i \in DOMAIN program /\ program' = program BY InAStep DEF Moves
<1>1. CASE Asks BY <1>0, <1>1 DEF Asks, GoesOn, Placed, Block
<1>2. CASE Ends BY <1>2 DEF Ends, Placed, Between, Ended
<1>3. CASE Returns BY <1>3 DEF Returns, Waits, Placed, Between
<1>4. CASE Repairs BY <1>0, <1>4 DEF Repairs, Placed, Block
<1>5. CASE GoesBack
  <2>1. PICK at \in Names, decided \in BOOLEAN : next' = {[at |-> at, decided |-> decided]}
    BY <1>5 DEF GoesBack
  <2> QED BY <1>5, <2>1 DEF GoesBack, Placed, Between, Ended
<1> QED BY <1>1, <1>2, <1>3, <1>4, <1>5

\* Repairs in place and re-entries share one limit.
LEMMA InsideSpending ==
    ASSUME Kept, pc \notin Between, Asks \/ Ends \/ Returns \/ (Repairs /\ pc = "force") \/ GoesBack
    PROVE  Spending'
<1>0. /\ run \in RunType /\ fixes \in Nat /\ run.reentries \in Nat /\ Limit \in Nat
      /\ run.reentries + fixes <= Limit
  BY Bounds DEF Kept, Spending, Spent, RunType
<1>1. CASE Asks BY <1>0, <1>1 DEF Asks, GoesOn, Spending, Between, Spent, Ended
<1>2. CASE Ends BY <1>0, <1>2, FreshRun DEF Ends, Spending, Ended, Spent
<1>3. CASE Returns BY <1>0, <1>3 DEF Returns, Spending, Ended, Spent
<1>4. CASE Repairs /\ pc = "force"
  <2>1. run.reentries + fixes < Limit BY <1>4 DEF Kept, Spending, Spent
  <2> QED BY <1>0, <1>4, <2>1 DEF Repairs, Spending, Ended, Spent, CountedFix
<1>5. CASE GoesBack BY <1>0, <1>5 DEF GoesBack, Spending, Ended, Spent
<1> QED BY <1>1, <1>2, <1>3, <1>4, <1>5

\* The actions of a step, and how it goes on.
Inside ==
    \/ TaskUnchanged \/ OnStartFails \/ Begin \/ First \/ Discuss \/ Session \/ Review \/ Repair
    \/ Script \/ Applies \/ ApprovalStanding \/ Approval \/ TaskForce \/ Answered \/ Again

\* Inside a step the driver asks, repairs, goes back, ends or returns, and what it records is the
\* step's own judgement or its approval.
LEMMA InsideMoves ==
    ASSUME Kept, Inside
    PROVE  /\ pc \notin Between /\ Moves /\ Told
           /\ Asks \/ Ends \/ Returns \/ (Repairs /\ pc = "force") \/ GoesBack
           /\ Records \/ ((StandsOn(Block.reads) \/ Signs) /\ pc = "approval")
<1>1. pc \notin Between
  BY DEF Inside, TaskUnchanged, OnStartFails, Begin, First, Discuss, Session, Review, Repair, Script,
         Applies, ApprovalStanding, Approval, TaskForce, Answered, Again, Between, Ended
<1>2. CASE TaskUnchanged \/ OnStartFails \/ Begin \/ First \/ Discuss \/ Session \/ Review \/ Repair
           \/ Script \/ Applies \/ Again
  <2>1. Steady
    BY <1>2, TaskUnchangedSteady, OnStartFailsSteady, BeginSteady, FirstSteady, DiscussSteady,
       SessionSteady, ReviewSteady, RepairSteady, ScriptSteady, AppliesSteady, AgainSteady
  <2> QED BY <1>1, <2>1 DEF Steady
<1>3. CASE ApprovalStanding \/ Approval
  <2>1. pc = "approval" BY <1>3 DEF ApprovalStanding, Approval
  <2>2. Quiet => Records BY DEF Records
  <2> QED BY <1>1, <1>3, <2>1, <2>2, ApprovalMoves
<1>4. CASE TaskForce
  <2>1. pc = "force" BY <1>4 DEF TaskForce
  <2>2. Quiet => Records BY DEF Records
  <2> QED BY <1>1, <1>4, <2>1, <2>2, ForceMoves
<1>5. CASE Answered
  <2>1. Quiet => Records BY DEF Records
  <2> QED BY <1>1, <1>5, <2>1, AnsweredMoves
<1> QED BY <1>2, <1>3, <1>4, <1>5 DEF Inside

\* What happens inside a step keeps the invariant.
LEMMA InsideKept ==
    ASSUME Kept, Inside
    PROVE  Kept'
<1>1. Shaped' BY InsideMoves, InsideShaped
<1>2. Placed' BY InsideMoves, InsidePlaced
<1>3. Spending' BY InsideMoves, InsideSpending
<1> QED BY <1>1, <1>2, <1>3 DEF Kept

------------------------------------------------------------------------------
(* Between two steps, and between two runs.                                  *)

\* The driver is at a block while its process runs; no run is due then.
LEMMA AtNext ==
    ASSUME Kept, pc = "next"
    PROVE  next = {} /\ (i <= Len(program) => i \in DOMAIN program) /\ program \in Programs
<1>1. next = {} BY DEF Kept, Placed
<1>2. program \in Programs /\ i \in 1 .. Len(program) + 1 BY DEF Kept, Shaped
<1>3. program \in Seq(Blocks) BY <1>2, ProgramsAssumption
<1> QED BY <1>1, <1>2, <1>3

\* A process that ends between two steps, with what waits written or not.
LEMMA EndKept ==
    ASSUME Kept, next = {}, next' = {}, NEW how \in Ended, Stop(how), head' = head,
           hist' \in HistoryType, pending' = <<>> \/ pending' = pending,
           UNCHANGED <<program, before, told, signed>>,
           judged' \in [Names -> SUBSET [tree : Trees, told : Nat, lost : BOOLEAN]]
    PROVE  Kept'
<1>1. Moves BY StopMoves DEF Kept, Shaped
<1>2. Shaped' BY <1>1 DEF Moves, Kept, Shaped
<1>3. pc' \in Ended /\ run' = Fresh /\ fixes' = 0 BY DEF Stop
<1>4. Placed' BY <1>3 DEF Kept, Placed, Between, Ended
<1>5. Spending'
  <2>1. Limit \in Nat /\ Fresh.reentries = 0 /\ Fresh \in RunType BY Bounds, FreshRun
  <2> QED BY <1>3, <2>1 DEF Spending, Spent, Ended
<1> QED BY <1>2, <1>4, <1>5 DEF Kept

\* Coming to a step writes what was deferred, and keeps the invariant.
LEMMA ReachKept ==
    ASSUME Kept, Reach
    PROVE  Kept'
<1> DEFINE reached == seen \cup {Block.name}
<1>1. /\ next = {} /\ i \in DOMAIN program /\ program \in Programs /\ pc = "next"
      /\ Block.name \in Names
  BY AtNext, AtABlock DEF Reach
<1>2. UNCHANGED <<head, told, next, program, judged, signed>> BY DEF Reach, history
<1>3. CASE /\ Flush /\ Stop(IF Started(seen) THEN "met" ELSE "halted")
           /\ UNCHANGED before
  <2>1. hist' \in HistoryType /\ pending' = <<>> BY <1>3, FlushTyped DEF Flush, Kept
  <2>2. \E how \in Ended : Stop(how) BY <1>3 DEF Ended
  <2>3. judged' \in [Names -> SUBSET [tree : Trees, told : Nat, lost : BOOLEAN]] BY <1>2 DEF Kept, Shaped
  <2> QED BY <1>1, <1>2, <1>3, <2>1, <2>2, <2>3, EndKept
<1>4. CASE /\ seen' = reached /\ Return("notreached")
           /\ UNCHANGED <<hist, pending, before, run, work, given, fixes>>
  <2>1. i' \in 1 .. Len(program) + 1 /\ pc' = "next" BY <1>1, <1>4, ReturnInside
  <2>2. Shaped' BY <1>1, <1>2, <1>4, <2>1 DEF Kept, Shaped
  <2>3. Placed' BY <1>1, <1>2, <1>4, <2>1 DEF Kept, Placed, Between
  <2>4. Spending' BY <1>1, <1>2, <1>4, <2>1 DEF Kept, Spending, Spent, Ended
  <2> QED BY <2>2, <2>3, <2>4 DEF Kept
<1>5. CASE /\ seen' = reached /\ Flush
           /\ before' = IF Resets THEN [before EXCEPT ![Block.name] = {head}] ELSE before
           /\ Goto("begin")
           /\ UNCHANGED <<run, work, given, fixes>>
  <2>1. hist' \in HistoryType /\ pending' = <<>> BY <1>5, FlushTyped DEF Flush, Kept
  <2>2. i' = i /\ pc' = "begin" BY <1>5 DEF Goto
  <2>3. /\ before' \in [Names -> SUBSET Trees]
        /\ \A n \in Names : before'[n] # {} => \E t \in Trees : before'[n] = {t}
    <3>1. head \in Trees /\ before \in [Names -> SUBSET Trees] BY DEF Kept, Shaped
    <3> QED BY <1>1, <1>5, <3>1 DEF Kept, Shaped
  <2>4. Shaped' BY <1>1, <1>2, <1>5, <2>1, <2>2, <2>3 DEF Kept, Shaped
  <2>5. Placed' BY <1>1, <1>2, <2>1, <2>2 DEF Kept, Placed, Between, Ended
  <2>6. Spending' BY <1>1, <1>2, <1>5, <2>2 DEF Kept, Spending, Spent, Ended
  <2> QED BY <2>4, <2>5, <2>6 DEF Kept
<1> QED BY <1>3, <1>4, <1>5 DEF Reach

\* Passing on to the next step keeps the invariant.
LEMMA PassKept ==
    ASSUME Kept, Pass
    PROVE  Kept'
<1>1. next = {} /\ i \in DOMAIN program /\ program \in Programs /\ pc = "next" BY AtNext DEF Pass
<1>2. UNCHANGED <<pc, head, hist, before, told, run, work, seen, pending, given, fixes, next, program, judged, signed>>
  BY DEF Pass, project, history
<1>3. i' \in 1 .. Len(program) + 1
  <2>1. program \in Seq(Blocks) BY <1>1, ProgramsAssumption
  <2> QED BY <1>1, <2>1 DEF Pass
<1>4. Shaped' BY <1>2, <1>3 DEF Kept, Shaped
<1>5. Placed' BY <1>1, <1>2 DEF Kept, Placed, Between
<1>6. Spending' BY <1>2 DEF Kept, Spending, Spent
<1> QED BY <1>4, <1>5, <1>6 DEF Kept

\* Coming to the end of the program writes what was deferred, and keeps the invariant.
LEMMA FinishKept ==
    ASSUME Kept, Finish
    PROVE  Kept'
<1>1. next = {} BY AtNext DEF Finish
<1>2. /\ UNCHANGED <<head, before, told, next, program, judged, signed>>
      /\ Stop("met") /\ (Flush \/ UNCHANGED <<hist, pending>>)
  BY DEF Finish, history
<1>3. hist' \in HistoryType /\ (pending' = <<>> \/ pending' = pending)
  BY <1>2, FlushTyped DEF Flush, Kept, Shaped
<1>4. judged' \in [Names -> SUBSET [tree : Trees, told : Nat, lost : BOOLEAN]] BY <1>2 DEF Kept, Shaped
<1> QED BY <1>1, <1>2, <1>3, <1>4, EndKept DEF Ended

\* What a lost entry was of is marked, and stays.
LEMMA UnwrittenTyped ==
    ASSUME Kept, Unwritten(pending)
    PROVE  judged' \in [Names -> SUBSET [tree : Trees, told : Nat, lost : BOOLEAN]]
<1>1. \A n \in Names : \A j \in judged[n] :
        [j EXCEPT !.lost = TRUE] \in [tree : Trees, told : Nat, lost : BOOLEAN]
  <2>1. TAKE n \in Names
  <2>2. TAKE j \in judged[n]
  <2>3. j \in [tree : Trees, told : Nat, lost : BOOLEAN]
    BY DEF Kept, Shaped
  <2> QED BY <2>3
<1>2. \A n \in Names :
        {[j EXCEPT !.lost = TRUE] : j \in judged[n]} \in SUBSET [tree : Trees, told : Nat, lost : BOOLEAN]
  BY <1>1
<1> QED BY <1>2 DEF Unwritten, Kept, Shaped

\* A crash loses what was deferred, and keeps the invariant.
LEMMA CrashKept ==
    ASSUME Kept, Crash
    PROVE  Kept'
<1>1. next = {} /\ next' = next
  BY DEF Crash, Kept, Placed
<1>2. UNCHANGED <<head, hist, before, told, program, signed>> /\ Stop("halted") /\ pending' = <<>>
  BY DEF Crash, project
<1>3. judged' \in [Names -> SUBSET [tree : Trees, told : Nat, lost : BOOLEAN]]
  BY UnwrittenTyped DEF Crash
<1>4. hist' \in HistoryType BY <1>2 DEF Kept, Shaped
<1> QED BY <1>1, <1>2, <1>3, <1>4, EndKept DEF Ended

\* The driver goes back with a decision, which is no re-entry.
LEMMA DecideKept ==
    ASSUME Kept, Decide
    PROVE  Kept'
<1>1. /\ UNCHANGED <<head, before, told, program, judged, signed>>
      /\ Stop("halted") /\ Flush /\ pc = "next"
  BY DEF Decide, history
<1>2. PICK at \in seen : next' = {[at |-> at, decided |-> TRUE]} BY DEF Decide
<1>3. hist' \in HistoryType /\ pending' = <<>> BY <1>1, FlushTyped DEF Flush, Kept
<1>4. Moves BY <1>1, <1>3, StopMoves DEF Kept, Shaped, Ended
<1>5. Shaped' BY <1>1, <1>4 DEF Moves, Kept, Shaped
<1>6. pc' = "halted" /\ run' = run /\ fixes' = 0 BY <1>1, <1>2 DEF Stop
<1>7. Placed'
  <2>1. at \in Names BY DEF Kept, Shaped
  <2>2. next' \in SUBSET [at : Names, decided : BOOLEAN] BY <1>2, <2>1
  <2> QED BY <1>3, <1>6, <2>2 DEF Placed, Between, Ended
<1>8. Spending'
  <2>1. run \in RunType /\ fixes \in Nat /\ run.reentries + fixes <= Limit /\ Limit \in Nat
    BY Bounds DEF Kept, Spending, Spent
  <2>2. run.reentries \in Nat BY <2>1 DEF RunType
  <2> QED BY <1>2, <1>6, <2>1, <2>2 DEF Spending, Spent, Ended
<1> QED BY <1>5, <1>7, <1>8 DEF Kept

\* The next run takes the step to go back to, and the count.
LEMMA RerunKept ==
    ASSUME Kept, Rerun
    PROVE  Kept'
<1> DEFINE n == CHOOSE n \in next : TRUE
           args == [run EXCEPT !.from = {n.at}, !.note = TRUE, !.reset = FALSE, !.decided = n.decided,
                               !.reentries = Counted(n.decided)]
<1>1. n \in next /\ n.at \in Names /\ n.decided \in BOOLEAN BY DEF Rerun, Kept, Placed
<1>2. Starts(args, head) /\ UNCHANGED <<hist, before, told, program, judged, signed>>
  BY DEF Rerun, history
<1>3. /\ run' = args /\ pc' = "next" /\ head' = head /\ work' = head /\ i' = i
      /\ pending' = <<>> /\ next' = {}
      /\ UNCHANGED <<seen, given, fixes>>
  BY <1>2 DEF Starts
<1>4. Shaped' BY <1>2, <1>3 DEF Kept, Shaped
<1>5. Placed' BY <1>3 DEF Placed, Between
<1>6. /\ run \in RunType /\ run.reentries \in Nat /\ Limit \in Nat /\ run.reentries <= Limit
      /\ fixes = 0 /\ (~n.decided => run.reentries < Limit)
  <2>1. run \in RunType /\ fixes = 0 /\ run.reentries + fixes <= Limit /\ Limit \in Nat
    BY Bounds DEF Kept, Spending, Spent, Ended, Rerun
  <2>2. ~n.decided => run.reentries < Limit BY <1>1 DEF Kept, Spending
  <2> QED BY <2>1, <2>2 DEF RunType
<1>7. Counted(n.decided) \in Nat /\ Counted(n.decided) <= Limit BY <1>1, <1>6 DEF Counted
<1> HIDE DEF n
<1>8. args \in RunType /\ args.reentries = Counted(n.decided) BY <1>1, <1>6, <1>7 DEF RunType
<1>9. Spending' BY <1>3, <1>6, <1>7, <1>8 DEF Spending, Spent, Ended
<1> QED BY <1>4, <1>5, <1>9 DEF Kept

\* The operator starts a run afresh, on the tree as it is or as a step found it.
LEMMA OperatorKept ==
    ASSUME Kept, Operator
    PROVE  Kept'
<1>1. PICK from \in {{}} \cup {{n} : n \in Names}, until \in {{}} \cup {{n} : n \in Untils},
          note, reset \in BOOLEAN :
          /\ reset => \E n \in from : before[n] # {}
          /\ Starts([Fresh EXCEPT !.from = from, !.until = until, !.note = note, !.reset = reset],
                    IF reset THEN CHOOSE t \in Trees : \E n \in from : before[n] = {t} ELSE head)
  BY DEF Operator
<1> DEFINE args == [Fresh EXCEPT !.from = from, !.until = until, !.note = note, !.reset = reset]
           tree == IF reset THEN CHOOSE t \in Trees : \E n \in from : before[n] = {t} ELSE head
<1>2. UNCHANGED <<hist, before, signed, program>> /\ Unwritten(pending) /\ fixes = 0
  BY DEF Operator, Kept, Spending, Ended
<1>3. tree \in Trees
  <2>1. CASE reset
    <3>1. PICK n \in from : before[n] # {} BY <1>1, <2>1
    <3>2. n \in Names BY <3>1
    <3>3. \E t \in Trees : before[n] = {t} BY <3>1, <3>2 DEF Kept, Shaped
    <3>4. \E t \in Trees : \E m \in from : before[m] = {t} BY <3>1, <3>3
    <3> QED BY <2>1, <3>4
  <2>2. CASE ~reset BY <2>2 DEF Kept, Shaped
  <2> QED BY <2>1, <2>2
<1>4. args \in RunType /\ args.reentries = 0
  <2>1. from \in SUBSET Names /\ until \in SUBSET Names BY Bounds
  <2>2. Fresh \in RunType /\ Fresh.reentries = 0 BY FreshRun
  <2> HIDE DEF Fresh
  <2> QED BY <2>1, <2>2 DEF RunType
<1> HIDE DEF args, tree
<1>5. /\ run' = args /\ pc' = "next" /\ head' = tree /\ work' = tree /\ i' = i
      /\ pending' = <<>> /\ next' = {}
      /\ UNCHANGED <<seen, given, fixes>>
  BY <1>1 DEF Starts, args, tree
<1>6. told' \in [Names -> Nat]
  <2>1. told' = told \/ \E m \in Names : told' = [told EXCEPT ![m] = 1] BY DEF Operator
  <2> QED BY <2>1 DEF Kept, Shaped
<1>7. Shaped' BY <1>2, <1>3, <1>5, <1>6, UnwrittenTyped DEF Kept, Shaped
<1>8. Placed' BY <1>5 DEF Placed, Between
<1>9. Spending' BY <1>2, <1>4, <1>5, Bounds DEF Spending, Spent, Ended
<1> QED BY <1>7, <1>8, <1>9 DEF Kept

\* The first run starts with the invariant.
LEMMA InitKept ==
    ASSUME Init
    PROVE  Kept
<1>1. program # <<>> /\ Len(program) \in Nat BY ProgramsAssumption DEF Init
<1>2. head \in Trees BY VersionsAssumption DEF Init, Trees
<1>3. Shaped BY <1>1, <1>2 DEF Init, Shaped, HistoryType
<1>4. Placed BY DEF Init, Placed, Between
<1>5. Spending BY Bounds, FreshRun DEF Init, Spending, Spent, Ended
<1> QED BY <1>3, <1>4, <1>5 DEF Kept

\* Every step of a run, of the operator and of a crash keeps the invariant.
LEMMA NextKept ==
    ASSUME Kept, [Next]_vars
    PROVE  Kept'
<1>1. CASE Inside BY <1>1, InsideKept
<1>2. CASE Reach \/ Pass \/ Finish \/ Rerun BY <1>2, ReachKept, PassKept, FinishKept, RerunKept
<1>3. CASE Decide \/ Operator \/ Crash BY <1>3, DecideKept, OperatorKept, CrashKept
<1>4. CASE UNCHANGED vars
  <2>1. UNCHANGED <<pc, i, head, hist, before, told, run, work, seen, pending, given, fixes, next, program, judged, signed>>
    BY <1>4 DEF vars, project, process, history
  <2>2. Shaped' BY <2>1 DEF Kept, Shaped
  <2>3. Placed' BY <2>1 DEF Kept, Placed, Block
  <2>4. Spending' BY <2>1 DEF Kept, Spending, Spent
  <2> QED BY <2>2, <2>3, <2>4 DEF Kept
<1> QED BY <1>1, <1>2, <1>3, <1>4 DEF Next, Steps, Humans, Inside

\* The invariant implies the type invariant.
LEMMA KeptTyped ==
    ASSUME Kept
    PROVE  TypeOK
<1>1. {head, work} \subseteq Trees /\ i \in 1 .. Len(program) + 1 /\ seen \cup given \subseteq Names
  BY DEF Kept, Shaped
<1>2. run.reentries <= Limit /\ Spent <= Limit
  <2>1. run.reentries \in Nat /\ fixes \in Nat /\ Limit \in Nat BY Bounds DEF Kept, Spending, RunType
  <2> QED BY <2>1 DEF Kept, Spending, Spent
<1>3. \A n \in Names : hist[n]["result"] \cup hist[n]["approval"] \cup before[n] \subseteq Trees
  BY DEF Kept, Shaped, HistoryType, Recorded
<1> QED BY <1>1, <1>2, <1>3 DEF TypeOK

\* Whatever the driver, the steps' outcomes, the operator and the crashes, every state is of its
\* type, and re-entries and repairs in place together stay within on_failure's limit.
THEOREM TypeCorrect == Spec => []TypeOK
<1>1. Init => Kept BY InitKept
<1>2. Kept /\ [Next]_vars => Kept' BY NextKept
<1>3. Kept => TypeOK BY KeptTyped
<1> QED BY <1>1, <1>2, <1>3, PTL DEF Spec

------------------------------------------------------------------------------
(* What the history tells of.                                                *)

\* Between two steps what waits is written, stays, or is lost.
Writes == hist' = Written(hist, pending) /\ pending' = <<>> /\ UNCHANGED <<judged, signed>>
Loses == hist' = hist /\ pending' = <<>> /\ Unwritten(pending) /\ signed' = signed
Rests == UNCHANGED <<hist, pending, judged, signed>>

\* Between the steps of the program the history is written, loses what was deferred, or is
\* left alone.
LEMMA OutsideRecords ==
    ASSUME Kept, [Next]_vars, ~Inside
    PROVE  Writes \/ Loses \/ Rests
<1>1. CASE Reach BY <1>1 DEF Reach, Flush, Writes, Rests, history
<1>2. CASE Pass BY <1>2 DEF Pass, Rests, project, history
<1>3. CASE Finish BY <1>3 DEF Finish, Flush, Writes, Rests, history
<1>4. CASE Decide BY <1>4 DEF Decide, Flush, Writes, history
<1>5. CASE Rerun
  <2>1. pending = <<>> BY <1>5 DEF Rerun, Kept, Placed
  <2> QED BY <1>5, <2>1 DEF Rerun, Starts, Rests, history
<1>6. CASE Operator BY <1>6 DEF Operator, Starts, Loses
<1>7. CASE Crash BY <1>7 DEF Crash, Loses, project
<1>8. CASE UNCHANGED vars BY <1>8 DEF vars, project, process, history, Rests
<1> QED BY <1>1, <1>2, <1>3, <1>4, <1>5, <1>6, <1>7, <1>8 DEF Next, Steps, Humans, Inside

\* An entry is found again under its step and kind, and moves no other.
LEMMA OneFound ==
    ASSUME NEW h \in HistoryType, NEW e, NEW n \in Names, NEW k \in Recorded
    PROVE  Written(h, <<e>>)[n][k] = IF e.step = n /\ e.kind = k THEN {e.commit} ELSE h[n][k]
<1> DEFINE v(m, l) == IF e.step = m /\ e.kind = l THEN {e.commit} ELSE h[m][l]
<1>1. Written(h, <<e>>) = [m \in Names |-> [l \in Recorded |-> v(m, l)]] BY OneWritten
<1>2. Written(h, <<e>>)[n][k] = v(n, k)
  <2> HIDE DEF v
  <2> QED BY <1>1
<1> QED BY <1>2

\* The same, by whether the entry is of the step and kind.
LEMMA Found ==
    ASSUME NEW h \in HistoryType, NEW e, NEW n \in Names, NEW k \in Recorded
    PROVE  /\ e.step = n /\ e.kind = k => Written(h, <<e>>)[n][k] = {e.commit}
           /\ e.step # n => Written(h, <<e>>)[n][k] = h[n][k]
           /\ e.kind # k => Written(h, <<e>>)[n][k] = h[n][k]
<1> DEFINE w == Written(h, <<e>>)[n][k]
<1>1. w = IF e.step = n /\ e.kind = k THEN {e.commit} ELSE h[n][k] BY OneFound
<1> HIDE DEF w
<1>2. e.step = n /\ e.kind = k => w = {e.commit} BY <1>1
<1>3. e.step # n => w = h[n][k] BY <1>1
<1>4. e.kind # k => w = h[n][k] BY <1>1
<1> QED BY <1>2, <1>3, <1>4 DEF w

\* Only results wait to be written: what was signed is written at once.
LEMMA FlushedApprovals ==
    ASSUME Kept, hist' = Written(hist, pending), NEW n \in Names
    PROVE  hist'[n]["approval"] = hist[n]["approval"]
<1>0. hist \in HistoryType /\ "approval" \in Recorded BY DEF Kept, Shaped, Recorded
<1>1. CASE pending = <<>> BY <1>0, <1>1, NothingWritten
<1>2. CASE \E e \in EntryType : pending = <<e>>
  <2>1. PICK e \in EntryType : pending = <<e>> BY <1>2
  <2>2. e.kind # "approval" BY DEF EntryType
  <2>3. Written(hist, <<e>>)[n]["approval"] = hist[n]["approval"]
    <3>1. Written(hist, <<e>>)[n]["approval"]
          = IF e.step = n /\ e.kind = "approval" THEN {e.commit} ELSE hist[n]["approval"]
      BY <1>0, OneFound
    <3> QED BY <2>2, <3>1
  <2> QED BY <2>1, <2>3
<1> QED BY <1>1, <1>2 DEF Kept, Placed

\* A result's entry, committed at once, moves no approval.
LEMMA CommittedApprovals ==
    ASSUME Kept, NEW name \in Names, NEW c \in Trees, NEW n \in Names,
           hist' = Written(hist, <<Entry(name, "result", c)>>)
    PROVE  hist'[n]["approval"] = hist[n]["approval"]
<1>0. hist \in HistoryType /\ "approval" \in Recorded BY DEF Kept, Shaped, Recorded
<1>1. PICK e \in EntryType : e = Entry(name, "result", c) /\ e.kind # "approval" BY DEF Entry, EntryType
<1>2. Written(hist, <<e>>)[n]["approval"]
      = IF e.step = n /\ e.kind = "approval" THEN {e.commit} ELSE hist[n]["approval"]
  BY <1>0, OneFound DEF Entry
<1>3. hist' = Written(hist, <<e>>) /\ Written(hist, <<e>>)[n]["approval"] = hist[n]["approval"]
  BY <1>0, <1>1, <1>2
<1> QED BY <1>1, <1>2, <1>3

\* What the history says was approved is what a human said yes to.
LEMMA ApprovedNext ==
    ASSUME Kept, OneStepPerName, AsSigned, [Next]_vars
    PROVE  AsSigned'
<1> SUFFICES ASSUME NEW b \in Blocks, NEW c \in hist'[b.name]["approval"]
             PROVE  \E t \in signed'[b.name] : Same(t, c, b.reads)
  BY DEF AsSigned
<1>0. b.name \in Names /\ hist \in HistoryType /\ "approval" \in Recorded BY DEF Names, Kept, Shaped, Recorded
<1>1. ASSUME hist'[b.name]["approval"] = hist[b.name]["approval"], signed'[b.name] = signed[b.name]
      PROVE  \E t \in signed'[b.name] : Same(t, c, b.reads)
  BY <1>1 DEF AsSigned
<1>2. CASE ~Inside
  <2>1. CASE Writes BY <1>0, <1>1, <2>1, FlushedApprovals DEF Writes
  <2>2. CASE Loses \/ Rests BY <1>1, <2>2 DEF Loses, Rests
  <2> QED BY <1>2, <2>1, <2>2, OutsideRecords
<1>3. CASE Inside
  <2>0. Block \in Blocks /\ Block.name \in Names /\ pc \notin Between BY <1>3, InsideMoves, InAStep
  <2>1. CASE Quiet \/ Carries \/ (\E d \in Trees : Gives(d))
    BY <1>1, <2>1 DEF Quiet, Carries, Gives
  <2>2. CASE \E d \in Trees : Commits(d)
    BY <1>0, <1>1, <2>0, <2>2, CommittedApprovals DEF Commits
  <2>3. ASSUME hist' = Written(hist, <<Entry(Block.name, "approval", head')>>)
        PROVE  hist'[b.name]["approval"] = IF Block.name = b.name THEN {head'} ELSE hist[b.name]["approval"]
    BY <1>0, <2>3, OneFound DEF Entry
  <2>4. CASE StandsOn(Block.reads)
    <3>1. CASE Block.name = b.name
      <4>1. c = head /\ Block.reads = b.reads
        BY <2>0, <2>3, <2>4, <3>1 DEF StandsOn, OneStepPerName
      <4>2. PICK d \in hist[b.name]["approval"] : Same(d, head, b.reads)
        BY <2>4, <3>1, <4>1 DEF StandsOn
      <4>3. PICK t \in signed[b.name] : Same(t, d, b.reads) BY <4>2 DEF AsSigned
      <4>4. Same(t, c, b.reads) BY <4>1, <4>2, <4>3 DEF Same
      <4> QED BY <2>4, <4>4 DEF StandsOn
    <3>2. CASE Block.name # b.name BY <1>1, <2>3, <2>4, <3>2 DEF StandsOn
    <3> QED BY <3>1, <3>2
  <2>5. CASE Signs
    <3>1. CASE Block.name = b.name
      <4>1. c = head' BY <2>3, <2>5, <3>1 DEF Signs
      <4>2. signed'[b.name] = {head'} BY <2>5, <3>1, <1>0 DEF Signs, Kept, Shaped
      <4>3. Same(head', c, b.reads) BY <4>1 DEF Same
      <4> QED BY <4>2, <4>3
    <3>2. CASE Block.name # b.name
      <4>1. signed'[b.name] = signed[b.name] BY <2>5, <3>2, <1>0 DEF Signs, Kept, Shaped
      <4> QED BY <1>1, <2>3, <2>5, <3>2, <4>1 DEF Signs
    <3> QED BY <3>1, <3>2
  <2> QED BY <1>3, <2>1, <2>2, <2>4, <2>5, InsideMoves DEF Records
<1> QED BY <1>2, <1>3

\* Only an approval leaves pc = "approval" for the next block.
LEMMA ApprovalReturns ==
    ASSUME Kept, AsSigned, OneStepPerName, Next, pc = "approval", pc' = "next"
    PROVE  \E t \in signed'[Block.name] : Same(t, head', Block.reads)
<1>1. ApprovalStanding \/ Approval
  BY DEF Next, Steps, Humans, Reach, Pass, Finish, TaskUnchanged, OnStartFails, Begin, First, Discuss, Session,
         Review, Repair, Script, Applies, TaskForce, Answered, Again, Rerun, Decide, Operator, Crash, Stop
<1>2. pc \notin Between BY DEF Between, Ended
<1>3. Block \in Blocks /\ Block.name \in Names BY <1>2, InAStep
<1>4. StandsOn(Block.reads) \/ Signs
  BY <1>1, ApprovalMoves DEF Ends, Ended
<1>5. CASE StandsOn(Block.reads)
  <2>1. PICK c \in hist[Block.name]["approval"] : Same(c, head, Block.reads) BY <1>5 DEF StandsOn
  <2>2. PICK t \in signed[Block.name] : Same(t, c, Block.reads) BY <1>3, <2>1 DEF AsSigned
  <2>3. Same(t, head', Block.reads) BY <1>5, <2>1, <2>2 DEF Same, StandsOn
  <2> QED BY <1>5, <2>3 DEF StandsOn
<1>6. CASE Signs
  <2>1. signed'[Block.name] = {head'} BY <1>3, <1>6 DEF Signs, Kept, Shaped
  <2>2. Same(head', head', Block.reads) BY DEF Same
  <2> QED BY <2>1, <2>2
<1> QED BY <1>4, <1>5, <1>6

\* The history is empty at first.
LEMMA ApprovedInit ==
    ASSUME Init
    PROVE  AsSigned
BY DEF Init, AsSigned, Names, Recorded

\* An approval that stands without asking is of what a human said yes to, for every driver
\* whose tiers of one step read the same files, and whatever crashes or is taken back: a yes
\* is written before the driver goes on.
THEOREM SignedStands ==
    ASSUME OneStepPerName
    PROVE  Spec => ApprovalStands
<1>1. Init => Kept /\ AsSigned BY InitKept, ApprovedInit
<1>2. Kept /\ AsSigned /\ [Next]_vars => (Kept /\ AsSigned)' BY NextKept, ApprovedNext
<1>3. Kept /\ AsSigned /\ [Next]_vars =>
        [pc = "approval" /\ pc' = "next" =>
           \E t \in signed'[Block.name] : Same(t, head', Block.reads)]_vars
  BY ApprovalReturns
<1> QED BY <1>1, <1>2, <1>3, PTL DEF Spec, ApprovalStands

\* A pair of entries that wait is one entry.
LEMMA OneWaits ==
    ASSUME NEW e, NEW f, <<e>> = <<f>>
    PROVE  e = f
<1>1. <<e>>[1] = e /\ <<f>>[1] = f OBVIOUS
<1> QED BY <1>1

\* What the file says of a result once what waits is written.
LEMMA FlushedResults ==
    ASSUME Kept, Current, hist' = Written(hist, pending), NEW b \in Blocks, NEW c \in hist'[b.name]["result"]
    PROVE  Tells(b.name, c, b.reads)
<1>0. hist \in HistoryType /\ "result" \in Recorded /\ b.name \in Names BY DEF Kept, Shaped, Recorded, Names
<1>1. CASE pending = <<>>
  <2>1. c \in hist[b.name]["result"] BY <1>0, <1>1, NothingWritten
  <2> QED BY <1>1, <2>1 DEF Current
<1>2. CASE \E e \in EntryType : pending = <<e>>
  <2>1. PICK e \in EntryType : pending = <<e>> BY <1>2
  <2>2. e.kind = "result" BY DEF EntryType
  <2>3. /\ e.step = b.name => hist'[b.name]["result"] = {e.commit}
        /\ e.step # b.name => hist'[b.name]["result"] = hist[b.name]["result"]
    BY <1>0, <2>1, <2>2, Found
  <2>4. CASE e.step = b.name
    <3>1. c = e.commit BY <2>1, <2>2, <2>3, <2>4
    <3>2. Tells(b.name, e.commit, b.reads) BY <2>1, <2>4 DEF Current
    <3> QED BY <3>1, <3>2
  <2>5. CASE e.step # b.name
    <3>1. c \in hist[b.name]["result"] BY <2>1, <2>3, <2>5
    <3> QED BY <2>1, <2>5, <3>1 DEF Current
  <2> QED BY <2>4, <2>5
<1> QED BY <1>1, <1>2 DEF Kept, Placed

\* With nothing waiting, it is enough that the file tells of what is in place.
LEMMA NothingWaits ==
    ASSUME pending' = <<>>,
           \A b \in Blocks : \A c \in hist'[b.name]["result"] :
              \E j \in judged'[b.name] : j.lost \/ Same(j.tree, c, b.reads)
    PROVE  Current'
<1>1. \A e : <<e>> # <<>> OBVIOUS
<1> QED BY <1>1 DEF Current, Tells

\* An entry of a result that was found current, or has just been judged, tells of it.
LEMMA EntryWaits ==
    ASSUME Kept, Current, pc \notin Between, OneStepPerName, NEW d \in Trees,
           hist' = hist, pending' = <<Entry(Block.name, "result", d)>>,
           \A n \in Names : n # Block.name => judged'[n] = judged[n],
           \E j \in judged'[Block.name] : j.lost \/ Same(j.tree, d, Block.reads)
    PROVE  Current'
<1>0. pending = <<>> /\ Block \in Blocks BY InAStep
<1>1. PICK f : f = Entry(Block.name, "result", d) /\ f.step = Block.name /\ f.commit = d BY DEF Entry
<1>2. pending' = <<f>> BY <1>1
<1>3. pending' # <<>> BY <1>2
<1>4. ASSUME NEW b \in Blocks, NEW e \in EntryType, pending' = <<e>>
      PROVE  IF e.step = b.name THEN \E j \in judged'[b.name] : j.lost \/ Same(j.tree, e.commit, b.reads)
             ELSE \A c \in hist'[b.name]["result"] :
                    \E j \in judged'[b.name] : j.lost \/ Same(j.tree, c, b.reads)
  <2>1. e = f BY <1>2, <1>4, OneWaits
  <2>2. CASE e.step = b.name
    <3>1. b.name = Block.name /\ e.commit = d BY <1>1, <2>1, <2>2
    <3>2. b.reads = Block.reads BY <1>0, <3>1 DEF OneStepPerName
    <3> QED BY <2>2, <3>1, <3>2
  <2>3. CASE e.step # b.name
    <3>1. b.name # Block.name /\ b.name \in Names BY <1>1, <2>1, <2>3 DEF Names
    <3>2. judged'[b.name] = judged[b.name] BY <3>1
    <3> QED BY <1>0, <2>3, <3>2 DEF Current, Tells
  <2> QED BY <2>2, <2>3
<1> QED BY <1>3, <1>4 DEF Current, Tells

\* What the history tells of is in place, or marked as lost.
LEMMA CurrentInside ==
    ASSUME Kept, Current, OneStepPerName, Inside
    PROVE  Current'
<1>0. /\ pc \notin Between /\ pending = <<>> /\ hist \in HistoryType /\ "result" \in Recorded
      /\ Block \in Blocks /\ Block.name \in Names /\ head \in Trees
  BY InsideMoves, InAStep DEF Recorded, Kept, Shaped
<1>1. ASSUME NEW b \in Blocks, NEW c \in hist[b.name]["result"] PROVE Tells(b.name, c, b.reads)
  BY <1>0 DEF Current
<1>2. CASE Quiet BY <1>1, <1>2, NothingWaits DEF Quiet, Tells
<1>3. CASE Carries
  <2>1. PICK c \in hist[Block.name]["result"] : Same(c, head, Block.reads) BY <1>3 DEF Carries
  <2>2. PICK j \in judged[Block.name] : j.lost \/ Same(j.tree, c, Block.reads) BY <1>0, <1>1 DEF Tells
  <2>3. j.lost \/ Same(j.tree, head, Block.reads) BY <2>1, <2>2 DEF Same
  <2> QED BY <1>0, <1>3, <2>3, EntryWaits DEF Carries
<1>4. ASSUME NEW d \in Trees, JudgedOn(d)
      PROVE  /\ \A n \in Names : n # Block.name => judged'[n] = judged[n]
             /\ \E j \in judged'[Block.name] : Same(j.tree, d, Block.reads)
  <2>1. PICK j : j = [tree |-> d, told |-> told[Block.name], lost |-> FALSE] OBVIOUS
  <2>2. judged' = [judged EXCEPT ![Block.name] = {j}] BY <1>4, <2>1 DEF JudgedOn
  <2>3. \A n \in Names : judged'[n] = IF n = Block.name THEN {j} ELSE judged[n]
    BY <2>2 DEF Kept, Shaped
  <2>4. Same(j.tree, d, Block.reads) BY <2>1 DEF Same
  <2> QED BY <1>0, <2>3, <2>4
<1>5. CASE \E d \in Trees : Gives(d)
  <2>1. PICK d \in Trees : Gives(d) BY <1>5
  <2> QED BY <1>0, <1>4, <2>1, EntryWaits DEF Gives
<1>6. CASE \E d \in Trees : Commits(d)
  <2>1. PICK d \in Trees : Commits(d) BY <1>6
  <2>2. PICK f \in EntryType : f = Entry(Block.name, "result", d)
    BY <1>0 DEF Entry, EntryType
  <2>3. f.step = Block.name /\ f.kind = "result" /\ f.commit = d BY <2>2 DEF Entry
  <2>4. hist' = Written(hist, <<f>>) /\ pending' = <<>> /\ JudgedOn(d) BY <2>1, <2>2 DEF Commits
  <2>5. ASSUME NEW b \in Blocks, NEW c \in hist'[b.name]["result"]
        PROVE  \E j \in judged'[b.name] : j.lost \/ Same(j.tree, c, b.reads)
    <3>0. b.name \in Names BY DEF Names
    <3>1. /\ f.step = b.name => hist'[b.name]["result"] = {f.commit}
          /\ f.step # b.name => hist'[b.name]["result"] = hist[b.name]["result"]
      BY <1>0, <2>3, <2>4, <3>0, Found
    <3>2. CASE b.name = Block.name
      <4>1. c = d BY <2>3, <2>4, <3>1, <3>2
      <4>2. b.reads = Block.reads BY <1>0, <3>2 DEF OneStepPerName
      <4> QED BY <1>4, <2>4, <3>2, <4>1, <4>2
    <3>3. CASE b.name # Block.name
      <4>1. c \in hist[b.name]["result"] BY <2>3, <2>4, <3>1, <3>3
      <4>2. judged'[b.name] = judged[b.name] BY <1>4, <2>4, <3>0, <3>3
      <4> QED BY <1>1, <4>1, <4>2 DEF Tells
    <3> QED BY <3>2, <3>3
  <2> QED BY <2>4, <2>5, NothingWaits
<1>7. CASE StandsOn(Block.reads) \/ Signs
  <2>1. /\ hist' = Written(hist, <<Entry(Block.name, "approval", head')>>)
        /\ pending' = <<>> /\ judged' = judged
    BY <1>7 DEF StandsOn, Signs
  <2>2. "approval" # "result" OBVIOUS
  <2>3. ASSUME NEW b \in Blocks PROVE hist'[b.name]["result"] = hist[b.name]["result"]
    <3>0. b.name \in Names BY DEF Names
    <3> DEFINE f == Entry(Block.name, "approval", head')
    <3>1. f.kind # "result" BY <2>2 DEF Entry
    <3>2. Written(hist, <<f>>)[b.name]["result"] = hist[b.name]["result"]
      <4> HIDE DEF f
      <4> QED BY <1>0, <3>0, <3>1, Found
    <3> QED BY <2>1, <3>2
  <2> QED BY <1>1, <2>1, <2>3, NothingWaits DEF Tells
<1> QED BY <1>2, <1>3, <1>5, <1>6, <1>7, InsideMoves DEF Records

\* Every step keeps what a refresh and an approval rest on.
LEMMA CurrentNext ==
    ASSUME Kept, Current, OneStepPerName, [Next]_vars
    PROVE  Current'
<1>1. CASE Inside BY <1>1, CurrentInside
<1>2. CASE ~Inside
  <2>1. CASE Writes
    <3>1. hist' = Written(hist, pending) /\ pending' = <<>> /\ judged' = judged BY <2>1 DEF Writes
    <3> QED BY <3>1, FlushedResults, NothingWaits DEF Tells
  <2>2. CASE Rests BY <2>2 DEF Rests, Current, Tells
  <2>3. CASE Loses
    <3>1. hist' = hist /\ pending' = <<>> /\ Unwritten(pending) BY <2>3 DEF Loses
    <3>2. ASSUME NEW b \in Blocks, NEW c \in hist[b.name]["result"]
          PROVE  \E j \in judged'[b.name] : j.lost \/ Same(j.tree, c, b.reads)
      <4>0. b.name \in Names BY DEF Names
      <4>1. CASE pending = <<>>
        <5>1. judged'[b.name] = judged[b.name] BY <3>1, <4>0, <4>1 DEF Unwritten
        <5> QED BY <4>1, <5>1 DEF Current, Tells
      <4>2. CASE \E e \in EntryType : pending = <<e>>
        <5>1. PICK e \in EntryType : pending = <<e>> BY <4>2
        <5>2. DOMAIN pending = {1} /\ pending[1] = e /\ e.kind = "result" BY <5>1 DEF EntryType
        <5>3. CASE e.step = b.name
          <6>1. Tells(b.name, e.commit, b.reads) BY <5>1, <5>3 DEF Current
          <6>2. PICK j \in judged[b.name] : TRUE BY <6>1 DEF Tells
          <6>3. judged'[b.name] = {[k EXCEPT !.lost = TRUE] : k \in judged[b.name]}
            BY <3>1, <4>0, <5>2, <5>3 DEF Unwritten
          <6>4. j \in [tree : Trees, told : Nat, lost : BOOLEAN] BY <4>0 DEF Kept, Shaped
          <6>5. [j EXCEPT !.lost = TRUE] \in judged'[b.name] /\ [j EXCEPT !.lost = TRUE].lost
            BY <6>3, <6>4
          <6> QED BY <6>5
        <5>4. CASE e.step # b.name
          <6>1. judged'[b.name] = judged[b.name] BY <3>1, <4>0, <5>2, <5>4 DEF Unwritten
          <6> QED BY <5>1, <5>4, <6>1 DEF Current, Tells
        <5> QED BY <5>3, <5>4
      <4> QED BY <4>1, <4>2 DEF Kept, Placed
    <3> QED BY <3>1, <3>2, NothingWaits
  <2> QED BY <1>2, <2>1, <2>2, <2>3, OutsideRecords
<1> QED BY <1>1, <1>2

\* The history is empty at first.
LEMMA CurrentInit ==
    ASSUME Init
    PROVE  Current
BY DEF Init, Current, Names, Recorded

\* Only TaskUnchanged takes a task from its beginning to the next block.
LEMMA UnchangedReturns ==
    ASSUME Kept, Current, Next, UnchangedWithoutASession
    PROVE  \E j \in judged[Block.name] : j.lost \/ Same(j.tree, head, Block.reads)
<1>1. pc = "begin" /\ pc' = "next" BY DEF UnchangedWithoutASession
<1>2. Block \in Blocks /\ pending = <<>> BY <1>1, InAStep DEF Between, Ended
<1>3. TaskUnchanged
  <2>1. pc \notin Between BY <1>1 DEF Between, Ended
  <2>2. ~OnStartFails
    <3>1. UNCHANGED program /\ (\E again, back : Fails(again, back)) => ~(pc' = "next")
      BY <2>1, FailsMoves DEF Asks, GoesOn, Ends, Between, Ended
    <3> QED BY <1>1, <3>1 DEF OnStartFails, history
  <2>3. ~Begin
    <3>1. UNCHANGED program /\ (\E again, back : Fails(again, back)) => ~(pc' = "next")
      BY <2>1, FailsMoves DEF Asks, GoesOn, Ends, Between, Ended
    <3>2. ~Goto(AfterHooks(Block, Refreshing(Block)))
      BY <1>1, <1>2, AfterHooksInside DEF Goto, Between
    <3> QED BY <1>1, <3>1, <3>2 DEF Begin, history
  <2> QED
    BY <1>1, <2>2, <2>3 DEF Next, Steps, Humans, Reach, Pass, Finish, First, Discuss, Session, Review, Repair, Script,
       Applies, ApprovalStanding, Approval, TaskForce, Answered, Again, Rerun, Decide, Operator, Crash, Stop
<1>4. PICK c \in hist[Block.name]["result"] : Same(c, head, Block.reads)
  BY <1>3 DEF TaskUnchanged, Untouched, Refreshing, LastCommit, UnchangedSince
<1>5. PICK j \in judged[Block.name] : j.lost \/ Same(j.tree, c, Block.reads)
  BY <1>2 DEF Current, Tells
<1> QED BY <1>4, <1>5 DEF Same

\* A step passed as unchanged without a session has a result, judged on what the step reads
\* now, for every driver whose tiers of one step read the same files: whatever was re-entered,
\* repaired in place, taken back or done again, and unless its entry was lost.
THEOREM RefreshStands ==
    ASSUME OneStepPerName
    PROVE  Spec => RefreshIsCurrent
<1>1. Init => Kept /\ Current BY InitKept, CurrentInit
<1>2. Kept /\ Current /\ [Next]_vars => (Kept /\ Current)' BY NextKept, CurrentNext
<1>3. Kept /\ Current /\ [Next]_vars =>
        [UnchangedWithoutASession =>
           \E j \in judged[Block.name] : j.lost \/ Same(j.tree, head, Block.reads)]_vars
  BY UnchangedReturns
<1> QED BY <1>1, <1>2, <1>3, PTL DEF Spec, RefreshIsCurrent

=============================================================================
