---------------------------- MODULE ProjectProofs ---------------------------
(* Theorems about Project's questions and their ledger, for every set of     *)
(* starts, of operators' processes and of questions, while no append is cut  *)
(* in two; the last also needs that starts fall into nobody's way in or out. *)
EXTENDS Project, TLAPS, WellFoundedInduction

------------------------------------------------------------------------------
(* What run.pid says while nobody is on the way in or out twice.             *)

Phases == {"off", "over", "killed"} \cup Starting \cup Working \cup Ending

\* A start's place, its way in, and who is in the files of the guard.
PlacesOK ==
    /\ pc \in [Runs -> Phases]
    /\ kind \in [Runs -> {"foreground", "detached", "driver"}]
    /\ seen \in [Runs -> Runs \cup {NoRun}]
    /\ pidfile \in Runs \cup {NoRun}
    /\ looking \in Runs \cup {NoRun}
    /\ parent \in SUBSET Runs

\* has read run.pid and not yet acted on it
Looked == {"detaching", "checking", "guarding"}
Claiming == Holding \cup {"claiming"}
Live == Starting \cup Working \cup Ending

\* On the way in a start is alone with loops that neither begin nor end, it has read
\* the pid of such a loop, and it claims the file only when there is none.
Apart(r, other) ==
    /\ pc[r] \in Starting => pc[other] \notin Starting \cup Ending
    /\ r \in parent => pc[other] \notin Live /\ other \notin parent
    /\ pc[r] \in Looked /\ pc[other] \in Live => seen[r] = other
    /\ pc[r] \in Claiming => pc[other] \notin Claiming

GuardInv ==
    /\ looking # NoRun => parent = {} /\ \A r \in Runs : pc[r] \notin Live
    /\ \A r \in Runs : pc[r] \in Holding => pidfile = r
    /\ \A r \in Runs : \A other \in Runs \ {r} : Apart(r, other)

\* How these sets lie to each other.
LEMMA PhaseSets ==
    /\ Live = Starting \cup Working \cup Ending
    /\ Starting \cap Working = {} /\ Starting \cap Ending = {} /\ Working \cap Ending = {}
    /\ Working \subseteq Holding /\ Holding \subseteq Live /\ Holding \subseteq Claiming
    /\ Claiming \subseteq Holding \cup Starting
    /\ Looked \subseteq Starting \ Claiming
BY DEF Live, Looked, Claiming, Holding, Starting, Working, Ending

\* Where the phases of the way in and the way out are in them.
LEMMA NamedPhases ==
    /\ "detaching" \in Looked /\ "checking" \in Looked /\ "guarding" \in Looked
    /\ "spawned" \in Starting /\ "spawned" \notin Claiming /\ "spawned" \notin Looked
    /\ "preparing" \in Starting /\ "preparing" \notin Claiming /\ "preparing" \notin Looked
    /\ "claiming" \in Starting /\ "claiming" \notin Holding /\ "claiming" \in Claiming /\ "claiming" \notin Looked
    /\ "beginning" \in Starting /\ "beginning" \in Holding
    /\ "withdrawing" \in Starting /\ "withdrawing" \in Holding
    /\ "booting" \in Starting /\ "booting" \in Holding
    /\ "boundary" \in Working /\ "waiting" \in Working /\ "session" \in Working
    /\ "reporting" \in Ending /\ "reporting" \in Holding
    /\ "falling back" \in Ending /\ "falling back" \in Holding
    /\ "clearing" \in Ending /\ "clearing" \in Holding
    /\ "concluding" \in Ending /\ "concluding" \notin Claiming
    /\ "amending" \in Ending /\ "amending" \notin Claiming
    /\ "off" \notin Live /\ "over" \notin Live /\ "killed" \notin Live
BY DEF Live, Looked, Claiming, Holding, Starting, Working, Ending

\* Every start begins in its place.
LEMMA PlacesInit == Init => PlacesOK
<1> SUFFICES ASSUME Init PROVE PlacesOK
  OBVIOUS
<1>1. \A r \in Runs : kind[r] \in {"foreground", "detached", "driver"}
  BY KindsAssumption DEF Init
<1>2. kind \in [Runs -> {"foreground", "detached", "driver"}]
  BY <1>1 DEF Init
<1> QED BY <1>2 DEF Init, PlacesOK, Phases

\* Every step keeps the starts in places of the program.
LEMMA PlacesNext == PlacesOK /\ [Next]_vars => PlacesOK'
<1> SUFFICES ASSUME PlacesOK, [Next]_vars PROVE PlacesOK'
  OBVIOUS
<1> USE DEF PlacesOK, Phases, Starting, Working, Ending, guardVars, Goes
<1>1. ASSUME NEW r \in Runs, Launch(r) \/ Detach(r) \/ ParentWrites(r) \/ ChildLooks(r) \/ Check(r)
      PROVE  PlacesOK'
  <2>1. CASE Launch(r) BY <2>1 DEF Launch, Reads
  <2>2. CASE Detach(r) BY <2>2 DEF Detach, Forgets, CleansUp
  <2>3. CASE ParentWrites(r) BY <2>3 DEF ParentWrites
  <2>4. CASE ChildLooks(r) BY <2>4 DEF ChildLooks, Reads
  <2>5. CASE Check(r) BY <2>5 DEF Check, Forgets, CleansUp
  <2> QED BY <1>1, <2>1, <2>2, <2>3, <2>4, <2>5, Zenon
<1>2. ASSUME NEW r \in Runs, Prepared(r) \/ PrepareFails(r) \/ Guard(r) \/ Claim(r) \/ Begin(r)
      PROVE  PlacesOK'
  <2>1. CASE Prepared(r) BY <2>1 DEF Prepared, Reads
  <2>2. CASE PrepareFails(r) BY <2>2 DEF PrepareFails, Refused
  <2>3. CASE Guard(r) BY <2>3 DEF Guard, Forgets, CleansUp, Refused, Turned
  <2>4. CASE Claim(r) BY <2>4 DEF Claim
  <2>5. CASE Begin(r) BY <2>5 DEF Begin
  <2> QED BY <1>2, <2>1, <2>2, <2>3, <2>4, <2>5, Zenon
<1>3. ASSUME NEW r \in Runs, WithdrawOne(r) \/ WithdrawnAll(r) \/ Boot(r) \/ BootFails(r)
      PROVE  PlacesOK'
  BY <1>3 DEF WithdrawOne, WithdrawnAll, Boot, BootFails, Refused
<1>4. ASSUME NEW r \in Runs, Promote(r) \/ RemoveFile(r) \/ Drop(r) \/ Hil(r) \/ Poll(r)
      PROVE  PlacesOK'
  BY <1>4 DEF Promote, RemoveFile, Drop, Hil, Poll
<1>5. ASSUME NEW r \in Runs, \/ Brief(r) \/ Mark(r) \/ Session(r) \/ SessionEnds(r)
                             \/ \E q \in Questions : WorkerAsks(r, q)
      PROVE  PlacesOK'
  BY <1>5 DEF Brief, Mark, Session, SessionEnds, WorkerAsks
<1>6. ASSUME NEW r \in Runs, NEW outcome, Ends(r, outcome) PROVE PlacesOK'
  BY <1>6 DEF Ends
<1>7. ASSUME NEW r \in Runs, DriverPanics(r) \/ Report(r) \/ FallBack(r) PROVE PlacesOK'
  BY <1>7 DEF DriverPanics, Report, FallBack, Refused
<1>8. ASSUME NEW r \in Runs, ClearPid(r) \/ Amend(r) \/ Conclude(r) \/ Kill(r) PROVE PlacesOK'
  BY <1>8 DEF ClearPid, Amend, Conclude, Kill, Leaves
<1>9. CASE ReaderLooks \/ ReaderCleans
  BY <1>9 DEF ReaderLooks, ReaderCleans
<1>10. ASSUME Beside PROVE PlacesOK'
  BY <1>10 DEF Beside
<1>11. CASE UNCHANGED vars
  BY <1>11 DEF vars
<1> QED BY <1>1, <1>2, <1>3, <1>4, <1>5, <1>6, <1>7, <1>8, <1>9, <1>10, <1>11 DEF Next

\* One start goes to another phase, the others stay where they are.
LEMMA OneMoves ==
  ASSUME PlacesOK, NEW r \in Runs, NEW to, pc' = [pc EXCEPT ![r] = to]
  PROVE  pc'[r] = to /\ \A x \in Runs \ {r} : pc'[x] = pc[x]
BY DEF PlacesOK

\* A start that stays live in the same part of its life, and on the same side of the
\* claim, disturbs nothing as long as the guard's files are left alone.
LEMMA SamePartKeepsGuard ==
  ASSUME PlacesOK, GuardInv, UNCHANGED guardVars, NEW r \in Runs, NEW to,
         pc' = [pc EXCEPT ![r] = to],
         \/ pc[r] \in Working /\ to \in Working
         \/ pc[r] \in Starting \cap Holding /\ to \in Working \cup (Starting \cap Holding)
         \/ pc[r] \in Ending /\ to \in Ending /\ (to \in Claiming => pc[r] \in Claiming)
         \/ pc[r] \in Ending /\ to \notin Live
  PROVE  GuardInv'
<1>1. pc'[r] = to /\ \A x \in Runs \ {r} : pc'[x] = pc[x]
  BY OneMoves
<1>2. (looking # NoRun => parent = {} /\ \A x \in Runs : pc[x] \notin Live)'
  BY <1>1, PhaseSets DEF GuardInv, guardVars
<1>3. (\A x \in Runs : pc[x] \in Holding => pidfile = x)'
  BY <1>1, PhaseSets DEF GuardInv, guardVars
<1>4. ASSUME NEW x \in Runs, NEW y \in Runs \ {x} PROVE Apart(x, y)'
  <2>1. Apart(x, y) /\ seen' = seen /\ parent' = parent
    BY DEF GuardInv, guardVars
  <2>2. /\ to \in Starting => pc[r] \in Starting
        /\ to \in Ending => pc[r] \in Starting \cup Ending
        /\ to \in Live => pc[r] \in Live
        /\ to \notin Looked
        /\ to \in Claiming => pc[r] \in Claiming
    BY PhaseSets
  <2>3. CASE x = r
    BY <1>1, <2>1, <2>2, <2>3 DEF Apart
  <2>4. CASE x # r /\ y = r
    BY <1>1, <2>1, <2>2, <2>4 DEF Apart
  <2>5. CASE x # r /\ y # r
    BY <1>1, <2>1, <2>5 DEF Apart
  <2> QED BY <2>3, <2>4, <2>5
<1> QED BY <1>2, <1>3, <1>4 DEF GuardInv

\* A start that looks at run.pid reads the pid of the loop there is.
LEMMA LookingKeepsGuard ==
  ASSUME PlacesOK, GuardInv, NEW r \in Runs, NEW to \in Starting \ Claiming,
         pc' = [pc EXCEPT ![r] = to], seen' = [seen EXCEPT ![r] = pidfile],
         UNCHANGED <<pidfile, looking, parent>>,
         \/ pc[r] \in Starting
         \/ looking = NoRun /\ parent = {} /\ \A x \in Runs : pc[x] \notin Starting \cup Ending
  PROVE  GuardInv'
<1>1. pc'[r] = to /\ \A x \in Runs \ {r} : pc'[x] = pc[x]
  BY OneMoves
<1>2. (looking # NoRun => parent = {} /\ \A x \in Runs : pc[x] \notin Live)'
  BY <1>1, PhaseSets DEF GuardInv
<1>3. (\A x \in Runs : pc[x] \in Holding => pidfile = x)'
  BY <1>1, PhaseSets DEF GuardInv
<1>4. \A y \in Runs \ {r} : /\ pc[y] \notin Starting \cup Ending
                            /\ pc[y] \in Live => pidfile = y
                            /\ y \notin parent
  BY PhaseSets DEF GuardInv, Apart
<1>5. ASSUME NEW x \in Runs, NEW y \in Runs \ {x} PROVE Apart(x, y)'
  <2>1. Apart(x, y) /\ parent' = parent
    BY DEF GuardInv
  <2>2. seen'[r] = pidfile /\ \A z \in Runs \ {r} : seen'[z] = seen[z]
    BY DEF PlacesOK
  <2>3. CASE x = r
    BY <1>1, <1>4, <2>1, <2>2, <2>3, PhaseSets DEF Apart, GuardInv
  <2>4. CASE x # r /\ y = r
    BY <1>1, <1>4, <2>1, <2>2, <2>4, PhaseSets DEF Apart, GuardInv
  <2>5. CASE x # r /\ y # r
    BY <1>1, <2>1, <2>2, <2>5 DEF Apart
  <2> QED BY <2>3, <2>4, <2>5
<1> QED BY <1>2, <1>3, <1>5 DEF GuardInv

\* A start that has looked finds the loop there is alive, and removes a file only when
\* there is none.
LEMMA FindsTheLoop ==
  ASSUME PlacesOK, GuardInv, NEW r \in Runs, pc[r] \in Looked
  PROVE  /\ (\E x \in Runs \ {r} : pc[x] \in Live) => Blocked(r)
         /\ Blocked(r) => seen[r] \in Runs \ {r}
         /\ CleansUp(r) => \A x \in Runs \ {r} : pc[x] \in Live => pidfile' = pidfile
<1>1. ASSUME NEW x \in Runs \ {r}, pc[x] \in Live PROVE seen[r] = x /\ Alive(seen[r])
  BY <1>1, NobodyAssumption DEF GuardInv, Apart, Alive, Live
<1>2. Blocked(r) => seen[r] \in Runs \ {r}
  BY DEF PlacesOK, Blocked, Alive
<1> QED BY <1>1, <1>2 DEF Blocked, CleansUp

\* A start that has looked and goes on, where nobody else is: it stays on its way in, or
\* claims, or leaves.
LEMMA ActingKeepsGuard ==
  ASSUME PlacesOK, GuardInv, NEW r \in Runs, NEW to, pc[r] \in Looked, CleansUp(r), Forgets(r),
         pc' = [pc EXCEPT ![r] = to], looking' = looking,
         \/ to \in Starting \ (Claiming \cup Looked) \/ to \notin Live \/ to \in Ending \ Claiming
         \/ to \in Starting \ (Holding \cup Looked) /\ ~Blocked(r),
         parent' = parent \/ (parent' = parent \cup {r} /\ ~Blocked(r))
  PROVE  GuardInv'
<1>1. pc'[r] = to /\ \A x \in Runs \ {r} : pc'[x] = pc[x]
  BY OneMoves
<1>2. looking = NoRun
  BY PhaseSets DEF GuardInv
<1>3. (\A x \in Runs : pc[x] \in Holding => pidfile = x)'
  BY <1>1, FindsTheLoop, PhaseSets DEF GuardInv
<1>4. \A y \in Runs \ {r} : pc[y] \notin Starting \cup Ending /\ y \notin parent
  BY PhaseSets DEF GuardInv, Apart
<1>5. ~Blocked(r) => \A y \in Runs \ {r} : pc[y] \notin Live
  BY FindsTheLoop
<1>6. ASSUME NEW x \in Runs, NEW y \in Runs \ {x} PROVE Apart(x, y)'
  <2>1. Apart(x, y)
    BY DEF GuardInv
  <2>2. \A z \in Runs \ {r} : seen'[z] = seen[z]
    BY DEF PlacesOK, Forgets
  <2>3. CASE x = r
    BY <1>1, <1>4, <1>5, <2>1, <2>3, PhaseSets DEF Apart
  <2>4. CASE x # r /\ y = r
    BY <1>1, <1>4, <1>5, <2>1, <2>2, <2>4, PhaseSets DEF Apart
  <2>5. CASE x # r /\ y # r
    BY <1>1, <2>1, <2>2, <2>5 DEF Apart
  <2> QED BY <2>3, <2>4, <2>5
<1> QED BY <1>2, <1>3, <1>6 DEF GuardInv

\* A start that ends, dies, or is left alone by others that are on their way in, has
\* nobody's way crossed.
LEMMA LeavingKeepsGuard ==
  ASSUME PlacesOK, GuardInv, NEW r \in Runs, NEW to, pc[r] \in Live,
         \A x \in Runs \ {r} : pc[x] \notin Starting,
         (to \in Ending /\ (to \in Claiming => pc[r] \in Holding)) \/ to \notin Live,
         pc' = [pc EXCEPT ![r] = to],
         seen' = seen \/ seen' = [seen EXCEPT ![r] = NoRun],
         UNCHANGED <<pidfile, looking, parent>>
  PROVE  GuardInv'
<1>1. pc'[r] = to /\ \A x \in Runs \ {r} : pc'[x] = pc[x]
  BY OneMoves
<1>2. looking = NoRun
  BY PhaseSets DEF GuardInv
<1>3. (\A x \in Runs : pc[x] \in Holding => pidfile = x)'
  BY <1>1, PhaseSets DEF GuardInv
<1>4. ASSUME NEW x \in Runs, NEW y \in Runs \ {x} PROVE Apart(x, y)'
  <2>1. Apart(x, y)
    BY DEF GuardInv
  <2>2. CASE x = r
    BY <1>1, <2>1, <2>2, PhaseSets DEF Apart
  <2>3. CASE x # r /\ y = r
    BY <1>1, <2>1, <2>3, PhaseSets DEF Apart
  <2>4. CASE x # r /\ y # r
    BY <1>1, <2>1, <2>4, PhaseSets DEF Apart
  <2> QED BY <2>2, <2>3, <2>4
<1> QED BY <1>2, <1>3, <1>4 DEF GuardInv

\* While starts and ends do not overlap, every step keeps GuardInv.
LEMMA GuardNext == ASSUME ~StartsOverlap PROVE PlacesOK /\ GuardInv /\ [Next]_vars => GuardInv'
<1> SUFFICES ASSUME PlacesOK, GuardInv, [Next]_vars PROVE GuardInv'
  OBVIOUS
<1>1. ASSUME NEW r \in Runs, Launch(r) PROVE GuardInv'
  <2> DEFINE to == CASE kind[r] = "foreground" -> "checking"
                     [] kind[r] = "detached" -> "detaching"
                     [] kind[r] = "driver" -> "guarding"
  <2>1. to \in Looked
    BY DEF PlacesOK, Looked
  <2>2. /\ Calm /\ looking = NoRun /\ UNCHANGED <<pidfile, looking, parent>>
        /\ seen' = [seen EXCEPT ![r] = pidfile] /\ pc' = [pc EXCEPT ![r] = to]
    BY <1>1 DEF Launch, MayLook, Reads, Goes
  <2> HIDE DEF to
  <2> QED BY <2>1, <2>2, LookingKeepsGuard, PhaseSets DEF Calm
<1>2. ASSUME NEW r \in Runs, ChildLooks(r) \/ Prepared(r) PROVE GuardInv'
  <2>1. \E to \in {"checking", "guarding"} : pc' = [pc EXCEPT ![r] = to]
    BY <1>2 DEF ChildLooks, Prepared, Goes
  <2>2. /\ pc[r] \in Starting /\ seen' = [seen EXCEPT ![r] = pidfile]
        /\ UNCHANGED <<pidfile, looking, parent>>
    BY <1>2 DEF ChildLooks, Prepared, At, Reads, Starting
  <2> QED BY <2>1, <2>2, LookingKeepsGuard, NamedPhases, PhaseSets
<1>3. ASSUME NEW r \in Runs, Detach(r) PROVE GuardInv'
  <2> DEFINE to == IF Blocked(r) THEN "over" ELSE "spawned"
  <2>1. to \in Starting \ (Claiming \cup Looked) \/ to \notin Live
    BY NamedPhases
  <2>2. /\ pc[r] \in Looked /\ CleansUp(r) /\ Forgets(r) /\ looking' = looking
        /\ pc' = [pc EXCEPT ![r] = to]
        /\ parent' = parent \/ (parent' = parent \cup {r} /\ ~Blocked(r))
    BY <1>3 DEF Detach, At, Goes, Looked
  <2> HIDE DEF to
  <2> QED BY <2>1, <2>2, ActingKeepsGuard
<1>4. ASSUME NEW r \in Runs, Check(r) PROVE GuardInv'
  <2>1. /\ pc[r] \in Looked /\ CleansUp(r) /\ Forgets(r) /\ looking' = looking
        /\ pc' = [pc EXCEPT ![r] = "preparing"] /\ parent' = parent
    BY <1>4 DEF Check, At, Goes, Looked
  <2> QED BY <2>1, ActingKeepsGuard, NamedPhases
<1>5. ASSUME NEW r \in Runs, Guard(r) PROVE GuardInv'
  <2> DEFINE to == IF Blocked(r) THEN Turned(r) ELSE "claiming"
  <2>1. \/ to \notin Live \/ to \in Ending \ Claiming
        \/ to \in Starting \ (Holding \cup Looked) /\ ~Blocked(r)
    BY NamedPhases DEF Turned
  <2>2. /\ pc[r] \in Looked /\ CleansUp(r) /\ Forgets(r) /\ looking' = looking
        /\ pc' = [pc EXCEPT ![r] = to] /\ parent' = parent
    BY <1>5 DEF Guard, At, Goes, Looked, Refused
  <2> HIDE DEF to
  <2> QED BY <2>1, <2>2, ActingKeepsGuard
<1>6. ASSUME NEW r \in Runs, ParentWrites(r) PROVE GuardInv'
  <2>1. r \in parent /\ pidfile' = r /\ parent' = parent \ {r} /\ UNCHANGED <<looking, seen, pc>>
    BY <1>6 DEF ParentWrites
  <2>2. \A x \in Runs \ {r} : pc[x] \notin Holding
    BY <2>1, PhaseSets DEF GuardInv, Apart
  <2> QED BY <2>1, <2>2 DEF GuardInv, Apart
<1>7. ASSUME NEW r \in Runs, Claim(r) PROVE GuardInv'
  <2>1. /\ pc[r] = "claiming" /\ pidfile' = r /\ pc' = [pc EXCEPT ![r] = "beginning"]
        /\ UNCHANGED <<looking, seen, parent>>
    BY <1>7 DEF Claim, At, Goes
  <2>2. pc'[r] = "beginning" /\ \A x \in Runs \ {r} : pc'[x] = pc[x]
    BY <2>1, OneMoves
  <2>3. \A x \in Runs \ {r} : pc[x] \notin Claiming
    BY <2>1, NamedPhases DEF GuardInv, Apart
  <2>4. looking = NoRun
    <3>1. pc[r] \in Starting
      BY <2>1, NamedPhases
    <3> QED BY <3>1, PhaseSets DEF GuardInv
  <2>5. (\A x \in Runs : pc[x] \in Holding => pidfile = x)'
    BY <2>1, <2>2, <2>3, PhaseSets
  <2>6. ASSUME NEW x \in Runs, NEW y \in Runs \ {x} PROVE Apart(x, y)'
    <3>1. Apart(x, y) /\ seen' = seen /\ parent' = parent
      BY <2>1 DEF GuardInv
    <3>2. CASE x = r
      BY <2>1, <2>2, <2>3, <3>1, <3>2, NamedPhases, PhaseSets DEF Apart
    <3>3. CASE x # r /\ y = r
      BY <2>1, <2>2, <2>3, <3>1, <3>3, NamedPhases, PhaseSets DEF Apart
    <3>4. CASE x # r /\ y # r
      BY <2>2, <3>1, <3>4 DEF Apart
    <3> QED BY <3>2, <3>3, <3>4
  <2> QED BY <2>1, <2>4, <2>5, <2>6 DEF GuardInv
<1>8. ASSUME NEW r \in Runs, Begin(r) \/ WithdrawOne(r) \/ WithdrawnAll(r) \/ Boot(r) PROVE GuardInv'
  <2>1. UNCHANGED guardVars /\ pc[r] \in Starting /\ pc[r] \in Holding
    BY <1>8, NamedPhases DEF Begin, WithdrawOne, WithdrawnAll, Boot, At
  <2>2. pc' = pc \/ \E to \in {"withdrawing", "booting", "boundary"} : pc' = [pc EXCEPT ![r] = to]
    BY <1>8 DEF Begin, WithdrawOne, WithdrawnAll, Boot, Goes
  <2>3. CASE pc' = pc
    BY <2>1, <2>3 DEF GuardInv, guardVars, Apart
  <2>4. ASSUME NEW to \in {"withdrawing", "booting", "boundary"}, pc' = [pc EXCEPT ![r] = to]
        PROVE  GuardInv'
    <3>1. to \in Working \cup (Starting \cap Holding)
      BY NamedPhases
    <3> QED BY <2>1, <2>4, <3>1, SamePartKeepsGuard
  <2> QED BY <2>2, <2>3, <2>4
<1>9. ASSUME NEW r \in Runs, \/ Promote(r) \/ RemoveFile(r) \/ Drop(r) \/ Hil(r) \/ Poll(r) \/ Brief(r)
                             \/ Mark(r) \/ Session(r) \/ SessionEnds(r) \/ \E q \in Questions : WorkerAsks(r, q)
      PROVE  GuardInv'
  <2>1. UNCHANGED guardVars /\ pc[r] \in Working
    BY <1>9 DEF Promote, RemoveFile, Drop, Hil, Poll, Brief, Mark, Session, SessionEnds, WorkerAsks, At, Working
  <2>2. pc' = pc \/ \E to \in Working : pc' = [pc EXCEPT ![r] = to]
    BY <1>9 DEF Promote, RemoveFile, Drop, Hil, Poll, Brief, Mark, Session, SessionEnds, WorkerAsks, Goes,
                Working
  <2>3. CASE pc' = pc
    BY <2>1, <2>3 DEF GuardInv, guardVars, Apart
  <2> QED BY <2>1, <2>2, <2>3, SamePartKeepsGuard
<1>10. ASSUME NEW r \in Runs, DriverPanics(r) \/ \E outcome \in {"done", "error"} : Ends(r, outcome)
       PROVE  GuardInv'
  <2>1. UNCHANGED guardVars /\ pc[r] \in Working /\ MayLeave(r)
    BY <1>10, NamedPhases DEF Ends, DriverPanics, At
  <2>2. \E to \in {"reporting", "clearing"} : pc' = [pc EXCEPT ![r] = to]
    BY <1>10 DEF Ends, DriverPanics, Refused, Goes
  <2> QED BY <2>1, <2>2, LeavingKeepsGuard, NamedPhases, PhaseSets DEF MayLeave, guardVars
<1>11. ASSUME NEW r \in Runs, PrepareFails(r) \/ BootFails(r) PROVE GuardInv'
  <2>1. UNCHANGED guardVars /\ pc[r] \in Starting /\ (pc[r] \in Holding \/ PrepareFails(r))
    BY <1>11, NamedPhases DEF PrepareFails, BootFails, At
  <2>2. \E to \in {"clearing", "falling back", "concluding"} :
           pc' = [pc EXCEPT ![r] = to] /\ (PrepareFails(r) => to = "concluding")
    BY <1>11 DEF PrepareFails, BootFails, Refused, Goes, At
  <2>3. \A x \in Runs \ {r} : pc[x] \notin Starting
    BY <2>1 DEF GuardInv, Apart
  <2> QED BY <2>1, <2>2, <2>3, LeavingKeepsGuard, NamedPhases, PhaseSets DEF guardVars
<1>12. ASSUME NEW r \in Runs, Report(r) \/ FallBack(r) PROVE GuardInv'
  <2>1. UNCHANGED guardVars /\ pc[r] \in Ending /\ pc[r] \in Holding
    BY <1>12, NamedPhases DEF Report, FallBack, At
  <2>2. \E to \in {"clearing", "falling back"} : pc' = [pc EXCEPT ![r] = to]
    BY <1>12 DEF Report, FallBack, Refused, Goes
  <2> QED BY <2>1, <2>2, SamePartKeepsGuard, NamedPhases, PhaseSets
<1>13. ASSUME NEW r \in Runs, ClearPid(r) PROVE GuardInv'
  <2>1. /\ pc[r] = "clearing" /\ pidfile' = NoRun /\ UNCHANGED <<looking, seen, parent>>
        /\ \E to \in {"concluding", "amending", "over"} : pc' = [pc EXCEPT ![r] = to]
    BY <1>13 DEF ClearPid, Leaves, At, Goes
  <2>2. PICK to \in {"concluding", "amending", "over"} : pc' = [pc EXCEPT ![r] = to]
    BY <2>1
  <2>3. pc'[r] = to /\ \A x \in Runs \ {r} : pc'[x] = pc[x]
    BY <2>2, OneMoves
  <2>4. to \notin Starting /\ to \notin Claiming
    BY NamedPhases, PhaseSets
  <2>5. looking = NoRun /\ pc[r] \in Ending /\ pc[r] \in Holding /\ \A x \in Runs \ {r} : pc[x] \notin Claiming
    <3>1. pc[r] \in Ending /\ pc[r] \in Holding /\ pc[r] \in Live /\ pc[r] \in Claiming
      BY <2>1, NamedPhases, PhaseSets
    <3>2. looking = NoRun
      BY <3>1 DEF GuardInv
    <3>3. \A x \in Runs \ {r} : Apart(r, x)
      BY DEF GuardInv
    <3> QED BY <3>1, <3>2, <3>3 DEF Apart
  <2>6. (\A x \in Runs : pc[x] \in Holding => pidfile = x)'
    BY <2>3, <2>4, <2>5, PhaseSets
  <2>7. ASSUME NEW x \in Runs, NEW y \in Runs \ {x} PROVE Apart(x, y)'
    <3>1. Apart(x, y) /\ Apart(y, x) /\ seen' = seen /\ parent' = parent
      BY <2>1 DEF GuardInv
    <3> QED BY <2>3, <2>4, <2>5, <3>1, PhaseSets DEF Apart
  <2> QED BY <2>1, <2>5, <2>6, <2>7 DEF GuardInv
<1>14. ASSUME NEW r \in Runs, Amend(r) \/ Conclude(r) PROVE GuardInv'
  <2>1. UNCHANGED guardVars /\ pc[r] \in Ending /\ pc' = [pc EXCEPT ![r] = "over"]
    BY <1>14, NamedPhases DEF Amend, Conclude, At, Leaves
  <2> QED BY <2>1, SamePartKeepsGuard, NamedPhases
<1>15. ASSUME NEW r \in Runs, Kill(r) PROVE GuardInv'
  <2>1. /\ pc[r] \in Live /\ MayLeave(r) /\ UNCHANGED <<pidfile, looking, parent>>
        /\ seen' = [seen EXCEPT ![r] = NoRun] /\ pc' = [pc EXCEPT ![r] = "killed"]
    BY <1>15 DEF Kill, Leaves, Alive, Live
  <2> QED BY <2>1, LeavingKeepsGuard, NamedPhases DEF MayLeave
<1>16. CASE ReaderLooks
  <2>1. Calm /\ pidfile # NoRun /\ ~Alive(pidfile) /\ UNCHANGED <<pidfile, seen, parent, pc>>
    BY <1>16 DEF ReaderLooks, MayLook
  <2>2. \A x \in Runs : parent = {} /\ pc[x] \notin Live
    BY <2>1, PhaseSets DEF Calm, GuardInv, Alive, Live
  <2>3. parent = {}
    BY <2>2 DEF PlacesOK
  <2> QED BY <2>1, <2>2, <2>3 DEF GuardInv, Apart
<1>17. CASE ReaderCleans
  <2>1. looking # NoRun /\ looking' = NoRun /\ UNCHANGED <<seen, parent, pc>>
    BY <1>17 DEF ReaderCleans
  <2> QED BY <2>1, PhaseSets DEF GuardInv, Apart
<1>18. ASSUME Beside \/ UNCHANGED vars PROVE GuardInv'
  BY <1>18 DEF Beside, vars, guardVars, GuardInv, Apart
<1> QED BY <1>1, <1>2, <1>3, <1>4, <1>5, <1>6, <1>7, <1>8, <1>9, <1>10, <1>11, <1>12, <1>13, <1>14,
           <1>15, <1>16, <1>17, <1>18 DEF Next

\* Nobody is in the guard's scope to begin with.
LEMMA GuardInit == Init => GuardInv
<1> SUFFICES ASSUME Init PROVE GuardInv
  OBVIOUS
<1>1. looking = NoRun /\ parent = {} /\ \A x \in Runs : pc[x] = "off"
  BY DEF Init
<1>2. \A x \in Runs : pc[x] \notin Live
  BY <1>1, NamedPhases
<1> QED BY <1>1, <1>2, PhaseSets, NamedPhases DEF GuardInv, Apart

\* The starts' places and the guard, in every state.
LEMMA GuardCorrect == ASSUME ~StartsOverlap PROVE Spec => [](PlacesOK /\ GuardInv)
<1>1. Init => PlacesOK /\ GuardInv
  BY PlacesInit, GuardInit
<1>2. PlacesOK /\ GuardInv /\ [Next]_vars => (PlacesOK /\ GuardInv)'
  BY PlacesNext, GuardNext
<1> QED BY <1>1, <1>2, PTL DEF Spec

------------------------------------------------------------------------------
(* Lemmas about the operators of Asks.                                       *)

\* The first id of a set of them.
LEMMA FirstId ==
  ASSUME NEW S \in SUBSET Ids, S # {}
  PROVE  \E id \in S : \A other \in S : id <= other
<1> DEFINE less == {ss \in Nat \X Nat : ss[1] < ss[2]}
<1>1. IsWellFoundedOn(less, Nat)
  BY NatLessThanWellFounded DEF OpToRel
<1>2. S \subseteq Nat
  BY AskBoundsAssumption DEF Ids
<1>3. \E id \in S : \A other \in S : <<other, id>> \notin less
  <2> HIDE DEF less
  <2> QED BY <1>1, <1>2, WFMin
<1>4. PICK id \in S : \A other \in S : <<other, id>> \notin less
  BY <1>3
<1>5. ASSUME NEW other \in S PROVE id <= other
  <2>1. <<other, id>> \in Nat \X Nat /\ id \in Nat /\ other \in Nat
    BY <1>2
  <2>2. ~(other < id)
    BY <1>4, <2>1
  <2> QED BY <2>1, <2>2
<1> QED BY <1>5

Origins == {"worker", "driver"}
Asked(origin, q) == [Unknown EXCEPT !.origin = origin, !.question = q]
Texts(q) == [origin : {"none", "worker", "driver"}, question : {q}, answer : Values \cup {NoValue},
             delivered : BOOLEAN, withdrawn : BOOLEAN]

\* Every id has an entry, whatever its question's text is.
Folded(v) == v = [id \in Ids |-> v[id]] /\ \A id \in Ids : \E q : v[id] \in Texts(q)

\* The first row of a question opens it.
LEMMA FoldOpen ==
  ASSUME NEW v, Folded(v), NEW id \in Ids, ~Known(v, id), NEW origin \in Origins, NEW q
  PROVE  /\ Folded(FoldRow(v, Open(id, origin, q)))
         /\ FoldRow(v, Open(id, origin, q)) = [v EXCEPT ![id] = Asked(origin, q)]
<1> DEFINE r == Open(id, origin, q)
           e == Asked(origin, q)
<1>1. FoldRow(v, r) = [v EXCEPT ![id] = e]
  BY DEF FoldRow, Open, Asked
<1>2. e \in Texts(q)
  BY DEF Unknown, Texts, Origins, Asked
<1> HIDE DEF r, e
<1>3. Folded([v EXCEPT ![id] = e])
  BY <1>2 DEF Folded
<1> QED BY <1>1, <1>3 DEF r, e

\* The first answer to a known question is its answer, a later one changes nothing.
LEMMA FoldAnswer ==
  ASSUME NEW v, Folded(v), NEW id \in Ids, Known(v, id), NEW value \in Values
  PROVE  /\ Folded(FoldRow(v, Answered(id, value)))
         /\ v[id].answer = NoValue =>
              FoldRow(v, Answered(id, value)) = [v EXCEPT ![id] = [v[id] EXCEPT !.answer = value]]
         /\ v[id].answer # NoValue => FoldRow(v, Answered(id, value)) = v
<1> DEFINE r == Answered(id, value)
<1>1. CASE v[id].answer = NoValue
  <2>1. FoldRow(v, r) = [v EXCEPT ![id] = [v[id] EXCEPT !.answer = value]]
    BY <1>1 DEF FoldRow, Answered
  <2>2. PICK q : v[id] \in Texts(q)
    BY DEF Folded
  <2>3. [v[id] EXCEPT !.answer = value] \in Texts(q)
    BY <2>2 DEF Texts
  <2>4. Folded([v EXCEPT ![id] = [v[id] EXCEPT !.answer = value]])
    BY <2>3 DEF Folded
  <2> QED BY <1>1, <2>1, <2>4
<1>2. CASE v[id].answer # NoValue
  <2>1. FoldRow(v, r) = [v EXCEPT ![id] = v[id]]
    BY <1>2 DEF FoldRow, Answered
  <2>2. FoldRow(v, r) = v
    BY <2>1 DEF Folded
  <2> QED BY <1>2, <2>2
<1> QED BY <1>1, <1>2

\* A delivery is noted of a known question, and changes no other.
LEMMA FoldDelivered ==
  ASSUME NEW v, Folded(v), NEW id \in Ids
  PROVE  /\ Folded(FoldRow(v, Delivered(id)))
         /\ Known(v, id) => FoldRow(v, Delivered(id)) = [v EXCEPT ![id] = [v[id] EXCEPT !.delivered = TRUE]]
         /\ ~Known(v, id) => FoldRow(v, Delivered(id)) = v
<1> DEFINE r == Delivered(id)
<1>1. CASE Known(v, id)
  <2>1. FoldRow(v, r) = [v EXCEPT ![id] = [v[id] EXCEPT !.delivered = TRUE]]
    BY <1>1 DEF FoldRow, Delivered
  <2>2. PICK q : v[id] \in Texts(q)
    BY DEF Folded
  <2>3. [v[id] EXCEPT !.delivered = TRUE] \in Texts(q)
    BY <2>2 DEF Texts
  <2>4. Folded([v EXCEPT ![id] = [v[id] EXCEPT !.delivered = TRUE]])
    BY <2>3 DEF Folded
  <2> QED BY <1>1, <2>1, <2>4
<1>2. CASE ~Known(v, id)
  <2>1. FoldRow(v, r) = [v EXCEPT ![id] = v[id]]
    BY <1>2 DEF FoldRow, Delivered
  <2>2. FoldRow(v, r) = v
    BY <2>1 DEF Folded
  <2> QED BY <1>2, <2>2
<1> QED BY <1>1, <1>2

\* A withdrawal takes an open question back and leaves every other alone.
LEMMA FoldWithdrawn ==
  ASSUME NEW v, Folded(v), NEW id \in Ids, Known(v, id), v[id].answer = NoValue
  PROVE  /\ Folded(FoldRow(v, Withdrawn(id)))
         /\ FoldRow(v, Withdrawn(id)) = [v EXCEPT ![id] = [v[id] EXCEPT !.withdrawn = TRUE]]
<1>1. FoldRow(v, Withdrawn(id)) = [v EXCEPT ![id] = [v[id] EXCEPT !.withdrawn = TRUE]]
  BY DEF FoldRow, Withdrawn
<1>2. PICK q : v[id] \in Texts(q)
  BY DEF Folded
<1>3. [v[id] EXCEPT !.withdrawn = TRUE] \in Texts(q)
  BY <1>2 DEF Texts
<1>4. Folded([v EXCEPT ![id] = [v[id] EXCEPT !.withdrawn = TRUE]])
  BY <1>3 DEF Folded
<1> QED BY <1>1, <1>4

------------------------------------------------------------------------------
(* What a step does to the ledger.                                           *)

\* Whoever reads the file reads whole rows; an operator's answer that is on its way is
\* to a question the file holds.
LedgerInv ==
    /\ Folded(view) /\ Folded(All)
    /\ writing = {} => tail = Nothing
    /\ unmarked \in [Runs -> SUBSET Ids]
    /\ answering = [o \in Answerers |-> answering[o]]
    /\ \A o \in Answerers : answering[o] = Nothing \/
          \E id \in Ids : answering[o] = Answered(id, Says[o]) /\ Known(All, id)

Opens(id, origin, q) ==
    ~Known(All, id) /\ All' = [All EXCEPT ![id] = Asked(origin, q)]
Withdraws(id) ==
    /\ IsOpen(All[id]) /\ All' = [All EXCEPT ![id] = [All[id] EXCEPT !.withdrawn = TRUE]]
    /\ \E r \in Runs : pc[r] = "withdrawing"
Settles(id, value) ==
    /\ Known(All, id) /\ All[id].answer = NoValue
    /\ All' = [All EXCEPT ![id] = [All[id] EXCEPT !.answer = value]]
Delivers(id) ==
    Known(All, id) /\ All' = [All EXCEPT ![id] = [All[id] EXCEPT !.delivered = TRUE]]

\* The ledger says more of one question, in one of four ways.
Grows ==
    \E id \in Ids : \/ \E origin \in Origins : \E q : Opens(id, origin, q)
                    \/ Withdraws(id) \/ Delivers(id)
                    \/ \E value \in Values : Settles(id, value)

\* An append that is not cut in two is read at once, its line ended or not.
LEMMA AppendIsRead ==
  ASSUME ~AppendsOverlap, LedgerInv, NEW w, NEW r, r.row \notin {"nothing", "glued"}, AppendRow(w, r)
  PROVE  All' = FoldRow(All, r) /\ view' = view /\ (writing = {} => tail = Nothing)'
<1>1. writing = {} /\ tail = Nothing /\ tail' = r /\ view' = view /\ writing' = writing \cup {w}
  BY DEF AppendRow, LedgerInv, Text
<1>2. All = view
  BY <1>1 DEF All, Line, Nothing
<1>3. All' = FoldRow(view, r)
  BY <1>1 DEF All, Line
<1> QED BY <1>1, <1>2, <1>3

\* The end of a line says nothing new.
LEMMA NewlineIsQuiet ==
  ASSUME LedgerInv, NEW w, Newline(w)
  PROVE  All' = All /\ view' = All /\ tail' = Nothing
<1>1. view' = Line(view, tail) /\ tail' = Nothing
  BY DEF Newline
<1>2. Line(view', Nothing) = view'
  BY DEF Line, Nothing
<1> QED BY <1>1, <1>2 DEF All

\* The first of the ids that may be given is one of them.
LEMMA MintedIsMintable == Mintable # {} => Minted \in Mintable
<1> SUFFICES ASSUME Mintable # {} PROVE Minted \in Mintable
  OBVIOUS
<1>1. Mintable \in SUBSET Ids
  BY DEF Mintable
<1>2. \E id \in Mintable : \A other \in Mintable : id <= other
  BY <1>1, FirstId
<1> QED BY <1>2 DEF Minted

\* What is known of a question stays known, and an answer it has is its answer.
LEMMA KnownStays ==
  ASSUME Folded(All), Grows, NEW x \in Ids
  PROVE  /\ Known(All, x) => Known(All', x)
         /\ Known(All, x) /\ All[x].answer # NoValue => All'[x].answer = All[x].answer
<1>1. PICK id \in Ids : \/ \E origin \in Origins : \E q : Opens(id, origin, q)
                        \/ Withdraws(id) \/ Delivers(id)
                        \/ \E value \in Values : Settles(id, value)
  BY DEF Grows
<1>2. PICK q : All[id] \in Texts(q)
  BY DEF Folded
<1>3. All = [y \in Ids |-> All[y]]
  BY DEF Folded
<1>4. CASE x # id
  <2>1. All'[x] = All[x]
    BY <1>1, <1>3, <1>4 DEF Opens, Withdraws, Delivers, Settles
  <2> QED BY <2>1 DEF Known
<1>5. CASE x = id
  BY <1>1, <1>2, <1>3, <1>5 DEF Opens, Asked, Withdraws, Delivers, Settles, Known, Texts, IsOpen
<1> QED BY <1>4, <1>5

\* What keeps the ledger and those who write it in step.
LEMMA LedgerKept ==
  ASSUME LedgerInv,
         All' = All \/ (Grows /\ Folded(All)'),
         view' = view \/ view' = All,
         (writing = {} => tail = Nothing)',
         unmarked' = unmarked \/ \E r \in Runs, ids \in SUBSET Ids : unmarked' = [unmarked EXCEPT ![r] = ids],
         \/ answering' = answering
         \/ \E o \in Answerers : \/ answering' = [answering EXCEPT ![o] = Nothing]
                                 \/ \E id \in Ids : /\ Known(All, id)
                                                    /\ answering' = [answering EXCEPT ![o] = Answered(id, Says[o])]
  PROVE  LedgerInv'
<1>1. Folded(view)' /\ Folded(All)'
  BY DEF LedgerInv, Folded
<1>2. unmarked' \in [Runs -> SUBSET Ids]
  BY DEF LedgerInv
<1>3. answering' = [o \in Answerers |-> answering'[o]]
  BY DEF LedgerInv
<1>4. \A id \in Ids : Known(All, id) => Known(All', id)
  BY KnownStays DEF LedgerInv
<1>5. ASSUME NEW o \in Answerers
      PROVE  answering'[o] = Nothing \/ \E id \in Ids : answering'[o] = Answered(id, Says[o]) /\ Known(All', id)
  <2>1. \/ answering'[o] = Nothing
        \/ \E id \in Ids : answering'[o] = Answered(id, Says[o]) /\ Known(All, id)
    BY DEF LedgerInv
  <2> QED BY <1>4, <2>1
<1> QED BY <1>1, <1>2, <1>3, <1>5 DEF LedgerInv

\* Nobody has asked anything.
LEMMA LedgerInit == Init => LedgerInv
<1> SUFFICES ASSUME Init PROVE LedgerInv
  OBVIOUS
<1>1. view = [id \in Ids |-> Unknown] /\ tail = Nothing /\ All = view
  BY DEF Init, AskInit, All, Line, Nothing
<1>2. Unknown \in Texts("none")
  BY DEF Unknown, Texts
<1>3. Folded(view)
  BY <1>1, <1>2 DEF Folded
<1> QED BY <1>1, <1>3 DEF LedgerInv, Init, AskInit

\* Steps that append no row leave the ledger as everybody reads it.
LEMMA QuietSteps ==
  ASSUME LedgerInv, UNCHANGED ledgerVars
  PROVE  All' = All /\ view' = view /\ (writing = {} => tail = Nothing)'
BY DEF ledgerVars, All, LedgerInv

\* While appends are not cut in two, every step either leaves what the ledger says or
\* says more of one question.
LEMMA LedgerNext ==
  ASSUME ~AppendsOverlap PROVE LedgerInv /\ [Next]_vars => LedgerInv' /\ (All' = All \/ Grows)
<1> SUFFICES ASSUME LedgerInv, [Next]_vars PROVE LedgerInv' /\ (All' = All \/ Grows)
  OBVIOUS
<1>0. Folded(All)
  BY DEF LedgerInv
<1>1. ASSUME NEW r \in Runs, WithdrawOne(r) PROVE LedgerInv' /\ (All' = All \/ Grows)
  <2>1. Stale # {} /\ pc[r] = "withdrawing" /\ UNCHANGED <<answering, unmarked>>
    BY <1>1 DEF WithdrawOne, At, talkVars
  <2> DEFINE id == CHOOSE x \in Stale : \A other \in Stale : x <= other
  <2>2. id \in Stale /\ id \in Ids
    <3>1. Stale \in SUBSET Ids
      BY DEF Stale, OpenIds
    <3>2. \E x \in Stale : \A other \in Stale : x <= other
      BY <2>1, <3>1, FirstId
    <3> QED BY <3>1, <3>2
  <2>3. AppendRow(r, Withdrawn(id)) \/ UNCHANGED ledgerVars
    BY <1>1 DEF WithdrawOne, Fails, ledgerVars
  <2> HIDE DEF id
  <2>4. CASE UNCHANGED ledgerVars
    BY <2>1, <2>4, QuietSteps, LedgerKept
  <2>5. CASE AppendRow(r, Withdrawn(id))
    <3>1. /\ All' = FoldRow(All, Withdrawn(id)) /\ view' = view
          /\ (writing = {} => tail = Nothing)'
      BY <2>5, AppendIsRead DEF Withdrawn
    <3>2. IsOpen(All[id]) /\ Known(All, id) /\ All[id].answer = NoValue
      BY <2>2 DEF Stale, OpenIds, IsOpen, Known
    <3>3. Folded(All)' /\ All' = [All EXCEPT ![id] = [All[id] EXCEPT !.withdrawn = TRUE]]
      <4>1. /\ Folded(FoldRow(All, Withdrawn(id)))
            /\ FoldRow(All, Withdrawn(id)) = [All EXCEPT ![id] = [All[id] EXCEPT !.withdrawn = TRUE]]
        BY <1>0, <2>2, <3>2, FoldWithdrawn
      <4> QED BY <3>1, <4>1 DEF Folded
    <3>4. Grows
      BY <2>1, <2>2, <3>2, <3>3 DEF Grows, Withdraws
    <3> QED BY <2>1, <3>1, <3>3, <3>4, LedgerKept
  <2> QED BY <2>3, <2>4, <2>5
<1>2. ASSUME NEW r \in Runs, Promote(r) \/ Hil(r) PROVE LedgerInv' /\ (All' = All \/ Grows)
  <2>1. PICK origin \in Origins : \E q : AppendRow(r, Open(Minted, origin, q))
    BY <1>2 DEF Promote, PromoteRequest, Hil, Put, Origins
  <2>2. PICK q : AppendRow(r, Open(Minted, origin, q))
    BY <2>1
  <2>3. Minted \in Ids /\ ~Known(All, Minted)
    BY <1>2, MintedIsMintable DEF Promote, PromoteRequest, Hil, Mintable
  <2>4. /\ All' = FoldRow(All, Open(Minted, origin, q)) /\ view' = view
        /\ (writing = {} => tail = Nothing)'
    BY <2>2, AppendIsRead DEF Open
  <2>5. PICK id \in Ids : id = Minted /\ ~Known(All, id)
    BY <2>3
  <2>6. Folded(All)' /\ All' = [All EXCEPT ![id] = Asked(origin, q)]
    <3> DEFINE read == FoldRow(All, Open(id, origin, q))
    <3>1. Folded(read) /\ read = [All EXCEPT ![id] = Asked(origin, q)]
      BY <1>0, <2>5, FoldOpen
    <3> QED BY <2>4, <2>5, <3>1 DEF Folded
  <2>7. UNCHANGED <<answering, unmarked>>
    BY <1>2 DEF Promote, PromoteRequest, Hil
  <2>8. Grows
    BY <2>6, <2>5 DEF Grows, Opens
  <2> QED BY <2>4, <2>6, <2>7, <2>8, LedgerKept
<1>3. ASSUME NEW r \in Runs, Mark(r) PROVE LedgerInv' /\ (All' = All \/ Grows)
  <2>1. PICK id \in unmarked[r] : /\ AppendRow(r, Delivered(id)) \/ Fails("mark")
                                  /\ unmarked' = [unmarked EXCEPT ![r] = @ \ {id}]
    BY <1>3 DEF Mark
  <2>2. id \in Ids /\ unmarked[r] \ {id} \in SUBSET Ids /\ answering' = answering
    BY <1>3 DEF LedgerInv, Mark
  <2>3. \E ids \in SUBSET Ids : unmarked' = [unmarked EXCEPT ![r] = ids]
    BY <2>1, <2>2
  <2>4. CASE UNCHANGED ledgerVars
    BY <2>2, <2>3, <2>4, QuietSteps, LedgerKept
  <2>5. CASE AppendRow(r, Delivered(id))
    <3>1. /\ All' = FoldRow(All, Delivered(id)) /\ view' = view
          /\ (writing = {} => tail = Nothing)'
      BY <2>5, AppendIsRead DEF Delivered
    <3>2. /\ Folded(All)'
          /\ Known(All, id) => All' = [All EXCEPT ![id] = [All[id] EXCEPT !.delivered = TRUE]]
          /\ ~Known(All, id) => All' = All
      <4>1. LET row == Delivered(id) IN
              /\ Folded(FoldRow(All, row))
              /\ Known(All, id) => FoldRow(All, row) = [All EXCEPT ![id] = [All[id] EXCEPT !.delivered = TRUE]]
              /\ ~Known(All, id) => FoldRow(All, row) = All
        BY <1>0, <2>2, FoldDelivered
      <4> QED BY <3>1, <4>1 DEF Folded
    <3>3. All' = All \/ Grows
      BY <2>2, <3>2 DEF Grows, Delivers
    <3> QED BY <2>2, <2>3, <3>1, <3>2, <3>3, LedgerKept
  <2> QED BY <2>1, <2>4, <2>5 DEF Fails, ledgerVars
<1>4. ASSUME NEW o \in Answerers, Record(o), Beside PROVE LedgerInv' /\ (All' = All \/ Grows)
  <2>1. PICK id \in Ids : answering[o] = Answered(id, Says[o]) /\ Known(All, id)
    BY <1>4 DEF Record, LedgerInv
  <2>2. answering' = [answering EXCEPT ![o] = Nothing]
    BY <1>4 DEF Record
  <2>3. CASE Beside /\ Fails("answer")
    BY <2>2, <2>3, QuietSteps, LedgerKept DEF Fails, Beside, talkVars, ledgerVars
  <2>4. CASE Beside /\ AppendRow(o, answering[o])
    <3>1. /\ All' = FoldRow(All, Answered(id, Says[o])) /\ view' = view
          /\ (writing = {} => tail = Nothing)'
      BY <2>1, <2>4, AppendIsRead DEF Answered
    <3>2. Says[o] \in Values
      BY SaysAssumption
    <3>3. /\ Folded(All)'
          /\ All[id].answer = NoValue => All' = [All EXCEPT ![id] = [All[id] EXCEPT !.answer = Says[o]]]
          /\ All[id].answer # NoValue => All' = All
      <4>1. LET row == Answered(id, Says[o]) IN
              /\ Folded(FoldRow(All, row))
              /\ All[id].answer = NoValue => FoldRow(All, row) = [All EXCEPT ![id] = [All[id] EXCEPT !.answer = Says[o]]]
              /\ All[id].answer # NoValue => FoldRow(All, row) = All
        BY <1>0, <2>1, <3>2, FoldAnswer
      <4> QED BY <3>1, <4>1 DEF Folded
    <3>4. All' = All \/ Grows
      BY <2>1, <3>2, <3>3 DEF Grows, Settles
    <3>5. unmarked' = unmarked
      BY <2>4 DEF Beside, talkVars
    <3> QED BY <2>2, <3>1, <3>3, <3>4, <3>5, LedgerKept
  <2> QED BY <1>4, <2>3, <2>4 DEF Record
<1>5. ASSUME NEW w \in Writers, Newline(w), Beside PROVE LedgerInv' /\ (All' = All \/ Grows)
  <2>1. UNCHANGED <<answering, unmarked>>
    BY <1>5 DEF Newline, Beside, talkVars
  <2> QED BY <1>5, <2>1, NewlineIsQuiet, LedgerKept
<1>6. ASSUME NEW r \in Runs, Kill(r) PROVE LedgerInv' /\ (All' = All \/ Grows)
  <2>1. UNCHANGED ledgerVars
    BY <1>6, AppendAssumption DEF Kill, Tears, Idle, ledgerVars
  <2>2. answering' = answering /\ unmarked' = [unmarked EXCEPT ![r] = {}]
    BY <1>6 DEF Kill, Tears
  <2> QED BY <2>1, <2>2, QuietSteps, LedgerKept
<1>7. ASSUME NEW r \in Runs, Brief(r) PROVE LedgerInv' /\ (All' = All \/ Grows)
  <2>1. UNCHANGED ledgerVars /\ answering' = answering
    BY <1>7 DEF Brief, askVars
  <2>2. OwedToWorker \in SUBSET Ids /\ unmarked' = [unmarked EXCEPT ![r] = OwedToWorker]
    BY <1>7 DEF Brief, OwedToWorker
  <2> QED BY <2>1, <2>2, QuietSteps, LedgerKept
<1>8. ASSUME NEW o \in Answerers, NEW id \in Ids, Validate(o, id), Beside
      PROVE  LedgerInv' /\ (All' = All \/ Grows)
  <2>1. UNCHANGED ledgerVars /\ unmarked' = unmarked
    BY <1>8 DEF Validate, Beside, talkVars
  <2>2. Known(All, id) /\ answering' = [answering EXCEPT ![o] = Answered(id, Says[o])]
    BY <1>8 DEF Validate, MayAnswer
  <2> QED BY <2>1, <2>2, QuietSteps, LedgerKept
<1>9. ASSUME UNCHANGED <<ledgerVars, answering, unmarked>> PROVE LedgerInv' /\ (All' = All \/ Grows)
  BY <1>9, QuietSteps, LedgerKept DEF ledgerVars
<1>10. ASSUME NEW r \in Runs,
              \/ Launch(r) \/ Detach(r) \/ ParentWrites(r) \/ ChildLooks(r) \/ Check(r) \/ Prepared(r)
              \/ PrepareFails(r) \/ Guard(r) \/ Claim(r) \/ Begin(r) \/ WithdrawnAll(r) \/ Boot(r)
              \/ BootFails(r) \/ RemoveFile(r) \/ Drop(r) \/ Poll(r) \/ Session(r) \/ SessionEnds(r)
       PROVE  UNCHANGED <<ledgerVars, answering, unmarked>>
  BY <1>10 DEF Launch, Detach, ParentWrites, ChildLooks, Check, Prepared, PrepareFails, Guard, Claim, Begin,
               WithdrawnAll, Boot, BootFails, RemoveFile, RemoveRequest, Drop, DropRequest, Poll, Session,
               SessionEnds, askVars, talkVars
<1>11. ASSUME NEW r \in Runs,
              \/ \E q \in Questions : WorkerAsks(r, q)
              \/ \E outcome \in {"done", "error"} : Ends(r, outcome)
              \/ DriverPanics(r) \/ Report(r) \/ FallBack(r) \/ ClearPid(r) \/ Amend(r) \/ Conclude(r)
       PROVE  UNCHANGED <<ledgerVars, answering, unmarked>>
  BY <1>11 DEF WorkerAsks, Request, Ends, DriverPanics, Report, FallBack, ClearPid, Amend, Conclude, askVars,
               talkVars
<1>12. ASSUME ReaderLooks \/ ReaderCleans \/ UNCHANGED vars PROVE UNCHANGED <<ledgerVars, answering, unmarked>>
  BY <1>12 DEF ReaderLooks, ReaderCleans, vars, askVars, talkVars
<1> QED BY <1>1, <1>2, <1>3, <1>4, <1>5, <1>6, <1>7, <1>8, <1>9, <1>10, <1>11, <1>12 DEF Next

\* The ledger, in every state.
LEMMA LedgerCorrect == ASSUME ~AppendsOverlap PROVE Spec => []LedgerInv
<1>1. LedgerInv /\ [Next]_vars => LedgerInv'
  BY LedgerNext
<1> QED BY <1>1, LedgerInit, PTL DEF Spec

------------------------------------------------------------------------------
(* The ledger keeps what AskBoard promises.                                  *)

\* A step of the ledger is a step of the board, or the board does not see it.
LEMMA GrowsIsABoardStep ==
  ASSUME LedgerInv, Grows
  PROVE  Board!BoardNext \/ UNCHANGED [id \in Ids |-> Standing(id)]
<1> DEFINE board == [x \in Ids |-> Standing(x)]
<1>1. PICK id \in Ids : \/ \E origin \in Origins : \E q : Opens(id, origin, q)
                        \/ Withdraws(id) \/ Delivers(id)
                        \/ \E value \in Values : Settles(id, value)
  BY DEF Grows
<1>2. PICK q : All[id] \in Texts(q)
  BY DEF LedgerInv, Folded
<1>3. All = [y \in Ids |-> All[y]]
  BY DEF LedgerInv, Folded
<1>4. ASSUME NEW x \in Ids, x # id PROVE Standing(x)' = Standing(x)
  <2>1. All'[x] = All[x]
    BY <1>1, <1>3, <1>4 DEF Opens, Withdraws, Delivers, Settles
  <2> QED BY <2>1 DEF Standing, Known
<1>5. ASSUME NEW now, Standing(id)' = now PROVE board' = [board EXCEPT ![id] = now]
  BY <1>4, <1>5
<1>6. CASE \E origin \in Origins : \E text : Opens(id, origin, text)
  <2>1. PICK origin \in Origins : \E text : Opens(id, origin, text)
    BY <1>6
  <2>2. PICK text : Opens(id, origin, text)
    BY <2>1
  <2>3. All'[id] = Asked(origin, text)
    BY <1>3, <2>2 DEF Opens
  <2>4. Standing(id) = "unasked"
    BY <2>2 DEF Opens, Standing, Known
  <2>5. Standing(id)' = "open"
    BY <2>3 DEF Standing, Known, Asked, Unknown, Origins
  <2> QED BY <1>5, <2>4, <2>5 DEF Board!BoardNext, Board!Put
<1>7. CASE Withdraws(id)
  <2>1. All'[id] = [All[id] EXCEPT !.withdrawn = TRUE]
    BY <1>3, <1>7 DEF Withdraws
  <2>2. Standing(id) = "open" /\ Standing(id)' = "withdrawn"
    BY <1>2, <1>7, <2>1 DEF Withdraws, IsOpen, Standing, Known, Texts
  <2> QED BY <1>5, <2>2 DEF Board!BoardNext, Board!Withdraw
<1>8. CASE Delivers(id)
  <2>1. All'[id] = [All[id] EXCEPT !.delivered = TRUE]
    BY <1>3, <1>8 DEF Delivers
  <2>2. Standing(id)' = Standing(id)
    BY <1>2, <2>1 DEF Standing, Known, Texts
  <2> QED BY <1>4, <2>2
<1>9. CASE \E value \in Values : Settles(id, value)
  <2>1. PICK value \in Values : Settles(id, value)
    BY <1>9
  <2>2. All'[id] = [All[id] EXCEPT !.answer = value]
    BY <1>3, <2>1 DEF Settles
  <2>3. Standing(id)' = value
    BY <1>2, <2>1, <2>2, NobodyAssumption DEF Settles, Standing, Known, Texts
  <2>4. Standing(id) \in {"open", "withdrawn"}
    BY <2>1 DEF Settles, Standing
  <2> QED BY <1>5, <2>3, <2>4 DEF Board!BoardNext, Board!Settle
<1> QED BY <1>1, <1>6, <1>7, <1>8, <1>9

\* While appends are not cut in two, what anybody can read of the ledger - whoever died,
\* whichever line is still open - is a board that puts a question once, withdraws it
\* only while it is open and keeps the first answer it gets (asks.rs).
THEOREM LedgerKeepsThePromise == ASSUME ~AppendsOverlap PROVE Spec => AsksAreKept
<1>1. Init => Board!BoardInit
  <2> SUFFICES ASSUME Init PROVE Board!BoardInit
    OBVIOUS
  <2>1. \A id \in Ids : Standing(id) = "unasked"
    BY DEF Init, AskInit, All, Line, Nothing, Standing, Known, Unknown
  <2> QED BY <2>1 DEF Board!BoardInit
<1>2. LedgerInv /\ [Next]_vars => [Board!BoardNext]_([id \in Ids |-> Standing(id)])
  <2> SUFFICES ASSUME LedgerInv, [Next]_vars
               PROVE  Board!BoardNext \/ UNCHANGED [id \in Ids |-> Standing(id)]
    OBVIOUS
  <2>1. CASE All' = All
    BY <2>1 DEF Standing, Known
  <2>2. CASE Grows
    BY <2>2, GrowsIsABoardStep
  <2> QED BY <2>1, <2>2, LedgerNext
<1> QED BY <1>1, <1>2, LedgerCorrect, PTL DEF Spec, AsksAreKept, Board!BoardSpec

------------------------------------------------------------------------------
(* No answer is told to two sessions.                                        *)

\* A brief's answers have been told to nobody and are noted as delivered before the
\* session that hears them; an answer that was told is noted as delivered.
ToldInv ==
    /\ brief \in [Runs -> SUBSET Ids] /\ unmarked \in [Runs -> SUBSET Ids] /\ told \in [Ids -> Nat]
    /\ \A r \in Runs : brief[r] # {} => pc[r] = "marking"
    /\ \A r \in Runs : unmarked[r] \subseteq brief[r]
    /\ \A r \in Runs : \A id \in brief[r] :
          Known(All, id) /\ told[id] = 0 /\ (id \notin unmarked[r] => All[id].delivered)
    /\ \A id \in Ids : told[id] = 0 \/ (told[id] = 1 /\ Known(All, id) /\ All[id].delivered)

\* What is noted as delivered stays so.
LEMMA DeliveredStays ==
  ASSUME LedgerInv, All' = All \/ Grows, NEW x \in Ids, Known(All, x)
  PROVE  Known(All', x) /\ (All[x].delivered => All'[x].delivered)
<1>1. CASE All' = All
  BY <1>1
<1>2. CASE Grows
  <2>1. Folded(All)
    BY DEF LedgerInv
  <2>2. PICK id \in Ids : \/ \E origin \in Origins : \E q : Opens(id, origin, q)
                          \/ Withdraws(id) \/ Delivers(id)
                          \/ \E value \in Values : Settles(id, value)
    BY <1>2 DEF Grows
  <2>3. All = [y \in Ids |-> All[y]] /\ \E q : All[x] \in Texts(q)
    BY <2>1 DEF Folded
  <2>4. CASE id # x
    <3>1. All'[x] = All[x]
      BY <2>2, <2>3, <2>4 DEF Opens, Withdraws, Delivers, Settles
    <3> QED BY <3>1 DEF Known
  <2>5. CASE id = x
    <3>1. \/ All'[x] = [All[x] EXCEPT !.withdrawn = TRUE]
          \/ All'[x] = [All[x] EXCEPT !.delivered = TRUE]
          \/ \E value \in Values : All'[x] = [All[x] EXCEPT !.answer = value]
      BY <2>2, <2>3, <2>5 DEF Opens, Withdraws, Delivers, Settles
    <3> QED BY <2>3, <3>1 DEF Texts, Known
  <2> QED BY <2>4, <2>5
<1> QED BY <1>1, <1>2

\* Only the session that hears a brief, and a kill, end the phase in which it is written.
LEMMA OtherStepsKeepBriefs ==
  ASSUME PlacesOK, [Next]_vars,
         \A r \in Runs : ~Brief(r) /\ ~Mark(r) /\ ~Session(r) /\ ~Kill(r)
  PROVE  UNCHANGED <<brief, unmarked, told>> /\ \A x \in Runs : pc[x] = "marking" => pc'[x] = "marking"
<1> DEFINE Kept == UNCHANGED <<brief, unmarked, told>> /\ \A x \in Runs : pc[x] = "marking" => pc'[x] = "marking"
<1> USE DEF PlacesOK, Goes, At, talkVars
<1>1. ASSUME NEW r \in Runs, Launch(r) \/ Detach(r) \/ ParentWrites(r) \/ ChildLooks(r) \/ Check(r) PROVE Kept
  BY <1>1 DEF Launch, Detach, ParentWrites, ChildLooks, Check
<1>2. ASSUME NEW r \in Runs, Prepared(r) \/ PrepareFails(r) \/ Guard(r) \/ Claim(r) \/ Begin(r) PROVE Kept
  BY <1>2 DEF Prepared, PrepareFails, Guard, Claim, Begin, Refused, Turned
<1>3. ASSUME NEW r \in Runs, WithdrawOne(r) \/ WithdrawnAll(r) \/ Boot(r) \/ BootFails(r) PROVE Kept
  BY <1>3 DEF WithdrawOne, WithdrawnAll, Boot, BootFails, Refused
<1>4. ASSUME NEW r \in Runs, Promote(r) \/ RemoveFile(r) \/ Drop(r) \/ Hil(r) \/ Poll(r) PROVE Kept
  BY <1>4 DEF Promote, RemoveFile, Drop, Hil, Poll
<1>5. ASSUME NEW r \in Runs, SessionEnds(r) \/ \E q \in Questions : WorkerAsks(r, q) PROVE Kept
  BY <1>5 DEF SessionEnds, WorkerAsks
<1>6. ASSUME NEW r \in Runs, DriverPanics(r) \/ \E outcome \in {"done", "error"} : Ends(r, outcome) PROVE Kept
  BY <1>6 DEF DriverPanics, Ends, Refused
<1>7. ASSUME NEW r \in Runs, Report(r) \/ FallBack(r) \/ ClearPid(r) \/ Amend(r) \/ Conclude(r) PROVE Kept
  BY <1>7 DEF Report, FallBack, ClearPid, Amend, Conclude, Refused, Leaves
<1>8. ASSUME ReaderLooks \/ ReaderCleans \/ Beside \/ UNCHANGED vars PROVE Kept
  BY <1>8 DEF ReaderLooks, ReaderCleans, Beside, vars
<1> QED BY <1>1, <1>2, <1>3, <1>4, <1>5, <1>6, <1>7, <1>8 DEF Next

\* Nobody has been told anything.
LEMMA ToldInit == Init => ToldInv
BY DEF Init, ToldInv

\* While every delivery can be noted, no step tells an answer a second time.
LEMMA ToldNext ==
  ASSUME ~StartsOverlap, ~AppendsOverlap, "mark" \notin AppendFaults
  PROVE  PlacesOK /\ GuardInv /\ LedgerInv /\ ToldInv /\ [Next]_vars => ToldInv'
<1> SUFFICES ASSUME PlacesOK, GuardInv, LedgerInv, ToldInv, [Next]_vars PROVE ToldInv'
  OBVIOUS
<1>1. All' = All \/ Grows
  BY LedgerNext
<1>2. \A x \in Ids : Known(All, x) => Known(All', x) /\ (All[x].delivered => All'[x].delivered)
  BY <1>1, DeliveredStays
<1>3. ASSUME NEW r \in Runs, Brief(r) PROVE ToldInv'
  <2>1. /\ brief' = [brief EXCEPT ![r] = OwedToWorker] /\ unmarked' = [unmarked EXCEPT ![r] = OwedToWorker]
        /\ told' = told /\ pc' = [pc EXCEPT ![r] = "marking"]
    BY <1>3 DEF Brief, Goes
  <2>2. OwedToWorker \in SUBSET Ids /\ \A id \in OwedToWorker : Known(All, id) /\ ~All[id].delivered
    BY DEF OwedToWorker, Known
  <2>3. \A id \in OwedToWorker : told[id] = 0
    BY <2>2 DEF ToldInv
  <2>4. ASSUME NEW x \in Runs
        PROVE  /\ brief'[x] # {} => pc'[x] = "marking"
               /\ unmarked'[x] \subseteq brief'[x]
               /\ \A id \in brief'[x] : Known(All', id) /\ told'[id] = 0 /\ (id \notin unmarked'[x] => All'[id].delivered)
    BY <1>2, <2>1, <2>2, <2>3 DEF ToldInv, PlacesOK
  <2> QED BY <1>2, <2>1, <2>2, <2>4 DEF ToldInv
<1>4. ASSUME NEW r \in Runs, Mark(r) PROVE ToldInv'
  <2>1. PICK id \in unmarked[r] : AppendRow(r, Delivered(id)) /\ unmarked' = [unmarked EXCEPT ![r] = @ \ {id}]
    BY <1>4 DEF Mark, Fails
  <2>2. UNCHANGED <<brief, told, pc>>
    BY <1>4 DEF Mark
  <2>3. id \in Ids /\ Known(All, id)
    BY DEF ToldInv
  <2>4. All'[id].delivered
    <3>1. All' = FoldRow(All, Delivered(id)) /\ Folded(All)
      BY <2>1, AppendIsRead DEF Delivered, LedgerInv
    <3>2. All' = [All EXCEPT ![id] = [All[id] EXCEPT !.delivered = TRUE]]
      BY <2>3, <3>1, FoldDelivered
    <3>3. All = [y \in Ids |-> All[y]] /\ \E q : All[id] \in Texts(q)
      BY <2>3, <3>1 DEF Folded
    <3> QED BY <2>3, <3>2, <3>3 DEF Texts
  <2>5. ASSUME NEW x \in Runs
        PROVE  /\ brief'[x] # {} => pc'[x] = "marking"
               /\ unmarked'[x] \subseteq brief'[x]
               /\ \A y \in brief'[x] : Known(All', y) /\ told'[y] = 0 /\ (y \notin unmarked'[x] => All'[y].delivered)
    BY <1>2, <2>1, <2>2, <2>4 DEF ToldInv
  <2>6. unmarked' \in [Runs -> SUBSET Ids]
    BY <2>1 DEF ToldInv
  <2> QED BY <1>2, <2>2, <2>5, <2>6 DEF ToldInv
<1>5. ASSUME NEW r \in Runs, Session(r) PROVE ToldInv'
  <2>1. /\ pc[r] = "marking" /\ unmarked[r] = {} /\ unmarked' = unmarked
        /\ brief' = [brief EXCEPT ![r] = {}] /\ pc' = [pc EXCEPT ![r] = "session"]
        /\ told' = [id \in Ids |-> told[id] + IF id \in brief[r] THEN 1 ELSE 0]
    BY <1>5 DEF Session, At, Goes
  <2>2. \A x \in Runs \ {r} : brief[x] = {}
    <3>1. "marking" \in Claiming
      BY DEF Claiming, Holding, Working
    <3>2. \A x \in Runs \ {r} : pc[x] # "marking"
      BY <2>1, <3>1 DEF GuardInv, Apart
    <3> QED BY <3>2 DEF ToldInv
  <2>3. ASSUME NEW id \in Ids PROVE told'[id] = 0 \/ (told'[id] = 1 /\ Known(All', id) /\ All'[id].delivered)
    BY <1>2, <2>1 DEF ToldInv
  <2>4. told' \in [Ids -> Nat] /\ brief' \in [Runs -> SUBSET Ids] /\ \A x \in Runs : brief'[x] = {}
    <3>1. \A id \in Ids : told[id] + (IF id \in brief[r] THEN 1 ELSE 0) \in Nat
      BY DEF ToldInv
    <3>2. told' \in [Ids -> Nat]
      BY <2>1, <3>1
    <3>3. brief' \in [Runs -> SUBSET Ids] /\ \A x \in Runs : brief'[x] = {}
      BY <2>1, <2>2 DEF ToldInv
    <3> QED BY <3>2, <3>3
  <2>5. \A x \in Runs : unmarked[x] = {}
    BY <2>1, <2>2 DEF ToldInv
  <2> QED BY <2>1, <2>3, <2>4, <2>5 DEF ToldInv
<1>6. ASSUME NEW r \in Runs, Kill(r) PROVE ToldInv'
  <2>1. /\ brief' = [brief EXCEPT ![r] = {}] /\ unmarked' = [unmarked EXCEPT ![r] = {}]
        /\ told' = told /\ pc' = [pc EXCEPT ![r] = "killed"]
    BY <1>6 DEF Kill, Leaves
  <2>2. ASSUME NEW x \in Runs
        PROVE  /\ brief'[x] # {} => pc'[x] = "marking"
               /\ unmarked'[x] \subseteq brief'[x]
               /\ \A y \in brief'[x] : Known(All', y) /\ told'[y] = 0 /\ (y \notin unmarked'[x] => All'[y].delivered)
    BY <1>2, <2>1 DEF ToldInv, PlacesOK
  <2> QED BY <1>2, <2>1, <2>2 DEF ToldInv
<1>7. ASSUME \A r \in Runs : ~Brief(r) /\ ~Mark(r) /\ ~Session(r) /\ ~Kill(r) PROVE ToldInv'
  <2>1. UNCHANGED <<brief, unmarked, told>> /\ \A x \in Runs : pc[x] = "marking" => pc'[x] = "marking"
    BY <1>7, OtherStepsKeepBriefs
  <2> QED BY <1>2, <2>1 DEF ToldInv
<1> QED BY <1>3, <1>4, <1>5, <1>6, <1>7

\* While every delivery can be noted in the ledger, a human's answer is told to one
\* session at most, wherever the process that was telling it is killed: the marks are
\* written before the session starts.
THEOREM AnswersAreToldOnce ==
  ASSUME ~StartsOverlap, ~AppendsOverlap, "mark" \notin AppendFaults PROVE Spec => []ToldAtMostOnce
<1>1. PlacesOK /\ GuardInv /\ LedgerInv /\ ToldInv /\ [Next]_vars => ToldInv'
  BY ToldNext
<1>2. ToldInv => ToldAtMostOnce
  BY DEF ToldInv, ToldAtMostOnce
<1> QED BY <1>1, <1>2, ToldInit, GuardCorrect, LedgerCorrect, PTL DEF Spec
=============================================================================
