---------------------------- MODULE ResumeProofs ----------------------------
(* Theorems about Resume, for every set of sequences, every range of values  *)
(* and every bound, wherever the process dies.                               *)
EXTENDS Resume, TLAPS, WellFoundedInduction

Kinds == {"step", "gate", "garbage"}
References == [ref : -1 .. Quality, rollbacks : Nat]
Positions == [at : Walks, step : STRING \cup {"none"}]
Rows == [kind : Kinds, ord : Int, walk : Positions, kept : BOOLEAN, gate : References]
Plans == [walk : Positions, gate : References, ord : Nat, session : 0 .. MaxSessions]

Working == pc \notin {"off", "boot", "baseline"}

------------------------------------------------------------------------------
(* The inductive invariants.                                                 *)

\* The files and the process have their types, what a process that has not read
\* its ledger yet has in memory is what Forget left, and a reference that was
\* ever seeded is a value of the judge.
FilesTyped ==
    /\ entries \in Configs /\ lines \in Seq(Rows) /\ open \in BOOLEAN
    /\ saved \in 0 .. MaxSessions /\ reason \in Reasons /\ base \in 0 .. Quality
ProcessTyped ==
    /\ pc \in Phases /\ cursor \in Walks /\ cursor.idx \in 1 .. Len(entries)
    /\ gate \in References /\ session \in 0 .. MaxSessions /\ ord \in Nat
    /\ landed \in {"none", "span", "nothing", "base", "rolled-back", "no-improvement"}
    /\ ending \in {"none", "goals-met", "stopped", "abort"}
    /\ plan \in Plans
HistoryTyped ==
    /\ runs \in 0 .. MaxRuns /\ used \in Nat /\ forgotten \in Nat
    /\ tries \in Nat /\ limited \in Nat
    /\ lost \in BOOLEAN
    /\ kept \in [cursor : Walks, gate : References, tries : Nat]
BeforeTop ==
    /\ ~Working => cursor = Start /\ gate = NoGate /\ tries = 0
    /\ pc \in {"off", "boot", "baseline", "top", "session"} => landed = "none"
    /\ pc \in {"off", "boot"} => session = 0 /\ ord = 0
    /\ open => lines # <<>>
Seeded ==
    /\ Working => gate.ref >= 0
    /\ plan.gate = NoGate \/ plan.gate.ref >= 0
    /\ \A i \in DOMAIN lines : lines[i].kind = "gate" => lines[i].gate.ref >= 0
Shape == FilesTyped /\ ProcessTyped /\ HistoryTyped /\ BeforeTop /\ Seeded

\* Every session of this logical run is counted where the next start reads it, but
\* for those that a death in boot took from the count.
Counted ==
    /\ session <= MaxSessions /\ saved <= MaxSessions /\ plan.session <= MaxSessions
    /\ pc = "off" => used = saved + forgotten
    /\ pc = "boot" => saved = 0 /\ used = plan.session + forgotten
    /\ pc \notin {"off", "boot"} => saved = session /\ used = session + forgotten

\* The next ordinal is the number of rows, unless the last line is one an append
\* will spoil.
Closed == ~open /\ (lines = <<>> \/ lines[Len(lines)].kind # "garbage")
Dense(file) ==
    Readable(file) => \A i \in DOMAIN file : file[i].kind # "garbage" => file[i].ord = i - 1
Numbered ==
    /\ Dense(lines)
    /\ Readable(lines) /\ Closed /\ pc = "boot" => plan.ord = Len(lines)
    /\ Readable(lines) /\ Closed /\ pc \notin {"off", "boot"} => ord = Len(lines)

\* A gate row stands behind the step row of its session, or behind what a torn
\* append made of it.
IsStepOf(line, walk) == line.kind = "garbage" \/ (line.kind = "step" /\ line.walk = walk)
Paired ==
    /\ \A i \in DOMAIN lines :
           lines[i].kind = "gate" => i > 1 /\ IsStepOf(lines[i - 1], lines[i].walk)
    /\ pc = "gate-row" => /\ ~open /\ lines # <<>> /\ IsStepOf(lines[Len(lines)], Here)

\* The last kept row of a ledger a resume accepts is the last merge, until one of
\* them got no row.
KeptRow(line) == line.kind = "gate" /\ line.kept
LastKept(file, i) ==
    /\ i \in DOMAIN file /\ KeptRow(file[i])
    /\ \A j \in DOMAIN file : KeptRow(file[j]) => j <= i
IsTheKept(line) == line.gate = kept.gate /\ line.walk.at = kept.cursor
AgreesWith(file) ==
    IF kept = NothingKept THEN \A i \in DOMAIN file : ~KeptRow(file[i])
    ELSE \E i \in DOMAIN file : LastKept(file, i) /\ IsTheKept(file[i])
LedgerAgrees == Readable(lines) /\ ~lost /\ ~Unrecorded => AgreesWith(lines)
PlanAgrees ==
    pc \in {"boot", "baseline"} /\ ~lost =>
        IF kept = NothingKept THEN plan.walk = Nowhere /\ plan.gate = NoGate
        ELSE plan.walk.at = kept.cursor /\ plan.gate = kept.gate
KeptIsReal ==
    /\ kept # NothingKept => kept.gate.ref >= 0 /\ kept.cursor.idx >= 1
    /\ landed = "base" => kept # NothingKept /\ kept.cursor = cursor /\ kept.gate = gate
    /\ open /\ ~lost => ~KeptRow(lines[Len(lines)])
Agreed == Paired /\ LedgerAgrees /\ PlanAgrees /\ KeptIsReal

\* The reference is the value on base.
Ratcheted ==
    GateRegressions =>
        /\ kept # NothingKept => kept.gate.ref = base
        /\ Working /\ ~lost => gate.ref = base

\* The completed sessions of a visit are among its dispatches.
Paced ==
    ~lost =>
        /\ kept.tries <= kept.cursor.reps
        /\ pc \in {"top", "gate-row", "ended"} => tries <= cursor.reps
        /\ pc \in {"session", "finalize", "record"} => tries < cursor.reps


------------------------------------------------------------------------------
(* Lemmas about the ledger's operators.                                      *)

\* The bounds are numbers.
LEMMA Bounds ==
  Quality \in Nat /\ Tolerance \in Nat /\ MaxSessions \in Nat /\ MaxRuns \in Nat
BY BoundsAssumption DEF BoundsAssumption

\* The largest of a bounded set of numbers is in it.
LEMMA MaxOfBounded ==
  ASSUME NEW n \in Nat, NEW S \in SUBSET (0 .. n), S # {}
  PROVE  Max(S) \in S /\ \A j \in S : j <= Max(S)
<1> DEFINE less == {ss \in Nat \X Nat : ss[1] < ss[2]}
           T == {k \in Nat : n - k \in S}
<1>1. IsWellFoundedOn(less, Nat)
  BY NatLessThanWellFounded DEF OpToRel
<1>2. T \subseteq Nat /\ T # {}
  <2>1. PICK j \in S : TRUE
    OBVIOUS
  <2>2. n - j \in Nat /\ n - (n - j) = j
    BY <2>1
  <2> QED BY <2>1, <2>2
<1>3. PICK k \in T : \A y \in T : <<y, k>> \notin less
  <2> HIDE DEF less, T
  <2> QED BY <1>1, <1>2, WFMin
<1>4. \A j \in S : j <= n - k
  <2> SUFFICES ASSUME NEW j \in S, j > n - k PROVE FALSE
    OBVIOUS
  <2>1. n - j \in Nat /\ n - (n - j) = j /\ n - j < k
    OBVIOUS
  <2>2. n - j \in T
    BY <2>1
  <2> QED BY <2>1, <2>2, <1>3
<1>5. \E x \in S : \A y \in S : x >= y
  BY <1>3, <1>4
<1> QED BY <1>5 DEF Max

\* load drops a last line that does not parse and nothing else.
LEMMA ParsedRows ==
  ASSUME NEW file \in Seq(Rows)
  PROVE  /\ Parsed(file) \in Seq(Rows)
         /\ file = <<>> => Parsed(file) = <<>>
         /\ file # <<>> => Len(Parsed(file)) = (IF file[Len(file)].kind = "garbage"
                                                THEN Len(file) - 1 ELSE Len(file))
         /\ Len(Parsed(file)) <= Len(file)
         /\ \A i \in 1 .. Len(Parsed(file)) : Parsed(file)[i] = file[i]
BY DEF Parsed, Front, Last

\* An accepted ledger has no garbage but in its last line.
LEMMA ReadableRows ==
  ASSUME NEW file \in Seq(Rows)
  PROVE  Readable(file) <=> \A i \in 1 .. Len(file) - 1 : file[i].kind # "garbage"
<1> DEFINE rows == Parsed(file)
           n == Len(file)
<1>1. /\ DOMAIN rows = 1 .. Len(rows) /\ n \in Nat /\ (file = <<>> <=> n = 0)
      /\ n = 0 => Len(rows) = 0
      /\ n # 0 => Len(rows) = (IF file[n].kind = "garbage" THEN n - 1 ELSE n)
      /\ \A i \in 1 .. Len(rows) : rows[i] = file[i]
  BY ParsedRows
<1>2. Readable(file) <=> \A i \in DOMAIN rows : rows[i].kind # "garbage"
  BY DEF Readable
<1> HIDE DEF rows, n
<1>3. CASE n = 0
  BY <1>1, <1>2, <1>3 DEF n
<1>4. CASE n # 0 /\ file[n].kind = "garbage"
  BY <1>1, <1>2, <1>4 DEF n
<1>5. CASE n # 0 /\ file[n].kind # "garbage"
  BY <1>1, <1>2, <1>5 DEF n
<1> QED BY <1>3, <1>4, <1>5

\* The values that stand for nothing read, nothing kept and a torn line have the types
\* of what they stand in for.
LEMMA Blanks ==
  /\ NoGate \in References /\ Nowhere \in Positions /\ Garbage \in Rows /\ NoPlan \in Plans
  /\ NothingKept \in [cursor : Walks, gate : References, tries : Nat]
<1>1. NoGate \in References
  <2>1. -1 \in -1 .. Quality
    BY Bounds
  <2> QED BY <2>1 DEF NoGate, References
<1>2. Nowhere \in Positions
  BY DEF Nowhere, Positions, Walks
<1>3. Garbage \in Rows
  BY <1>1, <1>2 DEF Garbage, Rows, Kinds
<1>4. NoPlan \in Plans
  BY <1>1, <1>2, Bounds DEF NoPlan, Plans
<1>5. NothingKept \in [cursor : Walks, gate : References, tries : Nat]
  BY <1>1 DEF NothingKept, Start, Walks
<1> QED BY <1>1, <1>2, <1>3, <1>4, <1>5

\* An append adds a line, or spoils the one that has no newline.
LEMMA AppendedRows ==
  ASSUME lines \in Seq(Rows), open \in BOOLEAN, open => lines # <<>>, NEW row \in Rows
  PROVE  /\ Appended(row) \in Seq(Rows)
         /\ Appended(row) # <<>>
         /\ ~open => /\ Len(Appended(row)) = Len(lines) + 1
                     /\ \A i \in 1 .. Len(lines) : Appended(row)[i] = lines[i]
                     /\ Appended(row)[Len(lines) + 1] = row
         /\ open  => /\ Len(Appended(row)) = Len(lines)
                     /\ \A i \in 1 .. Len(lines) - 1 : Appended(row)[i] = lines[i]
                     /\ Appended(row)[Len(lines)] = Garbage
<1>1. CASE ~open
  <2>1. Appended(row) = Append(lines, row)
    BY <1>1 DEF Appended
  <2> QED BY <1>1, <2>1
<1>2. CASE open
  <2>1. Garbage \in Rows
    BY Blanks
  <2>2. Front(lines) \in Seq(Rows) /\ Len(Front(lines)) = Len(lines) - 1
        /\ \A i \in 1 .. Len(lines) - 1 : Front(lines)[i] = lines[i]
    BY <1>2 DEF Front
  <2>3. Appended(row) = Append(Front(lines), Garbage)
    BY <1>2 DEF Appended
  <2> HIDE DEF Garbage
  <2> QED BY <1>2, <2>1, <2>2, <2>3
<1> QED BY <1>1, <1>2

\* truncate_to_base keeps the parsed rows up to the last gate that kept.
LEMMA ReplayRows ==
  ASSUME lines \in Seq(Rows)
  PROVE  /\ Replay \in Seq(Rows)
         /\ Len(Replay) <= Len(Parsed(lines))
         /\ \A i \in 1 .. Len(Replay) : Replay[i] = lines[i]
         /\ Len(Replay) > 0 => KeptRow(lines[Len(Replay)])
         /\ \A i \in DOMAIN lines : KeptRow(lines[i]) => i <= Len(Replay)
<1> DEFINE rows == Parsed(lines)
           S == {0} \cup {i \in DOMAIN rows : rows[i].kind = "gate" /\ rows[i].kept}
           m == Max(S)
<1>1. /\ rows \in Seq(Rows) /\ DOMAIN rows = 1 .. Len(rows) /\ Len(rows) \in Nat
      /\ Len(rows) <= Len(lines)
      /\ \A i \in 1 .. Len(rows) : rows[i] = lines[i]
  BY ParsedRows
<1>2. Replay = SubSeq(rows, 1, m)
  BY DEF Replay
<1>3. S \in SUBSET (0 .. Len(rows)) /\ S # {}
  BY <1>1
<1>4. m \in S /\ \A j \in S : j <= m
  <2> HIDE DEF S, rows
  <2> QED BY <1>1, <1>3, MaxOfBounded
<1>5. m \in 0 .. Len(rows)
  BY <1>3, <1>4
<1>6. Replay \in Seq(Rows) /\ Len(Replay) = m /\ \A i \in 1 .. m : Replay[i] = rows[i]
  <2> HIDE DEF rows, m
  <2> QED BY <1>1, <1>2, <1>5
<1>7. ASSUME NEW i \in DOMAIN lines, KeptRow(lines[i]) PROVE i <= m
  <2>1. i \in 1 .. Len(rows)
    BY <1>7, ParsedRows DEF KeptRow
  <2>2. i \in DOMAIN rows /\ rows[i].kind = "gate" /\ rows[i].kept
    BY <1>1, <1>7, <2>1 DEF KeptRow
  <2> QED BY <1>4, <2>2
<1>8. ASSUME m > 0 PROVE KeptRow(lines[m])
  <2>1. m # 0 /\ m \in 1 .. Len(rows)
    <3> HIDE DEF m, rows
    <3> QED BY <1>1, <1>5, <1>8
  <2>2. rows[m].kind = "gate" /\ rows[m].kept
    BY <1>4, <2>1, Zenon
  <2>3. rows[m] = lines[m]
    BY <1>1, <2>1, Zenon
  <2> QED BY <2>2, <2>3, Zenon DEF KeptRow
<1> HIDE DEF rows, m
<1> QED BY <1>1, <1>5, <1>6, <1>7, <1>8 DEF rows

\* The fields of a row have their types.
LEMMA RowFields ==
  ASSUME NEW row \in Rows
  PROVE  /\ row.kind \in Kinds /\ row.ord \in Int /\ row.walk \in Positions
         /\ row.kept \in BOOLEAN /\ row.gate \in References
BY DEF Rows

\* LastWith is the row of the largest index of its kind.
LEMMA LastRow ==
  ASSUME NEW rows \in Seq(Rows), NEW kind, Has(rows, kind)
  PROVE  \E i \in DOMAIN rows :
             /\ rows[i].kind = kind /\ LastWith(rows, kind) = rows[i]
             /\ \A j \in DOMAIN rows : rows[j].kind = kind => j <= i
<1> DEFINE S == {i \in DOMAIN rows : rows[i].kind = kind}
<1>1. S \in SUBSET (0 .. Len(rows)) /\ S # {} /\ Len(rows) \in Nat
  BY DEF Has
<1>2. Max(S) \in S /\ \A j \in S : j <= Max(S)
  <2> HIDE DEF S
  <2> QED BY <1>1, MaxOfBounded
<1> QED BY <1>2 DEF LastWith

\* What a resume reads out of a ledger has the type of a plan, and a reference it
\* reads is a value of the judge.
LEMMA PlanTyped ==
  ASSUME Shape
  PROVE  /\ PlanOf(Replay) \in Plans
         /\ PlanOf(Replay).gate = NoGate \/ PlanOf(Replay).gate.ref >= 0
<1> DEFINE rows == Replay
<1>1. rows \in Seq(Rows) /\ Len(rows) \in Nat /\ DOMAIN rows = 1 .. Len(rows)
      /\ DOMAIN rows \subseteq DOMAIN lines /\ \A i \in DOMAIN rows : rows[i] = lines[i]
  <2>1. lines \in Seq(Rows) /\ Len(Parsed(lines)) <= Len(lines) /\ Len(Parsed(lines)) \in Nat
    BY ParsedRows DEF Shape, FilesTyped
  <2>2. rows \in Seq(Rows) /\ Len(rows) <= Len(Parsed(lines))
        /\ \A i \in 1 .. Len(rows) : rows[i] = lines[i]
    BY <2>1, ReplayRows
  <2> HIDE DEF rows
  <2> QED BY <2>1, <2>2
<1> HIDE DEF rows
<1>2. \A i \in DOMAIN rows : rows[i].walk \in Positions /\ rows[i].gate \in References
  <2>1. \A i \in DOMAIN rows : rows[i] \in Rows
    BY <1>1
  <2> QED BY <2>1, RowFields
<1>3. (IF Has(rows, "step") THEN LastWith(rows, "step").walk ELSE Nowhere) \in Positions
  BY <1>1, <1>2, LastRow, Blanks
<1>4. ASSUME Has(rows, "gate")
      PROVE  LastWith(rows, "gate").gate \in References /\ LastWith(rows, "gate").gate.ref >= 0
  BY <1>1, <1>2, <1>4, LastRow DEF Shape, Seeded
<1>5. saved \in 0 .. MaxSessions
  BY DEF Shape, FilesTyped
<1> QED BY <1>1, <1>3, <1>4, <1>5, Blanks DEF PlanOf, Plan, Plans, rows

\* What a resume reads is in the last row it keeps, and in the step row before it.
LEMMA PlanRows ==
  ASSUME Shape
  PROVE  /\ PlanOf(Replay).ord = Len(Replay) /\ PlanOf(Replay).session = saved
         /\ Len(Replay) = 0 => PlanOf(Replay).gate = NoGate /\ PlanOf(Replay).walk = Nowhere
         /\ Len(Replay) > 0 =>
              /\ Len(Replay) \in DOMAIN lines
              /\ PlanOf(Replay).gate = lines[Len(Replay)].gate
              /\ Paired /\ Readable(lines) => PlanOf(Replay).walk = lines[Len(Replay)].walk
<1> DEFINE rows == Replay
           m == Len(rows)
<1>1. /\ lines \in Seq(Rows) /\ Len(lines) \in Nat /\ DOMAIN lines = 1 .. Len(lines)
      /\ Len(Parsed(lines)) <= Len(lines) /\ Len(Parsed(lines)) \in Nat
  BY ParsedRows DEF Shape, FilesTyped
<1>2. /\ rows \in Seq(Rows) /\ m \in Nat /\ m <= Len(lines) /\ DOMAIN rows = 1 .. m
      /\ \A i \in 1 .. m : rows[i] = lines[i]
      /\ m > 0 => KeptRow(lines[m])
  <2>1. /\ rows \in Seq(Rows) /\ m <= Len(Parsed(lines)) /\ \A i \in 1 .. m : rows[i] = lines[i]
        /\ m > 0 => KeptRow(lines[m])
    BY <1>1, ReplayRows
  <2> HIDE DEF rows
  <2> QED BY <1>1, <2>1
<1>3. /\ PlanOf(rows).ord = m /\ PlanOf(rows).session = saved
      /\ PlanOf(rows).gate = (IF Has(rows, "gate") THEN LastWith(rows, "gate").gate ELSE NoGate)
      /\ PlanOf(rows).walk = (IF Has(rows, "step") THEN LastWith(rows, "step").walk ELSE Nowhere)
  <2> HIDE DEF rows
  <2> QED BY DEF PlanOf, Plan, m
<1> HIDE DEF rows, m
<1>4. CASE m = 0
  <2>1. ~Has(rows, "gate") /\ ~Has(rows, "step")
    BY <1>2, <1>4 DEF Has
  <2> QED BY <1>3, <1>4, <2>1 DEF rows, m
<1>5. CASE m > 0
  <2>1. rows[m] = lines[m] /\ rows[m].kind = "gate" /\ m \in DOMAIN rows /\ m \in DOMAIN lines
    BY <1>1, <1>2, <1>5 DEF KeptRow
  <2>2. Has(rows, "gate") /\ LastWith(rows, "gate") = rows[m]
    <3>1. Has(rows, "gate")
      BY <2>1 DEF Has
    <3>2. PICK i \in DOMAIN rows : /\ LastWith(rows, "gate") = rows[i]
                                   /\ \A j \in DOMAIN rows : rows[j].kind = "gate" => j <= i
      BY <1>2, <3>1, LastRow
    <3>3. i = m
      BY <1>2, <2>1, <3>2
    <3> QED BY <3>1, <3>2, <3>3
  <2>3. ASSUME Paired, Readable(lines)
        PROVE  Has(rows, "step") /\ LastWith(rows, "step").walk = lines[m].walk
    <3>1. m > 1 /\ IsStepOf(lines[m - 1], lines[m].walk)
      BY <2>1, <2>3 DEF Paired
    <3>2. lines[m - 1].kind # "garbage"
      BY <1>1, <1>2, <2>3, <3>1, ReadableRows
    <3>3. /\ m - 1 \in DOMAIN rows /\ rows[m - 1] = lines[m - 1]
          /\ rows[m - 1].kind = "step" /\ rows[m - 1].walk = lines[m].walk
      BY <1>2, <3>1, <3>2 DEF IsStepOf
    <3>4. Has(rows, "step")
      BY <3>3 DEF Has
    <3>5. PICK i \in DOMAIN rows : /\ rows[i].kind = "step" /\ LastWith(rows, "step") = rows[i]
                                   /\ \A j \in DOMAIN rows : rows[j].kind = "step" => j <= i
      BY <1>2, <3>4, LastRow
    <3>6. i = m - 1
      <4>1. i # m /\ i >= m - 1
        BY <2>1, <3>3, <3>5
      <4> QED BY <1>2, <4>1
    <3> QED BY <3>3, <3>4, <3>5, <3>6
  <2> QED BY <1>3, <1>5, <2>1, <2>2, <2>3 DEF rows, m
<1> QED BY <1>2, <1>4, <1>5 DEF m, rows

\* A resume keeps a prefix of the file.
LEMMA ResumeKeepsPrefix ==
  ASSUME Shape, StartResume
  PROVE  /\ lines' \in Seq(Rows) /\ Len(lines') <= Len(lines)
         /\ \A i \in DOMAIN lines' : i \in DOMAIN lines /\ lines'[i] = lines[i]
         /\ \/ lines' = lines /\ open' = open /\ Len(Replay) = Len(Parsed(lines))
            \/ lines' = Replay /\ open' = FALSE
<1>1. CASE Len(Replay) = Len(Parsed(lines))
  BY <1>1 DEF StartResume, Shape, FilesTyped
<1>2. CASE Len(Replay) # Len(Parsed(lines))
  <2>1. lines' = Replay /\ open' = FALSE
    BY <1>2 DEF StartResume
  <2>2. Len(Parsed(lines)) <= Len(lines) /\ Len(Parsed(lines)) \in Nat
    BY ParsedRows DEF Shape, FilesTyped
  <2>3. /\ Replay \in Seq(Rows) /\ Len(Replay) <= Len(Parsed(lines))
        /\ \A i \in 1 .. Len(Replay) : Replay[i] = lines[i]
    BY ReplayRows DEF Shape, FilesTyped
  <2>4. DOMAIN Replay \subseteq DOMAIN lines /\ \A i \in DOMAIN Replay : Replay[i] = lines[i]
    BY <2>2, <2>3 DEF Shape, FilesTyped
  <2>5. Len(Replay) <= Len(lines)
    BY <2>2, <2>3 DEF Shape, FilesTyped
  <2> QED BY <2>1, <2>3, <2>4, <2>5
<1> QED BY <1>1, <1>2

\* A configuration is a sequence of entries with at least one of them.
LEMMA ConfigTyped ==
  ASSUME NEW c \in Configs
  PROVE  /\ c \in Seq(Entry) /\ Len(c) \in Nat /\ Len(c) >= 1 /\ DOMAIN c = 1 .. Len(c)
         /\ \A i \in 1 .. Len(c) : c[i].step \in STRING /\ c[i].cap \in Nat \ {0}
<1>1. c # <<>> /\ c \in Seq(Entry)
  BY ConfigsAssumption DEF ConfigsAssumption
<1>2. \A i \in 1 .. Len(c) : c[i] \in Entry
  BY <1>1
<1> QED BY <1>1, <1>2 DEF Entry

\* The rows a session writes have the type of a row.
LEMMA RowsTyped ==
  ASSUME Shape
  PROVE  StepRow \in Rows /\ GateRow \in Rows /\ Garbage \in Rows /\ Here \in Positions
<1>1. Here \in Positions
  <2>1. entries[cursor.idx].step \in STRING
    BY ConfigTyped DEF Shape, FilesTyped, ProcessTyped
  <2> QED BY <2>1 DEF Here, Positions, Shape, ProcessTyped
<1>2. StepRow \in Rows
  BY <1>1, Blanks DEF StepRow, Rows, Kinds, Shape, ProcessTyped
<1>3. GateRow \in Rows
  BY <1>1 DEF GateRow, Rows, Kinds, Shape, ProcessTyped
<1> QED BY <1>1, <1>2, <1>3, Blanks

\* A line of an appended file was one of it, is the row, or is spoilt.
LEMMA AppendedFrom ==
  ASSUME Shape, NEW row \in Rows
  PROVE  \A i \in DOMAIN Appended(row) :
             \/ Appended(row)[i] \in {row, Garbage}
             \/ i \in DOMAIN lines /\ Appended(row)[i] = lines[i]
<1> DEFINE file == Appended(row)
<1>1. file \in Seq(Rows) /\ DOMAIN file = 1 .. Len(file) /\ Len(lines) \in Nat
      /\ DOMAIN lines = 1 .. Len(lines)
  BY AppendedRows DEF Shape, FilesTyped, BeforeTop
<1>2. CASE ~open
  <2>1. /\ Len(file) = Len(lines) + 1 /\ file[Len(lines) + 1] = row
        /\ \A i \in 1 .. Len(lines) : file[i] = lines[i]
    BY <1>2, AppendedRows DEF Shape, FilesTyped, BeforeTop
  <2> HIDE DEF file
  <2> QED BY <1>1, <2>1 DEF file
<1>3. CASE open
  <2>1. /\ Len(file) = Len(lines) /\ file[Len(lines)] = Garbage
        /\ \A i \in 1 .. Len(lines) - 1 : file[i] = lines[i]
    BY <1>3, AppendedRows DEF Shape, FilesTyped, BeforeTop
  <2> HIDE DEF file
  <2> QED BY <1>1, <2>1 DEF file
<1> QED BY <1>2, <1>3

\* Appending a row, or what a crash leaves of it, keeps the file a ledger.
LEMMA AppendTyped ==
  ASSUME Shape, NEW row \in Rows, row.kind = "gate" => row.gate.ref >= 0
  PROVE  /\ Appended(row) \in Seq(Rows) /\ Appended(row) # <<>>
         /\ \A i \in DOMAIN Appended(row) :
                Appended(row)[i].kind = "gate" => Appended(row)[i].gate.ref >= 0
<1> DEFINE file == Appended(row)
<1>1. file \in Seq(Rows) /\ file # <<>> /\ DOMAIN file = 1 .. Len(file) /\ Len(lines) \in Nat
      /\ DOMAIN lines = 1 .. Len(lines)
  BY AppendedRows DEF Shape, FilesTyped, BeforeTop
<1>2. \A i \in DOMAIN file : \/ file[i] \in {row, Garbage}
                             \/ i \in DOMAIN lines /\ file[i] = lines[i]
  BY AppendedFrom
<1>3. Garbage.kind # "gate"
  BY DEF Garbage
<1> HIDE DEF file
<1>4. \A i \in DOMAIN file : file[i].kind = "gate" => file[i].gate.ref >= 0
  BY <1>2, <1>3 DEF Shape, Seeded
<1> QED BY <1>1, <1>4 DEF file

------------------------------------------------------------------------------
(* Type correctness.                                                         *)

\* The initial states have their types.
LEMMA ShapeInit == Init => Shape
<1> SUFFICES ASSUME Init PROVE Shape
  OBVIOUS
<1>1. Len(entries) >= 1
  BY ConfigTyped DEF Init
<1>2. FilesTyped
  <2>1. open \in BOOLEAN /\ reason \in Reasons
    BY DEF Init, Reasons
  <2> QED BY <2>1, Bounds DEF Init, FilesTyped
<1>3. ProcessTyped
  BY <1>1, Blanks, Bounds DEF Init, ProcessTyped, Phases, Start, Walks
<1>4. HistoryTyped
  <2>1. lost \in BOOLEAN
    BY DEF Init
  <2> QED BY <2>1, Blanks, Bounds DEF Init, HistoryTyped
<1>5. BeforeTop /\ Seeded
  BY DEF Init, BeforeTop, Seeded, Working, NoPlan
<1> QED BY <1>2, <1>3, <1>4, <1>5 DEF Shape

\* A fate is one of the three a gate gives, and what it leaves of the references is one.
LEMMA FateTyped ==
  ASSUME NEW regressed, NEW improved
  PROVE  Fate(regressed, improved) \in {"base", "rolled-back", "no-improvement"}
BY Zenon DEF Fate

\* The gate's state after a decision is one that gate.json may hold.
LEMMA RecordedTyped ==
  ASSUME gate \in References, gate.ref >= 0, NEW now \in 0 .. Quality, NEW fate
  PROVE  Recorded(fate, now) \in References /\ Recorded(fate, now).ref >= 0
<1>1. CASE fate = "base"
  <2>1. Recorded(fate, now) = [gate EXCEPT !.ref = now]
    BY <1>1 DEF Recorded
  <2> QED BY <2>1, Bounds DEF References
<1>2. CASE fate = "rolled-back"
  <2>1. Recorded(fate, now) = [gate EXCEPT !.rollbacks = @ + 1]
    BY <1>2 DEF Recorded
  <2> QED BY <2>1 DEF References
<1>3. CASE fate \notin {"base", "rolled-back"}
  <2>1. Recorded(fate, now) = gate
    BY <1>3 DEF Recorded
  <2> QED BY <2>1
<1> QED BY <1>1, <1>2, <1>3

\* Forget leaves the process and its history their types, over files of theirs.
LEMMA ForgetTyped ==
  ASSUME Shape, Forget, FilesTyped', entries' = entries, open' => lines' # <<>>,
         \A i \in DOMAIN lines' : lines'[i].kind = "gate" => lines'[i].gate.ref >= 0,
         UNCHANGED <<runs, kept, used>>, lost' \in BOOLEAN, forgotten' \in Nat
  PROVE  Shape'
<1>1. Len(entries) >= 1
  BY ConfigTyped DEF Shape, FilesTyped
<1>2. ProcessTyped'
  BY <1>1, Blanks, Bounds DEF Forget, Shape, ProcessTyped, Phases, Start, Walks
<1>3. HistoryTyped'
  BY DEF Forget, Shape, HistoryTyped
<1>4. BeforeTop' /\ Seeded'
  BY DEF Forget, Shape, BeforeTop, Seeded, Working, NoPlan
<1> QED BY <1>2, <1>3, <1>4 DEF Shape

\* A run that ends or dies without writing a row leaves its files as they are.
LEMMA ForgottenTyped ==
  ASSUME Shape, Forget, UNCHANGED <<entries, lines, open, saved, base, runs, kept, used>>,
         lost' \in BOOLEAN, reason' \in Reasons, forgotten' \in Nat
  PROVE  Shape'
<1>1. FilesTyped'
  BY DEF Shape, FilesTyped
<1> QED BY <1>1, ForgetTyped DEF Shape, BeforeTop, Seeded

\* A step of the walk stands on an entry.
LEMMA NextStepTyped ==
  ASSUME Shape, NEW holds \in BOOLEAN
  PROVE  NextStep(holds) \in Walks /\ NextStep(holds).idx \in 1 .. Len(entries)
<1>1. Len(entries) \in Nat /\ Len(entries) >= 1
  BY ConfigTyped DEF Shape, FilesTyped
<1>2. cursor \in Walks /\ cursor.idx \in 1 .. Len(entries)
  BY DEF Shape, ProcessTyped
<1>3. (cursor.idx % Len(entries)) + 1 \in 1 .. Len(entries)
  BY <1>1, <1>2
<1>4. CASE Leaves(entries[cursor.idx], holds)
  BY <1>1, <1>2, <1>3, <1>4 DEF NextStep, Walks
<1>5. CASE ~Leaves(entries[cursor.idx], holds)
  BY <1>2, <1>5 DEF NextStep, Walks
<1> QED BY <1>4, <1>5

\* Every step keeps the types.
LEMMA ShapeNext == Shape /\ [Next]_vars => Shape'
<1> SUFFICES ASSUME Shape, [Next]_vars PROVE Shape'
  OBVIOUS
<1> USE DEF Shape
<1>1. CASE StartFresh
  <2>1. FilesTyped' /\ HistoryTyped'
    <3>1. reason' \in Reasons /\ open' \in BOOLEAN /\ lost' \in BOOLEAN
      BY <1>1 DEF StartFresh, Begin, Reasons
    <3> QED BY <1>1, <3>1, Blanks, Bounds DEF StartFresh, Begin, FilesTyped, HistoryTyped
  <2>2. Len(entries') >= 1
    BY <1>1, ConfigTyped DEF StartFresh, Begin
  <2>3. ProcessTyped' /\ BeforeTop' /\ Seeded'
    BY <1>1, <2>2, Blanks DEF StartFresh, Begin, ProcessTyped, BeforeTop, Seeded, Working, Phases, Start, NoPlan
  <2> QED BY <2>1, <2>3
<1>2. CASE StartResume
  <2>1. lines' \in Seq(Rows) /\ (open' => lines' # <<>>) /\ open' \in BOOLEAN
        /\ \A i \in DOMAIN lines' : lines'[i].kind = "gate" => lines'[i].gate.ref >= 0
    <3>1. /\ lines' \in Seq(Rows) /\ \A i \in DOMAIN lines' : i \in DOMAIN lines /\ lines'[i] = lines[i]
          /\ (lines' = lines /\ open' = open) \/ open' = FALSE
      BY <1>2, ResumeKeepsPrefix
    <3>2. open' \in BOOLEAN
      BY <3>1 DEF FilesTyped
    <3>3. open' => lines' # <<>>
      BY <3>1 DEF BeforeTop
    <3> QED BY <3>1, <3>2, <3>3 DEF Seeded
  <2>2. FilesTyped' /\ HistoryTyped'
    BY <1>2, <2>1, Bounds DEF StartResume, Begin, FilesTyped, HistoryTyped, Reasons
  <2>3. Len(entries') >= 1
    BY <1>2, ConfigTyped DEF StartResume, Begin
  <2>4. plan' \in Plans /\ (plan'.gate = NoGate \/ plan'.gate.ref >= 0)
    BY <1>2, PlanTyped DEF StartResume
  <2>5. ProcessTyped' /\ BeforeTop' /\ Seeded'
    BY <1>2, <2>1, <2>3, <2>4 DEF StartResume, Begin, ProcessTyped, BeforeTop, Seeded, Working, Phases, Start
  <2> QED BY <2>2, <2>5
<1>3. CASE RestoreCounters
  BY <1>3 DEF RestoreCounters, Plans, Phases, FilesTyped, ProcessTyped, HistoryTyped, BeforeTop, Seeded, Working, vars, fileVars, procVars, histVars
<1>4. CASE Baseline
  <2>1. gate' \in References /\ gate'.ref >= 0
    BY <1>4, Bounds DEF Baseline, FilesTyped, ProcessTyped, Seeded, Plans, References
  <2>2. cursor' \in Walks /\ cursor'.idx \in 1 .. Len(entries)
    <3>1. CASE plan.walk = Nowhere
      BY <1>4, <3>1 DEF Baseline, ProcessTyped, BeforeTop, Working
    <3>2. CASE plan.walk # Nowhere
      BY <1>4, <3>2, ConfigTyped DEF Baseline, Diverged, Names, FilesTyped, ProcessTyped, Plans, Positions
    <3> QED BY <3>1, <3>2
  <2>3. tries' \in Nat
    BY <1>4 DEF Baseline, HistoryTyped
  <2> QED BY <1>4, <2>1, <2>2, <2>3 DEF Baseline, Phases, FilesTyped, ProcessTyped, HistoryTyped, BeforeTop, Seeded, Working, vars, fileVars, procVars, histVars
<1>5. CASE BaselineStops \/ BoundaryStops \/ SequenceFails \/ SessionStops
  <2>1. Forget /\ UNCHANGED <<entries, lines, open, saved, base, runs, kept, used, forgotten, lost>>
        /\ reason' \in Reasons
    BY <1>5 DEF BaselineStops, BoundaryStops, SequenceFails, SessionStops, Ends, Reasons, FilesTyped
  <2>2. lost' \in BOOLEAN /\ forgotten' \in Nat
    BY <2>1 DEF HistoryTyped
  <2> QED BY <2>1, <2>2, ForgottenTyped
<1>6. CASE RateLimited
  BY <1>6 DEF RateLimited, Phases, FilesTyped, ProcessTyped, HistoryTyped, BeforeTop, Seeded, Working, vars, fileVars, procVars, histVars
<1>7. CASE Stage
  BY <1>7 DEF Stage, Phases, FilesTyped, ProcessTyped, HistoryTyped, BeforeTop, Seeded, Working, vars, fileVars, procVars, histVars
<1>8. CASE NothingStaged
  BY <1>8 DEF NothingStaged, Phases, FilesTyped, ProcessTyped, HistoryTyped, BeforeTop, Seeded, Working, vars, fileVars, procVars, histVars
<1>9. ASSUME NEW holds \in BOOLEAN, Pick(holds) PROVE Shape'
  <2>1. NextStep(holds) \in Walks /\ NextStep(holds).idx \in 1 .. Len(entries)
    BY NextStepTyped
  <2>2. tries' \in Nat
    BY <1>9 DEF Pick, HistoryTyped
  <2> QED BY <1>9, <2>1, <2>2, Bounds DEF Pick, Phases, FilesTyped, ProcessTyped, HistoryTyped, BeforeTop, Seeded, Working, vars, fileVars, procVars, histVars
<1>10. ASSUME NEW now \in 0 .. Quality, NEW errored \in BOOLEAN, NEW worse \in BOOLEAN,
         NEW better \in BOOLEAN, Gate(now, errored, worse, better)
    PROVE Shape'
  <2> DEFINE fate == Fate(worse \/ errored \/ Regressed(gate.ref, now),
                         better \/ (~errored /\ Improved(gate.ref, now)))
             next == IF errored /\ fate = "base" THEN gate ELSE Recorded(fate, now)
  <2>1. fate \in {"base", "rolled-back", "no-improvement"}
    BY FateTyped
  <2>2. gate \in References /\ gate.ref >= 0
    BY <1>10 DEF Gate, ProcessTyped, Seeded, Working
  <2>3. next \in References /\ next.ref >= 0
    BY <2>2, RecordedTyped
  <2>4. /\ landed' = fate /\ gate' = next /\ base' = (IF fate = "base" THEN now ELSE base)
        /\ kept' = (IF fate = "base"
                    THEN [cursor |-> cursor, gate |-> next, tries |-> tries + 1] ELSE kept)
        /\ pc = "session" /\ pc' = "finalize"
        /\ UNCHANGED <<entries, lines, open, saved, reason, cursor, session, ord, ending, plan,
                       runs, used, forgotten, tries, limited, lost>>
    BY <1>10 DEF Gate
  <2> HIDE DEF fate, next
  <2>5. FilesTyped'
    BY <2>4 DEF FilesTyped
  <2>6. HistoryTyped'
    BY <2>3, <2>4 DEF HistoryTyped, ProcessTyped
  <2>7. ProcessTyped'
    BY <2>1, <2>3, <2>4 DEF ProcessTyped, Phases
  <2>8. BeforeTop' /\ Seeded'
    BY <2>3, <2>4 DEF BeforeTop, Seeded, Working
  <2> QED BY <2>5, <2>6, <2>7, <2>8
<1>11. ASSUME NEW why \in {"none", "goals-met", "stopped", "abort"}, Finalize(why) PROVE Shape'
  <2>1. reason' \in Reasons
    BY <1>11 DEF Finalize, FilesTyped, Reasons
  <2> QED BY <1>11, <2>1 DEF Finalize, Phases, FilesTyped, ProcessTyped, HistoryTyped, BeforeTop, Seeded, Working, vars, fileVars, procVars, histVars
<1>12. CASE RecordStep
  <2>1. StepRow \in Rows /\ (StepRow.kind = "gate" => StepRow.gate.ref >= 0)
    BY <1>12, RowsTyped DEF RecordStep, StepRow, Seeded, Working
  <2>2. /\ lines' \in Seq(Rows) /\ lines' # <<>>
        /\ \A i \in DOMAIN lines' : lines'[i].kind = "gate" => lines'[i].gate.ref >= 0
    <3>1. lines' = Appended(StepRow)
      BY <1>12 DEF RecordStep
    <3> HIDE DEF Shape
    <3> QED BY <2>1, <3>1, AppendTyped
  <2>3. pc' \in Phases \ {"off", "boot", "baseline", "top", "session"} /\ open' = FALSE
    BY <1>12 DEF RecordStep, Phases
  <2>4. FilesTyped'
    BY <1>12, <2>2, <2>3 DEF RecordStep, FilesTyped
  <2>5. ProcessTyped' /\ HistoryTyped' /\ BeforeTop' /\ Seeded'
    BY <1>12, <2>2, <2>3 DEF RecordStep, ProcessTyped, HistoryTyped, BeforeTop, Seeded, Working, vars, fileVars, procVars, histVars
  <2> QED BY <2>4, <2>5
<1>13. CASE RecordGate
  <2>1. GateRow \in Rows /\ (GateRow.kind = "gate" => GateRow.gate.ref >= 0)
    BY <1>13, RowsTyped DEF RecordGate, GateRow, Seeded, Working
  <2>2. /\ lines' \in Seq(Rows) /\ lines' # <<>>
        /\ \A i \in DOMAIN lines' : lines'[i].kind = "gate" => lines'[i].gate.ref >= 0
    <3>1. lines' = Appended(GateRow)
      BY <1>13 DEF RecordGate
    <3> HIDE DEF Shape
    <3> QED BY <2>1, <3>1, AppendTyped
  <2>3. pc' \in Phases \ {"off", "boot", "baseline", "top", "session"} /\ open' = FALSE
    BY <1>13 DEF RecordGate, Phases
  <2>4. FilesTyped'
    BY <1>13, <2>2, <2>3 DEF RecordGate, FilesTyped
  <2>5. ProcessTyped' /\ HistoryTyped' /\ BeforeTop' /\ Seeded'
    BY <1>13, <2>2, <2>3 DEF RecordGate, ProcessTyped, HistoryTyped, BeforeTop, Seeded, Working, vars, fileVars, procVars, histVars
  <2> QED BY <2>4, <2>5
<1>14. CASE EndSession
  <2>1. CASE ending = "none"
    BY <1>14, <2>1 DEF EndSession, Phases, FilesTyped, ProcessTyped, HistoryTyped, BeforeTop, Seeded, Working, vars, fileVars, procVars, histVars
  <2>2. CASE ending # "none"
    <3>1. Forget /\ UNCHANGED <<entries, lines, open, saved, base, runs, kept, used, forgotten, lost>>
          /\ reason' \in Reasons
      BY <1>14, <2>2 DEF EndSession, Ends, Reasons, ProcessTyped
    <3>2. lost' \in BOOLEAN /\ forgotten' \in Nat
      BY <3>1 DEF HistoryTyped
    <3> QED BY <3>1, <3>2, ForgottenTyped
  <2> QED BY <2>1, <2>2
<1>15. CASE Crash
  <2>1. lost' \in BOOLEAN
    BY <1>15 DEF Crash, Unrecorded, HistoryTyped
  <2>2. plan.session \in Nat
    BY Bounds DEF ProcessTyped, Plans
  <2>3. forgotten' \in Nat
    BY <1>15, <2>2 DEF Crash, HistoryTyped
  <2> QED BY <1>15, <2>1, <2>3, ForgottenTyped DEF Crash, FilesTyped, fileVars
<1>16. CASE CrashAppending
  <2>1. PICK row \in {Garbage, StepRow, GateRow} :
            lines' = Appended(row)
    <3>1. lines' \in {Appended(Garbage), Appended(IF pc = "record" THEN StepRow ELSE GateRow)}
      BY <1>16 DEF CrashAppending
    <3> QED BY <3>1
  <2>2. gate.ref >= 0
    BY <1>16 DEF CrashAppending, Seeded, Working
  <2>3. row \in Rows
    BY <2>1, RowsTyped
  <2>4. row.kind = "gate" => row.gate.ref >= 0
    BY <2>1, <2>2 DEF StepRow, GateRow, Garbage
  <2>5. /\ lines' \in Seq(Rows) /\ lines' # <<>>
        /\ \A i \in DOMAIN lines' : lines'[i].kind = "gate" => lines'[i].gate.ref >= 0
    <3> HIDE DEF Shape
    <3> QED BY <2>1, <2>3, <2>4, AppendTyped
  <2>6. lost' \in BOOLEAN
    BY <1>16 DEF CrashAppending, Unrecorded, HistoryTyped
  <2>7. /\ open' = TRUE /\ Forget
        /\ UNCHANGED <<entries, saved, reason, base, runs, kept, used, forgotten>>
    BY <1>16 DEF CrashAppending
  <2>9. forgotten' \in Nat
    BY <2>7 DEF HistoryTyped
  <2>8. FilesTyped'
    BY <2>5, <2>7 DEF FilesTyped
  <2> QED BY <2>5, <2>6, <2>7, <2>8, <2>9, ForgetTyped
<1>17. CASE UNCHANGED vars
  BY <1>17 DEF FilesTyped, ProcessTyped, HistoryTyped, BeforeTop, Seeded, Working, vars, fileVars, procVars, histVars
<1> QED BY <1>1, <1>2, <1>3, <1>4, <1>5, <1>6, <1>7, <1>8, <1>9, <1>10, <1>11, <1>12, <1>13, <1>14, <1>15, <1>16, <1>17 DEF Next

\* Every variable has the type the code gives it, whatever the process died of.
THEOREM Shapely == Spec => []Shape
<1> QED BY ShapeInit, ShapeNext, PTL DEF Spec

------------------------------------------------------------------------------
(* Counting.                                                                 *)

\* Before the first start no session is counted or recorded.
LEMMA CountedInit == Init => Counted
BY Bounds DEF Init, Counted, NoPlan

\* A session is counted when it is dispatched, and what a resume goes on from is
\* what was on disk: a process that dies in boot forgets what its plan had read.
LEMMA CountedNext == Shape /\ Counted /\ [Next]_vars => Counted'
<1> SUFFICES ASSUME Shape, Counted, [Next]_vars PROVE Counted'
  OBVIOUS
<1>0. /\ session \in Nat /\ saved \in Nat /\ plan.session \in Nat /\ used \in Nat
      /\ forgotten \in Nat /\ MaxSessions \in Nat
  BY Bounds DEF Shape, FilesTyped, ProcessTyped, HistoryTyped, Plans
<1> USE <1>0 DEF Counted
<1>1. CASE StartFresh
  <2>1. session = 0 /\ session' = session /\ saved' = 0 /\ plan' = NoPlan
        /\ used' = 0 /\ forgotten' = 0 /\ pc' = "baseline"
    BY <1>1 DEF StartFresh, Begin, Shape, BeforeTop
  <2> QED BY <2>1 DEF NoPlan
<1>2. CASE StartResume
  <2>1. plan'.session = saved /\ pc = "off" /\ pc' = "boot" /\ saved' = 0
        /\ UNCHANGED <<session, used, forgotten>>
    BY <1>2, PlanRows DEF StartResume, Begin
  <2> QED BY <2>1
<1>3. CASE RestoreCounters
  BY <1>3 DEF RestoreCounters, fileVars, procVars, histVars
<1>4. CASE Baseline
  BY <1>4 DEF Baseline, fileVars, procVars, histVars
<1>5. CASE BaselineStops \/ BoundaryStops \/ SequenceFails \/ SessionStops
  <2>1. Forget /\ UNCHANGED <<saved, used, forgotten>> /\ pc \notin {"off", "boot"}
    BY <1>5 DEF BaselineStops, BoundaryStops, SequenceFails, SessionStops, Ends
  <2> QED BY <2>1 DEF Forget, NoPlan
<1>6. CASE RateLimited
  BY <1>6 DEF RateLimited, fileVars, procVars, histVars
<1>7. CASE Stage
  BY <1>7 DEF Stage, fileVars, procVars, histVars
<1>8. CASE NothingStaged
  BY <1>8 DEF NothingStaged, fileVars, procVars, histVars
<1>9. ASSUME NEW holds \in BOOLEAN, Pick(holds) PROVE Counted'
  BY <1>9 DEF Pick
<1>10. ASSUME NEW now \in 0 .. Quality, NEW errored \in BOOLEAN, NEW worse \in BOOLEAN,
         NEW better \in BOOLEAN, Gate(now, errored, worse, better)
    PROVE Counted'
  BY <1>10 DEF Gate
<1>11. ASSUME NEW why \in {"none", "goals-met", "stopped", "abort"}, Finalize(why) PROVE Counted'
  BY <1>11 DEF Finalize, fileVars, procVars, histVars
<1>12. CASE RecordStep
  BY <1>12 DEF RecordStep, fileVars, procVars, histVars
<1>13. CASE RecordGate
  BY <1>13 DEF RecordGate, fileVars, procVars, histVars
<1>14. CASE EndSession
  BY <1>14 DEF EndSession, Ends, Forget, NoPlan, fileVars, procVars, histVars
<1>15. CASE Crash
  <2>1. /\ pc' = "off" /\ session' = 0 /\ plan' = NoPlan /\ UNCHANGED <<saved, used>>
        /\ forgotten' = IF pc = "boot" THEN forgotten + plan.session ELSE forgotten
    BY <1>15 DEF Crash, Forget, fileVars
  <2>2. CASE pc = "boot" BY <2>1, <2>2 DEF NoPlan
  <2>3. CASE pc \notin {"off", "boot"} BY <2>1, <2>3 DEF NoPlan
  <2> QED BY <1>15, <2>2, <2>3 DEF Crash
<1>16. CASE CrashAppending
  BY <1>16 DEF CrashAppending, Forget, NoPlan
<1>17. CASE UNCHANGED vars
  BY <1>17 DEF vars, fileVars, procVars, histVars
<1> QED BY <1>1, <1>2, <1>3, <1>4, <1>5, <1>6, <1>7, <1>8, <1>9, <1>10, <1>11, <1>12, <1>13, <1>14, <1>15, <1>16, <1>17 DEF Next

\* limits.sessions bounds the sessions of a run over all its resumes, whatever died
\* in between, but for those that a death in boot took from the count.
THEOREM Ceiling == Spec => []CeilingHolds
<1>1. Shape /\ Counted => CeilingHolds
  BY Bounds DEF Shape, FilesTyped, ProcessTyped, HistoryTyped, Plans, Counted, CeilingHolds
<1> QED BY <1>1, ShapeInit, ShapeNext, CountedInit, CountedNext, PTL DEF Spec

\* Every variable has the type TypeOK gives it.
THEOREM Typed == Spec => []TypeOK
<1>1. ASSUME Shape PROVE TypeOK
  <2>1. \A i \in DOMAIN lines : lines[i] \in Rows
    BY <1>1 DEF Shape, FilesTyped
  <2>2. \A i \in DOMAIN lines : lines[i].gate \in Gates
    BY <2>1, RowFields DEF References, Gates
  <2>3. gate \in Gates /\ kept.gate \in Gates
    BY <1>1 DEF Shape, ProcessTyped, HistoryTyped, References, Gates
  <2>4. open \in BOOLEAN /\ lost \in BOOLEAN
    BY <1>1 DEF Shape, FilesTyped, HistoryTyped
  <2> QED BY <1>1, <2>2, <2>3, <2>4 DEF Shape, FilesTyped, ProcessTyped, HistoryTyped, TypeOK
<1> QED BY <1>1, ShapeInit, ShapeNext, PTL DEF Spec

------------------------------------------------------------------------------
(* Numbering.                                                                *)

\* Whatever is appended, a ledger that was refused still is, and behind a closed line
\* that does not parse every ledger is.
LEMMA AppendedReadable ==
  ASSUME Shape, NEW row \in Rows, Readable(Appended(row))
  PROVE  Readable(lines) /\ (~open => Closed)
<1> DEFINE file == Appended(row)
<1>1. /\ file \in Seq(Rows) /\ lines \in Seq(Rows) /\ Len(lines) \in Nat
      /\ \A i \in 1 .. Len(file) - 1 : file[i].kind # "garbage"
  <2>1. lines \in Seq(Rows) /\ open \in BOOLEAN /\ (open => lines # <<>>)
    BY DEF Shape, FilesTyped, BeforeTop
  <2>2. file \in Seq(Rows)
    BY <2>1, AppendedRows
  <2> HIDE DEF file
  <2>3. \A i \in 1 .. Len(file) - 1 : file[i].kind # "garbage"
    BY <2>2, ReadableRows DEF file
  <2> QED BY <2>1, <2>2, <2>3
<1>2. CASE ~open
  <2>1. Len(file) = Len(lines) + 1 /\ \A i \in 1 .. Len(lines) : file[i] = lines[i]
    BY <1>2, AppendedRows DEF Shape, FilesTyped, BeforeTop
  <2> HIDE DEF file
  <2>2. \A i \in 1 .. Len(lines) : lines[i].kind # "garbage"
    BY <1>1, <2>1
  <2>3. Readable(lines)
    BY <1>1, <2>2, ReadableRows
  <2>4. lines = <<>> \/ Len(lines) \in 1 .. Len(lines)
    BY <1>1
  <2> QED BY <1>2, <2>2, <2>3, <2>4 DEF Closed
<1>3. CASE open
  <2>1. Len(file) = Len(lines) /\ \A i \in 1 .. Len(lines) - 1 : file[i] = lines[i]
    BY <1>3, AppendedRows DEF Shape, FilesTyped, BeforeTop
  <2> HIDE DEF file
  <2>2. \A i \in 1 .. Len(lines) - 1 : lines[i].kind # "garbage"
    BY <1>1, <2>1
  <2> QED BY <1>1, <1>3, <2>2, ReadableRows
<1> QED BY <1>2, <1>3

\* A row appended with the next ordinal, or what is left of it, keeps a ledger numbered.
LEMMA NumberedAppend ==
  ASSUME Shape, Numbered, pc \notin {"off", "boot"},
         NEW row \in Rows, row.kind = "garbage" \/ row.ord = ord
  PROVE  /\ Dense(Appended(row))
         /\ Readable(Appended(row)) /\ Appended(row)[Len(Appended(row))].kind # "garbage"
                => Len(Appended(row)) = ord + 1
<1> DEFINE file == Appended(row)
<1> SUFFICES ASSUME Readable(file)
             PROVE  /\ \A i \in DOMAIN file : file[i].kind # "garbage" => file[i].ord = i - 1
                    /\ file[Len(file)].kind # "garbage" => Len(file) = ord + 1
  BY DEF Dense
<1>1. /\ file \in Seq(Rows) /\ lines \in Seq(Rows) /\ Len(lines) \in Nat
      /\ DOMAIN file = 1 .. Len(file) /\ DOMAIN lines = 1 .. Len(lines)
  BY AppendedRows DEF Shape, FilesTyped, BeforeTop
<1>2. \A i \in 1 .. Len(lines) : lines[i].kind # "garbage" => lines[i].ord = i - 1
  BY <1>1, AppendedReadable DEF Numbered, Dense
<1>3. CASE ~open
  <2>1. /\ Len(file) = Len(lines) + 1 /\ \A i \in 1 .. Len(lines) : file[i] = lines[i]
        /\ file[Len(lines) + 1] = row
    BY <1>3, AppendedRows DEF Shape, FilesTyped, BeforeTop
  <2>2. ord = Len(lines)
    BY <1>3, AppendedReadable DEF Numbered
  <2> HIDE DEF file
  <2> QED BY <1>1, <1>2, <2>1, <2>2
<1>4. CASE open
  <2>1. /\ Len(file) = Len(lines) /\ \A i \in 1 .. Len(lines) - 1 : file[i] = lines[i]
        /\ file[Len(lines)].kind = "garbage"
    BY <1>4, AppendedRows DEF Shape, FilesTyped, BeforeTop, Garbage
  <2> HIDE DEF file
  <2> QED BY <1>1, <1>2, <2>1
<1> QED BY <1>3, <1>4

\* Before the first start the ledger is empty, and so its numbers have no gap.
LEMMA NumberedInit == Init => Numbered
BY DEF Init, Numbered, Dense

\* Every step keeps the ledger numbered and the next ordinal the number of its rows.
LEMMA NumberedNext == Shape /\ Numbered /\ [Next]_vars => Numbered'
<1> SUFFICES ASSUME Shape, Numbered, [Next]_vars PROVE Numbered'
  OBVIOUS
<1>a. ASSUME UNCHANGED <<lines, open, ord, plan>>, pc = "boot" <=> pc' = "boot",
             pc \in {"off", "boot"} <=> pc' \in {"off", "boot"}
      PROVE  Numbered'
  BY <1>a DEF Numbered, Closed
<1>b. ASSUME Forget, lines' = lines PROVE Numbered'
  BY <1>b DEF Forget, Numbered
<1>1. CASE StartFresh
  <2>1. lines' = <<>> /\ ord' = 0 /\ pc' = "baseline"
    BY <1>1 DEF StartFresh, Begin, Shape, BeforeTop
  <2> QED BY <2>1 DEF Numbered, Dense
<1>2. CASE StartResume
  <2>1. Readable(lines) /\ pc' = "boot" /\ plan'.ord = Len(Replay)
    BY <1>2, PlanRows DEF StartResume, Resumable
  <2>2. /\ \A i \in DOMAIN lines' : i \in DOMAIN lines /\ lines'[i] = lines[i]
        /\ \/ lines' = lines /\ open' = open /\ Len(Replay) = Len(Parsed(lines))
           \/ lines' = Replay /\ open' = FALSE
    BY <1>2, ResumeKeepsPrefix
  <2>3. Dense(lines')
    BY <2>1, <2>2 DEF Numbered, Dense
  <2>4. CASE lines' = lines /\ open' = open /\ Len(Replay) = Len(Parsed(lines))
    <3>1. Closed => Len(Parsed(lines)) = Len(lines)
      BY ParsedRows DEF Closed, Shape, FilesTyped
    <3>2. Closed' => Closed
      BY <2>4 DEF Closed
    <3> QED BY <2>1, <2>3, <2>4, <3>1, <3>2 DEF Numbered
  <2>5. CASE lines' = Replay
    BY <2>1, <2>3, <2>5 DEF Numbered
  <2> QED BY <2>2, <2>3, <2>4, <2>5
<1>3. CASE RestoreCounters
  <2>1. UNCHANGED <<lines, open>> /\ ord' = plan.ord /\ pc = "boot" /\ pc' = "baseline"
    BY <1>3 DEF RestoreCounters
  <2> QED BY <2>1 DEF Numbered, Closed
<1>4. CASE Baseline
  BY <1>a, <1>4 DEF Baseline, fileVars, procVars, histVars
<1>5. CASE BaselineStops \/ BoundaryStops \/ SequenceFails \/ SessionStops
  BY <1>b, <1>5 DEF BaselineStops, BoundaryStops, SequenceFails, SessionStops, Ends
<1>6. CASE RateLimited
  BY <1>a, <1>6 DEF RateLimited, fileVars, procVars, histVars
<1>7. CASE Stage
  BY <1>a, <1>7 DEF Stage, fileVars, procVars, histVars
<1>8. CASE NothingStaged
  BY <1>a, <1>8 DEF NothingStaged, fileVars, procVars, histVars
<1>9. ASSUME NEW holds \in BOOLEAN, Pick(holds) PROVE Numbered'
  BY <1>a, <1>9 DEF Pick
<1>10. ASSUME NEW now \in 0 .. Quality, NEW errored \in BOOLEAN, NEW worse \in BOOLEAN,
         NEW better \in BOOLEAN, Gate(now, errored, worse, better)
    PROVE Numbered'
  BY <1>a, <1>10 DEF Gate
<1>11. ASSUME NEW why \in {"none", "goals-met", "stopped", "abort"}, Finalize(why) PROVE Numbered'
  BY <1>a, <1>11 DEF Finalize, fileVars, procVars, histVars
<1>12. CASE RecordStep
  <2>1. lines' = Appended(StepRow) /\ open' = FALSE /\ ord' = ord + 1
        /\ pc \notin {"off", "boot"} /\ pc' \notin {"off", "boot"}
    BY <1>12 DEF RecordStep
  <2>2. StepRow \in Rows /\ StepRow.ord = ord
    BY RowsTyped DEF StepRow
  <2>3. /\ Dense(lines')
        /\ Readable(lines') /\ lines'[Len(lines')].kind # "garbage" => Len(lines') = ord + 1
    BY <2>1, <2>2, NumberedAppend
  <2>4. lines' # <<>>
    BY <2>1, <2>2, AppendedRows DEF Shape, FilesTyped, BeforeTop
  <2> QED BY <2>1, <2>3, <2>4 DEF Numbered, Closed
<1>13. CASE RecordGate
  <2>1. lines' = Appended(GateRow) /\ open' = FALSE /\ ord' = ord + 1
        /\ pc \notin {"off", "boot"} /\ pc' \notin {"off", "boot"}
    BY <1>13 DEF RecordGate
  <2>2. GateRow \in Rows /\ GateRow.ord = ord
    BY RowsTyped DEF GateRow
  <2>3. /\ Dense(lines')
        /\ Readable(lines') /\ lines'[Len(lines')].kind # "garbage" => Len(lines') = ord + 1
    BY <2>1, <2>2, NumberedAppend
  <2>4. lines' # <<>>
    BY <2>1, <2>2, AppendedRows DEF Shape, FilesTyped, BeforeTop
  <2> QED BY <2>1, <2>3, <2>4 DEF Numbered, Closed
<1>14. CASE EndSession
  <2>1. CASE ending = "none"
    BY <1>a, <1>14, <2>1 DEF EndSession, fileVars, procVars, histVars
  <2>2. CASE ending # "none"
    BY <1>b, <1>14, <2>2 DEF EndSession, Ends
  <2> QED BY <2>1, <2>2
<1>15. CASE Crash
  BY <1>b, <1>15 DEF Crash, fileVars, procVars, histVars
<1>16. CASE CrashAppending
  <2>1. PICK row \in {Garbage, StepRow, GateRow} : lines' = Appended(row)
    <3>1. lines' \in {Appended(Garbage), Appended(IF pc = "record" THEN StepRow ELSE GateRow)}
      BY <1>16 DEF CrashAppending
    <3> QED BY <3>1
  <2>2. row \in Rows /\ (row.kind = "garbage" \/ row.ord = ord)
    <3>1. StepRow.ord = ord /\ GateRow.ord = ord /\ Garbage.kind = "garbage"
      BY DEF StepRow, GateRow, Garbage
    <3> QED BY <3>1, RowsTyped
  <2>3. pc \notin {"off", "boot"} /\ pc' = "off"
    BY <1>16 DEF CrashAppending, Forget
  <2>4. Dense(lines')
    BY <2>1, <2>2, <2>3, NumberedAppend
  <2> QED BY <2>3, <2>4 DEF Numbered
<1>17. CASE UNCHANGED vars
  BY <1>a, <1>17 DEF vars, fileVars, procVars, histVars
<1> QED BY <1>1, <1>2, <1>3, <1>4, <1>5, <1>6, <1>7, <1>8, <1>9, <1>10, <1>11, <1>12, <1>13, <1>14, <1>15, <1>16, <1>17 DEF Next

\* In a ledger a resume accepts, the rows are numbered 0, 1, 2, ... over any number of
\* crashes, torn lines and resumes.
THEOREM DenseOrdinals == Spec => []OrdinalsAreDense
<1>1. ASSUME Shape, Numbered PROVE OrdinalsAreDense
  <2> SUFFICES ASSUME Readable(lines), NEW i \in DOMAIN Parsed(lines)
               PROVE  Parsed(lines)[i].ord = i - 1
    BY DEF OrdinalsAreDense
  <2>1. lines \in Seq(Rows)
    BY <1>1 DEF Shape, FilesTyped
  <2>2. i \in 1 .. Len(Parsed(lines)) /\ Len(Parsed(lines)) <= Len(lines)
        /\ Len(Parsed(lines)) \in Nat
    BY <2>1, ParsedRows
  <2>3. i \in DOMAIN lines /\ Parsed(lines)[i] = lines[i]
    BY <2>1, <2>2, ParsedRows
  <2>4. lines[i].kind # "garbage"
    BY <2>3 DEF Readable
  <2> QED BY <1>1, <2>3, <2>4 DEF Numbered, Dense
<1> QED BY <1>1, ShapeInit, ShapeNext, NumberedInit, NumberedNext, PTL DEF Spec

------------------------------------------------------------------------------
(* What a resume goes on from.                                               *)

\* A gate row is appended behind the step row of its session, and no other row comes
\* between two that are there.
LEMMA PairedAppend ==
  ASSUME Shape, Paired, NEW row \in Rows, row.kind = "gate" => pc = "gate-row" /\ row.walk = Here
  PROVE  \A i \in DOMAIN Appended(row) : Appended(row)[i].kind = "gate" =>
             i > 1 /\ IsStepOf(Appended(row)[i - 1], Appended(row)[i].walk)
<1> DEFINE file == Appended(row)
<1>1. /\ lines \in Seq(Rows) /\ Len(lines) \in Nat /\ DOMAIN lines = 1 .. Len(lines)
      /\ file \in Seq(Rows) /\ DOMAIN file = 1 .. Len(file)
  BY AppendedRows DEF Shape, FilesTyped, BeforeTop
<1>2. CASE open
  <2>1. /\ Len(file) = Len(lines) /\ \A i \in 1 .. Len(lines) - 1 : file[i] = lines[i]
        /\ file[Len(lines)].kind = "garbage"
    BY <1>2, AppendedRows DEF Shape, FilesTyped, BeforeTop, Garbage
  <2> HIDE DEF file
  <2>2. ASSUME NEW i \in DOMAIN file, file[i].kind = "gate"
        PROVE  i > 1 /\ IsStepOf(file[i - 1], file[i].walk)
    <3>1. i \in 1 .. Len(lines) - 1 /\ file[i] = lines[i]
      BY <1>1, <2>1, <2>2
    <3>2. i > 1 /\ IsStepOf(lines[i - 1], lines[i].walk)
      BY <1>1, <2>2, <3>1 DEF Paired
    <3> QED BY <1>1, <2>1, <3>1, <3>2
  <2> QED BY <2>2 DEF file
<1>3. CASE ~open
  <2>1. /\ Len(file) = Len(lines) + 1 /\ \A i \in 1 .. Len(lines) : file[i] = lines[i]
        /\ file[Len(lines) + 1] = row
    BY <1>3, AppendedRows DEF Shape, FilesTyped, BeforeTop
  <2> HIDE DEF file
  <2>2. ASSUME NEW i \in DOMAIN file, file[i].kind = "gate"
        PROVE  i > 1 /\ IsStepOf(file[i - 1], file[i].walk)
    <3>1. CASE i <= Len(lines)
      <4>1. i > 1 /\ IsStepOf(lines[i - 1], lines[i].walk) /\ file[i] = lines[i]
        BY <1>1, <2>1, <2>2, <3>1 DEF Paired
      <4> QED BY <1>1, <2>1, <4>1
    <3>2. CASE i = Len(lines) + 1
      <4>1. row.walk = Here /\ lines # <<>> /\ IsStepOf(lines[Len(lines)], Here)
        BY <2>1, <2>2, <3>2 DEF Paired
      <4> QED BY <1>1, <2>1, <3>2, <4>1
    <3> QED BY <1>1, <2>1, <3>1, <3>2
  <2> QED BY <2>2 DEF file
<1> QED BY <1>2, <1>3 DEF Shape, FilesTyped

\* The last line of an appended file is the row, or spoilt.
LEMMA AppendedLast ==
  ASSUME Shape, NEW row \in Rows
  PROVE  /\ Appended(row) # <<>>
         /\ Appended(row)[Len(Appended(row))] = IF open THEN Garbage ELSE row
<1>1. CASE open
  BY <1>1, AppendedRows DEF Shape, FilesTyped, BeforeTop
<1>2. CASE ~open
  BY <1>2, AppendedRows DEF Shape, FilesTyped, BeforeTop
<1> QED BY <1>1, <1>2

\* Every step keeps a gate row behind its step row.
LEMMA PairedNext == Shape /\ Paired /\ [Next]_vars => Paired'
<1> SUFFICES ASSUME Shape, Paired, [Next]_vars PROVE Paired'
  OBVIOUS
<1>a. ASSUME lines' = lines, pc' # "gate-row" PROVE Paired'
  BY <1>a DEF Paired, IsStepOf
<1>b. lines \in Seq(Rows) /\ Len(lines) \in Nat /\ DOMAIN lines = 1 .. Len(lines)
  BY DEF Shape, FilesTyped
<1>1. CASE StartFresh
  BY <1>1 DEF StartFresh, Paired, IsStepOf
<1>2. CASE StartResume
  <2>1. /\ lines' \in Seq(Rows) /\ \A i \in DOMAIN lines' : i \in DOMAIN lines /\ lines'[i] = lines[i]
        /\ pc' = "boot"
    BY <1>2, ResumeKeepsPrefix DEF StartResume
  <2>2. ASSUME NEW i \in DOMAIN lines', lines'[i].kind = "gate"
        PROVE  i > 1 /\ IsStepOf(lines'[i - 1], lines'[i].walk)
    <3>1. i > 1 /\ IsStepOf(lines[i - 1], lines[i].walk)
      BY <2>1, <2>2 DEF Paired
    <3>2. i - 1 \in DOMAIN lines'
      BY <2>1, <3>1
    <3> QED BY <2>1, <3>1, <3>2
  <2> QED BY <2>1, <2>2 DEF Paired, IsStepOf
<1>3. CASE RestoreCounters
  BY <1>a, <1>3 DEF RestoreCounters, fileVars, procVars, histVars
<1>4. CASE Baseline
  BY <1>a, <1>4 DEF Baseline, fileVars, procVars, histVars
<1>5. CASE BaselineStops \/ BoundaryStops \/ SequenceFails \/ SessionStops
  BY <1>a, <1>5 DEF BaselineStops, BoundaryStops, SequenceFails, SessionStops, Ends, Forget
<1>6. CASE RateLimited
  BY <1>a, <1>6 DEF RateLimited, fileVars, procVars, histVars
<1>7. CASE Stage
  BY <1>a, <1>7 DEF Stage, fileVars, procVars, histVars
<1>8. CASE NothingStaged
  BY <1>a, <1>8 DEF NothingStaged, fileVars, procVars, histVars
<1>9. ASSUME NEW holds \in BOOLEAN, Pick(holds) PROVE Paired'
  BY <1>a, <1>9 DEF Pick
<1>10. ASSUME NEW now \in 0 .. Quality, NEW errored \in BOOLEAN, NEW worse \in BOOLEAN,
         NEW better \in BOOLEAN, Gate(now, errored, worse, better)
    PROVE Paired'
  BY <1>a, <1>10 DEF Gate
<1>11. ASSUME NEW why \in {"none", "goals-met", "stopped", "abort"}, Finalize(why) PROVE Paired'
  BY <1>a, <1>11 DEF Finalize, fileVars, procVars, histVars
<1>12. CASE RecordStep
  <2>1. lines' = Appended(StepRow) /\ open' = FALSE /\ UNCHANGED <<entries, cursor>>
    BY <1>12 DEF RecordStep
  <2>2. StepRow \in Rows /\ StepRow.kind = "step" /\ StepRow.walk = Here
        /\ Garbage.kind = "garbage"
    BY RowsTyped DEF StepRow, Garbage
  <2>3. lines' # <<>> /\ IsStepOf(lines'[Len(lines')], Here)
    BY <2>1, <2>2, AppendedLast DEF IsStepOf
  <2>4. Here' = Here
    BY <2>1 DEF Here
  <2>5. \A i \in DOMAIN lines' :
            lines'[i].kind = "gate" => i > 1 /\ IsStepOf(lines'[i - 1], lines'[i].walk)
    BY <2>1, <2>2, PairedAppend
  <2> QED BY <2>1, <2>3, <2>4, <2>5 DEF Paired, IsStepOf
<1>13. CASE RecordGate
  <2>1. lines' = Appended(GateRow) /\ pc = "gate-row" /\ pc' = "ended"
    BY <1>13 DEF RecordGate
  <2>2. GateRow \in Rows /\ GateRow.walk = Here
    BY RowsTyped DEF GateRow
  <2>3. \A i \in DOMAIN lines' :
            lines'[i].kind = "gate" => i > 1 /\ IsStepOf(lines'[i - 1], lines'[i].walk)
    BY <2>1, <2>2, PairedAppend
  <2> QED BY <2>1, <2>3 DEF Paired, IsStepOf
<1>14. CASE EndSession
  BY <1>a, <1>14 DEF EndSession, Ends, Forget, fileVars, procVars, histVars
<1>15. CASE Crash
  BY <1>a, <1>15 DEF Crash, Forget, fileVars, procVars, histVars
<1>16. CASE CrashAppending
  <2>1. /\ lines' \in {Appended(Garbage), Appended(IF pc = "record" THEN StepRow ELSE GateRow)}
        /\ pc \in {"record", "gate-row"} /\ pc' = "off"
    BY <1>16 DEF CrashAppending, Forget
  <2>2. PICK row \in {Garbage, StepRow, GateRow} :
            lines' = Appended(row) /\ ((row = GateRow /\ pc = "gate-row") \/ row \in {Garbage, StepRow})
    BY <2>1
  <2>3. Garbage.kind = "garbage" /\ StepRow.kind = "step" /\ GateRow.walk = Here
    BY DEF Garbage, StepRow, GateRow
  <2>4. row \in Rows /\ (row.kind = "gate" => pc = "gate-row" /\ row.walk = Here)
    BY <2>2, <2>3, RowsTyped
  <2>5. \A i \in DOMAIN lines' :
            lines'[i].kind = "gate" => i > 1 /\ IsStepOf(lines'[i - 1], lines'[i].walk)
    BY <2>2, <2>4, PairedAppend
  <2> QED BY <2>1, <2>5 DEF Paired, IsStepOf
<1>17. CASE UNCHANGED vars
  BY <1>b, <1>17 DEF Paired, IsStepOf, Here, vars, fileVars, procVars, histVars
<1> QED BY <1>1, <1>2, <1>3, <1>4, <1>5, <1>6, <1>7, <1>8, <1>9, <1>10, <1>11, <1>12, <1>13, <1>14, <1>15, <1>16, <1>17 DEF Next

\* A row that is no kept gate leaves the last merge where it is.
LEMMA AgreesAppend ==
  ASSUME Shape, AgreesWith(lines), NEW row \in Rows, ~KeptRow(row),
         open => ~KeptRow(lines[Len(lines)])
  PROVE  AgreesWith(Appended(row))
<1> DEFINE file == Appended(row)
<1>1. /\ lines \in Seq(Rows) /\ Len(lines) \in Nat /\ DOMAIN lines = 1 .. Len(lines)
      /\ file \in Seq(Rows) /\ DOMAIN file = 1 .. Len(file)
  BY AppendedRows DEF Shape, FilesTyped, BeforeTop
<1>2. ~KeptRow(Garbage)
  BY DEF KeptRow, Garbage
<1>3. \A i \in DOMAIN file : KeptRow(file[i]) => i \in DOMAIN lines /\ file[i] = lines[i]
  BY <1>2, AppendedFrom
<1>4. \A i \in DOMAIN lines : KeptRow(lines[i]) => i \in DOMAIN file /\ file[i] = lines[i]
  <2>1. CASE ~open
    <3>1. Len(file) = Len(lines) + 1 /\ \A i \in 1 .. Len(lines) : file[i] = lines[i]
      BY <2>1, AppendedRows DEF Shape, FilesTyped, BeforeTop
    <3> HIDE DEF file
    <3> QED BY <1>1, <3>1
  <2>2. CASE open
    <3>1. Len(file) = Len(lines) /\ \A i \in 1 .. Len(lines) - 1 : file[i] = lines[i]
      BY <2>2, AppendedRows DEF Shape, FilesTyped, BeforeTop
    <3>2. ~KeptRow(lines[Len(lines)])
      BY <2>2
    <3> HIDE DEF file
    <3> QED BY <1>1, <3>1, <3>2
  <2> QED BY <2>1, <2>2
<1> HIDE DEF file
<1>5. CASE kept = NothingKept
  BY <1>3, <1>5 DEF AgreesWith, file
<1>6. CASE kept # NothingKept
  <2>1. PICK i \in DOMAIN lines : LastKept(lines, i) /\ IsTheKept(lines[i])
    BY <1>6 DEF AgreesWith
  <2>2. i \in DOMAIN file /\ file[i] = lines[i] /\ LastKept(file, i)
    BY <1>3, <1>4, <2>1 DEF LastKept
  <2> QED BY <1>6, <2>1, <2>2 DEF AgreesWith, file
<1> QED BY <1>5, <1>6

\* truncate_to_base leaves the last merge where it is, and ends the file with its row.
LEMMA AgreesReplay ==
  ASSUME Shape, AgreesWith(lines)
  PROVE  /\ AgreesWith(Replay)
         /\ kept = NothingKept => Len(Replay) = 0
         /\ kept # NothingKept =>
              Len(Replay) > 0 /\ Len(Replay) \in DOMAIN lines /\ IsTheKept(lines[Len(Replay)])
<1> DEFINE file == Replay
           m == Len(Replay)
<1>1. /\ file \in Seq(Rows) /\ m \in Nat /\ DOMAIN file = 1 .. m /\ DOMAIN lines = 1 .. Len(lines)
      /\ m <= Len(lines) /\ Len(lines) \in Nat
      /\ \A i \in 1 .. m : file[i] = lines[i]
      /\ m > 0 => KeptRow(lines[m])
      /\ \A i \in DOMAIN lines : KeptRow(lines[i]) => i <= m
  <2>1. lines \in Seq(Rows) /\ Len(Parsed(lines)) <= Len(lines) /\ Len(Parsed(lines)) \in Nat
    BY ParsedRows DEF Shape, FilesTyped
  <2>2. /\ file \in Seq(Rows) /\ m <= Len(Parsed(lines)) /\ \A i \in 1 .. m : file[i] = lines[i]
        /\ m > 0 => KeptRow(lines[m])
        /\ \A i \in DOMAIN lines : KeptRow(lines[i]) => i <= m
    BY <2>1, ReplayRows
  <2> HIDE DEF file
  <2> QED BY <2>1, <2>2 DEF file
<1> HIDE DEF file, m
<1>2. CASE kept = NothingKept
  <2>1. m = 0
    BY <1>1, <1>2 DEF AgreesWith
  <2> QED BY <1>1, <1>2, <2>1 DEF AgreesWith, file, m
<1>3. CASE kept # NothingKept
  <2>1. PICK i \in DOMAIN lines : LastKept(lines, i) /\ IsTheKept(lines[i])
    BY <1>3 DEF AgreesWith
  <2>2. i = m /\ m > 0 /\ m \in DOMAIN lines /\ m \in DOMAIN file
    BY <1>1, <2>1 DEF LastKept
  <2>3. LastKept(file, m)
    BY <1>1, <2>2 DEF LastKept
  <2>4. file[m] = lines[m]
    BY <1>1, <2>2
  <2>5. AgreesWith(file)
    BY <1>3, <2>1, <2>2, <2>3, <2>4 DEF AgreesWith
  <2> QED BY <1>3, <2>1, <2>2, <2>5 DEF file, m
<1> QED BY <1>2, <1>3

\* Before the first start base, gate.json and the ledger agree: no gate has kept.
LEMMA AgreedInit == Init => Agreed
<1> SUFFICES ASSUME Init PROVE Agreed
  OBVIOUS
<1>1. Paired /\ PlanAgrees /\ KeptIsReal
  BY DEF Init, Paired, PlanAgrees, KeptIsReal
<1>2. LedgerAgrees
  BY DEF Init, LedgerAgrees, AgreesWith
<1> QED BY <1>1, <1>2 DEF Agreed

\* Unless a merge is between its gate and its row, the ledger says what was merged last.
LEMMA LedgerNext ==
  Shape /\ Agreed /\ [Next]_vars => LedgerAgrees'
<1> SUFFICES ASSUME Shape, Agreed, [Next]_vars, Readable(lines'), ~lost', ~Unrecorded'
             PROVE  AgreesWith(lines)'
  BY DEF LedgerAgrees
<1>a. ASSUME UNCHANGED <<lines, kept>>, ~lost, ~Unrecorded PROVE AgreesWith(lines)'
  <2>1. AgreesWith(lines)
    BY <1>a DEF Agreed, LedgerAgrees
  <2> QED BY <1>a, <2>1 DEF AgreesWith, LastKept, IsTheKept
<1>b. ASSUME NEW row \in Rows, lines' = Appended(row), kept' = kept, ~KeptRow(row), ~lost,
             ~Unrecorded
      PROVE  AgreesWith(lines)'
  <2>1. Readable(lines)
    BY <1>b, AppendedReadable
  <2>2. AgreesWith(lines) /\ (open => ~KeptRow(lines[Len(lines)]))
    BY <1>b, <2>1 DEF Agreed, LedgerAgrees, KeptIsReal
  <2>3. AgreesWith(Appended(row))
    BY <1>b, <2>2, AgreesAppend
  <2> QED BY <1>b, <2>3 DEF AgreesWith, LastKept, IsTheKept
<1>1. CASE StartFresh
  <2>1. lines' = <<>> /\ kept' = NothingKept
    BY <1>1 DEF StartFresh
  <2> QED BY <2>1 DEF AgreesWith
<1>2. CASE StartResume
  <2>1. kept' = kept /\ ~lost /\ ~Unrecorded /\ Readable(lines)
    BY <1>2 DEF StartResume, Begin, Resumable, Unrecorded
  <2>2. AgreesWith(lines)
    BY <2>1 DEF Agreed, LedgerAgrees
  <2>3. lines' = lines \/ lines' = Replay
    BY <1>2, ResumeKeepsPrefix
  <2>4. AgreesWith(Replay)
    BY <2>2, AgreesReplay
  <2> QED BY <2>1, <2>2, <2>3, <2>4 DEF AgreesWith, LastKept, IsTheKept
<1>3. CASE RestoreCounters
  BY <1>a, <1>3 DEF RestoreCounters, Unrecorded, fileVars, procVars, histVars
<1>4. CASE Baseline
  BY <1>a, <1>4 DEF Baseline, Unrecorded, fileVars, procVars, histVars
<1>5. CASE BaselineStops \/ BoundaryStops \/ SequenceFails \/ SessionStops
  BY <1>a, <1>5 DEF BaselineStops, BoundaryStops, SequenceFails, SessionStops, Ends, Unrecorded
<1>6. CASE RateLimited
  BY <1>a, <1>6 DEF RateLimited, Unrecorded, fileVars, procVars, histVars
<1>7. CASE Stage
  BY <1>a, <1>7 DEF Stage, Unrecorded, fileVars, procVars, histVars
<1>8. CASE NothingStaged
  BY <1>a, <1>8 DEF NothingStaged, Unrecorded, fileVars, procVars, histVars
<1>9. ASSUME NEW holds \in BOOLEAN, Pick(holds) PROVE AgreesWith(lines)'
  BY <1>a, <1>9 DEF Pick, Unrecorded
<1>10. ASSUME NEW now \in 0 .. Quality, NEW errored \in BOOLEAN, NEW worse \in BOOLEAN,
         NEW better \in BOOLEAN, Gate(now, errored, worse, better)
    PROVE AgreesWith(lines)'
  <2>1. landed' # "base" => kept' = kept
    BY <1>10 DEF Gate
  <2>2. pc' = "finalize" /\ pc = "session" /\ UNCHANGED <<lines, lost>>
    BY <1>10 DEF Gate
  <2> QED BY <1>a, <2>1, <2>2 DEF Unrecorded
<1>11. ASSUME NEW why \in {"none", "goals-met", "stopped", "abort"}, Finalize(why) PROVE AgreesWith(lines)'
  BY <1>a, <1>11 DEF Finalize, Unrecorded, fileVars, procVars, histVars
<1>12. CASE RecordStep
  <2>1. lines' = Appended(StepRow) /\ UNCHANGED <<kept, lost>> /\ ~Unrecorded
    BY <1>12 DEF RecordStep, Unrecorded
  <2>2. StepRow \in Rows /\ ~KeptRow(StepRow)
    BY RowsTyped DEF StepRow, KeptRow
  <2> QED BY <1>b, <2>1, <2>2
<1>13. CASE RecordGate
  <2>1. lines' = Appended(GateRow) /\ UNCHANGED <<kept, lost, landed>> /\ pc = "gate-row" /\ ~open
    BY <1>13 DEF RecordGate, Agreed, Paired, histVars
  <2>2. CASE landed # "base"
    <3>1. GateRow \in Rows /\ ~KeptRow(GateRow)
      BY <2>2, RowsTyped DEF GateRow, KeptRow
    <3> QED BY <1>b, <2>1, <2>2, <3>1 DEF Unrecorded
  <2>3. CASE landed = "base"
    <3>1. /\ Len(lines') = Len(lines) + 1 /\ lines'[Len(lines) + 1] = GateRow
          /\ lines' \in Seq(Rows) /\ Len(lines) \in Nat
      BY <2>1, RowsTyped, AppendedRows DEF Shape, FilesTyped, BeforeTop
    <3>2. KeptRow(GateRow) /\ GateRow.gate = gate /\ GateRow.walk.at = cursor
      BY <2>3 DEF GateRow, KeptRow, Here
    <3>3. kept # NothingKept /\ kept.cursor = cursor /\ kept.gate = gate
      BY <2>3 DEF Agreed, KeptIsReal
    <3>4. Len(lines) + 1 \in DOMAIN lines' /\ LastKept(lines', Len(lines) + 1)
      BY <3>1, <3>2 DEF LastKept
    <3> QED BY <2>1, <3>1, <3>2, <3>3, <3>4 DEF AgreesWith, IsTheKept, LastKept
  <2> QED BY <2>2, <2>3
<1>14. CASE EndSession
  BY <1>a, <1>14 DEF EndSession, Ends, Unrecorded, fileVars, procVars, histVars
<1>15. CASE Crash
  BY <1>a, <1>15 DEF Crash, fileVars, procVars, histVars
<1>16. CASE CrashAppending
  <2>1. /\ lines' \in {Appended(Garbage), Appended(IF pc = "record" THEN StepRow ELSE GateRow)}
        /\ pc \in {"record", "gate-row"} /\ ~lost /\ ~Unrecorded /\ kept' = kept
    BY <1>16 DEF CrashAppending
  <2>2. PICK row \in {Garbage, StepRow, GateRow} : lines' = Appended(row)
    BY <2>1
  <2>3. row \in Rows
    BY <2>2, RowsTyped
  <2>4. landed # "base"
    BY <2>1 DEF Unrecorded
  <2>5. ~KeptRow(Garbage) /\ ~KeptRow(StepRow) /\ ~KeptRow(GateRow)
    BY <2>4 DEF KeptRow, Garbage, StepRow, GateRow
  <2> QED BY <1>b, <2>1, <2>2, <2>3, <2>5
<1>17. CASE UNCHANGED vars
  BY <1>a, <1>17 DEF vars, Unrecorded, fileVars, procVars, histVars
<1> QED BY <1>1, <1>2, <1>3, <1>4, <1>5, <1>6, <1>7, <1>8, <1>9, <1>10, <1>11, <1>12, <1>13, <1>14, <1>15, <1>16, <1>17 DEF Next

\* What a resume has read and not yet gone on from is the last merge.
LEMMA PlanNext ==
  Shape /\ Agreed /\ [Next]_vars => PlanAgrees'
<1> SUFFICES ASSUME Shape, Agreed, [Next]_vars, pc' \in {"boot", "baseline"}, ~lost'
             PROVE  IF kept' = NothingKept THEN plan'.walk = Nowhere /\ plan'.gate = NoGate
                    ELSE plan'.walk.at = kept'.cursor /\ plan'.gate = kept'.gate
  BY DEF PlanAgrees
<1>1. CASE StartFresh
  BY <1>1 DEF StartFresh, NoPlan
<1>2. CASE StartResume
  <2>1. /\ kept' = kept /\ ~lost /\ ~Unrecorded /\ Readable(lines) /\ Paired
        /\ plan' = PlanOf(Replay)
    BY <1>2 DEF StartResume, Begin, Resumable, Unrecorded, Agreed
  <2>2. AgreesWith(lines)
    BY <2>1 DEF Agreed, LedgerAgrees
  <2>3. CASE kept = NothingKept
    BY <2>1, <2>2, <2>3, AgreesReplay, PlanRows
  <2>4. CASE kept # NothingKept
    <3>1. Len(Replay) > 0 /\ IsTheKept(lines[Len(Replay)])
      BY <2>2, <2>4, AgreesReplay
    <3>2. plan'.gate = lines[Len(Replay)].gate /\ plan'.walk = lines[Len(Replay)].walk
      BY <2>1, <3>1, PlanRows
    <3> QED BY <2>1, <2>4, <3>1, <3>2 DEF IsTheKept
  <2> QED BY <2>3, <2>4
<1>3. CASE UNCHANGED <<plan, kept, lost>> /\ pc \in {"boot", "baseline"}
  BY <1>3 DEF Agreed, PlanAgrees
<1>4. \/ StartFresh \/ StartResume
      \/ UNCHANGED <<plan, kept, lost>> /\ pc \in {"boot", "baseline"}
  <2>1. CASE RestoreCounters
    BY <2>1 DEF RestoreCounters, histVars
  <2>2. CASE UNCHANGED vars
    BY <2>2 DEF vars, procVars, histVars
  <2>3. ASSUME Baseline \/ BaselineStops \/ BoundaryStops \/ SequenceFails \/ RateLimited
               \/ SessionStops \/ Stage \/ NothingStaged \/ RecordStep \/ RecordGate
               \/ EndSession \/ Crash \/ CrashAppending
        PROVE  FALSE
    BY <2>3 DEF Baseline, BaselineStops, BoundaryStops, SequenceFails, RateLimited, SessionStops,
           Stage, NothingStaged, RecordStep, RecordGate, EndSession, Ends, Forget, Crash,
           CrashAppending
  <2>4. ASSUME NEW holds \in BOOLEAN, Pick(holds) PROVE FALSE
    BY <2>4 DEF Pick
  <2>5. ASSUME NEW now \in 0 .. Quality, NEW errored \in BOOLEAN, NEW worse \in BOOLEAN,
               NEW better \in BOOLEAN, Gate(now, errored, worse, better)
        PROVE  FALSE
    BY <2>5 DEF Gate
  <2>6. ASSUME NEW why \in {"none", "goals-met", "stopped", "abort"}, Finalize(why) PROVE FALSE
    BY <2>6 DEF Finalize
  <2>7. \/ StartFresh \/ StartResume \/ RestoreCounters \/ UNCHANGED vars
    BY <2>3, <2>4, <2>5, <2>6 DEF Next
  <2> QED BY <2>1, <2>2, <2>7
<1> QED BY <1>1, <1>2, <1>3, <1>4

\* What is kept is a merge of this run, and a line an append will spoil is none.
LEMMA KeptNext ==
  Shape /\ Agreed /\ [Next]_vars => KeptIsReal'
<1> SUFFICES ASSUME Shape, KeptIsReal, LedgerAgrees, [Next]_vars PROVE KeptIsReal'
  BY DEF Agreed
<1>a. ASSUME UNCHANGED <<kept, lines, open>>, lost => lost', UNCHANGED <<landed, cursor, gate>>
             \/ landed' # "base"
      PROVE  KeptIsReal'
  BY <1>a DEF KeptIsReal
<1>1. CASE StartFresh
  <2>1. kept' = NothingKept /\ open' = FALSE /\ landed' = "none"
    BY <1>1 DEF StartFresh, Begin, Shape, BeforeTop
  <2> QED BY <2>1 DEF KeptIsReal
<1>2. CASE StartResume
  <2>1. UNCHANGED <<kept, lost, landed, cursor, gate>>
    BY <1>2 DEF StartResume, Begin
  <2>2. (lines' = lines /\ open' = open) \/ open' = FALSE
    BY <1>2, ResumeKeepsPrefix
  <2> QED BY <2>1, <2>2 DEF KeptIsReal
<1>3. CASE RestoreCounters
  BY <1>a, <1>3 DEF RestoreCounters, fileVars, procVars, histVars
<1>4. CASE Baseline
  <2>1. landed' = "none" /\ UNCHANGED <<kept, lines, open, lost>>
    BY <1>4 DEF Baseline, Shape, BeforeTop, fileVars, procVars, histVars
  <2> QED BY <1>a, <2>1
<1>5. CASE BaselineStops \/ BoundaryStops \/ SequenceFails \/ SessionStops
  BY <1>a, <1>5 DEF BaselineStops, BoundaryStops, SequenceFails, SessionStops, Ends, Forget
<1>6. CASE RateLimited
  BY <1>a, <1>6 DEF RateLimited, fileVars, procVars, histVars
<1>7. CASE Stage
  BY <1>a, <1>7 DEF Stage, fileVars, procVars, histVars
<1>8. CASE NothingStaged
  BY <1>a, <1>8 DEF NothingStaged, fileVars, procVars, histVars
<1>9. ASSUME NEW holds \in BOOLEAN, Pick(holds) PROVE KeptIsReal'
  <2>1. landed' = "none" /\ UNCHANGED <<kept, lines, open, lost>>
    BY <1>9 DEF Pick, Shape, BeforeTop
  <2> QED BY <1>a, <2>1
<1>10. ASSUME NEW now \in 0 .. Quality, NEW errored \in BOOLEAN, NEW worse \in BOOLEAN,
         NEW better \in BOOLEAN, Gate(now, errored, worse, better)
    PROVE KeptIsReal'
  <2>1. UNCHANGED <<lines, open, lost, cursor>> /\ gate'.ref >= 0
    BY <1>10, ShapeNext DEF Gate, Shape, Seeded, Working
  <2>2. CASE landed' # "base"
    <3>1. kept' = kept
      BY <1>10, <2>2 DEF Gate
    <3> QED BY <1>a, <2>1, <2>2, <3>1
  <2>3. CASE landed' = "base"
    <3>1. kept' = [cursor |-> cursor, gate |-> gate', tries |-> tries + 1]
      BY <1>10, <2>3 DEF Gate
    <3>2. kept'.tries # 0 /\ NothingKept.tries = 0 /\ cursor.idx >= 1
      BY <3>1, ConfigTyped DEF NothingKept, Shape, FilesTyped, ProcessTyped, HistoryTyped
    <3>3. kept'.cursor = cursor /\ kept'.gate = gate' /\ kept' # NothingKept
      BY <3>1, <3>2
    <3> QED BY <2>1, <3>2, <3>3 DEF KeptIsReal
  <2> QED BY <2>2, <2>3
<1>11. ASSUME NEW why \in {"none", "goals-met", "stopped", "abort"}, Finalize(why) PROVE KeptIsReal'
  BY <1>a, <1>11 DEF Finalize, fileVars, procVars, histVars
<1>12. CASE RecordStep
  <2>1. open' = FALSE /\ UNCHANGED <<kept, lost, landed, cursor, gate>>
    BY <1>12 DEF RecordStep, fileVars, procVars, histVars
  <2> QED BY <2>1 DEF KeptIsReal
<1>13. CASE RecordGate
  <2>1. open' = FALSE /\ UNCHANGED <<kept, lost, landed, cursor, gate>>
    BY <1>13 DEF RecordGate, fileVars, procVars, histVars
  <2> QED BY <2>1 DEF KeptIsReal
<1>14. CASE EndSession
  BY <1>a, <1>14 DEF EndSession, Ends, Forget, fileVars, procVars, histVars
<1>15. CASE Crash
  <2>1. lost => lost'
    BY <1>15 DEF Crash
  <2> QED BY <1>a, <1>15, <2>1 DEF Crash, Forget, fileVars, procVars, histVars
<1>16. CASE CrashAppending
  <2>1. /\ lines' \in {Appended(Garbage), Appended(IF pc = "record" THEN StepRow ELSE GateRow)}
        /\ pc \in {"record", "gate-row"} /\ kept' = kept /\ landed' = "none"
        /\ ~lost' => ~Unrecorded
    BY <1>16 DEF CrashAppending, Forget
  <2>2. PICK row \in {Garbage, StepRow, GateRow} : lines' = Appended(row)
    BY <2>1
  <2>3. row \in Rows
    BY <2>2, RowsTyped
  <2>4. lines'[Len(lines')] \in {Garbage, row}
    BY <2>2, <2>3, AppendedLast
  <2>5. ~lost' => ~KeptRow(Garbage) /\ ~KeptRow(StepRow) /\ ~KeptRow(GateRow)
    BY <2>1 DEF Unrecorded, KeptRow, Garbage, StepRow, GateRow
  <2>6. ~lost' => ~KeptRow(lines'[Len(lines')])
    BY <2>2, <2>4, <2>5
  <2> QED BY <2>1, <2>6 DEF KeptIsReal
<1>17. CASE UNCHANGED vars
  BY <1>a, <1>17 DEF vars, fileVars, procVars, histVars
<1> QED BY <1>1, <1>2, <1>3, <1>4, <1>5, <1>6, <1>7, <1>8, <1>9, <1>10, <1>11, <1>12, <1>13, <1>14, <1>15, <1>16, <1>17 DEF Next

\* Every action of a start, a session and a gate keeps them in agreement.
LEMMA AgreedNext == Shape /\ Agreed /\ [Next]_vars => Agreed'
BY PairedNext, LedgerNext, PlanNext, KeptNext DEF Agreed

\* A resume continues the run as it stood when base last moved, unless that merge got
\* no gate row: walk and references are those of the last merge.
THEOREM KeptGateResumed == Spec => ResumesAtTheKeptGate
<1> DEFINE P == pc = "baseline" /\ pc' = "top" /\ kept # NothingKept /\ ~lost
                  => cursor' = kept.cursor /\ gate' = kept.gate
<1>1. ASSUME Shape, Agreed, [Next]_vars PROVE P
  <2> SUFFICES ASSUME pc = "baseline", pc' = "top", kept # NothingKept, ~lost
               PROVE  cursor' = kept.cursor /\ gate' = kept.gate
    OBVIOUS
  <2>1. plan.walk.at = kept.cursor /\ plan.gate = kept.gate
    BY <1>1 DEF Agreed, PlanAgrees
  <2>2. plan.walk # Nowhere /\ plan.gate # NoGate
    BY <1>1, <2>1 DEF Agreed, KeptIsReal, Nowhere, NoGate
  <2>3. Baseline
    <3>1. ASSUME StartFresh \/ StartResume \/ RestoreCounters \/ BaselineStops \/ BoundaryStops
                 \/ SequenceFails \/ RateLimited \/ SessionStops \/ Stage \/ NothingStaged
                 \/ RecordStep \/ RecordGate \/ EndSession \/ Crash \/ CrashAppending
                 \/ UNCHANGED vars
          PROVE  FALSE
      BY <3>1 DEF StartFresh, StartResume, Begin, RestoreCounters, BaselineStops, BoundaryStops,
             SequenceFails, RateLimited, SessionStops, Stage, NothingStaged, RecordStep,
             RecordGate, EndSession, Ends, Forget, Crash, CrashAppending, vars, procVars
    <3>2. ASSUME NEW holds \in BOOLEAN, Pick(holds) PROVE FALSE
      BY <3>2 DEF Pick
    <3>3. ASSUME NEW now \in 0 .. Quality, NEW errored \in BOOLEAN, NEW worse \in BOOLEAN,
                 NEW better \in BOOLEAN, Gate(now, errored, worse, better)
          PROVE  FALSE
      BY <3>3 DEF Gate
    <3>4. ASSUME NEW why \in {"none", "goals-met", "stopped", "abort"}, Finalize(why) PROVE FALSE
      BY <3>4 DEF Finalize
    <3> QED BY <1>1, <3>1, <3>2, <3>3, <3>4 DEF Next
  <2> QED BY <2>1, <2>2, <2>3 DEF Baseline
<1>2. Spec => []Shape
  BY Shapely
<1>3. Spec => []Agreed
  BY ShapeInit, ShapeNext, AgreedInit, AgreedNext, PTL DEF Spec
<1>4. Spec => [][P]_vars
  BY <1>1, <1>2, <1>3, PTL DEF Spec
<1> QED BY <1>4 DEF ResumesAtTheKeptGate

------------------------------------------------------------------------------
(* The ratchet.                                                              *)

\* Before the first start no gate has kept and no session works.
LEMMA RatchetedInit == Init => Ratcheted
BY DEF Init, Ratcheted, Working

\* Under gate_regressions the reference a session is judged by is the value on base.
LEMMA RatchetedNext == Shape /\ Agreed /\ Ratcheted /\ [Next]_vars => Ratcheted'
<1> SUFFICES ASSUME Shape, Agreed, Ratcheted, [Next]_vars, GateRegressions PROVE Ratcheted'
  BY PolicyAssumption DEF PolicyAssumption, Ratcheted
<1>a. ASSUME UNCHANGED <<kept, base>>,
             ~Working' \/ (UNCHANGED <<gate, lost>> /\ Working)
      PROVE  Ratcheted'
  BY <1>a DEF Ratcheted
<1>1. CASE StartFresh
  BY <1>1 DEF StartFresh, Ratcheted, Working
<1>2. CASE StartResume
  BY <1>a, <1>2 DEF StartResume, Begin, Working
<1>3. CASE RestoreCounters
  BY <1>a, <1>3 DEF RestoreCounters, Working, fileVars, procVars, histVars
<1>4. CASE Baseline
  <2>1. /\ gate' = (IF plan.gate = NoGate THEN [ref |-> base, rollbacks |-> 0] ELSE plan.gate)
        /\ pc = "baseline" /\ UNCHANGED <<kept, base, lost>>
    BY <1>4 DEF Baseline, fileVars, procVars, histVars
  <2>2. ASSUME ~lost PROVE gate'.ref = base
    <3>1. CASE plan.gate = NoGate
      BY <2>1, <3>1
    <3>2. CASE plan.gate # NoGate
      BY <2>1, <2>2, <3>2 DEF Agreed, PlanAgrees, Ratcheted
    <3> QED BY <3>1, <3>2
  <2> QED BY <2>1, <2>2 DEF Ratcheted
<1>5. CASE BaselineStops \/ BoundaryStops \/ SequenceFails \/ SessionStops
  BY <1>a, <1>5 DEF BaselineStops, BoundaryStops, SequenceFails, SessionStops, Ends, Forget, Working
<1>6. CASE RateLimited
  BY <1>a, <1>6 DEF RateLimited, Working, fileVars, procVars, histVars
<1>7. CASE Stage
  BY <1>a, <1>7 DEF Stage, Working, fileVars, procVars, histVars
<1>8. CASE NothingStaged
  BY <1>a, <1>8 DEF NothingStaged, Working, fileVars, procVars, histVars
<1>9. ASSUME NEW holds \in BOOLEAN, Pick(holds) PROVE Ratcheted'
  BY <1>a, <1>9 DEF Pick, Working
<1>10. ASSUME NEW now \in 0 .. Quality, NEW errored \in BOOLEAN, NEW worse \in BOOLEAN,
         NEW better \in BOOLEAN, Gate(now, errored, worse, better)
    PROVE Ratcheted'
  <2> DEFINE fate == Fate(worse \/ errored \/ Regressed(gate.ref, now),
                         better \/ (~errored /\ Improved(gate.ref, now)))
             next == IF errored /\ fate = "base" THEN gate ELSE Recorded(fate, now)
  <2>1. /\ gate' = next /\ base' = (IF fate = "base" THEN now ELSE base)
        /\ kept' = (IF fate = "base"
                    THEN [cursor |-> cursor, gate |-> next, tries |-> tries + 1] ELSE kept)
        /\ lost' = lost /\ Working
    BY <1>10 DEF Gate, Working
  <2>2. fate = "base" => ~errored
    BY Zenon DEF Fate
  <2>3. fate \in {"base", "rolled-back", "no-improvement"}
    BY FateTyped
  <2> HIDE DEF fate
  <2>4. gate \in References
    BY DEF Shape, ProcessTyped
  <2>5. CASE fate = "base"
    <3>1. gate' = [gate EXCEPT !.ref = now]
      BY <2>1, <2>2, <2>5 DEF Recorded
    <3>2. gate'.ref = now
      BY <2>4, <3>1 DEF References
    <3> QED BY <2>1, <2>5, <3>2 DEF Ratcheted
  <2>6. CASE fate # "base"
    <3>1. gate'.ref = gate.ref
      BY <2>1, <2>4, <2>6 DEF Recorded, References
    <3> QED BY <2>1, <2>6, <3>1 DEF Ratcheted
  <2> QED BY <2>5, <2>6
<1>11. ASSUME NEW why \in {"none", "goals-met", "stopped", "abort"}, Finalize(why) PROVE Ratcheted'
  BY <1>a, <1>11 DEF Finalize, Working, fileVars, procVars, histVars
<1>12. CASE RecordStep
  BY <1>a, <1>12 DEF RecordStep, Working, fileVars, procVars, histVars
<1>13. CASE RecordGate
  BY <1>a, <1>13 DEF RecordGate, Working, fileVars, procVars, histVars
<1>14. CASE EndSession
  BY <1>a, <1>14 DEF EndSession, Ends, Forget, Working, fileVars, procVars, histVars
<1>15. CASE Crash
  BY <1>a, <1>15 DEF Crash, Forget, Working, fileVars, procVars, histVars
<1>16. CASE CrashAppending
  BY <1>a, <1>16 DEF CrashAppending, Forget, Working, fileVars, procVars, histVars
<1>17. CASE UNCHANGED vars
  BY <1>a, <1>17 DEF vars, Working, fileVars, procVars, histVars
<1> QED BY <1>1, <1>2, <1>3, <1>4, <1>5, <1>6, <1>7, <1>8, <1>9, <1>10, <1>11, <1>12, <1>13, <1>14, <1>15, <1>16, <1>17 DEF Next

\* With gate_regressions a ratcheted value never gets worse on base by more than its
\* tolerance from one kept merge to the next, whatever crashed in between, as long as
\* every merge got its gate row.
THEOREM RatchetKept ==
  ASSUME GateRegressions
  PROVE  Spec => RatchetHolds
<1> DEFINE P == lost \/ base - base' <= Tolerance
<1>1. ASSUME Shape, Ratcheted, [Next]_vars PROVE P
  <2>1. base \in Int /\ (base' = base => base - base' <= Tolerance)
    BY <1>1, Bounds DEF Shape, FilesTyped
  <2>2. CASE UNCHANGED base
    BY <2>1, <2>2
  <2>3. ASSUME NEW now \in 0 .. Quality, NEW errored \in BOOLEAN, NEW worse \in BOOLEAN,
               NEW better \in BOOLEAN, Gate(now, errored, worse, better)
        PROVE  P
    <3>1. CASE base' = base
      BY <2>1, <3>1
    <3>2. CASE base' # base
      <4>1. base' = now /\ ~Regressed(gate.ref, now) /\ pc = "session"
        <5>1. base' = now /\ pc = "session"
              /\ Fate(worse \/ errored \/ Regressed(gate.ref, now),
                      better \/ (~errored /\ Improved(gate.ref, now))) = "base"
          BY <2>3, <3>2 DEF Gate
        <5>2. ~(worse \/ errored \/ Regressed(gate.ref, now))
          BY <5>1, Zenon DEF Fate
        <5> QED BY <5>1, <5>2
      <4>2. lost \/ gate.ref = base
        BY <1>1, <4>1 DEF Ratcheted, Working
      <4> QED BY <1>1, <2>1, <4>1, <4>2, Bounds DEF Regressed, Shape, FilesTyped
    <3> QED BY <3>1, <3>2
  <2>4. ASSUME StartFresh \/ StartResume \/ RestoreCounters \/ Baseline \/ BaselineStops
               \/ BoundaryStops \/ SequenceFails \/ RateLimited \/ SessionStops \/ Stage
               \/ NothingStaged \/ RecordStep \/ RecordGate \/ EndSession \/ Crash
               \/ CrashAppending \/ UNCHANGED vars
        PROVE  UNCHANGED base
    BY <2>4 DEF StartFresh, StartResume, Begin, RestoreCounters, Baseline, BaselineStops,
           BoundaryStops, SequenceFails, RateLimited, SessionStops, Stage, NothingStaged,
           RecordStep, RecordGate, EndSession, Ends, Crash, CrashAppending, vars, fileVars
  <2>5. ASSUME NEW holds \in BOOLEAN, Pick(holds) PROVE UNCHANGED base
    BY <2>5 DEF Pick
  <2>6. ASSUME NEW why \in {"none", "goals-met", "stopped", "abort"}, Finalize(why)
        PROVE  UNCHANGED base
    BY <2>6 DEF Finalize
  <2> QED BY <1>1, <2>2, <2>3, <2>4, <2>5, <2>6 DEF Next
<1>2. Spec => []Shape /\ []Ratcheted
  BY ShapeInit, ShapeNext, AgreedInit, AgreedNext, RatchetedInit, RatchetedNext, PTL DEF Spec
<1>3. Spec => [][P]_vars
  BY <1>1, <1>2, PTL DEF Spec
<1> QED BY <1>3 DEF RatchetHolds

------------------------------------------------------------------------------
(* The walk.                                                                 *)

\* Before the first start no step has had a session.
LEMMA PacedInit == Init => Paced
BY DEF Init, Paced, NothingKept, Start

\* What a step of the walk counts: an entry it leaves starts over, one it stays at has a
\* dispatch left.
LEMMA PickCounts ==
  ASSUME Shape, NEW holds \in BOOLEAN, Pick(holds)
  PROVE  \/ tries' = 0 /\ cursor'.reps = 1
         \/ /\ tries' = tries /\ cursor'.reps = cursor.reps + 1 /\ cursor'.idx = cursor.idx
            /\ cursor.reps < entries[cursor.idx].cap
<1>1. cursor \in Walks /\ cursor.idx \in 1 .. Len(entries)
  BY DEF Shape, ProcessTyped
<1>2. entries[cursor.idx].cap \in Nat
  BY <1>1, ConfigTyped DEF Shape, FilesTyped
<1>3. cursor' = NextStep(holds) /\ ~Exhausted(entries[cursor.idx], holds)
      /\ tries' = (IF Leaves(entries[cursor.idx], holds) THEN 0 ELSE tries)
  BY DEF Pick
<1>4. CASE Leaves(entries[cursor.idx], holds)
  BY <1>3, <1>4 DEF NextStep
<1>5. CASE ~Leaves(entries[cursor.idx], holds)
  <2>1. cursor' = [cursor EXCEPT !.reps = @ + 1]
    BY <1>3, <1>5 DEF NextStep
  <2>2. cursor'.reps = cursor.reps + 1 /\ cursor'.idx = cursor.idx
    BY <1>1, <2>1 DEF Walks
  <2>3. ~(cursor.reps >= entries[cursor.idx].cap)
    BY <1>3, <1>5 DEF Leaves, Exhausted
  <2> QED BY <1>1, <1>2, <1>3, <1>5, <2>2, <2>3 DEF Walks
<1> QED BY <1>4, <1>5

\* The completed sessions of a visit are among its dispatches, and the one that is
\* running is not completed.
LEMMA PacedNext == Shape /\ Agreed /\ Paced /\ [Next]_vars => Paced'
<1> SUFFICES ASSUME Shape, Agreed, Paced, [Next]_vars, ~lost'
             PROVE  /\ kept'.tries <= kept'.cursor.reps
                    /\ pc' \in {"top", "gate-row", "ended"} => tries' <= cursor'.reps
                    /\ pc' \in {"session", "finalize", "record"} => tries' < cursor'.reps
  BY DEF Paced
<1>a. /\ tries \in Nat /\ cursor.reps \in Nat /\ kept.tries \in Nat /\ kept.cursor.reps \in Nat
  BY DEF Shape, HistoryTyped, ProcessTyped, Walks
<1> DEFINE early == pc' \notin {"top", "gate-row", "ended", "session", "finalize", "record"}
<1>b. ASSUME kept' = kept, ~lost, early
      PROVE  /\ kept'.tries <= kept'.cursor.reps
             /\ pc' \in {"top", "gate-row", "ended"} => tries' <= cursor'.reps
             /\ pc' \in {"session", "finalize", "record"} => tries' < cursor'.reps
  BY <1>b DEF Paced
<1>1. CASE StartFresh
  BY <1>1 DEF StartFresh, NothingKept, Start
<1>2. CASE StartResume
  BY <1>b, <1>2 DEF StartResume
<1>3. CASE RestoreCounters
  BY <1>b, <1>3 DEF RestoreCounters, fileVars, procVars, histVars
<1>4. CASE Baseline
  <2>1. /\ cursor' = (IF plan.walk = Nowhere THEN Start ELSE plan.walk.at)
        /\ tries' = (IF plan.walk = Nowhere THEN 0 ELSE kept.tries)
        /\ UNCHANGED <<kept, lost>> /\ pc = "baseline" /\ pc' = "top"
    BY <1>4 DEF Baseline
  <2>2. kept.tries <= kept.cursor.reps
    BY <2>1 DEF Paced
  <2>3. CASE plan.walk = Nowhere
    BY <2>1, <2>2, <2>3 DEF Start
  <2>4. CASE plan.walk # Nowhere
    <3>1. plan.walk.at = kept.cursor
      BY <2>1, <2>4 DEF Agreed, PlanAgrees
    <3> QED BY <2>1, <2>2, <2>4, <3>1
  <2> QED BY <2>3, <2>4
<1>5. CASE BaselineStops \/ BoundaryStops \/ SequenceFails \/ SessionStops
  BY <1>b, <1>5 DEF BaselineStops, BoundaryStops, SequenceFails, SessionStops, Ends, Forget
<1>6. CASE RateLimited
  BY <1>a, <1>6 DEF RateLimited, Paced, fileVars, procVars, histVars
<1>7. CASE Stage
  BY <1>a, <1>7 DEF Stage, Paced, fileVars, procVars, histVars
<1>8. CASE NothingStaged
  BY <1>a, <1>8 DEF NothingStaged, Paced, fileVars, procVars, histVars
<1>9. ASSUME NEW holds \in BOOLEAN, Pick(holds)
    PROVE  /\ kept'.tries <= kept'.cursor.reps
           /\ pc' \in {"top", "gate-row", "ended"} => tries' <= cursor'.reps
           /\ pc' \in {"session", "finalize", "record"} => tries' < cursor'.reps
  <2>1. pc = "top" /\ pc' = "session" /\ UNCHANGED <<kept, lost>>
    BY <1>9 DEF Pick
  <2>2. tries' < cursor'.reps
    BY <1>a, <1>9, <2>1, PickCounts DEF Paced
  <2> QED BY <2>1, <2>2 DEF Paced
<1>10. ASSUME NEW now \in 0 .. Quality, NEW errored \in BOOLEAN, NEW worse \in BOOLEAN,
         NEW better \in BOOLEAN, Gate(now, errored, worse, better)
    PROVE  /\ kept'.tries <= kept'.cursor.reps
           /\ pc' \in {"top", "gate-row", "ended"} => tries' <= cursor'.reps
           /\ pc' \in {"session", "finalize", "record"} => tries' < cursor'.reps
  <2>1. /\ pc = "session" /\ pc' = "finalize" /\ UNCHANGED <<cursor, tries, lost>>
        /\ kept' = kept \/ (kept'.cursor = cursor /\ kept'.tries = tries + 1)
    BY <1>10 DEF Gate
  <2>2. tries < cursor.reps /\ kept.tries <= kept.cursor.reps
    BY <2>1 DEF Paced
  <2> QED BY <1>a, <2>1, <2>2
<1>11. ASSUME NEW why \in {"none", "goals-met", "stopped", "abort"}, Finalize(why)
    PROVE  /\ kept'.tries <= kept'.cursor.reps
           /\ pc' \in {"top", "gate-row", "ended"} => tries' <= cursor'.reps
           /\ pc' \in {"session", "finalize", "record"} => tries' < cursor'.reps
  BY <1>11 DEF Finalize, Paced, fileVars, procVars, histVars
<1>12. CASE RecordStep
  <2>1. /\ pc = "record" /\ pc' \in {"ended", "gate-row"} /\ tries' = tries + 1
        /\ UNCHANGED <<cursor, kept, lost>>
    BY <1>12 DEF RecordStep
  <2> QED BY <1>a, <2>1 DEF Paced
<1>13. CASE RecordGate
  BY <1>13 DEF RecordGate, Paced, fileVars, procVars, histVars
<1>14. CASE EndSession
  BY <1>b, <1>14 DEF EndSession, Ends, Forget, Paced, fileVars, procVars, histVars
<1>15. CASE Crash
  <2>1. ~lost /\ kept' = kept /\ pc' = "off"
    BY <1>15 DEF Crash, Forget, fileVars, procVars, histVars
  <2> QED BY <1>b, <2>1
<1>16. CASE CrashAppending
  <2>1. ~lost /\ kept' = kept /\ pc' = "off"
    BY <1>16 DEF CrashAppending, Forget
  <2> QED BY <1>b, <2>1
<1>17. CASE UNCHANGED vars
  BY <1>17 DEF Paced, vars, fileVars, procVars, histVars
<1> QED BY <1>1, <1>2, <1>3, <1>4, <1>5, <1>6, <1>7, <1>8, <1>9, <1>10, <1>11, <1>12, <1>13, <1>14, <1>15, <1>16, <1>17 DEF Next

\* An entry gets at most its `times`/`max` completed sessions in one visit, whatever is
\* interrupted and resumed in it, as long as every merge got its gate row.
THEOREM VisitsWithinCap == Spec => VisitWithinCap
<1> DEFINE P == pc = "top" /\ pc' = "session" /\ ~lost => tries' < entries[cursor'.idx].cap
<1>1. ASSUME Shape, Shape', Paced, [Next]_vars PROVE P
  <2> SUFFICES ASSUME pc = "top", pc' = "session", ~lost
               PROVE  tries' < entries[cursor'.idx].cap
    OBVIOUS
  <2>1. PICK holds \in BOOLEAN : Pick(holds)
    <3>1. ASSUME StartFresh \/ StartResume \/ RestoreCounters \/ Baseline \/ BaselineStops
                 \/ BoundaryStops \/ SequenceFails \/ RateLimited \/ SessionStops \/ Stage
                 \/ NothingStaged \/ RecordStep \/ RecordGate \/ EndSession \/ Crash
                 \/ CrashAppending \/ UNCHANGED vars
          PROVE  FALSE
      BY <3>1 DEF StartFresh, StartResume, Begin, RestoreCounters, Baseline, BaselineStops,
             BoundaryStops, SequenceFails, RateLimited, SessionStops, Stage, NothingStaged,
             RecordStep, RecordGate, EndSession, Ends, Forget, Crash, CrashAppending, vars,
             procVars
    <3>2. ASSUME NEW now \in 0 .. Quality, NEW errored \in BOOLEAN, NEW worse \in BOOLEAN,
                 NEW better \in BOOLEAN, Gate(now, errored, worse, better)
          PROVE  FALSE
      BY <3>2 DEF Gate
    <3>3. ASSUME NEW why \in {"none", "goals-met", "stopped", "abort"}, Finalize(why) PROVE FALSE
      BY <3>3 DEF Finalize
    <3> QED BY <1>1, <3>1, <3>2, <3>3 DEF Next
  <2>2. entries' = entries
    BY <2>1 DEF Pick
  <2>3. cursor'.idx \in 1 .. Len(entries) /\ tries \in Nat /\ cursor \in Walks
    BY <1>1, <2>2 DEF Shape, ProcessTyped, HistoryTyped
  <2>4. entries[cursor'.idx].cap \in Nat \ {0}
    BY <1>1, <2>3, ConfigTyped DEF Shape, FilesTyped
  <2>5. tries <= cursor.reps
    BY <1>1 DEF Paced
  <2> QED BY <1>1, <2>1, <2>3, <2>4, <2>5, PickCounts DEF Walks
<1>2. Spec => []Shape /\ []Paced
  BY ShapeInit, ShapeNext, AgreedInit, AgreedNext, PacedInit, PacedNext, PTL DEF Spec
<1>3. Spec => [][P]_vars
  BY <1>1, <1>2, PTL DEF Spec
<1> QED BY <1>3 DEF VisitWithinCap
=============================================================================
