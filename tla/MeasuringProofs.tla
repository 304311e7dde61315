--------------------------- MODULE MeasuringProofs ---------------------------
(* Theorems of Measuring: a judge is told of the tree it was asked about, the *)
(* incumbents are of one session that was kept, and a fault never helps.  And *)
(* of Accounting: the places that count spending agree, every session is      *)
(* counted once, and a launch that dies loses its last session's spending.    *)
EXTENDS Measuring, Accounting, WellFoundedInduction, SequenceTheorems, TLAPS

\* What a measurement may be of.
Measurements ==
    [run : Nat, session : Nat, scope : {Judges[j].scope : j \in DOMAIN Judges},
     only : {Families(j) : j \in DOMAIN Judges}, base : Trees, tree : Trees]
Entries == [key : Measurements, of : Measurements, ok : BOOLEAN]

Shaped ==
    /\ pc \in {"off", "grading", "done"}
    /\ session \in 0 .. MaxSessions /\ starts \in 0 .. MaxStarts /\ faults \in 0 .. MaxFaults
    /\ tree \in Trees /\ kept \in Trees
    /\ cache \in Seq(Entries) /\ Len(cache) <= CacheCap
    /\ verdict.judge \in SUBSET DOMAIN Judges /\ verdict.of \in SUBSET Measurements

\* What is cached under a key is of the measurement the key names.
Keyed == \A k \in DOMAIN cache : cache[k].key = cache[k].of

\* A report on disk is of this run, of the session whose scratch it is in.
Stored ==
    \A p \in DOMAIN disk :
        p \in Nat \X {Judges[j].scope : j \in DOMAIN Judges}
        /\ disk[p].run = starts /\ disk[p].session = p[1]

\* What a pair of run and session that is over satisfies.
Past(start, of) ==
    /\ start \in Nat /\ of \in Nat /\ start <= starts
    /\ start = starts => of <= session
    /\ start = starts /\ of = session => pc # "grading"

\* The sessions that were refused, and the one the incumbents are of, are over.
Decided ==
    /\ \A q \in refused : q \in Nat \X Nat /\ Past(q[1], q[2])
    /\ \A s \in DOMAIN incumbent : Past(incumbent[s].run, incumbent[s].session)

------------------------------------------------------------------------------
(* The operators.                                                            *)

\* The bounds are numbers.
LEMMA Bounds == CacheCap \in Nat /\ MaxSessions \in Nat /\ MaxStarts \in Nat /\ MaxFaults \in Nat
BY BoundsAssumption

\* A set of numbers that is not empty has one that is least.
LEMMA Least ==
    ASSUME NEW S \in SUBSET Nat, S # {}
    PROVE  \E n \in S : \A m \in S : n <= m
<1> DEFINE less == {ss \in Nat \X Nat : ss[1] < ss[2]}
<1>1. IsWellFoundedOn(less, Nat)
  BY NatLessThanWellFounded DEF OpToRel
<1>2. PICK n \in S : \A m \in S : <<m, n>> \notin less
  <2> HIDE DEF less
  <2> QED BY <1>1, WFMin
<1>3. \A m \in S : n <= m
  <2> SUFFICES ASSUME NEW m \in S, m < n PROVE FALSE
    OBVIOUS
  <2> QED BY <1>2
<1> QED BY <1>3

\* A set of numbers that is not empty and has a bound has one that is most.
LEMMA Most ==
    ASSUME NEW n \in Nat, NEW S \in SUBSET (0 .. n), S # {}
    PROVE  Max(S) \in S
<1> DEFINE T == {n - s : s \in S}
<1>1. T \in SUBSET Nat /\ T # {}
  <2>1. \A s \in S : s \in 0 .. n /\ n - s \in Nat OBVIOUS
  <2>2. T \subseteq Nat BY <2>1
  <2> QED BY <2>2
<1>2. PICK t \in T : \A u \in T : t <= u
  <2> HIDE DEF T
  <2> QED BY <1>1, Least
<1>3. PICK s \in S : t = n - s BY <1>2
<1>4. \A u \in S : s >= u
  <2> TAKE u \in S
  <2>1. n - s <= n - u BY <1>2, <1>3
  <2> QED BY <2>1
<1> QED BY <1>4 DEF Max

\* A full cache drops its oldest entries: what it keeps it had, or has just been pushed.
LEMMA PushedKeeps ==
    ASSUME cache \in Seq(Entries), NEW e \in Entries
    PROVE  /\ Pushed(e) \in Seq(Entries) /\ Len(Pushed(e)) <= CacheCap
           /\ \A k \in DOMAIN Pushed(e) : Pushed(e)[k] = e \/ \E l \in DOMAIN cache : Pushed(e)[k] = cache[l]
<1> DEFINE all == Append(cache, e)
           n == Len(all)
           m == Min({n, CacheCap})
<1>1. /\ all \in Seq(Entries) /\ n = Len(cache) + 1 /\ Len(cache) \in Nat /\ n \in Nat
      /\ \A k \in 1 .. n : all[k] = e \/ \E l \in DOMAIN cache : all[k] = cache[l]
  OBVIOUS
<1>2. m \in {n, CacheCap} /\ m <= n /\ m <= CacheCap
  <2>1. n \in Nat /\ CacheCap \in Nat BY <1>1, Bounds
  <2> HIDE DEF n
  <2>2. \E x \in {n, CacheCap} : \A y \in {n, CacheCap} : x =< y BY <2>1
  <2> QED BY <2>1, <2>2 DEF Min
<1>3. m \in Nat BY <1>1, <1>2, Bounds
<1> HIDE DEF all, m
<1> DEFINE s == SubSeq(all, n - m + 1, n)
<1>4. n = Len(all) /\ Pushed(e) = s BY DEF Pushed, all, m
<1> HIDE DEF n
<1>5. n - m + 1 \in 1 .. n + 1 BY <1>1, <1>2, <1>3
<1>6. /\ s \in Seq(Entries) /\ Len(s) = m
      /\ \A k \in 1 .. m : s[k] = all[n - m + k] /\ n - m + k \in 1 .. n
  BY <1>1, <1>2, <1>3, <1>4, <1>5
<1> HIDE DEF s
<1>7. DOMAIN s = 1 .. m BY <1>6
<1> QED BY <1>1, <1>2, <1>4, <1>6, <1>7

\* A measurement replaces the report of its session and scope.
LEMMA WrittenOver ==
    ASSUME NEW m, NEW ok \in BOOLEAN
    PROVE  /\ DOMAIN Written(m, ok) \subseteq DOMAIN disk \cup {<<m.session, m.scope>>}
           /\ \A p \in DOMAIN Written(m, ok) :
                 \/ p = <<m.session, m.scope>> /\ Written(m, ok)[p] = m
                 \/ p \in DOMAIN disk /\ Written(m, ok)[p] = disk[p]
BY DEF Written

\* What a judge measures is a measurement.
LEMMA MeasurementTyped ==
    ASSUME Shaped, NEW j \in DOMAIN Judges
    PROVE  Measurement(j) \in Measurements
<1>1. starts \in Nat /\ session \in Nat BY Bounds DEF Shaped
<1> QED BY <1>1 DEF Measurement, Measurements, Shaped, Judge

\* What a run of swe-metrics came to, as the cache holds it.
Fresh(j, ok) == [key |-> Key(j), of |-> Measurement(j), ok |-> ok]

\* A fresh entry is an entry, filed under the measurement it is of.
LEMMA FreshTyped ==
    ASSUME Shaped, NEW j \in DOMAIN Judges, NEW ok \in BOOLEAN
    PROVE  /\ Fresh(j, ok) \in Entries
           /\ Fresh(j, ok).key = Measurement(j) /\ Fresh(j, ok).of = Measurement(j)
BY MeasurementTyped DEF Fresh, Key, Entries

\* What a conclusion says it is of.
LEMMA ConclusionOf ==
    ASSUME NEW j, NEW entry
    PROVE  Concluded(j, entry).judge = {j} /\ Concluded(j, entry).of = {entry.of}
BY DEF Concluded

------------------------------------------------------------------------------
(* What a judge is told of.                                                  *)

\* The measurement a judge is told of is of the session, tree and base it was asked about.
Asked == \A j \in verdict.judge : verdict.of = {Measurement(j)}

Told == Shaped /\ Keyed /\ Asked

\* Told holds before the first session.
LEMMA InitTold ==
    ASSUME Init
    PROVE  Told
<1>1. Shaped BY Bounds DEF Init, Shaped, NoVerdict
<1>2. Keyed BY DEF Init, Keyed
<1>3. Asked BY DEF Init, Asked, NoVerdict
<1> QED BY <1>1, <1>2, <1>3 DEF Told

\* A cached answer is the measurement the judge would have made.
LEMMA CachedTold ==
    ASSUME Told, NEW j \in DOMAIN Judges, Cached(j)
    PROVE  Told'
<1>1. PICK i \in Hit(j) : verdict' = Concluded(j, cache[i]) BY DEF Cached
<1>2. /\ UNCHANGED <<pc, session, tree, kept, cache, starts, faults>>
      /\ i \in DOMAIN cache /\ cache[i].key = Measurement(j)
  BY <1>1 DEF Cached, Hit, Key
<1>3. cache[i].of = Measurement(j) BY <1>2 DEF Told, Keyed
<1>4. verdict'.judge = {j} /\ verdict'.of = {Measurement(j)} BY <1>1, <1>3, ConclusionOf
<1>5. Measurement(j)' = Measurement(j) BY <1>2 DEF Measurement, Families, Judge
<1>6. Shaped' BY <1>2, <1>4, MeasurementTyped DEF Told, Shaped
<1>7. Keyed' BY <1>2 DEF Told, Keyed
<1>8. Asked' BY <1>4, <1>5 DEF Asked
<1> QED BY <1>6, <1>7, <1>8 DEF Told

\* A measurement made now is what is cached and concluded from.
LEMMA MeasureTold ==
    ASSUME Told, NEW j \in DOMAIN Judges, NEW ok \in BOOLEAN, Measure(j, ok)
    PROVE  Told'
<1> DEFINE e == Fresh(j, ok)
<1>1. /\ cache' = Pushed(e) /\ verdict' = Concluded(j, e)
      /\ UNCHANGED <<pc, session, tree, kept, starts>>
      /\ faults' = (IF ok THEN faults ELSE faults + 1) /\ (ok \/ faults < MaxFaults)
  BY DEF Measure, Fresh
<1>2. e \in Entries /\ e.key = Measurement(j) /\ e.of = Measurement(j) BY FreshTyped DEF Told
<1> HIDE DEF e
<1>3. verdict'.judge = {j} /\ verdict'.of = {Measurement(j)} BY <1>1, <1>2, ConclusionOf
<1>4. Measurement(j)' = Measurement(j) BY <1>1 DEF Measurement, Families, Judge
<1>5. cache \in Seq(Entries) BY DEF Told, Shaped
<1>6. /\ cache' \in Seq(Entries) /\ Len(cache') <= CacheCap
      /\ \A k \in DOMAIN cache' : cache'[k] = e \/ \E l \in DOMAIN cache : cache'[k] = cache[l]
  BY <1>1, <1>2, <1>5, PushedKeeps
<1>7. Shaped'
  <2>1. faults' \in 0 .. MaxFaults BY <1>1, Bounds DEF Told, Shaped
  <2> QED BY <1>1, <1>3, <1>6, <2>1, MeasurementTyped DEF Told, Shaped
<1>8. Keyed' BY <1>2, <1>6 DEF Told, Keyed
<1>9. Asked' BY <1>3, <1>4 DEF Asked
<1> QED BY <1>7, <1>8, <1>9 DEF Told

\* Every other step forgets the verdict.
LEMMA ForgetsTold ==
    ASSUME Told, verdict' = NoVerdict, pc' \in {"off", "grading", "done"},
           session' \in 0 .. MaxSessions, starts' \in 0 .. MaxStarts, faults' = faults,
           tree' \in Trees, kept' \in Trees, cache' = cache \/ cache' = <<>>
    PROVE  Told'
<1>0. NoVerdict.judge = {} /\ NoVerdict.of = {} BY DEF NoVerdict
<1>a. cache' \in Seq(Entries) /\ Len(cache') <= CacheCap
  <2>1. CASE cache' = cache BY <2>1 DEF Told, Shaped
  <2>2. CASE cache' = <<>> BY <2>2, Bounds
  <2> QED BY <2>1, <2>2
<1>1. Shaped'
  <2> HIDE DEF NoVerdict
  <2> QED BY <1>0, <1>a DEF Told, Shaped
<1>2. Keyed' BY DEF Told, Keyed
<1>3. Asked' BY DEF Asked, NoVerdict
<1> QED BY <1>1, <1>2, <1>3 DEF Told

\* Every action of the cache, the judges and the gate keeps Told.
LEMMA NextTold ==
    ASSUME Told, [Next]_vars
    PROVE  Told'
<1>0. /\ session \in 0 .. MaxSessions /\ starts \in 0 .. MaxStarts
      /\ tree \in Trees /\ kept \in Trees /\ MaxSessions \in Nat /\ MaxStarts \in Nat
  BY Bounds DEF Told, Shaped
<1>1. CASE \E resume \in BOOLEAN : Start(resume)
  <2>1. PICK resume \in BOOLEAN : Start(resume) BY <1>1
  <2>2. /\ verdict' = NoVerdict /\ pc' \in {"off", "grading", "done"} /\ cache' = <<>> /\ faults' = faults
        /\ starts' = starts + 1 /\ starts < MaxStarts
    BY <2>1 DEF Start
  <2>3. session' \in 0 .. MaxSessions /\ kept' \in Trees /\ tree' \in Trees BY <1>0, <2>1 DEF Start
  <2> QED BY <1>0, <2>2, <2>3, ForgetsTold
<1>2. CASE \E j \in DOMAIN Judges : Cached(j) BY <1>2, CachedTold
<1>3. CASE \E j \in DOMAIN Judges, ok \in BOOLEAN : Measure(j, ok) BY <1>3, MeasureTold
<1>4. CASE Stray BY <1>0, <1>4, ForgetsTold DEF Stray
<1>5. CASE Keep BY <1>0, <1>5, ForgetsTold DEF Keep
<1>6. CASE Discard BY <1>0, <1>6, ForgetsTold DEF Discard
<1>7. CASE Session BY <1>0, <1>7, ForgetsTold DEF Session
<1>8. CASE Exit BY <1>0, <1>8, ForgetsTold DEF Exit
<1>9. CASE UNCHANGED vars
  <2>1. UNCHANGED <<pc, session, tree, kept, cache, verdict, faults, starts>> BY <1>9 DEF vars
  <2>2. Shaped' BY <2>1 DEF Told, Shaped
  <2>3. Keyed' BY <2>1 DEF Told, Keyed
  <2>4. Asked' BY <2>1 DEF Told, Asked, Measurement, Families, Judge
  <2> QED BY <2>2, <2>3, <2>4 DEF Told
<1> QED BY <1>1, <1>2, <1>3, <1>4, <1>5, <1>6, <1>7, <1>8, <1>9 DEF Next

\* Every state is of its type: whatever is measured, the cache stays within its bound.
THEOREM TypeCorrect == Spec => []TypeOK
<1>1. Init => Told BY InitTold
<1>2. Told /\ [Next]_vars => Told' BY NextTold
<1>3. Told => TypeOK BY DEF Told, Shaped, TypeOK
<1> QED BY <1>1, <1>2, <1>3, PTL DEF Spec

\* A judge's measurement covers its own family: it is among those of its scope's judges.
LEMMA OwnFamily ==
    ASSUME NEW j \in DOMAIN Judges, Judge(j).kind = "metric"
    PROVE  Covers(Families(j), Judge(j).family)
<1>1. Judge(j) \in Range(Judges) BY DEF Judge, Range
<1>2. Families(j) = {} \/ Judge(j).family \in Families(j) BY <1>1 DEF Families, Only
<1> QED BY <1>2 DEF Covers

\* A judge's verdict is of a measurement of this tree against this base, its own metric's
\* family in it, whatever was measured before, by another judge or in another session, for
\* any judges, trees and size of the cache.
THEOREM ToldOfTheTree == Spec => []VerdictIsOfTheTree
<1>1. Init => Told BY InitTold
<1>2. Told /\ [Next]_vars => Told' BY NextTold
<1>3. Told => VerdictIsOfTheTree
  <2> SUFFICES ASSUME Told, NEW j \in verdict.judge PROVE
        /\ verdict.of = {Measurement(j)}
        /\ Judge(j).kind = "metric" => \A m \in verdict.of : Covers(m.only, Judge(j).family)
    BY DEF VerdictIsOfTheTree
  <2>1. verdict.of = {Measurement(j)} /\ j \in DOMAIN Judges BY DEF Told, Asked, Shaped
  <2>2. Measurement(j).only = Families(j) BY DEF Measurement
  <2> QED BY <2>1, <2>2, OwnFamily
<1> QED BY <1>1, <1>2, <1>3, PTL DEF Spec

------------------------------------------------------------------------------
(* The incumbents.                                                           *)

\* The incumbents are of one run and session.
OneSession ==
    \A s, u \in DOMAIN incumbent :
        incumbent[s].run = incumbent[u].run /\ incumbent[s].session = incumbent[u].session

\* None of them is of a session that was refused.
NotRefused == \A s \in DOMAIN incumbent : <<incumbent[s].run, incumbent[s].session>> \notin refused

Sound == Told /\ Stored /\ Decided /\ OneSession /\ NotRefused

\* The newest of the session's good measurements is of the session.
LEMMA NewestIsOfTheSession ==
    ASSUME Told, NEW s \in {cache[k].of.scope : k \in Promotable}
    PROVE  Newest(s).session = session
<1> DEFINE S == {k \in Promotable : cache[k].of.scope = s}
           n == Len(cache)
<1>1. n \in Nat /\ DOMAIN cache = 1 .. n BY DEF Told, Shaped
<1>2. S \in SUBSET (0 .. n) /\ S # {} BY <1>1 DEF Promotable
<1>3. Max(S) \in S
  <2> HIDE DEF S, n
  <2> QED BY <1>1, <1>2, Most
<1>4. Mine(cache[Max(S)]) BY <1>3 DEF Promotable
<1>5. Newest(s) = cache[Max(S)].of BY DEF Newest
<1> HIDE DEF S
<1> QED BY <1>4, <1>5 DEF Mine

\* What a gate that keeps the session promotes are the session's own reports.
LEMMA PromotesItsOwn ==
    ASSUME Told, Stored, Promotable # {}, NEW s \in DOMAIN Promoted
    PROVE  Promoted[s].run = starts /\ Promoted[s].session = session
<1> DEFINE scopes == {cache[k].of.scope : k \in Promotable}
<1>1. Promoted = [u \in {u \in scopes : ReportPath(u) \in DOMAIN disk} |-> disk[ReportPath(u)]]
  BY DEF Promoted
<1>2. s \in scopes /\ ReportPath(s) \in DOMAIN disk /\ Promoted[s] = disk[ReportPath(s)]
  <2> HIDE DEF scopes
  <2> QED BY <1>1
<1>3. ReportPath(s)[1] = session BY <1>2, NewestIsOfTheSession DEF ReportPath
<1> QED BY <1>2, <1>3 DEF Stored

\* Time passing leaves over what is over.
LEMMA OverStays ==
    ASSUME Shaped, NEW start, NEW of, Past(start, of), starts' \in Nat, session' \in Nat,
           \/ starts' > starts
           \/ starts' = starts /\ session' > session
           \/ starts' = starts /\ session' = session /\ (pc # "grading" => pc' # "grading")
    PROVE  Past(start, of)'
<1>1. starts \in Nat /\ session \in Nat BY Bounds DEF Shaped
<1> QED BY <1>1 DEF Past

\* A step that promotes and refuses nothing leaves the incumbents as they are, or drops them.
LEMMA LeavesSound ==
    ASSUME Sound, Told', Stored', refused' = refused, incumbent' = incumbent \/ incumbent' = <<>>,
           \/ starts' > starts
           \/ starts' = starts /\ session' > session
           \/ starts' = starts /\ session' = session /\ (pc # "grading" => pc' # "grading")
    PROVE  Sound'
<1>1. starts' \in Nat /\ session' \in Nat /\ Shaped BY Bounds DEF Sound, Told, Shaped
<1>2. \A s \in DOMAIN incumbent' : s \in DOMAIN incumbent /\ incumbent'[s] = incumbent[s] OBVIOUS
<1>3. \A q \in refused' : q \in Nat \X Nat /\ Past(q[1], q[2])'
  BY <1>1, OverStays DEF Sound, Decided
<1>4. \A s \in DOMAIN incumbent' : Past(incumbent[s].run, incumbent[s].session)
  BY <1>2 DEF Sound, Decided
<1>5. \A s \in DOMAIN incumbent' : Past(incumbent[s].run, incumbent[s].session)'
  <2> TAKE s \in DOMAIN incumbent'
  <2>1. PICK r, o : r = incumbent[s].run /\ o = incumbent[s].session /\ Past(r, o) BY <1>4
  <2>2. r = incumbent'[s].run /\ o = incumbent'[s].session BY <1>2, <2>1
  <2>3. Past(r, o)' BY <1>1, <2>1, OverStays
  <2> QED BY <2>2, <2>3 DEF Past
<1>6. Decided' BY <1>3, <1>5 DEF Decided
<1>7. OneSession' BY <1>2 DEF OneSession, Sound
<1>8. NotRefused' BY <1>2 DEF NotRefused, Sound
<1> QED BY <1>6, <1>7, <1>8 DEF Sound

\* The scratch of a session holds the reports measured in it.
LEMMA MeasureStored ==
    ASSUME Told, Stored, NEW j \in DOMAIN Judges, NEW ok \in BOOLEAN, Measure(j, ok)
    PROVE  Stored'
<1> DEFINE m == Measurement(j)
<1>1. disk' = Written(m, ok) /\ starts' = starts BY DEF Measure
<1>2. m \in Measurements /\ m.run = starts BY MeasurementTyped DEF Told, Measurement
<1>3. m.session \in Nat /\ m.scope \in {Judges[k].scope : k \in DOMAIN Judges} BY <1>2 DEF Measurements
<1> HIDE DEF m
<1>4. \A p \in DOMAIN disk' :
        \/ p = <<m.session, m.scope>> /\ disk'[p] = m
        \/ p \in DOMAIN disk /\ disk'[p] = disk[p]
  BY <1>1, WrittenOver
<1> QED BY <1>1, <1>2, <1>3, <1>4 DEF Stored

\* Sound holds before the first session, when nothing is cached, written or kept.
LEMMA InitSound ==
    ASSUME Init
    PROVE  Sound
<1>1. Told BY InitTold
<1>2. Stored /\ Decided /\ OneSession /\ NotRefused BY DEF Init, Stored, Decided, OneSession, NotRefused
<1> QED BY <1>1, <1>2 DEF Sound

\* A gate keeps the session it graded, which was not refused and no other incumbent is of.
LEMMA KeepSound ==
    ASSUME Sound, Keep
    PROVE  Sound'
<1>0. Told' BY NextTold DEF Next, Sound
<1>1. /\ incumbent' = Promoted /\ pc = "grading" /\ pc' = "done"
      /\ UNCHANGED <<session, starts, disk, refused>>
  BY DEF Keep
<1>2. Stored' BY <1>1 DEF Sound, Stored
<1>3. CASE Promotable = {}
  <2>1. incumbent' = incumbent BY <1>1, <1>3 DEF Promoted
  <2> QED BY <1>0, <1>1, <1>2, <2>1, LeavesSound
<1>4. CASE Promotable # {}
  <2>1. \A s \in DOMAIN incumbent' : incumbent'[s].run = starts /\ incumbent'[s].session = session
    BY <1>1, <1>4, PromotesItsOwn DEF Sound
  <2>2. starts \in Nat /\ session \in Nat BY Bounds DEF Sound, Told, Shaped
  <2>3. <<starts, session>> \notin refused
    <3> SUFFICES ASSUME <<starts, session>> \in refused PROVE FALSE OBVIOUS
    <3>1. Past(<<starts, session>>[1], <<starts, session>>[2]) BY DEF Sound, Decided
    <3> QED BY <1>1, <3>1 DEF Past
  <2>4. OneSession' BY <2>1 DEF OneSession
  <2>5. NotRefused' BY <1>1, <2>1, <2>3 DEF NotRefused
  <2>6. \A s \in DOMAIN incumbent' : Past(incumbent[s].run, incumbent[s].session)'
    BY <1>1, <2>1, <2>2 DEF Past
  <2>7. \A q \in refused' : q \in Nat \X Nat /\ Past(q[1], q[2])'
    BY <1>1, <2>2, OverStays DEF Sound, Decided, Told
  <2>8. Decided' BY <2>6, <2>7 DEF Decided
  <2> QED BY <1>0, <1>2, <2>4, <2>5, <2>8 DEF Sound
<1> QED BY <1>3, <1>4

\* A gate refuses the session it graded, which no incumbent is of.
LEMMA DiscardSound ==
    ASSUME Sound, Discard
    PROVE  Sound'
<1>0. Told' BY NextTold DEF Next, Sound
<1>1. /\ refused' = refused \cup {<<starts, session>>} /\ pc = "grading" /\ pc' = "done"
      /\ UNCHANGED <<session, starts, disk, incumbent>>
  BY DEF Discard
<1>2. Stored' BY <1>1 DEF Sound, Stored
<1>3. starts \in Nat /\ session \in Nat /\ Shaped BY Bounds DEF Sound, Told, Shaped
<1>4. Decided'
  <2>1. \A q \in refused : q \in Nat \X Nat /\ Past(q[1], q[2])'
    BY <1>1, <1>3, OverStays DEF Sound, Decided
  <2>2. LET q == <<starts, session>> IN q \in Nat \X Nat /\ Past(q[1], q[2])'
    BY <1>1, <1>3 DEF Past
  <2>3. \A s \in DOMAIN incumbent' : Past(incumbent[s].run, incumbent[s].session)'
    <3> TAKE s \in DOMAIN incumbent'
    <3>1. Past(incumbent[s].run, incumbent[s].session) BY <1>1 DEF Sound, Decided
    <3> QED BY <1>1, <1>3, <3>1 DEF Past
  <2> QED BY <1>1, <2>1, <2>2, <2>3 DEF Decided
<1>5. OneSession' BY <1>1 DEF Sound, OneSession
<1>6. NotRefused'
  <2>1. \A s \in DOMAIN incumbent : <<incumbent[s].run, incumbent[s].session>> # <<starts, session>>
    <3> TAKE s \in DOMAIN incumbent
    <3>1. Past(incumbent[s].run, incumbent[s].session) BY DEF Sound, Decided
    <3>2. ~(incumbent[s].run = starts /\ incumbent[s].session = session) BY <1>1, <3>1 DEF Past
    <3> QED BY <3>2
  <2> QED BY <1>1, <2>1 DEF Sound, NotRefused
<1> QED BY <1>0, <1>2, <1>4, <1>5, <1>6 DEF Sound

\* Every action of the cache, the judges and the gate keeps Sound.
LEMMA NextSound ==
    ASSUME Sound, [Next]_vars
    PROVE  Sound'
<1>0. /\ Told' /\ starts \in Nat /\ session \in Nat
  BY NextTold, Bounds DEF Sound, Told, Shaped
<1>1. CASE \E resume \in BOOLEAN : Start(resume)
  <2>1. PICK resume \in BOOLEAN : Start(resume) BY <1>1
  <2>2. /\ disk' = <<>> /\ starts' = starts + 1 /\ refused' = refused
        /\ incumbent' = incumbent \/ incumbent' = <<>>
    BY <2>1 DEF Start
  <2>3. Stored' BY <2>2 DEF Stored
  <2> QED BY <1>0, <2>2, <2>3, LeavesSound
<1>2. CASE \E j \in DOMAIN Judges : Cached(j)
  <2>1. UNCHANGED <<pc, session, starts, disk, incumbent, refused>> BY <1>2 DEF Cached
  <2>2. Stored' BY <2>1 DEF Sound, Stored
  <2> QED BY <1>0, <2>1, <2>2, LeavesSound
<1>3. CASE \E j \in DOMAIN Judges, ok \in BOOLEAN : Measure(j, ok)
  <2>1. UNCHANGED <<pc, session, starts, incumbent, refused>> BY <1>3 DEF Measure
  <2>2. Stored' BY <1>3, MeasureStored DEF Sound
  <2> QED BY <1>0, <2>1, <2>2, LeavesSound
<1>4. CASE Stray
  <2>1. UNCHANGED <<pc, session, starts, disk, incumbent, refused>> BY <1>4 DEF Stray
  <2>2. Stored' BY <2>1 DEF Sound, Stored
  <2> QED BY <1>0, <2>1, <2>2, LeavesSound
<1>5. CASE Keep BY <1>5, KeepSound
<1>6. CASE Discard BY <1>6, DiscardSound
<1>7. CASE Session
  <2>1. UNCHANGED <<starts, disk, incumbent, refused>> /\ session' = session + 1 BY <1>7 DEF Session
  <2>2. Stored' BY <2>1 DEF Sound, Stored
  <2> QED BY <1>0, <2>1, <2>2, LeavesSound
<1>8. CASE Exit
  <2>1. UNCHANGED <<session, starts, incumbent, refused>> /\ disk' = <<>> /\ pc' = "off" BY <1>8 DEF Exit
  <2>2. Stored' BY <2>1 DEF Stored
  <2> QED BY <1>0, <2>1, <2>2, LeavesSound
<1>9. CASE UNCHANGED vars
  <2>1. UNCHANGED <<pc, session, starts, disk, incumbent, refused>> BY <1>9 DEF vars
  <2>2. Stored' BY <2>1 DEF Sound, Stored
  <2> QED BY <1>0, <2>1, <2>2, LeavesSound
<1> QED BY <1>1, <1>2, <1>3, <1>4, <1>5, <1>6, <1>7, <1>8, <1>9 DEF Next

\* The incumbents are the reports of one session a gate kept, for any judges, trees, strays,
\* faults and resumes: what is promoted is what the gate's own session left in its scratch.
THEOREM OneKept == Spec => []IncumbentsAreOneKept
<1>1. Init => Sound BY InitSound
<1>2. Sound /\ [Next]_vars => Sound' BY NextSound
<1>3. Sound => IncumbentsAreOneKept BY DEF Sound, OneSession, NotRefused, IncumbentsAreOneKept
<1> QED BY <1>1, <1>2, <1>3, PTL DEF Spec

------------------------------------------------------------------------------
(* Faults.                                                                   *)

\* A report and its analyzer that fails.
LEMMA LimitedReport ==
    ASSUME NEW r, IsReport(r), NEW families
    PROVE  /\ DOMAIN Limited(r, families) = {"changed", "files", "analyzers", "rows"}
           /\ Limited(r, families).analyzers \subseteq Analyzer
BY DEF IsReport, Limited

\* The analyzer that fails is among those that failed, and its rows are gone.
LEMMA FailingReport ==
    ASSUME NEW r, DOMAIN r = {"changed", "files", "analyzers", "rows"}, r.analyzers \subseteq Analyzer,
           NEW sel, NEW a \in AnalyzersOf(r, sel, {})
    PROVE  /\ \E b \in Failing(r, a).analyzers :
                 b.status = "failed" /\ b.tool = a.tool /\ sel.family \in b.families
           /\ \A b \in Failing(r, a).analyzers : b.tool # a.tool => b \in r.analyzers
           /\ \A b \in r.analyzers : b.tool # a.tool => b \in Failing(r, a).analyzers
           /\ Failing(r, a).rows = {row \in r.rows : row.tool # a.tool}
<1> DEFINE b == [a EXCEPT !.status = "failed"]
<1>1. a \in Analyzer /\ a \in r.analyzers /\ sel.family \in a.families BY DEF AnalyzersOf
<1>2. b.status = "failed" /\ b.tool = a.tool /\ b.families = a.families BY <1>1 DEF Analyzer
<1>3. /\ Failing(r, a).analyzers = (r.analyzers \ {a}) \cup {b}
      /\ Failing(r, a).rows = {row \in r.rows : row.tool # a.tool}
  BY DEF Failing
<1> HIDE DEF b
<1> QED BY <1>1, <1>2, <1>3

\* A judge that asks the failed tool has no value; one that asks another has the same.
LEMMA FailingSelects ==
    ASSUME NEW r, DOMAIN r = {"changed", "files", "analyzers", "rows"}, r.analyzers \subseteq Analyzer,
           NEW sel, NEW a \in AnalyzersOf(r, sel, {})
    PROVE  /\ ~NothingToMeasure(Failing(r, a), sel)
           /\ Select(Failing(r, a), sel) = {} \/ Select(Failing(r, a), sel) = Select(r, sel)
<1> DEFINE f == Failing(r, a)
<1>0. /\ \E b \in f.analyzers : b.status = "failed" /\ b.tool = a.tool /\ sel.family \in b.families
      /\ \A b \in f.analyzers : b.tool # a.tool => b \in r.analyzers
      /\ \A b \in r.analyzers : b.tool # a.tool => b \in f.analyzers
      /\ f.rows = {row \in r.rows : row.tool # a.tool}
  BY FailingReport
<1> HIDE DEF f
<1>1. PICK b \in f.analyzers : b.status = "failed" /\ b.tool = a.tool /\ sel.family \in b.families
  BY <1>0
<1>2. b \in Broken(f, sel) BY <1>1 DEF Broken, AnalyzersOf
<1>3. ~NothingToMeasure(f, sel) BY <1>2 DEF NothingToMeasure
<1>4. CASE sel.tool = {} BY <1>2, <1>3, <1>4 DEF Select, f
<1>5. CASE sel.tool # {} /\ a.tool \in sel.tool
  <2>1. b \in NotRan(f, sel, sel.tool) BY <1>1, <1>5 DEF NotRan, AnalyzersOf
  <2> QED BY <1>3, <1>5, <2>1 DEF Select, f
<1>6. CASE sel.tool # {} /\ a.tool \notin sel.tool
  <2>1. NotRan(f, sel, sel.tool) = NotRan(r, sel, sel.tool) BY <1>0, <1>6 DEF NotRan, AnalyzersOf
  <2>2. ASSUME NEW labeled
        PROVE  {row \in f.rows : Matches(row, sel, labeled)} = {row \in r.rows : Matches(row, sel, labeled)}
    <3>1. \A row \in r.rows : Matches(row, sel, labeled) => row.tool \in sel.tool BY <1>6 DEF Matches
    <3> QED BY <1>0, <1>6, <3>1
  <2>3. \A labeled : PerTool(f, sel, labeled) = PerTool(r, sel, labeled) BY <2>2 DEF PerTool
  <2>4. Labeled(f, sel) = Labeled(r, sel)
    <3> DEFINE ls == sel.labels # {}
    <3>1. PerTool(f, sel, FALSE) = PerTool(r, sel, FALSE) BY <2>3
    <3>2. PerTool(f, sel, ls) = PerTool(r, sel, ls) BY <2>3
    <3> QED BY <3>1, <3>2, Zenon DEF Labeled
  <2>5. Select(f, sel) = Select(r, sel) BY <1>6, <2>1, <2>4 DEF Select
  <2> QED BY <1>3, <2>5 DEF f
<1> QED BY <1>4, <1>5, <1>6

\* Without a value there is no verdict to be met.
LEMMA NoValueNotMet ==
    ASSUME NEW j, NEW old, NEW ratchet
    PROVE  ~VerdictOn(j, {}, old, ratchet).met
BY DEF VerdictOn, Errored

\* A judge met although an analyzer failed is met when it runs.
LEMMA FailingNeverHelps ==
    ASSUME NEW j, NEW r, DOMAIN r = {"changed", "files", "analyzers", "rows"}, r.analyzers \subseteq Analyzer,
           NEW a \in AnalyzersOf(r, Selected(j), {}), MetricVerdict(j, {Failing(r, a)}, {}, {}).met
    PROVE  MetricVerdict(j, {r}, {}, {}).met
<1> DEFINE sel == Selected(j)
           f == Failing(r, a)
           old == IncumbentValues(j, {})
<1>1. /\ ~NothingToMeasure(f, sel)
      /\ Select(f, sel) = {} \/ Select(f, sel) = Select(r, sel)
  BY FailingSelects
<1> HIDE DEF sel, f
<1>2. UNION {Select(x, sel) : x \in {f}} = Select(f, sel) /\ UNION {Select(x, sel) : x \in {r}} = Select(r, sel)
  OBVIOUS
<1>3. MetricVerdict(j, {f}, {}, {}) = VerdictOn(j, Select(f, sel), old, {})
  BY <1>1, <1>2 DEF MetricVerdict, sel
<1>4. VerdictOn(j, Select(f, sel), old, {}).met BY <1>3 DEF f
<1>5. Select(f, sel) = Select(r, sel)
  <2>1. CASE Select(f, sel) = {} BY <1>4, <2>1, NoValueNotMet
  <2> QED BY <1>1, <2>1
<1>6. MetricVerdict(j, {r}, {}, {}) = Vacuous
      \/ MetricVerdict(j, {r}, {}, {}) = VerdictOn(j, Select(r, sel), old, {})
  BY <1>2 DEF MetricVerdict, sel
<1>7. Vacuous.met BY DEF Vacuous
<1>8. VerdictOn(j, Select(r, sel), old, {}).met BY <1>4, <1>5
<1> QED BY <1>6, <1>7, <1>8

\* What swe-metrics reported of a measurement is a report.
LEMMA ReportOfMeasurement ==
    ASSUME NEW m \in Measurements
    PROVE  /\ DOMAIN ReportOf(m) = {"changed", "files", "analyzers", "rows"}
           /\ ReportOf(m).analyzers \subseteq Analyzer
<1>1. m.tree \in Trees /\ m.base \in Trees BY DEF Measurements
<1>2. IsReport(Whole[m.tree]) /\ IsReport(Changes[m.base][m.tree]) BY <1>1, ReportsAssumption
<1> QED BY <1>2, LimitedReport DEF ReportOf

\* A fault is never a reason to pass, whatever the report, the judge and the analyzer: a judge
\* met on a report of which an analyzer of its family failed is met when that analyzer ran.
THEOREM FaultsNeverHelp == Spec => []FailureNeverHelps
<1>1. Init => Told BY InitTold
<1>2. Told /\ [Next]_vars => Told' BY NextTold
<1>3. Told => FailureNeverHelps
  <2> SUFFICES ASSUME Told, NEW j \in verdict.judge, NEW m \in verdict.of,
                      NEW a \in AnalyzersOf(ReportOf(m), Selected(Judge(j)), {}),
                      MetricVerdict(Judge(j), {Failing(ReportOf(m), a)}, {}, {}).met
               PROVE  MetricVerdict(Judge(j), {ReportOf(m)}, {}, {}).met
    BY DEF FailureNeverHelps
  <2>1. m \in Measurements BY DEF Told, Shaped
  <2> QED BY <2>1, ReportOfMeasurement, FailingNeverHelps
<1> QED BY <1>1, <1>2, <1>3, PTL DEF Spec

------------------------------------------------------------------------------
(* Accounting: recursion along a sequence.                                   *)

\* A step at each place takes what is of a kind to what is of it; and where it leads from a start.
Stays(S, n, step) == \A i \in 1 .. n, x \in S : step[<<i, x>>] \in S
Solves(S, e, n, step, f) ==
    /\ f = [i \in 0 .. n |-> f[i]] /\ f[0] = e
    /\ \A i \in 1 .. n : f[i] = step[<<i, f[i - 1]>>]
    /\ \A i \in 0 .. n : f[i] \in S

\* What holds first and is kept from each number to the next, held by a set of numbers, holds of
\* all of them.
LEMMA ByPlaces ==
    ASSUME NEW n \in Nat, NEW S, 0 \in S, \A i \in 1 .. n : i - 1 \in S => i \in S
    PROVE  0 .. n \subseteq S
<1> DEFINE bad == (0 .. n) \ S
<1> SUFFICES ASSUME bad # {} PROVE FALSE
  OBVIOUS
<1>1. PICK m \in bad : \A k \in bad : m <= k
  <2>1. bad \in SUBSET Nat OBVIOUS
  <2> HIDE DEF bad
  <2> QED BY <2>1, Least
<1>2. m # 0 OBVIOUS
<1>3. m \in 1 .. n /\ m - 1 \in 0 .. n /\ m - 1 < m BY <1>2
<1>4. m - 1 \in S BY <1>1, <1>3
<1> QED BY <1>3, <1>4

\* A step from every place to the next has a solution along all of them: the
\* least place up to which there is none would have one, by one step more.
LEMMA StepsSolved ==
    ASSUME NEW S, NEW e \in S, NEW n \in Nat, NEW step, Stays(S, n, step)
    PROVE  \E f : Solves(S, e, n, step, f)
<1> DEFINE good == {m \in 0 .. n : \E f : Solves(S, e, m, step, f)}
<1>1. 0 \in good
  <2> DEFINE g == [i \in 0 .. 0 |-> e]
  <2>1. Solves(S, e, 0, step, g) BY DEF Solves
  <2> QED BY <2>1
<1>2. ASSUME NEW m \in 1 .. n, m - 1 \in good PROVE m \in good
  <2>1. m \in Nat /\ m >= 1 /\ m \in 0 .. n OBVIOUS
  <2>2. PICK f : Solves(S, e, m - 1, step, f) BY <1>2
  <2>3. f[m - 1] \in S /\ step[<<m, f[m - 1]>>] \in S
    <3>1. f[m - 1] \in S BY <2>1, <2>2 DEF Solves
    <3> QED BY <2>1, <3>1 DEF Stays
  <2> DEFINE g == [i \in 0 .. m |-> IF i < m THEN f[i] ELSE step[<<m, f[m - 1]>>]]
  <2>5. g = [i \in 0 .. m |-> g[i]] OBVIOUS
  <2>6. \A i \in 0 .. m - 1 : g[i] = f[i] BY <2>1
  <2>7. g[m] = step[<<m, f[m - 1]>>] BY <2>1
  <2> HIDE DEF g
  <2>8. ASSUME NEW i \in 1 .. m PROVE g[i] = step[<<i, g[i - 1]>>]
    <3>1. CASE i = m BY <2>1, <2>6, <2>7, <3>1
    <3>2. CASE i # m
      <4>1. i \in 1 .. m - 1 /\ i \in 0 .. m - 1 /\ i - 1 \in 0 .. m - 1 BY <2>1, <3>2
      <4> QED BY <2>2, <2>6, <4>1 DEF Solves
    <3> QED BY <3>1, <3>2
  <2>9. g[0] = e BY <2>1, <2>2, <2>6 DEF Solves
  <2>10. ASSUME NEW i \in 0 .. m PROVE g[i] \in S
    <3>1. i = m \/ i \in 0 .. m - 1 BY <2>1
    <3> QED BY <2>2, <2>3, <2>6, <2>7, <3>1 DEF Solves
  <2>11. Solves(S, e, m, step, g) BY <2>5, <2>8, <2>9, <2>10 DEF Solves
  <2> QED BY <2>1, <2>11
<1>3. 0 .. n \subseteq good
  <2> HIDE DEF good
  <2> QED BY <1>1, <1>2, ByPlaces
<1>4. n \in good BY <1>3
<1> QED BY <1>4

\* A total starts at nothing and takes one number more at each place.
RunningTotal(w, f) ==
    /\ f[0] = 0 /\ (\A i \in 1 .. Len(w) : f[i] = f[i - 1] + w[i])
    /\ \A i \in 0 .. Len(w) : f[i] \in Nat
\* A total is where adding one number after the other leads.
LEMMA TotalSteps ==
    ASSUME NEW w \in Seq(Nat)
    PROVE  \E f : RunningTotal(w, f) /\ Total(w) = f[Len(w)]
<1> DEFINE n == Len(w)
           P(f) == f = [i \in 0 .. n |-> IF i = 0 THEN 0 ELSE f[i - 1] + w[i]]
           step == [p \in (1 .. n) \X Nat |-> p[2] + w[p[1]]]
           H == CHOOSE f : P(f)
<1>0. n \in Nat /\ \A i \in 1 .. n : w[i] \in Nat OBVIOUS
<1>1. \A i \in 1 .. n, x \in Nat : step[<<i, x>>] = x + w[i] OBVIOUS
<1>2. Stays(Nat, n, step)
  <2> HIDE DEF step, n
  <2>1. ASSUME NEW i \in 1 .. n, NEW x \in Nat PROVE step[<<i, x>>] \in Nat
    <3>1. step[<<i, x>>] = x + w[i] /\ w[i] \in Nat BY <1>0, <1>1
    <3> QED BY <3>1
  <2> QED BY <2>1 DEF Stays
<1>3. \E f : P(f)
  <2>0. PICK f : Solves(Nat, 0, n, step, f)
    <3> HIDE DEF step, n
    <3> QED BY <1>0, <1>2, StepsSolved
  <2>1. /\ f = [i \in 0 .. n |-> f[i]] /\ f[0] = 0
        /\ \A i \in 1 .. n : f[i] = step[<<i, f[i - 1]>>]
        /\ \A i \in 0 .. n : f[i] \in Nat
    <3> HIDE DEF step, n
    <3> QED BY <2>0 DEF Solves
  <2> HIDE DEF step
  <2>2. \A i \in 1 .. n : i - 1 \in 0 .. n
    <3> HIDE DEF n
    <3> QED BY <1>0
  <2>3. \A i \in 1 .. n : f[i] = f[i - 1] + w[i]
    <3> HIDE DEF n
    <3> QED BY <1>1, <2>1, <2>2
  <2>4. f = [i \in 0 .. n |-> IF i = 0 THEN 0 ELSE f[i - 1] + w[i]]
    <3> HIDE DEF n
    <3>1. \A i \in 0 .. n : i = 0 \/ i \in 1 .. n BY <1>0
    <3>2. \A i \in 0 .. n : f[i] = IF i = 0 THEN 0 ELSE f[i - 1] + w[i] BY <2>1, <2>3, <3>1
    <3> QED BY <2>1, <3>2
  <2> QED BY <2>4
<1>4. P(H)
  <2> HIDE DEF P
  <2> QED BY <1>3
<1>5. Total(w) = H[n] BY DEF Total
<1> HIDE DEF H, step
<1>6. H[0] = 0 /\ \A i \in 1 .. n : H[i] = H[i - 1] + w[i]
  <2> HIDE DEF n
  <2> QED BY <1>0, <1>4
<1>7. 0 .. n \subseteq {i \in 0 .. n : H[i] \in Nat}
  <2> DEFINE S == {i \in 0 .. n : H[i] \in Nat}
  <2>1. 0 \in S BY <1>0, <1>6
  <2>2. ASSUME NEW i \in 1 .. n, i - 1 \in S PROVE i \in S
    <3>1. w[i] \in Nat /\ i \in 0 .. n BY <1>0
    <3>2. H[i - 1] \in Nat BY <2>2, Zenon
    <3>3. H[i] = H[i - 1] + w[i] BY <1>6, Zenon
    <3> HIDE DEF n
    <3>4. H[i] \in Nat BY <3>1, <3>2, <3>3
    <3> QED BY <3>1, <3>4, Zenon
  <2>3. 0 .. n \subseteq S
    <3> HIDE DEF S, n
    <3> QED BY <1>0, <2>1, <2>2, ByPlaces
  <2> QED BY <2>3
<1> QED BY <1>5, <1>6, <1>7 DEF RunningTotal

\* The totals of nothing, of what is longer by one, and of what is nowhere more.
LEMMA TotalNone == Total(<<>>) = 0
<1>1. <<>> \in Seq(Nat) /\ Len(<<>>) = 0 OBVIOUS
<1> QED BY <1>1, TotalSteps DEF RunningTotal

\* A shorter sequence of the same numbers is totalled on the way.
LEMMA TotalPrefix ==
    ASSUME NEW v \in Seq(Nat), NEW w \in Seq(Nat), Len(v) <= Len(w), \A i \in 1 .. Len(v) : v[i] = w[i]
    PROVE  \E f : RunningTotal(w, f) /\ Total(v) = f[Len(v)] /\ Total(w) = f[Len(w)]
<1>0. Len(v) \in Nat /\ Len(w) \in Nat OBVIOUS
<1>1. PICK f : RunningTotal(w, f) /\ Total(w) = f[Len(w)]
  BY TotalSteps
<1>2. PICK g : RunningTotal(v, g) /\ Total(v) = g[Len(v)]
  BY TotalSteps
<1> DEFINE S == {i \in 0 .. Len(v) : f[i] = g[i]}
<1>3. 0 \in S BY <1>0, <1>1, <1>2 DEF RunningTotal
<1>4. ASSUME NEW i \in 1 .. Len(v), i - 1 \in S PROVE i \in S
  <2>1. i \in 1 .. Len(w) /\ i \in 0 .. Len(v) BY <1>0
  <2>2. f[i - 1] = g[i - 1] /\ v[i] = w[i] BY <1>4
  <2> QED BY <1>1, <1>2, <2>1, <2>2 DEF RunningTotal
<1>5. 0 .. Len(v) \subseteq S
  <2> HIDE DEF S
  <2> QED BY <1>0, <1>3, <1>4, ByPlaces
<1>6. f[Len(v)] = g[Len(v)]
  <2>1. Len(v) \in 0 .. Len(v) BY <1>0
  <2>2. Len(v) \in S BY <1>5, <2>1
  <2> QED BY <2>2
<1> QED BY <1>1, <1>2, <1>6

\* A total is a number, of nothing is nothing, of one more is as much more.
LEMMA TotalNat == ASSUME NEW w \in Seq(Nat) PROVE Total(w) \in Nat
<1>1. Len(w) \in 0 .. Len(w) OBVIOUS
<1> QED BY <1>1, TotalSteps DEF RunningTotal

\* A number more is added.
LEMMA TotalOneMore ==
    ASSUME NEW v \in Seq(Nat), NEW w \in Seq(Nat), Len(w) = Len(v) + 1, \A i \in 1 .. Len(v) : v[i] = w[i]
    PROVE  Total(w) = Total(v) + w[Len(w)]
<1>0. Len(v) \in Nat /\ Len(w) \in 1 .. Len(w) /\ Len(w) - 1 = Len(v) OBVIOUS
<1>1. PICK f : RunningTotal(w, f) /\ Total(v) = f[Len(v)] /\ Total(w) = f[Len(w)]
  BY <1>0, TotalPrefix
<1> QED BY <1>0, <1>1 DEF RunningTotal

\* A number in a total is no more than it.
LEMMA TotalMonotone ==
    ASSUME NEW v \in Seq(Nat), NEW w \in Seq(Nat), Len(v) = Len(w), \A i \in 1 .. Len(v) : v[i] <= w[i]
    PROVE  Total(v) <= Total(w)
<1>0. Len(v) \in Nat OBVIOUS
<1>1. PICK f : RunningTotal(w, f) /\ Total(w) = f[Len(w)]
  BY TotalSteps
<1>2. PICK g : RunningTotal(v, g) /\ Total(v) = g[Len(v)]
  BY TotalSteps
<1> DEFINE S == {i \in 0 .. Len(v) : g[i] <= f[i]}
<1>3. 0 \in S BY <1>0, <1>1, <1>2 DEF RunningTotal
<1>4. ASSUME NEW i \in 1 .. Len(v), i - 1 \in S PROVE i \in S
  <2>1. i \in 0 .. Len(v) /\ i - 1 \in 0 .. Len(v) BY <1>0
  <2>2. g[i - 1] <= f[i - 1] /\ v[i] <= w[i] /\ v[i] \in Nat /\ w[i] \in Nat BY <1>4
  <2>3. g[i - 1] \in Nat /\ f[i - 1] \in Nat BY <1>1, <1>2, <2>1 DEF RunningTotal
  <2>4. g[i] = g[i - 1] + v[i] /\ f[i] = f[i - 1] + w[i] BY <1>1, <1>2 DEF RunningTotal
  <2>5. PICK a, b, c, d \in Nat : a = g[i - 1] /\ b = f[i - 1] /\ c = v[i] /\ d = w[i] BY <2>2, <2>3, Zenon
  <2>6. a <= b /\ c <= d BY <2>2, <2>5, Zenon
  <2>7. a + c <= b + d BY <2>6
  <2>8. g[i] <= f[i] BY <2>4, <2>5, <2>7, Zenon
  <2> QED BY <2>1, <2>8, Zenon
<1>5. 0 .. Len(v) \subseteq S
  <2> HIDE DEF S
  <2> QED BY <1>0, <1>3, <1>4, ByPlaces
<1> QED BY <1>0, <1>1, <1>2, <1>5 DEF RunningTotal

\* The numbers of one total, added place by place to those of another, add up to both.
LEMMA TotalBoth ==
    ASSUME NEW u \in Seq(Nat), NEW v \in Seq(Nat), NEW w \in Seq(Nat), Len(u) = Len(w), Len(v) = Len(w),
           \A i \in 1 .. Len(w) : w[i] = u[i] + v[i]
    PROVE  Total(w) = Total(u) + Total(v)
<1>0. Len(w) \in Nat OBVIOUS
<1>1. PICK f : RunningTotal(w, f) /\ Total(w) = f[Len(w)]
  BY TotalSteps
<1>2. PICK g : RunningTotal(u, g) /\ Total(u) = g[Len(w)]
  BY TotalSteps
<1>3. PICK h : RunningTotal(v, h) /\ Total(v) = h[Len(w)]
  BY TotalSteps
<1> DEFINE S == {i \in 0 .. Len(w) : f[i] = g[i] + h[i]}
<1>4. 0 \in S BY <1>0, <1>1, <1>2, <1>3 DEF RunningTotal
<1>5. ASSUME NEW i \in 1 .. Len(w), i - 1 \in S PROVE i \in S
  <2>1. i \in 0 .. Len(w) /\ i - 1 \in 0 .. Len(w) BY <1>0
  <2>2. f[i - 1] = g[i - 1] + h[i - 1] /\ w[i] = u[i] + v[i] BY <1>5
  <2>3. g[i - 1] \in Nat /\ h[i - 1] \in Nat /\ u[i] \in Nat /\ v[i] \in Nat
    <3>1. g[i - 1] \in Nat BY <1>2, <2>1 DEF RunningTotal
    <3>2. h[i - 1] \in Nat BY <1>3, <2>1 DEF RunningTotal
    <3>3. i \in 1 .. Len(u) /\ i \in 1 .. Len(v) OBVIOUS
    <3>4. u[i] \in Nat /\ v[i] \in Nat BY <3>3
    <3> QED BY <3>1, <3>2, <3>4
  <2>4. f[i] = f[i - 1] + w[i] /\ g[i] = g[i - 1] + u[i] /\ h[i] = h[i - 1] + v[i] BY <1>1, <1>2, <1>3 DEF RunningTotal
  <2>5. f[i] = (g[i - 1] + h[i - 1]) + (u[i] + v[i]) BY <2>2, <2>4
  <2>6. PICK a, b, c, d \in Nat : a = g[i - 1] /\ b = h[i - 1] /\ c = u[i] /\ d = v[i] BY <2>3, Zenon
  <2>7. f[i] = (a + b) + (c + d) /\ g[i] = a + c /\ h[i] = b + d BY <2>4, <2>5, <2>6, Zenon
  <2>8. f[i] = g[i] + h[i] BY <2>7
  <2> QED BY <2>1, <2>8, Zenon
<1>6. 0 .. Len(w) \subseteq S
  <2> HIDE DEF S
  <2> QED BY <1>0, <1>4, <1>5, ByPlaces
<1> QED BY <1>0, <1>1, <1>2, <1>3, <1>6 DEF RunningTotal

\* A total that goes on after another: it goes from the one to both.
LEMMA TotalGoesOn ==
    ASSUME NEW v \in Seq(Nat), NEW w \in Seq(Nat)
    PROVE  Total(v \o w) = Total(v) + Total(w)
<1>0. Len(v) \in Nat /\ Len(w) \in Nat OBVIOUS
<1>1. /\ v \o w \in Seq(Nat) /\ Len(v \o w) = Len(v) + Len(w)
      /\ \A i \in 1 .. Len(v) : v[i] = (v \o w)[i]
      /\ \A i \in 1 .. Len(w) : w[i] = (v \o w)[Len(v) + i]
  BY <1>0
<1> DEFINE both == v \o w
<1> HIDE DEF both
<1>2. /\ both \in Seq(Nat) /\ Len(both) = Len(v) + Len(w)
      /\ \A i \in 1 .. Len(v) : v[i] = both[i]
      /\ \A i \in 1 .. Len(w) : w[i] = both[Len(v) + i]
  BY <1>1 DEF both
<1>9. Len(v) <= Len(both) BY <1>0, <1>2
<1>3. PICK f : RunningTotal(both, f) /\ Total(v) = f[Len(v)] /\ Total(both) = f[Len(both)]
  BY <1>2, <1>9, TotalPrefix
<1>4. PICK g : RunningTotal(w, g) /\ Total(w) = g[Len(w)]
  BY TotalSteps
<1> DEFINE S == {i \in 0 .. Len(w) : f[Len(v) + i] = f[Len(v)] + g[i]}
<1>5. 0 \in S
  <2>1. g[0] = 0 /\ 0 \in 0 .. Len(w) BY <1>0, <1>4 DEF RunningTotal
  <2>2. Len(v) + 0 = Len(v) /\ Len(v) \in 0 .. Len(both) BY <1>0, <1>2
  <2>3. f[Len(v)] \in Nat BY <1>3, <2>2 DEF RunningTotal
  <2> QED BY <2>1, <2>2, <2>3
<1>6. ASSUME NEW i \in 1 .. Len(w), i - 1 \in S PROVE i \in S
  <2>1. /\ i \in 0 .. Len(w) /\ i - 1 \in 0 .. Len(w) /\ Len(v) + i \in 1 .. Len(both)
        /\ Len(v) + i - 1 = Len(v) + (i - 1) /\ Len(v) \in 0 .. Len(both)
    <3>1. PICK m, n \in Nat : m = Len(v) /\ n = Len(w) BY <1>0, Zenon
    <3>2. i \in 1 .. n /\ Len(both) = m + n BY <1>2, <3>1, Zenon
    <3>3. i \in 0 .. n /\ i - 1 \in 0 .. n BY <3>2
    <3>4. m + i \in 1 .. m + n /\ m \in 0 .. m + n BY <3>2
    <3>5. m + i - 1 = m + (i - 1) BY <3>2
    <3> QED BY <3>1, <3>2, <3>3, <3>4, <3>5, Zenon
  <2>2. f[Len(v) + (i - 1)] = f[Len(v)] + g[i - 1] /\ w[i] = both[Len(v) + i] BY <1>2, <1>6
  <2>3. g[i - 1] \in Nat /\ f[Len(v)] \in Nat /\ w[i] \in Nat BY <1>3, <1>4, <2>1 DEF RunningTotal
  <2>4. f[Len(v) + i] = f[Len(v) + i - 1] + both[Len(v) + i] BY <1>3, <2>1 DEF RunningTotal
  <2>5. g[i] = g[i - 1] + w[i] BY <1>4 DEF RunningTotal
  <2>6. PICK a, b, c \in Nat : a = f[Len(v)] /\ b = g[i - 1] /\ c = w[i] BY <2>3, Zenon
  <2>7. f[Len(v) + i] = (a + b) + c /\ g[i] = b + c BY <2>1, <2>2, <2>4, <2>5, <2>6, Zenon
  <2>8. (a + b) + c = a + (b + c) OBVIOUS
  <2>9. f[Len(v) + i] = f[Len(v)] + g[i] BY <2>6, <2>7, <2>8, Zenon
  <2> QED BY <2>1, <2>9, Zenon
<1>7. 0 .. Len(w) \subseteq S
  <2> HIDE DEF S
  <2> QED BY <1>0, <1>5, <1>6, ByPlaces
<1>8. Total(both) = Total(v) + Total(w)
  <2>1. Len(w) \in 0 .. Len(w) BY <1>0
  <2>2. f[Len(v) + Len(w)] = f[Len(v)] + g[Len(w)] BY <1>7, <2>1
  <2> QED BY <1>2, <1>3, <1>4, <2>2
<1> QED BY <1>8 DEF both

------------------------------------------------------------------------------
(* Accounting: sums of usage.                                                *)

\* Options add as numbers do, and nothing added is nothing.
LEMMA OptionIs ==
    ASSUME NEW o \in Options
    PROVE  Number(o) \in Nat /\ (o = {} \/ o = {Number(o)}) /\ (o = {} => Number(o) = 0)
BY DEF Options, Number

\* What is reported once.
LEMMA OneNumber == ASSUME NEW n \in Nat PROVE {n} \in Options /\ Number({n}) = n
<1>1. (CHOOSE m \in {n} : TRUE) = n OBVIOUS
<1> QED BY <1>1 DEF Options, Number

\* Options add as numbers, and what was not reported adds nothing.
LEMMA OptionsAdd ==
    ASSUME NEW a \in Options, NEW b \in Options
    PROVE  /\ AddOpt(a, b) \in Options /\ Number(AddOpt(a, b)) = Number(a) + Number(b)
           /\ AddOpt(a, b) = AddOpt(b, a) /\ AddOpt(a, {}) = a /\ AddOpt({}, a) = a
<1>1. Number(a) \in Nat /\ (a = {} \/ a = {Number(a)}) /\ (a = {} => Number(a) = 0) BY OptionIs
<1>2. Number(b) \in Nat /\ (b = {} \/ b = {Number(b)}) /\ (b = {} => Number(b) = 0) BY OptionIs
<1>3. Number({}) = 0 /\ {} \in Options BY DEF Number, Options
<1>4. Number(a) + Number(b) \in Nat /\ Number(a) + Number(b) = Number(b) + Number(a) BY <1>1, <1>2
<1>5. /\ {Number(a) + Number(b)} \in Options
      /\ Number({Number(a) + Number(b)}) = Number(a) + Number(b)
  BY <1>4, OneNumber
<1>6. AddOpt(a, b) \in Options /\ Number(AddOpt(a, b)) = Number(a) + Number(b)
  BY <1>1, <1>2, <1>3, <1>5 DEF AddOpt
<1>7. AddOpt(a, b) = AddOpt(b, a) BY <1>4 DEF AddOpt
<1>8. AddOpt(a, {}) = a
  <2>1. CASE a = {} BY <2>1 DEF AddOpt
  <2>2. CASE a # {}
    <3>1. Number(a) + Number({}) = Number(a) BY <1>1, <1>3
    <3> QED BY <1>1, <2>2, <3>1 DEF AddOpt
  <2> QED BY <2>1, <2>2
<1>9. AddOpt({}, a) = a
  <2>1. CASE a = {} BY <2>1 DEF AddOpt
  <2>2. CASE a # {}
    <3>1. Number({}) + Number(a) = Number(a) BY <1>1, <1>3
    <3> QED BY <1>1, <2>2, <3>1 DEF AddOpt
  <2> QED BY <2>1, <2>2
<1> QED BY <1>6, <1>7, <1>8, <1>9

\* The order in which options are added makes no difference.
LEMMA OptionsAssociate ==
    ASSUME NEW a \in Options, NEW b \in Options, NEW c \in Options
    PROVE  AddOpt(AddOpt(a, b), c) = AddOpt(a, AddOpt(b, c))
<1>1. CASE a = {}
  <2>1. AddOpt(b, c) \in Options BY OptionsAdd
  <2> QED BY <1>1, <2>1, OptionsAdd
<1>2. CASE b = {}
  <2> QED BY <1>2, OptionsAdd
<1>3. CASE c = {}
  <2>1. AddOpt(a, b) \in Options BY OptionsAdd
  <2> QED BY <1>3, <2>1, OptionsAdd
<1>4. CASE a # {} /\ b # {} /\ c # {}
  <2>1. Number(a) \in Nat /\ Number(b) \in Nat /\ Number(c) \in Nat BY OptionIs
  <2>2. AddOpt(a, b) = {Number(a) + Number(b)} /\ AddOpt(b, c) = {Number(b) + Number(c)} BY <1>4 DEF AddOpt
  <2>3. /\ Number(AddOpt(a, b)) = Number(a) + Number(b)
        /\ Number(AddOpt(b, c)) = Number(b) + Number(c)
    BY OptionsAdd
  <2>4. /\ AddOpt(AddOpt(a, b), c) = {Number(AddOpt(a, b)) + Number(c)}
        /\ AddOpt(a, AddOpt(b, c)) = {Number(a) + Number(AddOpt(b, c))}
    BY <1>4, <2>2 DEF AddOpt
  <2>5. (Number(a) + Number(b)) + Number(c) = Number(a) + (Number(b) + Number(c)) BY <2>1
  <2> QED BY <2>3, <2>4, <2>5
<1> QED BY <1>1, <1>2, <1>3, <1>4

\* So do token counts, kind by kind.
LEMMA CountsAdd ==
    ASSUME NEW a \in Counts, NEW b \in Counts
    PROVE  /\ AddTokens(a, b) \in Counts /\ NoTokens \in Counts
           /\ AddTokens(a, b) = AddTokens(b, a) /\ AddTokens(a, NoTokens) = a /\ AddTokens(NoTokens, a) = a
<1>1. \A k \in Kinds : a[k] \in Options /\ b[k] \in Options BY DEF Counts
<1>2. \A k \in Kinds : /\ AddOpt(a[k], b[k]) \in Options /\ AddOpt(a[k], b[k]) = AddOpt(b[k], a[k])
                       /\ AddOpt(a[k], {}) = a[k] /\ AddOpt({}, a[k]) = a[k]
  BY <1>1, OptionsAdd
<1>3. {} \in Options BY DEF Options
<1>4. a = [k \in Kinds |-> a[k]] BY DEF Counts
<1>5. AddTokens(a, b) \in Counts BY <1>2 DEF AddTokens, Counts
<1>6. NoTokens \in Counts BY <1>3 DEF NoTokens, Counts
<1>7. AddTokens(a, b) = AddTokens(b, a) BY <1>2 DEF AddTokens
<1>8. AddTokens(a, NoTokens) = a /\ AddTokens(NoTokens, a) = a BY <1>2, <1>4 DEF AddTokens, NoTokens
<1> QED BY <1>5, <1>6, <1>7, <1>8

\* Nor that in which counts of tokens are.
LEMMA CountsAssociate ==
    ASSUME NEW a \in Counts, NEW b \in Counts, NEW c \in Counts
    PROVE  AddTokens(AddTokens(a, b), c) = AddTokens(a, AddTokens(b, c))
<1>1. \A k \in Kinds : a[k] \in Options /\ b[k] \in Options /\ c[k] \in Options BY DEF Counts
<1>2. \A k \in Kinds : AddOpt(AddOpt(a[k], b[k]), c[k]) = AddOpt(a[k], AddOpt(b[k], c[k]))
  BY <1>1, OptionsAssociate
<1> QED BY <1>2 DEF AddTokens

\* A sum of calls; one of none is the empty one.
Sums == {t \in [tokens : Counts, cost : Options, source : Sources, calls : Nat] : t.calls = 0 => t = NoTotals}

\* What a sum of usage is; of no calls there is one.
LEMMA SumIs ==
    ASSUME NEW t \in Sums
    PROVE  /\ t = [tokens |-> t.tokens, cost |-> t.cost, source |-> t.source, calls |-> t.calls]
           /\ t.tokens \in Counts /\ t.cost \in Options /\ t.source \in Sources /\ t.calls \in Nat
           /\ t.calls = 0 => t = NoTotals
BY DEF Sums

\* The sum of no calls.
LEMMA NoTotalsIs == NoTotals \in Sums /\ NoTotals.calls = 0 /\ NoTotals.tokens = NoTokens /\ NoTotals.cost = {}
<1>1. NoTokens \in Counts BY DEF NoTokens, Counts, Options
<1>2. {} \in Options BY DEF Options
<1> QED BY <1>1, <1>2 DEF NoTotals, Sums, Sources

\* Where prices come from combines in any order.
LEMMA SourcesCombine ==
    ASSUME NEW a \in Sources, NEW b \in Sources, NEW c \in Sources
    PROVE  /\ Combine(a, b) \in Sources /\ Combine(a, b) = Combine(b, a)
           /\ Combine(Combine(a, b), c) = Combine(a, Combine(b, c))
BY DEF Sources, Combine

\* What two sums of some calls each merge into.
LEMMA MergeIs ==
    ASSUME NEW a \in Sums, NEW b \in Sums, a.calls # 0, b.calls # 0
    PROVE  /\ Merge(a, b) = [tokens |-> AddTokens(a.tokens, b.tokens), cost |-> AddOpt(a.cost, b.cost),
                             source |-> Combine(a.source, b.source), calls |-> a.calls + b.calls]
           /\ Merge(a, b) \in Sums /\ Merge(a, b).calls # 0
<1>1. /\ a.tokens \in Counts /\ a.cost \in Options /\ a.source \in Sources /\ a.calls \in Nat
      /\ b.tokens \in Counts /\ b.cost \in Options /\ b.source \in Sources /\ b.calls \in Nat
  BY SumIs
<1>2. /\ AddTokens(a.tokens, b.tokens) \in Counts /\ AddOpt(a.cost, b.cost) \in Options
      /\ Combine(a.source, b.source) \in Sources
  BY <1>1, CountsAdd, OptionsAdd, SourcesCombine
<1>3. a.calls + b.calls \in Nat /\ a.calls + b.calls # 0 BY <1>1
<1>4. Merge(a, b) = [tokens |-> AddTokens(a.tokens, b.tokens), cost |-> AddOpt(a.cost, b.cost),
                     source |-> Combine(a.source, b.source), calls |-> a.calls + b.calls]
  BY DEF Merge
<1>5. /\ Merge(a, b).tokens = AddTokens(a.tokens, b.tokens) /\ Merge(a, b).cost = AddOpt(a.cost, b.cost)
      /\ Merge(a, b).source = Combine(a.source, b.source) /\ Merge(a, b).calls = a.calls + b.calls
  BY <1>4
<1> QED BY <1>2, <1>3, <1>4, <1>5 DEF Sums

\* The sum of no calls adds nothing.
LEMMA MergeNothing == ASSUME NEW a \in Sums PROVE Merge(a, NoTotals) = a /\ Merge(NoTotals, a) = a
<1>1. Merge(a, NoTotals) = a BY NoTotalsIs DEF Merge
<1>2. Merge(NoTotals, a) = a
  <2>1. CASE a.calls = 0 BY <2>1, <1>1, SumIs
  <2>2. CASE a.calls # 0
    <3>1. /\ a = [tokens |-> a.tokens, cost |-> a.cost, source |-> a.source, calls |-> a.calls]
          /\ a.tokens \in Counts /\ a.cost \in Options /\ a.calls \in Nat
      BY SumIs
    <3>2. AddTokens(NoTokens, a.tokens) = a.tokens /\ AddOpt({}, a.cost) = a.cost /\ 0 + a.calls = a.calls
      BY <3>1, CountsAdd, OptionsAdd
    <3> QED BY <2>2, <3>1, <3>2, NoTotalsIs DEF Merge
  <2> QED BY <2>1, <2>2
<1> QED BY <1>1, <1>2

\* Sums merge to a sum.
LEMMA MergeTyped == ASSUME NEW a \in Sums, NEW b \in Sums PROVE Merge(a, b) \in Sums
<1>1. CASE a.calls = 0 BY <1>1, SumIs, MergeNothing
<1>2. CASE b.calls = 0 BY <1>2, SumIs, MergeNothing
<1>3. CASE a.calls # 0 /\ b.calls # 0 BY <1>3, MergeIs
<1> QED BY <1>1, <1>2, <1>3

\* The order in which sums are merged makes no difference.
LEMMA MergeCommutes == ASSUME NEW a \in Sums, NEW b \in Sums PROVE Merge(a, b) = Merge(b, a)
<1>1. CASE a.calls = 0 BY <1>1, SumIs, MergeNothing
<1>2. CASE b.calls = 0 BY <1>2, SumIs, MergeNothing
<1>3. CASE a.calls # 0 /\ b.calls # 0
  <2>1. /\ a.tokens \in Counts /\ a.cost \in Options /\ a.source \in Sources /\ a.calls \in Nat
        /\ b.tokens \in Counts /\ b.cost \in Options /\ b.source \in Sources /\ b.calls \in Nat
    BY SumIs
  <2>2. /\ AddTokens(a.tokens, b.tokens) = AddTokens(b.tokens, a.tokens)
        /\ AddOpt(a.cost, b.cost) = AddOpt(b.cost, a.cost)
        /\ Combine(a.source, b.source) = Combine(b.source, a.source) /\ a.calls + b.calls = b.calls + a.calls
    BY <2>1, CountsAdd, OptionsAdd, SourcesCombine
  <2>3. Merge(a, b) = [tokens |-> AddTokens(a.tokens, b.tokens), cost |-> AddOpt(a.cost, b.cost),
                       source |-> Combine(a.source, b.source), calls |-> a.calls + b.calls]
    BY <1>3, MergeIs, Zenon
  <2>4. Merge(b, a) = [tokens |-> AddTokens(b.tokens, a.tokens), cost |-> AddOpt(b.cost, a.cost),
                       source |-> Combine(b.source, a.source), calls |-> b.calls + a.calls]
    BY <1>3, MergeIs, Zenon
  <2> QED BY <2>2, <2>3, <2>4, Zenon
<1> QED BY <1>1, <1>2, <1>3

\* Three sums merge to one, whichever two are merged first.
LEMMA MergeAssociates ==
    ASSUME NEW a \in Sums, NEW b \in Sums, NEW c \in Sums
    PROVE  Merge(Merge(a, b), c) = Merge(a, Merge(b, c))
<1>1. Merge(a, b) \in Sums /\ Merge(b, c) \in Sums BY MergeTyped
<1>2. CASE a.calls = 0
  <2>1. a = NoTotals BY <1>2, SumIs
  <2> QED BY <1>1, <2>1, MergeNothing
<1>3. CASE b.calls = 0
  <2>1. b = NoTotals BY <1>3, SumIs
  <2> QED BY <1>1, <2>1, MergeNothing
<1>4. CASE c.calls = 0
  <2>1. c = NoTotals BY <1>4, SumIs
  <2> QED BY <1>1, <2>1, MergeNothing
<1>5. CASE a.calls # 0 /\ b.calls # 0 /\ c.calls # 0
  <2> DEFINE ab == Merge(a, b)
             bc == Merge(b, c)
  <2>1. /\ a.tokens \in Counts /\ a.cost \in Options /\ a.source \in Sources /\ a.calls \in Nat
        /\ b.tokens \in Counts /\ b.cost \in Options /\ b.source \in Sources /\ b.calls \in Nat
        /\ c.tokens \in Counts /\ c.cost \in Options /\ c.source \in Sources /\ c.calls \in Nat
    BY SumIs
  <2>2. /\ ab = [tokens |-> AddTokens(a.tokens, b.tokens), cost |-> AddOpt(a.cost, b.cost),
                 source |-> Combine(a.source, b.source), calls |-> a.calls + b.calls]
        /\ ab \in Sums /\ ab.calls # 0
    BY <1>5, MergeIs
  <2>3. /\ bc = [tokens |-> AddTokens(b.tokens, c.tokens), cost |-> AddOpt(b.cost, c.cost),
                 source |-> Combine(b.source, c.source), calls |-> b.calls + c.calls]
        /\ bc \in Sums /\ bc.calls # 0
    BY <1>5, MergeIs
  <2> HIDE DEF ab, bc
  <2>4. Merge(ab, c) = [tokens |-> AddTokens(ab.tokens, c.tokens), cost |-> AddOpt(ab.cost, c.cost),
                        source |-> Combine(ab.source, c.source), calls |-> ab.calls + c.calls]
    BY <1>5, <2>2, MergeIs
  <2>5. Merge(a, bc) = [tokens |-> AddTokens(a.tokens, bc.tokens), cost |-> AddOpt(a.cost, bc.cost),
                        source |-> Combine(a.source, bc.source), calls |-> a.calls + bc.calls]
    BY <1>5, <2>3, MergeIs
  <2>6. AddTokens(ab.tokens, c.tokens) = AddTokens(a.tokens, bc.tokens)
    <3>1. ab.tokens = AddTokens(a.tokens, b.tokens) /\ bc.tokens = AddTokens(b.tokens, c.tokens) BY <2>2, <2>3
    <3> QED BY <2>1, <3>1, CountsAssociate
  <2>7. AddOpt(ab.cost, c.cost) = AddOpt(a.cost, bc.cost)
    <3>1. ab.cost = AddOpt(a.cost, b.cost) /\ bc.cost = AddOpt(b.cost, c.cost) BY <2>2, <2>3
    <3> QED BY <2>1, <3>1, OptionsAssociate
  <2>8. Combine(ab.source, c.source) = Combine(a.source, bc.source)
    <3>1. ab.source = Combine(a.source, b.source) /\ bc.source = Combine(b.source, c.source) BY <2>2, <2>3
    <3> QED BY <2>1, <3>1, SourcesCombine
  <2>9. ab.calls + c.calls = a.calls + bc.calls
    <3>1. ab.calls = a.calls + b.calls /\ bc.calls = b.calls + c.calls BY <2>2, <2>3
    <3> QED BY <2>1, <3>1
  <2>10. Merge(ab, c) = Merge(a, bc) BY <2>4, <2>5, <2>6, <2>7, <2>8, <2>9
  <2> QED BY <2>10 DEF ab, bc
<1> QED BY <1>2, <1>3, <1>4, <1>5

\* The output a merge counts is the output of both.
LEMMA MergeOutput ==
    ASSUME NEW a \in Sums, NEW b \in Sums
    PROVE  Number(Merge(a, b).tokens["output"]) = Number(a.tokens["output"]) + Number(b.tokens["output"])
<1>1. \A t \in Sums : t.tokens \in Counts /\ t.tokens["output"] \in Options /\ Number(t.tokens["output"]) \in Nat
  <2> SUFFICES ASSUME NEW t \in Sums
               PROVE  t.tokens \in Counts /\ t.tokens["output"] \in Options /\ Number(t.tokens["output"]) \in Nat
    OBVIOUS
  <2>1. t.tokens \in Counts BY SumIs
  <2>2. t.tokens["output"] \in Options BY <2>1 DEF Counts, Kinds
  <2> QED BY <2>1, <2>2, OptionIs
<1>2. Number(NoTotals.tokens["output"]) = 0 BY DEF NoTotals, NoTokens, Kinds, Number
<1>3. CASE a.calls = 0
  <2>1. a = NoTotals BY <1>3, SumIs
  <2> QED BY <1>1, <1>2, <2>1, MergeNothing
<1>4. CASE b.calls = 0
  <2>1. b = NoTotals BY <1>4, SumIs
  <2> QED BY <1>1, <1>2, <2>1, MergeNothing
<1>5. CASE a.calls # 0 /\ b.calls # 0
  <2>1. Merge(a, b).tokens = AddTokens(a.tokens, b.tokens) BY <1>5 DEF Merge
  <2>2. Merge(a, b).tokens["output"] = AddOpt(a.tokens["output"], b.tokens["output"])
    BY <2>1 DEF AddTokens, Kinds
  <2> QED BY <1>1, <2>2, OptionsAdd
<1> QED BY <1>3, <1>4, <1>5

\* Sums merged one after the other are one merge more at each place.
RunningSum(w, f) ==
    /\ f[0] = NoTotals /\ (\A i \in 1 .. Len(w) : f[i] = Merge(f[i - 1], w[i]))
    /\ \A i \in 0 .. Len(w) : f[i] \in Sums
\* A merge of many is where merging one after the other leads.
LEMMA MergeSteps ==
    ASSUME NEW w \in Seq(Sums)
    PROVE  \E f : RunningSum(w, f) /\ MergeAll(w) = f[Len(w)]
<1> DEFINE n == Len(w)
           P(f) == f = [i \in 0 .. n |-> IF i = 0 THEN NoTotals ELSE Merge(f[i - 1], w[i])]
           step == [p \in (1 .. n) \X Sums |-> Merge(p[2], w[p[1]])]
           H == CHOOSE f : P(f)
<1>0. n \in Nat /\ \A i \in 1 .. n : w[i] \in Sums OBVIOUS
<1>1. \A i \in 1 .. n, x \in Sums : step[<<i, x>>] = Merge(x, w[i]) OBVIOUS
<1>2. Stays(Sums, n, step)
  <2> HIDE DEF step, n
  <2>1. ASSUME NEW i \in 1 .. n, NEW x \in Sums PROVE step[<<i, x>>] \in Sums
    <3>1. step[<<i, x>>] = Merge(x, w[i]) /\ w[i] \in Sums BY <1>0, <1>1
    <3> QED BY <3>1, MergeTyped
  <2> QED BY <2>1 DEF Stays
<1>3. \E f : P(f)
  <2>0. PICK f : Solves(Sums, NoTotals, n, step, f)
    <3> HIDE DEF step, n
    <3> QED BY <1>0, <1>2, StepsSolved, NoTotalsIs
  <2>1. /\ f = [i \in 0 .. n |-> f[i]] /\ f[0] = NoTotals
        /\ \A i \in 1 .. n : f[i] = step[<<i, f[i - 1]>>]
        /\ \A i \in 0 .. n : f[i] \in Sums
    <3> HIDE DEF step, n
    <3> QED BY <2>0 DEF Solves
  <2> HIDE DEF step
  <2>2. \A i \in 1 .. n : i - 1 \in 0 .. n
    <3> HIDE DEF n
    <3> QED BY <1>0
  <2>3. \A i \in 1 .. n : f[i] = Merge(f[i - 1], w[i])
    <3> HIDE DEF n
    <3> QED BY <1>1, <2>1, <2>2
  <2>4. f = [i \in 0 .. n |-> IF i = 0 THEN NoTotals ELSE Merge(f[i - 1], w[i])]
    <3> HIDE DEF n
    <3>1. \A i \in 0 .. n : i = 0 \/ i \in 1 .. n BY <1>0
    <3>2. \A i \in 0 .. n : f[i] = IF i = 0 THEN NoTotals ELSE Merge(f[i - 1], w[i]) BY <2>1, <2>3, <3>1
    <3> QED BY <2>1, <3>2
  <2> QED BY <2>4
<1>4. P(H)
  <2> HIDE DEF P
  <2> QED BY <1>3
<1>5. MergeAll(w) = H[n] BY DEF MergeAll
<1> HIDE DEF H, step
<1>6. H[0] = NoTotals /\ \A i \in 1 .. n : H[i] = Merge(H[i - 1], w[i])
  <2> HIDE DEF n
  <2> QED BY <1>0, <1>4
<1>7. 0 .. n \subseteq {i \in 0 .. n : H[i] \in Sums}
  <2> DEFINE S == {i \in 0 .. n : H[i] \in Sums}
  <2>1. 0 \in S BY <1>0, <1>6, NoTotalsIs
  <2>2. \A i \in 1 .. n : i - 1 \in S => i \in S
    <3> HIDE DEF n
    <3> QED BY <1>0, <1>6, MergeTyped
  <2>3. 0 .. n \subseteq S
    <3> HIDE DEF S, n
    <3> QED BY <1>0, <2>1, <2>2, ByPlaces
  <2> QED BY <2>3
<1> QED BY <1>5, <1>6, <1>7 DEF RunningSum

\* Merged sums are a sum.
LEMMA MergeAllTyped == ASSUME NEW w \in Seq(Sums) PROVE MergeAll(w) \in Sums
<1>1. Len(w) \in 0 .. Len(w) OBVIOUS
<1> QED BY <1>1, MergeSteps DEF RunningSum

\* Of no sums it is that of no calls.
LEMMA MergeAllNone == MergeAll(<<>>) = NoTotals
<1>1. <<>> \in Seq(Sums) /\ Len(<<>>) = 0 OBVIOUS
<1> QED BY <1>1, MergeSteps DEF RunningSum

\* Of one sum more, it is the merge with that one.
LEMMA MergeOneMore ==
    ASSUME NEW v \in Seq(Sums), NEW w \in Seq(Sums), Len(w) = Len(v) + 1, \A i \in 1 .. Len(v) : v[i] = w[i]
    PROVE  MergeAll(w) = Merge(MergeAll(v), w[Len(w)])
<1>0. Len(v) \in Nat /\ Len(w) \in 1 .. Len(w) /\ Len(w) - 1 = Len(v) OBVIOUS
<1>1. PICK f : RunningSum(w, f) /\ MergeAll(w) = f[Len(w)]
  BY MergeSteps
<1>2. PICK g : RunningSum(v, g) /\ MergeAll(v) = g[Len(v)]
  BY MergeSteps
<1> DEFINE S == {i \in 0 .. Len(v) : f[i] = g[i]}
<1>3. 0 \in S BY <1>0, <1>1, <1>2 DEF RunningSum
<1>4. ASSUME NEW i \in 1 .. Len(v), i - 1 \in S PROVE i \in S
  <2>1. i \in 1 .. Len(w) /\ i \in 0 .. Len(v) BY <1>0
  <2>2. f[i - 1] = g[i - 1] /\ v[i] = w[i] BY <1>4
  <2> QED BY <1>1, <1>2, <2>1, <2>2 DEF RunningSum
<1>5. 0 .. Len(v) \subseteq S
  <2> HIDE DEF S
  <2> QED BY <1>0, <1>3, <1>4, ByPlaces
<1>6. f[Len(v)] = g[Len(v)]
  <2>1. Len(v) \in 0 .. Len(v) BY <1>0
  <2>2. Len(v) \in S BY <1>5, <2>1
  <2> QED BY <2>2
<1>7. f[Len(w)] = Merge(f[Len(v)], w[Len(w)]) BY <1>0, <1>1 DEF RunningSum
<1> QED BY <1>1, <1>2, <1>6, <1>7

\* Of one sum grown, it is the merge with what it has grown by.
LEMMA MergeOneGrown ==
    ASSUME NEW v \in Seq(Sums), NEW w \in Seq(Sums), Len(v) = Len(w), NEW p \in 1 .. Len(w), NEW t \in Sums,
           \A i \in 1 .. Len(w) : i # p => w[i] = v[i], w[p] = Merge(v[p], t)
    PROVE  MergeAll(w) = Merge(MergeAll(v), t)
<1>0. Len(w) \in Nat /\ \A i \in 1 .. Len(w) : v[i] \in Sums /\ w[i] \in Sums OBVIOUS
<1>1. PICK f : RunningSum(w, f) /\ MergeAll(w) = f[Len(w)]
  BY MergeSteps
<1>2. PICK g : RunningSum(v, g) /\ MergeAll(v) = g[Len(w)]
  BY MergeSteps
<1> DEFINE S == {i \in 0 .. Len(w) : f[i] = IF i < p THEN g[i] ELSE Merge(g[i], t)}
<1>3. 0 \in S BY <1>0, <1>1, <1>2 DEF RunningSum
<1>4. ASSUME NEW i \in 1 .. Len(w), i - 1 \in S PROVE i \in S
  <2>1. i \in 0 .. Len(w) /\ i - 1 \in 0 .. Len(w) /\ i \in Nat /\ p \in Nat BY <1>0
  <2>2. f[i] = Merge(f[i - 1], w[i]) /\ g[i] = Merge(g[i - 1], v[i]) BY <1>1, <1>2 DEF RunningSum
  <2>3. f[i - 1] \in Sums /\ g[i - 1] \in Sums /\ v[i] \in Sums BY <1>0, <1>1, <1>2, <2>1 DEF RunningSum
  <2>4. f[i - 1] = IF i - 1 < p THEN g[i - 1] ELSE Merge(g[i - 1], t) BY <1>4
  <2>5. CASE i < p
    <3>1. f[i - 1] = g[i - 1] /\ w[i] = v[i] BY <2>1, <2>4, <2>5
    <3> QED BY <2>1, <2>2, <2>5, <3>1
  <2>6. CASE i = p
    <3>1. f[i - 1] = g[i - 1] /\ w[i] = Merge(v[i], t) BY <2>1, <2>4, <2>6
    <3>2. f[i] = Merge(g[i], t) BY <2>2, <2>3, <3>1, MergeAssociates
    <3> QED BY <2>1, <2>6, <3>2
  <2>7. CASE i > p
    <3>1. f[i - 1] = Merge(g[i - 1], t) /\ w[i] = v[i] BY <2>1, <2>4, <2>7
    <3>2. Merge(Merge(g[i - 1], t), v[i]) = Merge(g[i - 1], Merge(t, v[i])) BY <2>3, MergeAssociates
    <3>3. Merge(t, v[i]) = Merge(v[i], t) BY <2>3, MergeCommutes
    <3>4. Merge(g[i - 1], Merge(v[i], t)) = Merge(Merge(g[i - 1], v[i]), t) BY <2>3, MergeAssociates
    <3>5. f[i] = Merge(g[i], t) BY <2>2, <3>1, <3>2, <3>3, <3>4
    <3> QED BY <2>1, <2>7, <3>5
  <2> QED BY <2>1, <2>5, <2>6, <2>7
<1>5. 0 .. Len(w) \subseteq S
  <2> HIDE DEF S
  <2> QED BY <1>0, <1>3, <1>4, ByPlaces
<1>6. f[Len(w)] = Merge(g[Len(w)], t)
  <2>1. Len(w) \in 0 .. Len(w) /\ ~(Len(w) < p) BY <1>0
  <2>2. Len(w) \in S BY <1>5, <2>1
  <2> QED BY <2>1, <2>2
<1> QED BY <1>1, <1>2, <1>6

\* Of sums that are each a merge of two, it is the merge of the two parts.
LEMMA MergeOfParts ==
    ASSUME NEW u \in Seq(Sums), NEW v \in Seq(Sums), NEW w \in Seq(Sums), Len(u) = Len(w), Len(v) = Len(w),
           \A i \in 1 .. Len(w) : w[i] = Merge(u[i], v[i])
    PROVE  MergeAll(w) = Merge(MergeAll(u), MergeAll(v))
<1>0. Len(w) \in Nat /\ \A i \in 1 .. Len(w) : u[i] \in Sums /\ v[i] \in Sums OBVIOUS
<1>1. PICK f : RunningSum(w, f) /\ MergeAll(w) = f[Len(w)]
  BY MergeSteps
<1>2. PICK g : RunningSum(u, g) /\ MergeAll(u) = g[Len(w)]
  BY MergeSteps
<1>3. PICK h : RunningSum(v, h) /\ MergeAll(v) = h[Len(w)]
  BY MergeSteps
<1> DEFINE S == {i \in 0 .. Len(w) : f[i] = Merge(g[i], h[i])}
<1>4. 0 \in S BY <1>0, <1>1, <1>2, <1>3, NoTotalsIs, MergeNothing DEF RunningSum
<1>5. ASSUME NEW i \in 1 .. Len(w), i - 1 \in S PROVE i \in S
  <2>1. i \in 0 .. Len(w) /\ i - 1 \in 0 .. Len(w) BY <1>0
  <2>2. f[i - 1] = Merge(g[i - 1], h[i - 1]) /\ w[i] = Merge(u[i], v[i]) BY <1>5
  <2> DEFINE a == g[i - 1]
             b == h[i - 1]
             c == u[i]
             d == v[i]
  <2>3. a \in Sums /\ b \in Sums /\ c \in Sums /\ d \in Sums BY <1>0, <1>2, <1>3, <2>1 DEF RunningSum
  <2>4. f[i] = Merge(Merge(a, b), Merge(c, d)) /\ g[i] = Merge(a, c) /\ h[i] = Merge(b, d)
    BY <1>1, <1>2, <1>3, <2>2 DEF RunningSum
  <2> HIDE DEF a, b, c, d
  <2>5. Merge(c, d) \in Sums /\ Merge(b, d) \in Sums BY <2>3, MergeTyped
  <2>6. Merge(Merge(a, b), Merge(c, d)) = Merge(a, Merge(b, Merge(c, d))) BY <2>3, <2>5, MergeAssociates
  <2>7. Merge(b, Merge(c, d)) = Merge(Merge(b, c), d) BY <2>3, MergeAssociates
  <2>8. Merge(b, c) = Merge(c, b) BY <2>3, MergeCommutes
  <2>9. Merge(Merge(c, b), d) = Merge(c, Merge(b, d)) BY <2>3, MergeAssociates
  <2>10. Merge(a, Merge(c, Merge(b, d))) = Merge(Merge(a, c), Merge(b, d)) BY <2>3, <2>5, MergeAssociates
  <2>11. f[i] = Merge(g[i], h[i]) BY <2>4, <2>6, <2>7, <2>8, <2>9, <2>10
  <2> QED BY <2>1, <2>11
<1>6. 0 .. Len(w) \subseteq S
  <2> HIDE DEF S
  <2> QED BY <1>0, <1>4, <1>5, ByPlaces
<1>7. f[Len(w)] = Merge(g[Len(w)], h[Len(w)])
  <2>1. Len(w) \in 0 .. Len(w) BY <1>0
  <2>2. Len(w) \in S BY <1>6, <2>1
  <2> QED BY <2>2
<1> QED BY <1>1, <1>2, <1>3, <1>7

------------------------------------------------------------------------------
(* Accounting: the lines of a ledger.                                        *)

Posts == [line : [session : Nat, role : Roles, agent : Agents, model : SUBSET STRING], totals : Sums]

PartOf(l, roles) == [i \in DOMAIN l |-> IF l[i].line.role \in roles THEN l[i].totals ELSE NoTotals]

\* The part of some roles is the lines' sums, the other roles' left out.
LEMMA PartIs ==
    ASSUME NEW l \in Seq(Posts), NEW roles
    PROVE  /\ PartOf(l, roles) \in Seq(Sums) /\ Len(PartOf(l, roles)) = Len(l)
           /\ \A i \in 1 .. Len(l) : PartOf(l, roles)[i] = IF l[i].line.role \in roles THEN l[i].totals ELSE NoTotals
           /\ SumOf(l, roles) = MergeAll(PartOf(l, roles)) /\ SumOf(l, roles) \in Sums
<1>1. \A i \in 1 .. Len(l) : l[i] \in Posts OBVIOUS
<1>2. \A i \in 1 .. Len(l) : l[i].totals \in Sums BY <1>1 DEF Posts
<1>3. DOMAIN l = 1 .. Len(l) /\ Len(l) \in Nat OBVIOUS
<1>4. PartOf(l, roles) = [i \in 1 .. Len(l) |-> IF l[i].line.role \in roles THEN l[i].totals ELSE NoTotals]
  BY <1>3 DEF PartOf
<1>5. PartOf(l, roles) \in [1 .. Len(l) -> Sums] BY <1>2, <1>4, NoTotalsIs
<1>6. PartOf(l, roles) \in Seq(Sums) BY <1>3, <1>5
<1>7. Len(PartOf(l, roles)) = Len(l) BY <1>3, <1>5, <1>6
<1>8. SumOf(l, roles) = MergeAll(PartOf(l, roles)) BY DEF SumOf, PartOf
<1>9. SumOf(l, roles) \in Sums BY <1>6, <1>8, MergeAllTyped
<1> QED BY <1>4, <1>6, <1>7, <1>8, <1>9

\* The total is the merge of the two roles' sums: every line is of one of them.
LEMMA RolesMerge ==
    ASSUME NEW l \in Seq(Posts)
    PROVE  SumOf(l, Roles) = Merge(SumOf(l, {"worker"}), SumOf(l, {"ruler"}))
<1> DEFINE w == PartOf(l, Roles)
           u == PartOf(l, {"worker"})
           v == PartOf(l, {"ruler"})
<1>1. ASSUME NEW i \in 1 .. Len(l) PROVE w[i] = Merge(u[i], v[i])
  <2>1. l[i] \in Posts OBVIOUS
  <2>2. l[i].totals \in Sums /\ l[i].line.role \in {"worker", "ruler"} BY <2>1 DEF Posts, Roles
  <2>3. w[i] = l[i].totals BY <2>2, PartIs DEF Roles
  <2>4. CASE l[i].line.role = "worker"
    <3>1. u[i] = l[i].totals /\ v[i] = NoTotals BY <2>4, PartIs
    <3> QED BY <2>2, <2>3, <3>1, MergeNothing
  <2>5. CASE l[i].line.role = "ruler"
    <3>1. u[i] = NoTotals /\ v[i] = l[i].totals BY <2>5, PartIs
    <3> QED BY <2>2, <2>3, <3>1, MergeNothing
  <2> QED BY <2>2, <2>4, <2>5
<1>2. /\ w \in Seq(Sums) /\ u \in Seq(Sums) /\ v \in Seq(Sums)
      /\ Len(w) = Len(l) /\ Len(u) = Len(l) /\ Len(v) = Len(l)
      /\ SumOf(l, Roles) = MergeAll(w) /\ SumOf(l, {"worker"}) = MergeAll(u) /\ SumOf(l, {"ruler"}) = MergeAll(v)
  BY PartIs
<1> HIDE DEF w, u, v
<1> QED BY <1>1, <1>2, MergeOfParts

\* A call recorded adds itself to the total.
CallSum(u) == [tokens |-> u.tokens, cost |-> u.cost, source |-> CostSource(u.cost), calls |-> 1]

\* To count a call is to merge with the sum of that call.
LEMMA CallIs ==
    ASSUME NEW u \in Usages
    PROVE  CallSum(u) \in Sums /\ (\A t \in Sums : AddCall(t, u) = Merge(t, CallSum(u))) /\ AddCall(NoTotals, u) = CallSum(u)
<1>1. u.tokens \in Counts /\ u.cost \in Options BY DEF Usages
<1>2. CallSum(u) \in Sums BY <1>1 DEF CallSum, Sums, CostSource, Sources
<1>3. \A t : AddCall(t, u) = Merge(t, CallSum(u)) BY DEF AddCall, CallSum
<1>4. AddCall(NoTotals, u) = CallSum(u) BY <1>2, <1>3, MergeNothing
<1> QED BY <1>2, <1>3, <1>4

\* A call recorded is added to the record's total, on a line of its own or on one there is.
LEMMA RecordAdds ==
    ASSUME NEW l \in Seq(Posts), NEW s \in Nat, NEW role \in Roles, NEW agent \in Agents, NEW u \in Usages
    PROVE  /\ Record(l, s, role, agent, u) \in Seq(Posts)
           /\ SumOf(Record(l, s, role, agent, u), Roles) = Merge(SumOf(l, Roles), CallSum(u))
<1> DEFINE n == Len(l)
           line == Line(s, role, agent, u)
           filed == {i \in DOMAIN l : l[i].line = line}
           p == CHOOSE i \in filed : TRUE
           m == Record(l, s, role, agent, u)
<1>1. line \in [session : Nat, role : Roles, agent : Agents, model : SUBSET STRING] BY DEF Line, Usages
<1>2. n \in Nat /\ DOMAIN l = 1 .. n /\ \A i \in 1 .. n : l[i] \in Posts OBVIOUS
<1>3. \A i \in 1 .. n : l[i].totals \in Sums /\ l[i].line.role \in Roles BY <1>2 DEF Posts
<1>4. CallSum(u) \in Sums BY CallIs
<1>5. PartOf(l, Roles) \in Seq(Sums) /\ Len(PartOf(l, Roles)) = n /\ \A i \in 1 .. n : PartOf(l, Roles)[i] = l[i].totals
  BY <1>3, PartIs
<1>6. CASE filed = {}
  <2> DEFINE post == [line |-> line, totals |-> AddCall(NoTotals, u)]
  <2>1. post \in Posts BY <1>1, <1>4, CallIs DEF Posts
  <2>2. m = Append(l, post) BY <1>6 DEF Record
  <2> HIDE DEF post
  <2>3. m \in Seq(Posts) /\ Len(m) = n + 1 /\ (\A i \in 1 .. n : m[i] = l[i]) /\ m[n + 1] = post BY <2>1, <2>2
  <2> HIDE DEF m
  <2>4. /\ PartOf(m, Roles) \in Seq(Sums) /\ Len(PartOf(m, Roles)) = n + 1
        /\ \A i \in 1 .. n + 1 : PartOf(m, Roles)[i] = IF m[i].line.role \in Roles THEN m[i].totals ELSE NoTotals
    BY <2>3, PartIs
  <2>5. \A i \in 1 .. n : PartOf(m, Roles)[i] = PartOf(l, Roles)[i] BY <1>2, <1>3, <1>5, <2>3, <2>4
  <2>6. PartOf(m, Roles)[n + 1] = CallSum(u)
    <3>1. post.line.role \in Roles /\ post.totals = CallSum(u) BY <1>1, CallIs DEF post
    <3> QED BY <1>2, <2>3, <2>4, <3>1
  <2>7. MergeAll(PartOf(m, Roles)) = Merge(MergeAll(PartOf(l, Roles)), CallSum(u))
    <3> DEFINE v == PartOf(l, Roles)
               w == PartOf(m, Roles)
    <3>1. v \in Seq(Sums) /\ w \in Seq(Sums) /\ Len(w) = Len(v) + 1 /\ \A i \in 1 .. Len(v) : v[i] = w[i]
      BY <1>5, <2>4, <2>5
    <3>2. w[Len(w)] = CallSum(u) BY <2>4, <2>6
    <3> HIDE DEF v, w
    <3>3. MergeAll(w) = Merge(MergeAll(v), CallSum(u)) BY <3>1, <3>2, MergeOneMore
    <3> QED BY <3>3 DEF v, w
  <2> QED BY <2>3, <2>7, PartIs DEF m
<1>7. CASE filed # {}
  <2>1. p \in filed BY <1>7
  <2>2. p \in 1 .. n /\ l[p].line = line BY <1>2, <2>1
  <2> DEFINE post == [l[p] EXCEPT !.totals = AddCall(@, u)]
  <2>3. m = [l EXCEPT ![p] = post] BY <1>7 DEF Record
  <2> HIDE DEF p
  <2>4. l[p] \in Posts /\ l[p].totals \in Sums BY <1>2, <1>3, <2>2
  <2>5. AddCall(l[p].totals, u) = Merge(l[p].totals, CallSum(u)) /\ Merge(l[p].totals, CallSum(u)) \in Sums
    BY <1>4, <2>4, CallIs, MergeTyped
  <2>6. post \in Posts /\ post.line = l[p].line /\ post.totals = Merge(l[p].totals, CallSum(u)) BY <2>4, <2>5 DEF Posts
  <2> HIDE DEF post
  <2>7. m \in Seq(Posts) /\ Len(m) = n /\ (\A i \in 1 .. n : i # p => m[i] = l[i]) /\ m[p] = post
    BY <1>2, <2>2, <2>3, <2>6
  <2> HIDE DEF m
  <2>8. /\ PartOf(m, Roles) \in Seq(Sums) /\ Len(PartOf(m, Roles)) = n
        /\ \A i \in 1 .. n : PartOf(m, Roles)[i] = IF m[i].line.role \in Roles THEN m[i].totals ELSE NoTotals
    BY <2>7, PartIs
  <2>9. \A i \in 1 .. n : i # p => PartOf(m, Roles)[i] = PartOf(l, Roles)[i] BY <1>3, <1>5, <2>7, <2>8
  <2>10. PartOf(m, Roles)[p] = Merge(PartOf(l, Roles)[p], CallSum(u)) BY <1>3, <1>5, <2>2, <2>6, <2>7, <2>8
  <2>11. MergeAll(PartOf(m, Roles)) = Merge(MergeAll(PartOf(l, Roles)), CallSum(u))
    <3> DEFINE v == PartOf(l, Roles)
               w == PartOf(m, Roles)
    <3>1. /\ v \in Seq(Sums) /\ w \in Seq(Sums) /\ Len(v) = Len(w) /\ p \in 1 .. Len(w)
          /\ \A i \in 1 .. Len(w) : i # p => w[i] = v[i]
          /\ w[p] = Merge(v[p], CallSum(u))
      BY <1>5, <2>2, <2>8, <2>9, <2>10
    <3> HIDE DEF v, w
    <3>2. MergeAll(w) = Merge(MergeAll(v), CallSum(u)) BY <1>4, <3>1, MergeOneGrown
    <3> QED BY <3>2 DEF v, w
  <2> QED BY <2>7, <2>11, PartIs DEF m
<1> QED BY <1>6, <1>7

------------------------------------------------------------------------------
(* Accounting: the counters.                                                 *)

Tallies == [tokens : Nat, cost : Options]
PerAgent == UNION {[D -> Tallies] : D \in SUBSET Agents}
Counters ==
    [session : Nat, tokens : Nat, cost : Nat, per_agent : PerAgent, inherited : Nat \X Nat,
     lifetime_base : Nat, streak : Nat, waiting : BOOLEAN]

\* Books whose counters and lines tell the same spending.
Reconciled(books) ==
    /\ books \in [counters : Counters, ledger : Seq(Posts)]
    /\ AgentsAgree(books.counters) /\ LedgerAgrees(books.counters, books.ledger)

\* What a charge leaves alone.
SameBut(s, t) ==
    /\ t.session = s.session /\ t.inherited = s.inherited /\ t.lifetime_base = s.lifetime_base
    /\ t.streak = s.streak /\ t.waiting = s.waiting

\* The counters, one by one.
LEMMA CountersAre ==
    ASSUME NEW s \in Counters
    PROVE  /\ s.session \in Nat /\ s.tokens \in Nat /\ s.cost \in Nat /\ s.per_agent \in PerAgent
           /\ s.inherited \in Nat \X Nat /\ s.lifetime_base \in Nat /\ s.streak \in Nat /\ s.waiting \in BOOLEAN
BY DEF Counters

\* The output of a call is a number, the one its sum counts.
LEMMA OutputIs ==
    ASSUME NEW u \in Usages
    PROVE  /\ OutputOf(u) \in Nat /\ Number(u.cost) \in Nat /\ u.cost \in Options
           /\ Number(CallSum(u).tokens["output"]) = OutputOf(u)
<1>1. u.tokens \in Counts /\ u.cost \in Options BY DEF Usages
<1>2. u.tokens["output"] \in Options BY <1>1 DEF Counts, Kinds
<1> QED BY <1>1, <1>2, OptionIs DEF OutputOf, CallSum

\* An agent's own counters, there or not yet.
LEMMA OfAgentIs ==
    ASSUME NEW p \in PerAgent, NEW a
    PROVE  /\ OfAgent(p, a) \in Tallies /\ OfAgent(p, a).tokens \in Nat
           /\ OfAgent(p, a).cost \in Options /\ Number(OfAgent(p, a).cost) \in Nat
<1>1. {} \in Options BY DEF Options
<1>2. OfAgent(p, a) \in Tallies BY <1>1 DEF PerAgent, OfAgent, Tallies
<1>3. OfAgent(p, a).tokens \in Nat /\ OfAgent(p, a).cost \in Options BY <1>2 DEF Tallies
<1> QED BY <1>2, <1>3, OptionIs

\* A charge goes to the agent it is of, and to no other.
LEMMA ChargeIs ==
    ASSUME NEW p \in PerAgent, NEW agent \in Agents, NEW u \in Usages
    PROVE  /\ Charge(p, agent, u) \in PerAgent
           /\ OfAgent(Charge(p, agent, u), agent).tokens = OfAgent(p, agent).tokens + OutputOf(u)
           /\ Number(OfAgent(Charge(p, agent, u), agent).cost) = Number(OfAgent(p, agent).cost) + Number(u.cost)
           /\ \A a \in Agents : a # agent => OfAgent(Charge(p, agent, u), a) = OfAgent(p, a)
<1> DEFINE before == OfAgent(p, agent)
           after == [tokens |-> before.tokens + OutputOf(u), cost |-> AddOpt(before.cost, u.cost)]
           D == DOMAIN p \cup {agent}
           q == [a \in D |-> IF a = agent THEN after ELSE p[a]]
<1>1. before.tokens \in Nat /\ before.cost \in Options BY OfAgentIs
<1>2. OutputOf(u) \in Nat /\ u.cost \in Options BY OutputIs
<1>3. AddOpt(before.cost, u.cost) \in Options /\ Number(AddOpt(before.cost, u.cost)) = Number(before.cost) + Number(u.cost)
  BY <1>1, <1>2, OptionsAdd
<1>4. before.tokens + OutputOf(u) \in Nat BY <1>1, <1>2
<1>5. after \in Tallies BY <1>3, <1>4 DEF Tallies
<1>6. Charge(p, agent, u) = q BY DEF Charge
<1>7. after.tokens = before.tokens + OutputOf(u) /\ after.cost = AddOpt(before.cost, u.cost) OBVIOUS
<1> HIDE DEF before, after
<1>8. PICK E \in SUBSET Agents : p \in [E -> Tallies] BY DEF PerAgent
<1>9. D \in SUBSET Agents /\ \A a \in D : a # agent => p[a] \in Tallies BY <1>8
<1>10. q \in [D -> Tallies] BY <1>5, <1>9
<1>11. q \in PerAgent BY <1>9, <1>10 DEF PerAgent
<1>12. OfAgent(q, agent) = after BY DEF OfAgent
<1>13. \A a \in Agents : a # agent => OfAgent(q, a) = OfAgent(p, a) BY DEF OfAgent
<1> QED BY <1>3, <1>6, <1>7, <1>11, <1>12, <1>13 DEF before

\* A call charged is charged everywhere.
LEMMA ChargeReconciles ==
    ASSUME NEW b, Reconciled(b), NEW role \in Roles, NEW agent \in Agents, NEW u \in Usages
    PROVE  /\ Reconciled(ChargeUsage(b, role, agent, u))
           /\ SameBut(b.counters, ChargeUsage(b, role, agent, u).counters)
           /\ ChargeUsage(b, role, agent, u).counters.tokens = b.counters.tokens + OutputOf(u)
<1> DEFINE s == b.counters
           l == b.ledger
           c == ChargeUsage(b, role, agent, u)
           t == c.counters
           m == c.ledger
           Of(a) == OfAgent(s.per_agent, a)
           After(a) == OfAgent(t.per_agent, a)
<1>0. c = [counters |-> c.counters, ledger |-> c.ledger] BY DEF ChargeUsage
<1>1. /\ s \in Counters /\ l \in Seq(Posts) /\ AgentsAgree(s) /\ LedgerAgrees(s, l) BY DEF Reconciled
<1>2. /\ s.session \in Nat /\ s.tokens \in Nat /\ s.cost \in Nat /\ s.per_agent \in PerAgent
      /\ s.inherited \in Nat \X Nat
  BY <1>1, CountersAre
<1>3. OutputOf(u) \in Nat /\ Number(u.cost) \in Nat BY OutputIs
<1>4. t = [s EXCEPT !.tokens = @ + OutputOf(u), !.cost = @ + Number(u.cost), !.per_agent = Charge(@, agent, u)]
      /\ m = Record(l, s.session, role, agent, u)
  BY DEF ChargeUsage
<1>5. Charge(s.per_agent, agent, u) \in PerAgent BY <1>2, ChargeIs
<1>6. s.tokens + OutputOf(u) \in Nat /\ s.cost + Number(u.cost) \in Nat BY <1>2, <1>3
<1> HIDE DEF c
<1>7. /\ t \in Counters /\ t.tokens = s.tokens + OutputOf(u) /\ t.cost = s.cost + Number(u.cost)
      /\ t.per_agent = Charge(s.per_agent, agent, u) /\ t.inherited = s.inherited /\ SameBut(s, t)
  BY <1>1, <1>4, <1>5, <1>6 DEF Counters, SameBut
<1>8. m \in Seq(Posts) /\ SumOf(m, Roles) = Merge(SumOf(l, Roles), CallSum(u)) BY <1>1, <1>2, <1>4, RecordAdds
<1> HIDE DEF t, m
<1>9. AgentsAgree(t)
  <2>1. /\ DOMAIN s.per_agent \subseteq Agents
        /\ s.tokens = Of("claude").tokens + Of("codex").tokens + Of("copilot").tokens
        /\ s.cost = Number(Of("claude").cost) + Number(Of("codex").cost) + Number(Of("copilot").cost)
    BY <1>1 DEF AgentsAgree
  <2>2. /\ After(agent).tokens = Of(agent).tokens + OutputOf(u)
        /\ Number(After(agent).cost) = Number(Of(agent).cost) + Number(u.cost)
        /\ \A a \in Agents : a # agent => After(a) = Of(a)
    BY <1>2, <1>7, ChargeIs
  <2>3. \A a : Of(a).tokens \in Nat /\ Number(Of(a).cost) \in Nat BY <1>2, OfAgentIs
  <2>4. DOMAIN t.per_agent \subseteq Agents
    <3>1. t.per_agent \in PerAgent BY <1>5, <1>7
    <3> QED BY <3>1 DEF PerAgent
  <2> HIDE DEF Of, After
  <2>5. PICK f, g : f = [a \in Agents |-> Of(a).tokens] /\ g = [a \in Agents |-> Number(Of(a).cost)] OBVIOUS
  <2>6. /\ t.tokens = After("claude").tokens + After("codex").tokens + After("copilot").tokens
        /\ t.cost = Number(After("claude").cost) + Number(After("codex").cost) + Number(After("copilot").cost)
    <3>1. CASE agent = "claude"
      <4>1. After("codex") = Of("codex") /\ After("copilot") = Of("copilot") BY <2>2, <3>1 DEF Agents
      <4> QED BY <1>3, <1>7, <2>1, <2>2, <2>3, <3>1, <4>1
    <3>2. CASE agent = "codex"
      <4>1. After("claude") = Of("claude") /\ After("copilot") = Of("copilot") BY <2>2, <3>2 DEF Agents
      <4> QED BY <1>3, <1>7, <2>1, <2>2, <2>3, <3>2, <4>1
    <3>3. CASE agent = "copilot"
      <4>1. After("claude") = Of("claude") /\ After("codex") = Of("codex") BY <2>2, <3>3 DEF Agents
      <4> QED BY <1>3, <1>7, <2>1, <2>2, <2>3, <3>3, <4>1
    <3> QED BY <3>1, <3>2, <3>3 DEF Agents
  <2> QED BY <2>4, <2>6 DEF AgentsAgree, After
<1>10. LedgerAgrees(t, m)
  <2> DEFINE total == SumOf(l, Roles)
  <2>1. s.tokens = s.inherited[2] + Number(total.tokens["output"]) BY <1>1 DEF LedgerAgrees, Summary
  <2>2. total \in Sums /\ CallSum(u) \in Sums BY <1>1, PartIs, CallIs
  <2>3. Number(SumOf(m, Roles).tokens["output"]) = Number(total.tokens["output"]) + OutputOf(u)
    BY <1>8, <2>2, MergeOutput, OutputIs
  <2>4. Number(total.tokens["output"]) \in Nat
    <3>1. total.tokens["output"] \in Options BY <2>2, SumIs DEF Counts, Kinds
    <3> QED BY <3>1, OptionIs
  <2>5. s.inherited[2] \in Nat BY <1>2
  <2> HIDE DEF total
  <2>6. t.tokens = t.inherited[2] + Number(SumOf(m, Roles).tokens["output"]) BY <1>3, <1>7, <2>1, <2>3, <2>4, <2>5
  <2>7. SumOf(m, Roles) = Merge(SumOf(m, {"worker"}), SumOf(m, {"ruler"})) BY <1>8, RolesMerge
  <2> QED BY <2>6, <2>7 DEF LedgerAgrees, Summary
<1>11. t \in Counters /\ m \in Seq(Posts) /\ SameBut(s, t) /\ t.tokens = s.tokens + OutputOf(u) BY <1>7, <1>8
<1>12. [counters |-> t, ledger |-> m] \in [counters : Counters, ledger : Seq(Posts)] BY <1>11
<1>13. c = [counters |-> t, ledger |-> m] BY <1>0 DEF t, m
<1>14. Reconciled(c) BY <1>9, <1>10, <1>12, <1>13 DEF Reconciled, t, m
<1> QED BY <1>11, <1>14 DEF t, c

\* So are several, one after the other; their output is what the counters grow by.
Outputs(usages) == [i \in DOMAIN usages |-> OutputOf(usages[i])]

\* The outputs of calls.
LEMMA OutputsAre ==
    ASSUME NEW w \in Seq(Usages)
    PROVE  /\ Outputs(w) \in Seq(Nat) /\ Len(Outputs(w)) = Len(w)
           /\ \A i \in 1 .. Len(w) : Outputs(w)[i] = OutputOf(w[i])
<1>1. DOMAIN w = 1 .. Len(w) /\ Len(w) \in Nat /\ \A i \in 1 .. Len(w) : w[i] \in Usages OBVIOUS
<1>2. Outputs(w) = [i \in 1 .. Len(w) |-> OutputOf(w[i])] BY <1>1 DEF Outputs
<1>3. Outputs(w) \in [1 .. Len(w) -> Nat] BY <1>1, <1>2, OutputIs
<1>4. Outputs(w) \in Seq(Nat) BY <1>1, <1>3
<1> QED BY <1>1, <1>2, <1>3, <1>4

\* Charging calls one after the other keeps the books reconciled and counts all their output.
LEMMA ChargedReconciles ==
    ASSUME NEW b, Reconciled(b), NEW role \in Roles, NEW agent \in Agents, NEW w \in Seq(Usages)
    PROVE  /\ Reconciled(Charged(b, role, agent, w))
           /\ SameBut(b.counters, Charged(b, role, agent, w).counters)
           /\ Charged(b, role, agent, w).counters.tokens = b.counters.tokens + Total(Outputs(w))
<1> DEFINE n == Len(w)
           Fit(x) == Reconciled(x) /\ SameBut(b.counters, x.counters)
           S == {x \in [counters : Counters, ledger : Seq(Posts)] : Fit(x)}
           P(f) == f = [i \in 0 .. n |-> IF i = 0 THEN b ELSE ChargeUsage(f[i - 1], role, agent, w[i])]
           step == [p \in (1 .. n) \X S |-> ChargeUsage(p[2], role, agent, w[p[1]])]
           H == CHOOSE f : P(f)
<1>0. n \in Nat /\ \A i \in 1 .. n : w[i] \in Usages OBVIOUS
<1>1. \A i \in 1 .. n, x \in S : step[<<i, x>>] = ChargeUsage(x, role, agent, w[i]) OBVIOUS
<1>2. Stays(S, n, step)
  <2> SUFFICES ASSUME NEW i \in 1 .. n, NEW x \in S PROVE step[<<i, x>>] \in S
    BY DEF Stays
  <2> DEFINE y == ChargeUsage(x, role, agent, w[i])
  <2>1. Reconciled(x) /\ SameBut(b.counters, x.counters) /\ w[i] \in Usages BY <1>0
  <2>2. Reconciled(y) /\ SameBut(x.counters, y.counters) BY <2>1, ChargeReconciles
  <2>3. SameBut(b.counters, y.counters) BY <2>1, <2>2 DEF SameBut
  <2>4. step[<<i, x>>] = y BY <1>1
  <2> HIDE DEF y, step
  <2>5. y \in [counters : Counters, ledger : Seq(Posts)] BY <2>2 DEF Reconciled
  <2> QED BY <2>2, <2>3, <2>4, <2>5
<1>3. b \in S BY DEF Reconciled, SameBut
<1>4. \E f : P(f)
  <2>0. PICK f : Solves(S, b, n, step, f)
    <3> HIDE DEF step, n, S
    <3> QED BY <1>0, <1>2, <1>3, StepsSolved
  <2>1. /\ f = [i \in 0 .. n |-> f[i]] /\ f[0] = b
        /\ \A i \in 1 .. n : f[i] = step[<<i, f[i - 1]>>]
        /\ \A i \in 0 .. n : f[i] \in S
    <3> HIDE DEF step, n, S
    <3> QED BY <2>0 DEF Solves
  <2> HIDE DEF step, S
  <2>2. \A i \in 1 .. n : i - 1 \in 0 .. n
    <3> HIDE DEF n
    <3> QED BY <1>0
  <2>3. \A i \in 1 .. n : f[i] = ChargeUsage(f[i - 1], role, agent, w[i])
    <3> HIDE DEF n
    <3> QED BY <1>1, <2>1, <2>2
  <2>4. f = [i \in 0 .. n |-> IF i = 0 THEN b ELSE ChargeUsage(f[i - 1], role, agent, w[i])]
    <3> HIDE DEF n
    <3>1. \A i \in 0 .. n : i = 0 \/ i \in 1 .. n BY <1>0
    <3>2. \A i \in 0 .. n : f[i] = IF i = 0 THEN b ELSE ChargeUsage(f[i - 1], role, agent, w[i]) BY <2>1, <2>3, <3>1
    <3> QED BY <2>1, <3>2
  <2> QED BY <2>4
<1>5. P(H)
  <2> HIDE DEF P
  <2> QED BY <1>4
<1>6. Charged(b, role, agent, w) = H[n] BY DEF Charged
<1> HIDE DEF H, step
<1>7. H[0] = b /\ \A i \in 1 .. n : H[i] = ChargeUsage(H[i - 1], role, agent, w[i])
  <2> HIDE DEF n
  <2> QED BY <1>0, <1>5
<1>8. PICK t : RunningTotal(Outputs(w), t) /\ Total(Outputs(w)) = t[Len(Outputs(w))]
  BY OutputsAre, TotalSteps
<1>9. /\ t[0] = 0 /\ \A i \in 1 .. n : t[i] = t[i - 1] + OutputOf(w[i])
      /\ \A i \in 0 .. n : t[i] \in Nat
      /\ Total(Outputs(w)) = t[n]
  BY <1>8, OutputsAre DEF RunningTotal
<1> DEFINE G == {i \in 0 .. n : Fit(H[i]) /\ H[i].counters.tokens = b.counters.tokens + t[i]}
<1>10. 0 \in G
  <2>1. b.counters.tokens \in Nat
    <3>1. b.counters \in Counters BY DEF Reconciled
    <3> QED BY <3>1, CountersAre
  <2>2. b.counters.tokens + t[0] = b.counters.tokens BY <1>9, <2>1
  <2>3. Fit(b) BY DEF SameBut
  <2> HIDE DEF n, Fit
  <2> QED BY <1>0, <1>7, <2>2, <2>3
<1>11. ASSUME NEW i \in 1 .. n, i - 1 \in G PROVE i \in G
  <2> DEFINE x == H[i - 1]
             y == H[i]
  <2>1. Reconciled(x) /\ SameBut(b.counters, x.counters) /\ x.counters.tokens = b.counters.tokens + t[i - 1]
    BY <1>11
  <2>2. y = ChargeUsage(x, role, agent, w[i]) /\ w[i] \in Usages BY <1>0, <1>7
  <2>3. /\ t[i - 1] \in Nat /\ t[i] = t[i - 1] + OutputOf(w[i]) /\ i \in 0 .. n /\ OutputOf(w[i]) \in Nat
    <3>1. i - 1 \in 0 .. n /\ i \in 0 .. n
      <4> HIDE DEF n
      <4> QED BY <1>0
    <3> QED BY <1>9, <2>2, <3>1, OutputIs
  <2>4. b.counters.tokens \in Nat
    <3>1. b.counters \in Counters BY DEF Reconciled
    <3> QED BY <3>1, CountersAre
  <2> HIDE DEF x, y, n
  <2>5. Reconciled(y) /\ SameBut(x.counters, y.counters) /\ y.counters.tokens = x.counters.tokens + OutputOf(w[i])
    BY <2>1, <2>2, ChargeReconciles
  <2>6. SameBut(b.counters, y.counters) BY <2>1, <2>5 DEF SameBut
  <2>7. y.counters.tokens = b.counters.tokens + t[i]
    <3>1. \A p, q, r \in Nat : (p + q) + r = p + (q + r) OBVIOUS
    <3>2. y.counters.tokens = (b.counters.tokens + t[i - 1]) + OutputOf(w[i]) BY <2>1, <2>5
    <3>3. (b.counters.tokens + t[i - 1]) + OutputOf(w[i]) = b.counters.tokens + (t[i - 1] + OutputOf(w[i]))
      BY <2>3, <2>4, <3>1
    <3> QED BY <2>3, <3>2, <3>3
  <2> QED BY <2>3, <2>5, <2>6, <2>7 DEF y
<1>12. 0 .. n \subseteq G
  <2> HIDE DEF G, n
  <2> QED BY <1>0, <1>10, <1>11, ByPlaces
<1>13. n \in G
  <2> HIDE DEF G, n
  <2>1. n \in 0 .. n BY <1>0
  <2> QED BY <1>12, <2>1
<1>14. Fit(H[n]) /\ H[n].counters.tokens = b.counters.tokens + t[n] BY <1>13
<1> QED BY <1>6, <1>9, <1>14

------------------------------------------------------------------------------
(* Accounting: the invariant.                                                *)

Reasons == {"crashed", "already-satisfied", "max-sessions", "goals-met", "abort", "interrupted", "stopped"}
RunRecords == [sessions : Nat, tokens : Nat, usage : Sums, ended : BOOLEAN, reason : Reasons]
CallsMade == [launch : Nat, session : Nat, role : Roles, usage : Usages]

\* A worker at work: whose it is, what it has still to say, what it reported so far.
Running ==
    /\ run = [agent |-> run.agent, printed |-> run.printed, lines |-> run.lines, shared |-> run.shared,
              exit |-> run.exit, resumed |-> run.resumed]
    /\ run.agent \in Agents /\ run.lines \in Seq(OutputLines) /\ run.shared.usage \in Usages

AccountsTyped ==
    /\ phase \in {"down", "boot", "baseline", "between", "announced", "running", "ran", "limited", "waiting", "gate"}
    /\ st \in Counters /\ ledger \in Seq(Posts) /\ announced \in Nat /\ calls \in Seq(CallsMade)
    /\ forgotten \in Nat
    /\ live = [shot |-> live.shot, recent |-> live.recent]
    /\ files = [state |-> files.state, clock |-> files.clock, project |-> files.project, report |-> files.report]
    /\ files.project \in Seq(RunRecords)
    /\ phase = "running" => Running

\* The counters of a published snapshot.
ShotIs(shot) ==
    /\ shot.session \in Nat /\ shot.tokens \in Nat /\ shot.cost \in Nat /\ shot.per_agent \in PerAgent
    /\ AgentsAgree(shot)

\* What is in memory and what a resume would start from are each one account.
Reconciling ==
    /\ Up => AgentsAgree(st) /\ LedgerAgrees(st, ledger)
    /\ ~Up => ledger = NoLedger
    /\ \A shot \in files.state : ShotIs(shot)

\* The project's records are the sessions begun; the running launch's own are what it began itself.
Numbered ==
    /\ LifetimeSessions(files.project) = announced
    /\ \A shot \in files.state : shot.session <= announced
    /\ Up => LET n == Len(files.project)
             IN  /\ n >= 1 /\ ~files.project[n].ended /\ st.inherited[1] <= st.session
                 /\ files.project[n].sessions = st.session - st.inherited[1]
                 /\ Lifetime(st) = announced

\* The output of the calls that no launch lost, when the running launch is this one.
Kept(made, runs, running) ==
    [i \in DOMAIN made |-> IF Lost(made, runs, running, made[i]) THEN 0 ELSE OutputOf(made[i].usage)]

Dated ==
    /\ \A i \in DOMAIN calls : calls[i].launch \in 1 .. Len(files.project)
    /\ Up => \A i \in DOMAIN calls : calls[i].launch = Len(files.project) => calls[i].session <= st.session

\* What a resume would start from counts all but the last sessions of the launches that died, this
\* one counted among them; what is in memory counts this one's last session too. In a launch that
\* has not published what it restored only the memory counts them.
Saved ==
    /\ phase # "boot" =>
          \A shot \in files.state : Total(Kept(calls, files.project, Len(files.project) + 1)) <= shot.tokens + forgotten
    /\ phase = "boot" => Total(Kept(calls, files.project, Len(files.project) + 1)) <= st.tokens + forgotten
    /\ Up => /\ Total(Kept(calls, files.project, Len(files.project))) <= st.tokens + forgotten
             /\ phase \notin {"boot", "ran", "limited"} => \A shot \in files.state : shot.tokens = st.tokens

AccountsInv == AccountsTyped /\ Reconciling /\ Numbered /\ Dated /\ Saved

\* A line read leaves a usage a usage.
LEMMA ReportedIs ==
    ASSUME NEW agent \in Agents, NEW line \in OutputLines
    PROVE  /\ ParseUsage(agent, line) = {} \/ \E t \in Counts : ParseUsage(agent, line) = {t}
           /\ ParseModel(agent, line) \in SUBSET STRING
           /\ ParseResult(agent, line) = {} \/ \E r : ParseResult(agent, line) = {r} /\ r.cost \in Options
<1>1. /\ line.tokens \in SUBSET Counts /\ line.cost \in Options /\ line.model \in SUBSET STRING
      /\ line.tokens = {} \/ \E t \in line.tokens : line.tokens = {t}
  BY DEF OutputLines
<1>2. {} \in Options /\ {} \in SUBSET STRING BY DEF Options
<1>3. NoTokens \in Counts BY <1>2 DEF NoTokens, Counts
<1>4. CASE agent = "claude"
  <2>1. ParseUsage(agent, line) \in {{}, line.tokens} BY <1>4 DEF ParseUsage, ClaudeTokens, OnlyOn
  <2>2. ParseModel(agent, line) \in {{}, line.model} BY <1>4 DEF ParseModel, ClaudeModel, OnlyOn
  <2> DEFINE said == [cost |-> line.cost, limited |-> ClaudeLimited(line),
                      reset |-> IF ClaudeLimited(line) THEN line.reset ELSE {}]
  <2>3. ParseResult(agent, line) = {} \/ ParseResult(agent, line) = {said}
    BY <1>4 DEF ParseResult, ClaudeResult, OnlyOn
  <2>5. said.cost = line.cost OBVIOUS
  <2> HIDE DEF said
  <2>4. ParseResult(agent, line) = {} \/ \E r : ParseResult(agent, line) = {r} /\ r.cost \in Options
    BY <1>1, <2>3, <2>5
  <2> QED BY <1>1, <1>2, <2>1, <2>2, <2>4
<1>5. CASE agent = "codex"
  <2>1. ASSUME NEW t \in Counts PROVE Uncached(t) \in Counts
    <3>1. t \in [Kinds -> Options] /\ t["input"] \in Options /\ "input" \in Kinds /\ "cache_write" \in Kinds
      BY DEF Counts, Kinds
    <3>2. t["cache_read"] \in Options BY DEF Counts, Kinds
    <3> DEFINE cached == Number(t["cache_read"])
               less == {IF i > cached THEN i - cached ELSE 0 : i \in t["input"]}
    <3>3. cached \in Nat BY <3>2, OptionIs
    <3> HIDE DEF cached
    <3>4. less \in Options
      <4>1. CASE t["input"] = {}
        <5>1. less = {} BY <4>1
        <5> QED BY <1>2, <5>1
      <4>2. CASE t["input"] # {}
        <5>1. PICK n \in Nat : t["input"] = {n} BY <3>1, <4>2 DEF Options
        <5>2. less = {IF n > cached THEN n - cached ELSE 0} BY <5>1
        <5>3. (IF n > cached THEN n - cached ELSE 0) \in Nat BY <3>3
        <5> HIDE DEF less
        <5> QED BY <5>2, <5>3, OneNumber
      <4> QED BY <4>1, <4>2
    <3>5. Uncached(t) = [t EXCEPT !["input"] = less, !["cache_write"] = {}] BY DEF Uncached, cached
    <3> HIDE DEF less
    <3> QED BY <1>2, <3>1, <3>4, <3>5 DEF Counts
  <2>2. ParseUsage(agent, line) \in {{}, {Uncached(t) : t \in line.tokens}}
    BY <1>5 DEF ParseUsage, CodexTokens, OnlyOn
  <2>3. ParseUsage(agent, line) = {} \/ \E t \in Counts : ParseUsage(agent, line) = {t}
    <3>1. CASE line.tokens = {} BY <2>2, <3>1
    <3>2. CASE line.tokens # {}
      <4>1. PICK t \in Counts : line.tokens = {t} BY <1>1, <3>2
      <4>2. {Uncached(x) : x \in line.tokens} = {Uncached(t)} BY <4>1
      <4> QED BY <2>1, <2>2, <4>1, <4>2
    <3> QED BY <3>1, <3>2
  <2>4. ParseModel(agent, line) = {} BY <1>5 DEF ParseModel
  <2>5. ParseResult(agent, line) = {} \/ ParseResult(agent, line) = {[cost |-> {}, limited |-> CodexLimited(line), reset |-> {}]}
    BY <1>5 DEF ParseResult, CodexResult, OnlyOn
  <2>6. ParseResult(agent, line) = {} \/ \E r : ParseResult(agent, line) = {r} /\ r.cost \in Options BY <1>2, <2>5
  <2> QED BY <1>2, <2>3, <2>4, <2>6
<1>6. CASE agent = "copilot"
  <2>1. ASSUME NEW t \in Counts PROVE [NoTokens EXCEPT !["output"] = t["output"]] \in Counts
    <3>1. t["output"] \in Options /\ "output" \in Kinds BY DEF Counts, Kinds
    <3> QED BY <1>3, <3>1 DEF Counts
  <2>2. ParseUsage(agent, line) \in {{}, {[NoTokens EXCEPT !["output"] = t["output"]] : t \in line.tokens}}
    BY <1>6 DEF ParseUsage, CopilotTokens, OnlyOn
  <2>3. ParseUsage(agent, line) = {} \/ \E t \in Counts : ParseUsage(agent, line) = {t}
    <3>1. CASE line.tokens = {} BY <2>2, <3>1
    <3>2. CASE line.tokens # {}
      <4>1. PICK t \in Counts : line.tokens = {t} BY <1>1, <3>2
      <4>2. {[NoTokens EXCEPT !["output"] = x["output"]] : x \in line.tokens} = {[NoTokens EXCEPT !["output"] = t["output"]]}
        BY <4>1
      <4> QED BY <2>1, <2>2, <4>1, <4>2
    <3> QED BY <3>1, <3>2
  <2>4. ParseModel(agent, line) \in {{}, line.model} BY <1>6 DEF ParseModel, CopilotModel, OnlyOn
  <2> DEFINE said == [cost |-> {}, limited |-> FALSE, reset |-> {}]
  <2>5. ParseResult(agent, line) = {} \/ ParseResult(agent, line) = {said}
    BY <1>6 DEF ParseResult, CopilotResult, OnlyOn
  <2>7. said.cost = {} OBVIOUS
  <2> HIDE DEF said
  <2>6. ParseResult(agent, line) = {} \/ \E r : ParseResult(agent, line) = {r} /\ r.cost \in Options
    BY <1>2, <2>5, <2>7
  <2> QED BY <1>1, <1>2, <2>3, <2>4, <2>6
<1> QED BY <1>4, <1>5, <1>6 DEF Agents

\* The reader thread keeps what it reports a usage, whatever the line.
LEMMA ReadIsUsage ==
    ASSUME NEW agent \in Agents, NEW line \in OutputLines, NEW shared, shared.usage \in Usages
    PROVE  ReadLine(shared, agent, line).usage \in Usages
<1> DEFINE old == shared.usage
           noted == NoteUsage(old, agent, line)
           cost == Latest(noted.cost, UNION {r["cost"] : r \in ParseResult(agent, line)})
<1>1. old \in Usages /\ old.tokens \in Counts /\ old.cost \in Options /\ old.model \in SUBSET STRING BY DEF Usages
<1>2. Noted(old.tokens, ParseUsage(agent, line)) \in Counts
  <2>1. CASE ParseUsage(agent, line) = {} BY <1>1, <2>1 DEF Noted
  <2>2. CASE ParseUsage(agent, line) # {}
    <3>1. PICK t \in Counts : ParseUsage(agent, line) = {t} BY <2>2, ReportedIs
    <3>2. Noted(old.tokens, ParseUsage(agent, line)) = AddTokens(old.tokens, t) BY <3>1 DEF Noted
    <3> QED BY <1>1, <3>2, CountsAdd
  <2> QED BY <2>1, <2>2
<1>3. (IF old.model = {} THEN ParseModel(agent, line) ELSE old.model) \in SUBSET STRING BY <1>1, ReportedIs
<1>4. noted \in Usages /\ noted.cost = old.cost
  <2>1. noted = [old EXCEPT !.tokens = Noted(@, ParseUsage(agent, line)),
                            !.model = IF @ = {} THEN ParseModel(agent, line) ELSE @]
    BY DEF NoteUsage
  <2> QED BY <1>1, <1>2, <1>3, <2>1 DEF Usages
<1> HIDE DEF noted
<1>5. cost \in Options
  <2>1. CASE ParseResult(agent, line) = {} BY <1>1, <1>4, <2>1 DEF Latest
  <2>2. CASE ParseResult(agent, line) # {}
    <3>1. PICK r : ParseResult(agent, line) = {r} /\ r.cost \in Options BY <2>2, ReportedIs
    <3>2. UNION {x["cost"] : x \in ParseResult(agent, line)} = r.cost BY <3>1
    <3> QED BY <1>1, <1>4, <3>1, <3>2 DEF Latest
  <2> QED BY <2>1, <2>2
<1>6. ReadLine(shared, agent, line).usage = [noted EXCEPT !.cost = cost] BY DEF ReadLine, noted
<1> HIDE DEF cost
<1> QED BY <1>4, <1>5, <1>6 DEF Usages

------------------------------------------------------------------------------
(* Accounting: what a step does to the accounts.                             *)

AccountPhases == {"down", "boot", "baseline", "between", "announced", "running", "ran", "limited", "waiting", "gate"}

\* The counters and the lines after these calls were charged to what is in memory.
Charging(us, t, m) ==
    /\ us \in Seq(Usages) /\ t \in Counters /\ m \in Seq(Posts) /\ AgentsAgree(t) /\ LedgerAgrees(t, m)
    /\ t.session = st.session /\ t.inherited = st.inherited /\ t.lifetime_base = st.lifetime_base
    /\ t.tokens = st.tokens + Total(Outputs(us))

\* Records of which the last one is over.
EndsWith(runs, t) ==
    LET n == Len(files.project)
    IN  /\ runs \in Seq(RunRecords) /\ Len(runs) = n /\ \A i \in 1 .. n : i # n => runs[i] = files.project[i]
        /\ runs[n].ended /\ runs[n].sessions \in {files.project[n].sessions, Less(t.session, t.inherited[1])}

Framed ==
    /\ phase' \in AccountPhases /\ (phase' = "running" => Running')
    /\ live' = [shot |-> live'.shot, recent |-> live'.recent]
    /\ files' = [state |-> files'.state, clock |-> files'.clock, project |-> files'.project, report |-> files'.report]

Idles ==
    /\ UNCHANGED <<st, ledger, files, calls, announced, forgotten>>
    /\ phase' = phase \/ (phase = "gate" /\ phase' = "between")
Works(role, us) ==
    /\ phase # "down" /\ phase' \notin {"down", "boot"} /\ announced' = announced /\ forgotten' = forgotten
    /\ files'.project = files.project
    /\ role \in Roles /\ Charging(us, st', ledger') /\ calls' = Called(role, "claude", us)
    /\ \/ phase' \notin {"ran", "limited"} /\ \E c : files'.state = {Snapshot(st', ledger', c)}
       \/ phase' \in {"ran", "limited"} /\ phase = "running" /\ files'.state = files.state
Closes(role, us, t, m) ==
    /\ phase # "down" /\ phase' = "down" /\ announced' = announced /\ forgotten' = forgotten
    /\ st' = ZeroCounters /\ ledger' = NoLedger
    /\ role \in Roles /\ Charging(us, t, m) /\ calls' = Called(role, "claude", us)
    /\ EndsWith(files'.project, t) /\ \E c : files'.state = {Snapshot(t, m, c)}

\* What is like what is in memory but for the streak and the wait.
Like(s) ==
    /\ s \in Counters /\ s.session = st.session /\ s.tokens = st.tokens /\ s.cost = st.cost
    /\ s.per_agent = st.per_agent /\ s.inherited = st.inherited /\ s.lifetime_base = st.lifetime_base

\* What is in memory is like itself.
LEMMA LikeItself == ASSUME AccountsTyped PROVE Like(st)
BY DEF AccountsTyped, Like

\* What is like it is as reconciled.
LEMMA LikeReconciled ==
    ASSUME AccountsTyped, Reconciling, Up, NEW s, Like(s)
    PROVE  Reconciled([counters |-> s, ledger |-> ledger])
<1> DEFINE b == [counters |-> s, ledger |-> ledger]
<1>1. AgentsAgree(st) /\ LedgerAgrees(st, ledger) /\ ledger \in Seq(Posts) BY DEF Reconciling, AccountsTyped
<1>2. AgentsAgree(s) BY <1>1 DEF AgentsAgree, Like
<1>3. LedgerAgrees(s, ledger) BY <1>1 DEF LedgerAgrees, Like
<1>4. b \in [counters : Counters, ledger : Seq(Posts)] /\ b.counters = s /\ b.ledger = ledger BY <1>1 DEF Like
<1> HIDE DEF b
<1>5. Reconciled(b) BY <1>2, <1>3, <1>4 DEF Reconciled
<1> QED BY <1>5 DEF b

\* Calls charged to reconciled counters leave them reconciled.
LEMMA CallsCharge ==
    ASSUME AccountsTyped, Reconciling, Up, NEW s, Like(s),
           NEW role \in Roles, NEW agent \in Agents, NEW us \in Seq(Usages)
    PROVE  Charging(us, Charged(Books(s), role, agent, us).counters, Charged(Books(s), role, agent, us).ledger)
<1> DEFINE b == [counters |-> s, ledger |-> ledger]
           c == Charged(b, role, agent, us)
<1>1. Reconciled(b) BY LikeReconciled
<1>2. b.counters = s OBVIOUS
<1>3. Books(s) = b BY DEF Books
<1> HIDE DEF b
<1>4. Reconciled(c) /\ SameBut(b.counters, c.counters) /\ c.counters.tokens = b.counters.tokens + Total(Outputs(us))
  BY <1>1, ChargedReconciles
<1> HIDE DEF c
<1>5. Charging(us, c.counters, c.ledger) BY <1>2, <1>4 DEF Charging, Reconciled, SameBut, Like
<1> QED BY <1>3, <1>5 DEF c

\* So do no calls.
LEMMA NoCallCharges ==
    ASSUME AccountsTyped, Reconciling, Up, NEW s, Like(s), NEW role, NEW agent
    PROVE  Charging(<<>>, s, ledger) /\ Called(role, agent, <<>>) = calls
<1>1. AgentsAgree(st) /\ LedgerAgrees(st, ledger) /\ ledger \in Seq(Posts) /\ calls \in Seq(CallsMade)
  BY DEF Reconciling, AccountsTyped
<1>2. AgentsAgree(s) BY <1>1 DEF AgentsAgree, Like
<1>3. LedgerAgrees(s, ledger) BY <1>1 DEF LedgerAgrees, Like
<1>4. Outputs(<<>>) = <<>> BY DEF Outputs
<1>5. s.tokens = st.tokens + Total(Outputs(<<>>))
  <2>1. s.tokens \in Nat BY CountersAre DEF Like
  <2> QED BY <1>4, <2>1, TotalNone DEF Like
<1>6. <<>> \in Seq(Usages) OBVIOUS
<1>7. Charging(<<>>, s, ledger) BY <1>1, <1>2, <1>3, <1>5, <1>6 DEF Charging, Like
<1>8. [i \in DOMAIN <<>> |-> [launch |-> Len(files.project), session |-> st.session, role |-> role, usage |-> <<>>[i]]] = <<>>
  OBVIOUS
<1>9. Called(role, agent, <<>>) = calls BY <1>1, <1>8 DEF Called
<1> QED BY <1>7, <1>9

\* Records updated, finished and dropped.
LEMMA UpdatedIs ==
    ASSUME NEW runs \in Seq(RunRecords), Len(runs) >= 1, NEW s \in Counters, NEW l \in Seq(Posts)
    PROVE  LET n == Len(runs)
               next == Updated(runs, s, l)
           IN  /\ next \in Seq(RunRecords) /\ Len(next) = n /\ \A i \in 1 .. n : i # n => next[i] = runs[i]
               /\ next[n].sessions = Less(s.session, s.inherited[1]) /\ next[n].ended = runs[n].ended
<1> DEFINE n == Len(runs)
           r == [runs[n] EXCEPT !.sessions = Less(s.session, s.inherited[1]),
                                !.tokens = Less(s.tokens, s.inherited[2]),
                                !.usage = Summary(l).total]
           next == Updated(runs, s, l)
<1>1. n \in 1 .. n /\ runs[n] \in RunRecords OBVIOUS
<1>2. /\ s.session \in Nat /\ s.tokens \in Nat /\ s.inherited \in Nat \X Nat BY CountersAre
<1>3. Less(s.session, s.inherited[1]) \in Nat /\ Less(s.tokens, s.inherited[2]) \in Nat BY <1>2 DEF Less
<1>4. Summary(l).total \in Sums BY PartIs DEF Summary
<1>5. r \in RunRecords /\ r.sessions = Less(s.session, s.inherited[1]) /\ r.ended = runs[n].ended
  BY <1>1, <1>3, <1>4 DEF RunRecords
<1>6. next = [runs EXCEPT ![n] = r] BY <1>1 DEF Updated, RunRecords
<1> HIDE DEF r, next
<1>7. next \in Seq(RunRecords) /\ Len(next) = n /\ (\A i \in 1 .. n : i # n => next[i] = runs[i]) /\ next[n] = r
  BY <1>1, <1>5, <1>6
<1> QED BY <1>5, <1>7 DEF next

\* A record finished, or dropped unfinished.
LEMMA FinishedIs ==
    ASSUME NEW runs \in Seq(RunRecords), Len(runs) >= 1, NEW reason \in Reasons, NEW next,
           next = Finished(runs, reason) \/ next = Dropped(runs)
    PROVE  LET n == Len(runs)
           IN  /\ next \in Seq(RunRecords) /\ Len(next) = n /\ \A i \in 1 .. n : i # n => next[i] = runs[i]
               /\ next[n].sessions = runs[n].sessions /\ next[n].ended
<1> DEFINE n == Len(runs)
           f == [runs[n] EXCEPT !.ended = TRUE, !.reason = reason]
           d == [runs[n] EXCEPT !.ended = TRUE]
<1>1. n \in 1 .. n /\ runs[n] \in RunRecords OBVIOUS
<1>2. f \in RunRecords /\ f.sessions = runs[n].sessions /\ f.ended BY <1>1 DEF RunRecords
<1>3. d \in RunRecords /\ d.sessions = runs[n].sessions /\ d.ended BY <1>1 DEF RunRecords
<1>4. Finished(runs, reason) = [runs EXCEPT ![n] = f] BY <1>1 DEF Finished
<1>5. Dropped(runs) = [runs EXCEPT ![n] = d] BY <1>1 DEF Dropped
<1> HIDE DEF f, d
<1>6. PICK r \in {f, d} : next = [runs EXCEPT ![n] = r] BY <1>4, <1>5
<1>7. r \in RunRecords /\ r.sessions = runs[n].sessions /\ r.ended BY <1>2, <1>3
<1>8. next \in Seq(RunRecords) /\ Len(next) = n /\ (\A i \in 1 .. n : i # n => next[i] = runs[i]) /\ next[n] = r
  BY <1>1, <1>6, <1>7
<1> QED BY <1>7, <1>8

\* What publishing writes.
LEMMA PublishIs ==
    ASSUME AccountsTyped, NEW c, NEW s, NEW l,
           live' = Published(live, s, l, c), files' = [files EXCEPT !.state = {live'.shot}]
    PROVE  /\ live' = [shot |-> live'.shot, recent |-> live'.recent]
           /\ files' = [state |-> files'.state, clock |-> files'.clock, project |-> files'.project, report |-> files'.report]
           /\ files'.project = files.project /\ files'.state = {Snapshot(s, l, c)}
<1>1. live = [shot |-> live.shot, recent |-> live.recent] BY DEF AccountsTyped
<1>2. files = [state |-> files.state, clock |-> files.clock, project |-> files.project, report |-> files.report]
  BY DEF AccountsTyped
<1>3. live' = [shot |-> Snapshot(s, l, c), recent |-> live.recent] BY <1>1 DEF Published
<1>4. files' = [state |-> {Snapshot(s, l, c)}, clock |-> files.clock, project |-> files.project, report |-> files.report]
  BY <1>2, <1>3
<1>5. live'.shot = Snapshot(s, l, c) /\ live'.recent = live.recent BY <1>3
<1>6. /\ files'.state = {Snapshot(s, l, c)} /\ files'.clock = files.clock
      /\ files'.project = files.project /\ files'.report = files.report
  BY <1>4
<1>7. live' = [shot |-> live'.shot, recent |-> live'.recent] BY <1>3, <1>5
<1>8. files' = [state |-> files'.state, clock |-> files'.clock, project |-> files'.project, report |-> files'.report]
  BY <1>4, <1>6
<1> QED BY <1>6, <1>7, <1>8

\* What the end of a run writes.
LEMMA OverIs ==
    ASSUME AccountsTyped, NEW s, NEW l, NEW runs, Over(s, l, runs)
    PROVE  /\ Framed /\ phase' = "down" /\ st' = ZeroCounters /\ ledger' = NoLedger
           /\ files'.project = runs /\ \E c : files'.state = {Snapshot(s, l, c)}
<1>1. files = [state |-> files.state, clock |-> files.clock, project |-> files.project, report |-> files.report]
  BY DEF AccountsTyped
<1>2. files' = [state |-> {Snapshot(s, l, clock)}, clock |-> files.clock, project |-> runs, report |-> {Report(s, l, clock)}]
  BY <1>1 DEF Over
<1>3. live' = [shot |-> {}, recent |-> <<>>] BY DEF Over, Gone
<1>4. phase' = "down" /\ st' = ZeroCounters /\ ledger' = NoLedger BY DEF Over, Gone
<1>5. Framed BY <1>2, <1>3, <1>4 DEF Framed, AccountPhases
<1> QED BY <1>2, <1>4, <1>5

\* A worker just launched is a worker at work.
LEMMA LaunchedIs ==
    ASSUME NEW w \in Worker, phase' = "running", run' = Launched(w)
    PROVE  Running'
<1>1. w.agent \in Agents /\ w.lines \in Seq(OutputLines) BY WorkerAssumption
<1>2. FreshShared.usage \in Usages
  <2>1. NoUsage \in Usages
    <3>1. {} \in Options /\ {} \in SUBSET STRING BY DEF Options
    <3> QED BY <3>1 DEF NoUsage, NoTokens, Usages, Counts
  <2> QED BY <2>1 DEF FreshShared
<1> DEFINE r == [agent |-> w.agent, printed |-> w.lines, lines |-> w.lines, shared |-> FreshShared,
                 exit |-> w.exit, resumed |-> w.resumed]
<1>3. r = [agent |-> r.agent, printed |-> r.printed, lines |-> r.lines, shared |-> r.shared,
           exit |-> r.exit, resumed |-> r.resumed]
  OBVIOUS
<1>4. r.agent = w.agent /\ r.lines = w.lines /\ r.shared = FreshShared OBVIOUS
<1>5. run' = r BY DEF Launched
<1> HIDE DEF r
<1> QED BY <1>1, <1>2, <1>3, <1>4, <1>5 DEF Running

\* What of a step frames, whatever it does to the accounts.
LEMMA Unframed ==
    ASSUME AccountsTyped, phase' \in AccountPhases, phase' = "running" => Running',
           live' = live \/ (\E x : live' = [live EXCEPT !.recent = x]), UNCHANGED files
    PROVE  Framed
<1>1. live = [shot |-> live.shot, recent |-> live.recent] BY DEF AccountsTyped
<1>2. files = [state |-> files.state, clock |-> files.clock, project |-> files.project, report |-> files.report]
  BY DEF AccountsTyped
<1>3. live' = [shot |-> live'.shot, recent |-> live'.recent]
  <2>1. CASE live' = live BY <1>1, <2>1
  <2>2. ASSUME NEW x, live' = [live EXCEPT !.recent = x] PROVE live' = [shot |-> live'.shot, recent |-> live'.recent]
    <3>1. live' = [shot |-> live.shot, recent |-> x] BY <1>1, <2>2
    <3> QED BY <3>1
  <2> QED BY <2>1, <2>2
<1>4. files' = [state |-> files'.state, clock |-> files'.clock, project |-> files'.project, report |-> files'.report]
  BY <1>2
<1> QED BY <1>3, <1>4 DEF Framed

\* A worker of which a line was read.
LEMMA ReadOn ==
    ASSUME NEW r, NEW said, NEW shared, NEW next, next = [r EXCEPT !.lines = said, !.shared = shared],
           r = [agent |-> r.agent, printed |-> r.printed, lines |-> r.lines, shared |-> r.shared,
                exit |-> r.exit, resumed |-> r.resumed]
    PROVE  /\ next = [agent |-> next.agent, printed |-> next.printed, lines |-> next.lines, shared |-> next.shared,
                      exit |-> next.exit, resumed |-> next.resumed]
           /\ next.agent = r.agent /\ next.lines = said /\ next.shared = shared
OBVIOUS

\* A step of a reader, of the clock or between sessions leaves the accounts.
LEMMA IdleSteps ==
    ASSUME AccountsTyped, ReaderReads \/ LateReaderReads \/ RelaunchFresh \/ NextSession \/ Tick
    PROVE  Idles /\ Framed
<1> USE DEF AccountPhases
<1>0. phase \in AccountPhases /\ (phase = "running" => Running) BY DEF AccountsTyped
<1>1. CASE ReaderReads
  <2>1. phase = "running" /\ run.lines # <<>> /\ UNCHANGED <<phase, st, ledger, files, calls, announced, forgotten>>
        /\ \E x : live' = [live EXCEPT !.recent = x]
    BY <1>1 DEF ReaderReads, Pushes
  <2>2. Running BY <1>0, <2>1
  <2> DEFINE lines == Tail(run.lines)
             shared == ReadLine(run.shared, run.agent, run.lines[1])
  <2>3. lines \in Seq(OutputLines) /\ run.lines[1] \in OutputLines
    <3>1. run.lines \in Seq(OutputLines) /\ run.lines # <<>> BY <2>1, <2>2 DEF Running
    <3> QED BY <3>1
  <2>4. shared.usage \in Usages BY <2>2, <2>3, ReadIsUsage DEF Running
  <2>5. run' = [run EXCEPT !.lines = lines, !.shared = shared] BY <1>1 DEF ReaderReads
  <2> HIDE DEF lines, shared
  <2>6. /\ run' = [agent |-> run'.agent, printed |-> run'.printed, lines |-> run'.lines, shared |-> run'.shared,
                   exit |-> run'.exit, resumed |-> run'.resumed]
        /\ run'.agent = run.agent /\ run'.lines = lines /\ run'.shared = shared
    <3>1. PICK r : r = run OBVIOUS
    <3>2. PICK next : next = run' OBVIOUS
    <3>3. r = [agent |-> r.agent, printed |-> r.printed, lines |-> r.lines, shared |-> r.shared,
               exit |-> r.exit, resumed |-> r.resumed]
      BY <2>2, <3>1 DEF Running
    <3>4. next = [r EXCEPT !.lines = lines, !.shared = shared] BY <2>5, <3>1, <3>2
    <3>5. /\ next = [agent |-> next.agent, printed |-> next.printed, lines |-> next.lines, shared |-> next.shared,
                     exit |-> next.exit, resumed |-> next.resumed]
          /\ next.agent = r.agent /\ next.lines = lines /\ next.shared = shared
      BY <3>3, <3>4, ReadOn
    <3> QED BY <3>1, <3>2, <3>5
  <2>7. Running' BY <2>2, <2>3, <2>4, <2>6 DEF Running
  <2>8. Framed BY <1>0, <2>1, <2>7, Unframed
  <2> QED BY <2>1, <2>8 DEF Idles
<1>2. CASE LateReaderReads
  <2>1. UNCHANGED <<phase, st, ledger, run, files, calls, announced, forgotten>> /\ \E x : live' = [live EXCEPT !.recent = x]
    BY <1>2 DEF LateReaderReads, Pushes
  <2>2. phase' = "running" => Running' BY <1>0, <2>1 DEF Running
  <2>3. Framed BY <1>0, <2>1, <2>2, Unframed
  <2> QED BY <2>1, <2>3 DEF Idles
<1>3. CASE RelaunchFresh
  <2>1. phase = "running" /\ UNCHANGED <<phase, st, ledger, live, files, calls, announced, forgotten>>
        /\ \E w \in Worker : run' = Launched(w)
    BY <1>3 DEF RelaunchFresh, Collects, history
  <2>2. Running' BY <2>1, LaunchedIs
  <2>3. Framed BY <1>0, <2>1, <2>2, Unframed
  <2> QED BY <2>1, <2>3 DEF Idles
<1>4. CASE NextSession
  <2>1. phase = "gate" /\ phase' = "between" /\ UNCHANGED <<st, ledger, live, files, calls, announced, forgotten>>
    BY <1>4 DEF NextSession, history
  <2>2. Framed BY <2>1, Unframed
  <2> QED BY <2>1, <2>2 DEF Idles
<1>5. CASE Tick
  <2>1. UNCHANGED <<phase, st, ledger, run, live, files, calls, announced, forgotten>> BY <1>5 DEF Tick
  <2>2. phase' = "running" => Running' BY <1>0, <2>1 DEF Running
  <2>3. Framed BY <1>0, <2>1, <2>2, Unframed
  <2> QED BY <2>1, <2>3 DEF Idles
<1> QED BY <1>1, <1>2, <1>3, <1>4, <1>5

\* What a step charges it makes its calls of.
LEMMA ChargesWork ==
    ASSUME AccountsTyped, Reconciling, Up, NEW s, Like(s),
           NEW role \in Roles, NEW agent \in Agents, NEW us \in Seq(Usages), Charges(s, role, agent, us)
    PROVE  Charging(us, st', ledger') /\ calls' = Called(role, "claude", us)
<1>1. st' = Charged(Books(s), role, agent, us).counters /\ ledger' = Charged(Books(s), role, agent, us).ledger
  BY DEF Charges
<1>2. calls' = Called(role, "claude", us) BY DEF Charges, Called
<1> QED BY <1>1, <1>2, CallsCharge

\* A step that makes no calls charges none.
LEMMA NoCallWorks ==
    ASSUME AccountsTyped, Reconciling, Up, NEW s, Like(s), st' = s, ledger' = ledger, calls' = calls
    PROVE  Charging(<<>>, st', ledger') /\ calls' = Called("worker", "claude", <<>>)
BY NoCallCharges

\* A step of a run at work charges the calls it makes, if any, and publishes what it has,
\* or leaves the last snapshot where the worker just ended.
LEMMA WorkSteps ==
    ASSUME AccountsTyped, Reconciling,
           BaselineBegins \/ Baseline \/ LaunchWorker \/ WorkerExits \/ Verify \/ RateLimited \/ WaitEnds
    PROVE  Framed /\ \E role, us : Works(role, us)
<1> USE DEF AccountPhases
<1>0. /\ "worker" \in Roles /\ "ruler" \in Roles /\ RulerAgent \in Agents /\ Ruler \subseteq Seq(Usages)
      /\ st \in Counters /\ (phase = "running" => Running)
  BY RulerAssumption DEF Roles, AccountsTyped
<1>1. ASSUME Baseline \/ Verify PROVE Framed /\ \E role, us : Works(role, us)
  <2>1. /\ phase # "down" /\ phase' \in {"between", "gate"} /\ announced' = announced /\ forgotten' = forgotten
        /\ Publish /\ \E usages \in Ruler : Charges(st, "ruler", RulerAgent, usages)
    BY <1>1 DEF Baseline, Verify
  <2>2. PICK us \in Ruler : Charges(st, "ruler", RulerAgent, us) BY <2>1
  <2>3. Charging(us, st', ledger') /\ calls' = Called("ruler", "claude", us)
    BY <1>0, <2>1, <2>2, LikeItself, ChargesWork DEF Up
  <2>4. PICK s, l, c : s = st' /\ l = ledger' /\ c = clock' OBVIOUS
  <2>5. live' = Published(live, s, l, c) /\ files' = [files EXCEPT !.state = {live'.shot}] BY <2>1, <2>4 DEF Publish
  <2>6. /\ live' = [shot |-> live'.shot, recent |-> live'.recent]
        /\ files' = [state |-> files'.state, clock |-> files'.clock, project |-> files'.project, report |-> files'.report]
        /\ files'.project = files.project /\ files'.state = {Snapshot(s, l, c)}
    BY <2>5, PublishIs
  <2>7. Framed BY <2>1, <2>6 DEF Framed
  <2>8. Works("ruler", us) BY <1>0, <2>1, <2>3, <2>4, <2>6 DEF Works
  <2> QED BY <2>7, <2>8
<1>2. ASSUME BaselineBegins \/ LaunchWorker PROVE Framed /\ \E role, us : Works(role, us)
  <2>1. /\ phase # "down" /\ phase' \in {"baseline", "running"} /\ announced' = announced /\ forgotten' = forgotten
        /\ st' = st /\ ledger' = ledger /\ calls' = calls
        /\ Publish /\ (phase' = "running" => \E w \in Worker : run' = Launched(w))
    BY <1>2 DEF BaselineBegins, LaunchWorker, history
  <2>2. Charging(<<>>, st', ledger') /\ calls' = Called("worker", "claude", <<>>)
    BY <2>1, LikeItself, NoCallWorks DEF Up
  <2>4. PICK s, l, c : s = st' /\ l = ledger' /\ c = clock' OBVIOUS
  <2>5. live' = Published(live, s, l, c) /\ files' = [files EXCEPT !.state = {live'.shot}] BY <2>1, <2>4 DEF Publish
  <2>6. /\ live' = [shot |-> live'.shot, recent |-> live'.recent]
        /\ files' = [state |-> files'.state, clock |-> files'.clock, project |-> files'.project, report |-> files'.report]
        /\ files'.project = files.project /\ files'.state = {Snapshot(s, l, c)}
    BY <2>5, PublishIs
  <2>7. phase' = "running" => Running' BY <2>1, LaunchedIs
  <2>8. Framed BY <2>1, <2>6, <2>7 DEF Framed
  <2>9. Works("worker", <<>>) BY <1>0, <2>1, <2>2, <2>4, <2>6 DEF Works
  <2> QED BY <2>8, <2>9
<1>3. ASSUME WorkerExits PROVE Framed /\ \E role, us : Works(role, us)
  <2> DEFINE u == Collected.usage
             k == Streak(st, Collected)
             s == [st EXCEPT !.streak = k]
             us == <<u>>
  <2>1. /\ phase = "running" /\ phase' \in {"limited", "ran"} /\ UNCHANGED <<live, files, announced, forgotten>>
        /\ Charges(s, "worker", run.agent, us)
    BY <1>3 DEF WorkerExits, Collects
  <2>2. Running BY <1>0, <2>1
  <2>3. u \in Usages
    <3> DEFINE o == [exit |-> run.exit, usage |-> run.shared.usage, killed |-> run.exit = {}, sid |-> run.shared.sid,
                     limited |-> run.shared.limited /\ Number(run.exit) # 0, reset |-> run.shared.reset]
    <3>1. o.usage = run.shared.usage OBVIOUS
    <3>2. Collected = o BY DEF Collected, Outcome
    <3> HIDE DEF o
    <3> QED BY <2>2, <3>1, <3>2 DEF Running
  <2>4. k \in Nat BY <1>0, CountersAre DEF Streak
  <2> HIDE DEF u, k
  <2>5. Like(s) BY <1>0, <2>4 DEF Like, Counters
  <2>6. us \in Seq(Usages) BY <2>3
  <2> HIDE DEF s, us
  <2>7. Charging(us, st', ledger') /\ calls' = Called("worker", "claude", us)
    BY <1>0, <2>1, <2>2, <2>5, <2>6, ChargesWork DEF Up, Running
  <2>8. Framed BY <2>1, Unframed
  <2>9. Works("worker", us) BY <1>0, <2>1, <2>7 DEF Works
  <2> QED BY <2>8, <2>9
<1>4. ASSUME RateLimited \/ WaitEnds PROVE Framed /\ \E role, us : Works(role, us)
  <2> DEFINE t == [st EXCEPT !.waiting = TRUE]
             f == [st EXCEPT !.waiting = FALSE]
  <2>1. Like(t) /\ Like(f) BY <1>0 DEF Like, Counters
  <2>2. /\ phase # "down" /\ phase' \in {"waiting", "between"} /\ announced' = announced /\ st' \in {t, f}
        /\ forgotten' = forgotten /\ ledger' = ledger /\ calls' = calls
    BY <1>4 DEF RateLimited, WaitEnds, history
  <2>3. Like(t) /\ Like(f) /\ (st' = t \/ st' = f) BY <2>1, <2>2
  <2> HIDE DEF t, f
  <2>4. Charging(<<>>, st', ledger') /\ calls' = Called("worker", "claude", <<>>)
    BY <2>2, <2>3, NoCallWorks DEF Up
  <2>5. PICK s, l, c : s = st' /\ l = ledger' /\ c = clock' OBVIOUS
  <2>6. /\ live' = [shot |-> live'.shot, recent |-> live'.recent]
        /\ files' = [state |-> files'.state, clock |-> files'.clock, project |-> files'.project, report |-> files'.report]
        /\ files'.project = files.project /\ files'.state = {Snapshot(s, l, c)}
    <3>1. CASE RateLimited
      <4>1. live' = Published(live, s, l, c) /\ files' = [files EXCEPT !.state = {live'.shot}]
        BY <2>5, <3>1 DEF RateLimited, Publish
      <4> QED BY <4>1, PublishIs
    <3>2. CASE WaitEnds
      <4>1. live' = Published(live, s, l, c) /\ files' = [files EXCEPT !.clock = {clock'}, !.state = {live'.shot}]
        BY <2>5, <3>2 DEF WaitEnds
      <4>2. live = [shot |-> live.shot, recent |-> live.recent] BY DEF AccountsTyped
      <4>3. live' = [shot |-> Snapshot(s, l, c), recent |-> live.recent] BY <4>1, <4>2 DEF Published
      <4>4. live'.shot = Snapshot(s, l, c) /\ live'.recent = live.recent BY <4>3
      <4>5. files = [state |-> files.state, clock |-> files.clock, project |-> files.project, report |-> files.report]
        BY DEF AccountsTyped
      <4>6. files' = [state |-> {Snapshot(s, l, c)}, clock |-> {clock'}, project |-> files.project, report |-> files.report]
        BY <4>1, <4>4, <4>5
      <4>7. /\ files'.state = {Snapshot(s, l, c)} /\ files'.clock = {clock'}
            /\ files'.project = files.project /\ files'.report = files.report
        BY <4>6
      <4> QED BY <4>3, <4>4, <4>6, <4>7
    <3> QED BY <1>4, <3>1, <3>2
  <2>7. Framed BY <2>2, <2>6 DEF Framed
  <2>8. Works("worker", <<>>) BY <1>0, <2>2, <2>4, <2>5, <2>6 DEF Works
  <2> QED BY <2>7, <2>8
<1> QED BY <1>1, <1>2, <1>3, <1>4

\* A run that ends has its record ended, and its last counters published.
LEMMA CloseSteps ==
    ASSUME AccountsTyped, Reconciling, Numbered,
           \/ BaselineEnds \/ OverMaxSessions \/ WorkerIsBroken \/ GoalsMet \/ OverBudget \/ WaitStopped \/ Interrupted
    PROVE  Framed /\ \E role, us, t, m : Closes(role, us, t, m)
<1> USE DEF AccountPhases
<1>0. /\ "worker" \in Roles /\ "ruler" \in Roles /\ RulerAgent \in Agents /\ Ruler \subseteq Seq(Usages)
      /\ st \in Counters /\ ledger \in Seq(Posts) /\ files.project \in Seq(RunRecords)
  BY RulerAssumption DEF Roles, AccountsTyped
<1>1. phase # "down" /\ announced' = announced /\ forgotten' = forgotten
  BY DEF BaselineEnds, OverMaxSessions, WorkerIsBroken, GoalsMet, OverBudget, WaitStopped, Interrupted
<1>2. Up /\ Len(files.project) >= 1 BY <1>1 DEF Up, Numbered
\* records of which the last is finished, updated first or not
<1>3. ASSUME NEW s \in Counters, NEW reason \in Reasons, NEW runs,
             \/ runs = Finished(Updated(files.project, s, ledger), reason)
             \/ runs = Finished(files.project, reason) \/ runs = Dropped(files.project)
      PROVE  EndsWith(runs, s)
  <2> DEFINE n == Len(files.project)
             mid == Updated(files.project, s, ledger)
  <2>1. CASE runs = Finished(mid, reason)
    <3>1. /\ mid \in Seq(RunRecords) /\ Len(mid) = n /\ \A i \in 1 .. n : i # n => mid[i] = files.project[i]
          /\ mid[n].sessions = Less(s.session, s.inherited[1])
      BY <1>0, <1>2, UpdatedIs
    <3> HIDE DEF mid
    <3>2. /\ runs \in Seq(RunRecords) /\ Len(runs) = n /\ \A i \in 1 .. n : i # n => runs[i] = mid[i]
          /\ runs[n].sessions = mid[n].sessions /\ runs[n].ended
      BY <1>2, <2>1, <3>1, FinishedIs
    <3> QED BY <3>1, <3>2 DEF EndsWith
  <2>2. CASE runs = Finished(files.project, reason) \/ runs = Dropped(files.project)
    <3>1. /\ runs \in Seq(RunRecords) /\ Len(runs) = n /\ \A i \in 1 .. n : i # n => runs[i] = files.project[i]
          /\ runs[n].sessions = files.project[n].sessions /\ runs[n].ended
      BY <1>0, <1>2, <2>2, FinishedIs
    <3> QED BY <3>1 DEF EndsWith
  <2> QED BY <1>3, <2>1, <2>2
<1>4. ASSUME BaselineEnds PROVE Framed /\ \E role, us, t, m : Closes(role, us, t, m)
  <2>1. PICK us \in Ruler :
          /\ LET books == Charged(Books(st), "ruler", RulerAgent, us)
             IN  Over(books.counters, books.ledger, Finished(files.project, "already-satisfied"))
          /\ calls' = Called("ruler", RulerAgent, us)
    BY <1>4 DEF BaselineEnds
  <2> DEFINE t == Charged(Books(st), "ruler", RulerAgent, us).counters
             m == Charged(Books(st), "ruler", RulerAgent, us).ledger
             runs == Finished(files.project, "already-satisfied")
  <2>2. Charging(us, t, m) BY <1>0, <1>2, LikeItself, CallsCharge
  <2>3. Over(t, m, runs) BY <2>1
  <2>4. t \in Counters BY <2>2 DEF Charging
  <2>5. calls' = Called("ruler", "claude", us) BY <2>1 DEF Called
  <2> HIDE DEF t, m
  <2>6. EndsWith(runs, t) BY <1>3, <2>4 DEF Reasons
  <2> HIDE DEF runs
  <2>7. /\ Framed /\ phase' = "down" /\ st' = ZeroCounters /\ ledger' = NoLedger
        /\ files'.project = runs /\ \E c : files'.state = {Snapshot(t, m, c)}
    BY <2>3, OverIs
  <2>8. Closes("ruler", us, t, m) BY <1>0, <1>1, <2>2, <2>5, <2>6, <2>7 DEF Closes
  <2> QED BY <2>7, <2>8
<1>5. ASSUME OverMaxSessions \/ WorkerIsBroken \/ GoalsMet \/ OverBudget \/ Interrupted
      PROVE  Framed /\ \E role, us, t, m : Closes(role, us, t, m)
  <2>1. calls' = calls /\ \E runs : EndsWith(runs, st) /\ Over(st, ledger, runs)
    <3>1. calls' = calls BY <1>5 DEF OverMaxSessions, WorkerIsBroken, GoalsMet, OverBudget, Interrupted
    <3>2. ASSUME NEW reason \in Reasons, Ends(st, ledger, reason) PROVE \E runs : EndsWith(runs, st) /\ Over(st, ledger, runs)
      <4> DEFINE runs == Finished(Updated(files.project, st, ledger), reason)
      <4>1. EndsWith(runs, st) BY <1>0, <1>3
      <4>2. Over(st, ledger, runs) BY <3>2 DEF Ends
      <4> QED BY <4>1, <4>2
    <3>3. CASE WorkerIsBroken
      <4> DEFINE runs == Dropped(files.project)
      <4>1. "interrupted" \in Reasons BY DEF Reasons
      <4>2. EndsWith(runs, st) BY <1>0, <1>3, <4>1
      <4>3. Over(st, ledger, runs) BY <3>3 DEF WorkerIsBroken
      <4> QED BY <3>1, <4>2, <4>3
    <3>4. CASE OverMaxSessions BY <3>1, <3>2, <3>4 DEF OverMaxSessions, Reasons
    <3>5. CASE GoalsMet BY <3>1, <3>2, <3>5 DEF GoalsMet, Reasons
    <3>6. CASE OverBudget BY <3>1, <3>2, <3>6 DEF OverBudget, Reasons
    <3>7. CASE Interrupted BY <3>1, <3>2, <3>7 DEF Interrupted, Reasons
    <3> QED BY <1>5, <3>3, <3>4, <3>5, <3>6, <3>7
  <2>2. PICK runs : EndsWith(runs, st) /\ Over(st, ledger, runs) BY <2>1
  <2>3. Charging(<<>>, st, ledger) /\ Called("worker", "claude", <<>>) = calls
    BY <1>2, LikeItself, NoCallCharges
  <2>4. /\ Framed /\ phase' = "down" /\ st' = ZeroCounters /\ ledger' = NoLedger
        /\ files'.project = runs /\ \E c : files'.state = {Snapshot(st, ledger, c)}
    BY <2>2, OverIs
  <2>5. Closes("worker", <<>>, st, ledger) BY <1>0, <1>1, <2>1, <2>2, <2>3, <2>4 DEF Closes
  <2> QED BY <2>4, <2>5
<1>6. ASSUME WaitStopped PROVE Framed /\ \E role, us, t, m : Closes(role, us, t, m)
  <2> DEFINE c == AddRateLimitWait(clock, wait)
             runs == Finished(Updated(files.project, st, ledger), "stopped")
  <2>1. /\ phase' = "down" /\ Gone /\ calls' = calls
        /\ files' = [files EXCEPT !.clock = {c}, !.state = {Snapshot(st, ledger, c)}, !.project = runs,
                                  !.report = {Report(st, ledger, c)}]
    BY <1>6 DEF WaitStopped
  <2>2. EndsWith(runs, st) BY <1>0, <1>3 DEF Reasons
  <2> HIDE DEF c, runs
  <2>3. files = [state |-> files.state, clock |-> files.clock, project |-> files.project, report |-> files.report]
    BY DEF AccountsTyped
  <2>4. files' = [state |-> {Snapshot(st, ledger, c)}, clock |-> {c}, project |-> runs, report |-> {Report(st, ledger, c)}]
    BY <2>1, <2>3
  <2>5. /\ files'.state = {Snapshot(st, ledger, c)} /\ files'.project = runs
        /\ files' = [state |-> files'.state, clock |-> files'.clock, project |-> files'.project, report |-> files'.report]
    BY <2>4
  <2>6. /\ st' = ZeroCounters /\ ledger' = NoLedger /\ live' = [shot |-> {}, recent |-> <<>>]
    BY <2>1 DEF Gone
  <2>7. Framed BY <2>1, <2>5, <2>6 DEF Framed
  <2>8. Charging(<<>>, st, ledger) /\ Called("worker", "claude", <<>>) = calls
    BY <1>2, LikeItself, NoCallCharges
  <2>9. Closes("worker", <<>>, st, ledger) BY <1>0, <1>1, <2>1, <2>2, <2>5, <2>6, <2>8 DEF Closes
  <2> QED BY <2>7, <2>9
<1> QED BY <1>4, <1>5, <1>6

\* The sessions of a history.
SessionsIn(runs) == [l \in DOMAIN runs |-> runs[l].sessions]

\* The sessions of a history add up to its lifetime.
LEMMA SessionsAre ==
    ASSUME NEW runs \in Seq(RunRecords)
    PROVE  /\ SessionsIn(runs) \in Seq(Nat) /\ Len(SessionsIn(runs)) = Len(runs)
           /\ \A i \in 1 .. Len(runs) : SessionsIn(runs)[i] = runs[i].sessions /\ runs[i].sessions \in Nat
           /\ LifetimeSessions(runs) = Total(SessionsIn(runs)) /\ LifetimeSessions(runs) \in Nat
<1> DEFINE n == Len(runs)
<1>1. n \in Nat /\ DOMAIN runs = 1 .. n /\ \A i \in 1 .. n : runs[i] \in RunRecords OBVIOUS
<1>2. \A i \in 1 .. n : runs[i].sessions \in Nat BY <1>1 DEF RunRecords
<1>3. SessionsIn(runs) = [l \in 1 .. n |-> runs[l].sessions] BY <1>1 DEF SessionsIn
<1>4. SessionsIn(runs) \in [1 .. n -> Nat] BY <1>2, <1>3
<1>5. SessionsIn(runs) \in Seq(Nat) /\ Len(SessionsIn(runs)) = n BY <1>1, <1>4
<1>6. LifetimeSessions(runs) = Total(SessionsIn(runs)) BY DEF LifetimeSessions, SessionsIn
<1> QED BY <1>2, <1>3, <1>5, <1>6, TotalNat

\* A record that begins counts nothing.
LEMMA RecordBegins ==
    ASSUME NEW runs \in Seq(RunRecords)
    PROVE  /\ RunRecord \in RunRecords /\ Append(runs, RunRecord) \in Seq(RunRecords)
           /\ LifetimeSessions(Append(runs, RunRecord)) = LifetimeSessions(runs)
<1> DEFINE next == Append(runs, RunRecord)
           v == SessionsIn(runs)
           w == SessionsIn(next)
<1>1. RunRecord \in RunRecords
  <2>1. NoTotals \in Sums BY NoTotalsIs
  <2> QED BY <2>1 DEF RunRecord, RunRecords, Reasons
<1>2. next \in Seq(RunRecords) /\ Len(next) = Len(runs) + 1 /\ next[Len(next)] = RunRecord
      /\ \A i \in 1 .. Len(runs) : next[i] = runs[i]
  BY <1>1
<1> HIDE DEF next
<1>3. RunRecord.sessions = 0 BY DEF RunRecord
<1>4. /\ v \in Seq(Nat) /\ Len(v) = Len(runs) /\ \A i \in 1 .. Len(runs) : v[i] = runs[i].sessions
      /\ LifetimeSessions(runs) = Total(v) /\ LifetimeSessions(runs) \in Nat
  BY SessionsAre
<1>5. /\ w \in Seq(Nat) /\ Len(w) = Len(next) /\ \A i \in 1 .. Len(next) : w[i] = next[i].sessions
      /\ LifetimeSessions(next) = Total(w)
  BY <1>2, SessionsAre
<1> HIDE DEF v, w
<1>6. Len(runs) \in Nat /\ Len(next) \in 1 .. Len(next) BY <1>2
<1>7. Len(w) = Len(v) + 1 /\ (\A i \in 1 .. Len(v) : v[i] = w[i]) /\ w[Len(w)] = 0
  <2>1. Len(w) = Len(next) /\ Len(v) = Len(runs) /\ Len(next) = Len(runs) + 1 BY <1>2, <1>4, <1>5, Zenon
  <2>2. \A i \in 1 .. Len(runs) : i \in 1 .. Len(next) BY <1>6, <2>1
  <2>3. ASSUME NEW i \in 1 .. Len(runs) PROVE v[i] = w[i]
    <3>1. w[i] = next[i].sessions BY <1>5, <2>2, Zenon
    <3>2. v[i] = runs[i].sessions /\ next[i] = runs[i] BY <1>2, <1>4, Zenon
    <3> QED BY <3>1, <3>2, Zenon
  <2>4. w[Len(next)] = 0
    <3>1. w[Len(next)] = next[Len(next)].sessions BY <1>5, <1>6, Zenon
    <3> QED BY <1>2, <1>3, <3>1, Zenon
  <2>5. Len(w) = Len(v) + 1 BY <2>1, Zenon
  <2> QED BY <2>1, <2>3, <2>4, <2>5, Zenon
<1>8. Total(w) = Total(v) + 0 BY <1>4, <1>5, <1>7, TotalOneMore
<1>9. LifetimeSessions(next) = LifetimeSessions(runs) BY <1>4, <1>5, <1>8
<1> QED BY <1>1, <1>2, <1>9 DEF next

\* Records that differ in the last one only.
LEMMA LastRecord ==
    ASSUME NEW runs \in Seq(RunRecords), NEW next \in Seq(RunRecords), Len(runs) >= 1, Len(next) = Len(runs),
           \A i \in 1 .. Len(runs) : i # Len(runs) => next[i] = runs[i]
    PROVE  \E k \in Nat : /\ LifetimeSessions(runs) = k + runs[Len(runs)].sessions
                          /\ LifetimeSessions(next) = k + next[Len(runs)].sessions
<1> DEFINE n == Len(runs)
           v == SessionsIn(runs)
           w == SessionsIn(next)
           p == SubSeq(v, 1, n - 1)
<1>1. n \in Nat /\ n - 1 \in Nat /\ n \in 1 .. n OBVIOUS
<1>2. /\ v \in Seq(Nat) /\ Len(v) = n /\ \A i \in 1 .. n : v[i] = runs[i].sessions
      /\ LifetimeSessions(runs) = Total(v)
  BY SessionsAre
<1>3. /\ w \in Seq(Nat) /\ Len(w) = n /\ \A i \in 1 .. n : w[i] = next[i].sessions
      /\ LifetimeSessions(next) = Total(w)
  BY SessionsAre
<1> HIDE DEF v, w
<1>4. p \in Seq(Nat) /\ Len(p) = n - 1 /\ \A i \in 1 .. n - 1 : p[i] = v[i] BY <1>1, <1>2
<1> HIDE DEF p
<1>5. \A i \in 1 .. n - 1 : i \in 1 .. n /\ i # n BY <1>1
<1>6. \A i \in 1 .. n - 1 : p[i] = w[i] BY <1>2, <1>3, <1>4, <1>5
<1>7. Total(v) = Total(p) + v[n] BY <1>1, <1>2, <1>4, TotalOneMore
<1>8. Total(w) = Total(p) + w[n] BY <1>1, <1>3, <1>4, <1>6, TotalOneMore
<1> QED BY <1>1, <1>2, <1>3, <1>4, <1>7, <1>8, TotalNat

\* Calls made by one more role, at the session of the counters.
LEMMA CalledIs ==
    ASSUME AccountsTyped, NEW role \in Roles, NEW us \in Seq(Usages), NEW made, made = Called(role, "claude", us)
    PROVE  /\ made \in Seq(CallsMade) /\ Len(made) = Len(calls) + Len(us)
           /\ \A i \in 1 .. Len(calls) : made[i] = calls[i]
           /\ \A i \in 1 .. Len(us) : /\ made[Len(calls) + i].launch = Len(files.project)
                                      /\ made[Len(calls) + i].session = st.session
                                      /\ made[Len(calls) + i].usage = us[i]
<1> DEFINE new == [i \in DOMAIN us |->
                     [launch |-> Len(files.project), session |-> st.session, role |-> role, usage |-> us[i]]]
<1>1. calls \in Seq(CallsMade) /\ Len(calls) \in Nat /\ Len(files.project) \in Nat /\ st.session \in Nat
  BY CountersAre DEF AccountsTyped
<1>2. DOMAIN us = 1 .. Len(us) /\ Len(us) \in Nat /\ \A i \in 1 .. Len(us) : us[i] \in Usages OBVIOUS
<1>3. \A i \in 1 .. Len(us) :
        /\ new[i] \in CallsMade /\ new[i].launch = Len(files.project) /\ new[i].session = st.session /\ new[i].usage = us[i]
  BY <1>1, <1>2 DEF CallsMade
<1>4. new \in Seq(CallsMade) /\ Len(new) = Len(us)
  <2>1. new = [i \in 1 .. Len(us) |-> new[i]] BY <1>2
  <2> HIDE DEF new
  <2>2. new \in [1 .. Len(us) -> CallsMade] BY <1>3, <2>1
  <2> QED BY <1>2, <2>2
<1>5. made = calls \o new BY DEF Called
<1> HIDE DEF new
<1>6. /\ made \in Seq(CallsMade) /\ Len(made) = Len(calls) + Len(new)
      /\ \A i \in 1 .. Len(calls) : made[i] = calls[i]
      /\ \A i \in 1 .. Len(new) : made[Len(calls) + i] = new[i]
  <2>1. PICK old : old = calls OBVIOUS
  <2>2. old \in Seq(CallsMade) /\ made = old \o new BY <1>1, <1>5, <2>1
  <2>3. made \in Seq(CallsMade) /\ Len(made) = Len(old) + Len(new) BY <1>4, <2>2, ConcatProperties
  <2>4. \A i \in 1 .. Len(old) : made[i] = old[i] BY <1>4, <2>2
  <2>5. \A i \in 1 .. Len(new) : made[Len(old) + i] = new[i] BY <1>4, <2>2
  <2> QED BY <2>1, <2>3, <2>4, <2>5
<1> QED BY <1>3, <1>4, <1>6

\* What is kept of each call.
LEMMA KeptIs ==
    ASSUME NEW made \in Seq(CallsMade), NEW runs, NEW running
    PROVE  /\ Kept(made, runs, running) \in Seq(Nat) /\ Len(Kept(made, runs, running)) = Len(made)
           /\ \A i \in 1 .. Len(made) : /\ made[i] \in CallsMade /\ OutputOf(made[i].usage) \in Nat
                                        /\ Kept(made, runs, running)[i] = IF Lost(made, runs, running, made[i]) THEN 0
                                                                          ELSE OutputOf(made[i].usage)
<1> DEFINE k == Kept(made, runs, running)
           n == Len(made)
<1>1. n \in Nat /\ DOMAIN made = 1 .. n /\ \A i \in 1 .. n : made[i] \in CallsMade OBVIOUS
<1>2. \A i \in 1 .. n : OutputOf(made[i].usage) \in Nat BY <1>1, OutputIs DEF CallsMade
<1>3. k = [i \in 1 .. n |-> IF Lost(made, runs, running, made[i]) THEN 0 ELSE OutputOf(made[i].usage)]
  BY <1>1 DEF Kept
<1>4. \A i \in 1 .. n : k[i] = IF Lost(made, runs, running, made[i]) THEN 0 ELSE OutputOf(made[i].usage) BY <1>3
<1>5. k = [i \in 1 .. n |-> k[i]] BY <1>3
<1> HIDE DEF k
<1>6. \A i \in 1 .. n : k[i] \in Nat BY <1>2, <1>4
<1>7. k \in [1 .. n -> Nat] BY <1>5, <1>6
<1>8. k \in Seq(Nat) /\ Len(k) = n BY <1>1, <1>7
<1> QED BY <1>1, <1>2, <1>4, <1>8 DEF k

\* What was lost stays lost and what is new is no more than this: the kept is bounded so.
LEMMA KeptGrows ==
    ASSUME NEW made \in Seq(CallsMade), NEW next \in Seq(CallsMade), NEW v \in Seq(Nat), Len(next) = Len(made) + Len(v),
           NEW runs, NEW running, NEW after, NEW later,
           \A i \in 1 .. Len(made) : /\ next[i] = made[i]
                                     /\ Lost(made, runs, running, made[i]) => Lost(next, after, later, made[i]),
           \A i \in 1 .. Len(v) : Kept(next, after, later)[Len(made) + i] <= v[i]
    PROVE  Total(Kept(next, after, later)) <= Total(Kept(made, runs, running)) + Total(v)
<1> DEFINE old == Kept(made, runs, running)
           new == Kept(next, after, later)
           m == Len(made)
           both == old \o v
<1>1. m \in Nat /\ Len(v) \in Nat OBVIOUS
<1>2. /\ old \in Seq(Nat) /\ Len(old) = m
      /\ \A i \in 1 .. m : /\ OutputOf(made[i].usage) \in Nat
                           /\ old[i] = IF Lost(made, runs, running, made[i]) THEN 0 ELSE OutputOf(made[i].usage)
  BY KeptIs
<1>3. /\ new \in Seq(Nat) /\ Len(new) = Len(next)
      /\ \A i \in 1 .. Len(next) : new[i] = IF Lost(next, after, later, next[i]) THEN 0 ELSE OutputOf(next[i].usage)
  BY KeptIs
<1>4. \A i \in 1 .. Len(v) : new[m + i] <= v[i] OBVIOUS
<1> HIDE DEF old, new
<1>5. both \in Seq(Nat) /\ Len(both) = m + Len(v) /\ \A i \in 1 .. m : both[i] = old[i]
  <2>1. both \in Seq(Nat) /\ Len(both) = Len(old) + Len(v) BY <1>2, ConcatProperties
  <2>2. \A i \in 1 .. Len(old) : both[i] = old[i] BY <1>2
  <2> HIDE DEF both
  <2> QED BY <1>2, <2>1, <2>2
<1>6. \A j \in 1 .. Len(v) : both[m + j] = v[j] BY <1>1, <1>2
<1>7. Total(both) = Total(old) + Total(v) BY <1>2, TotalGoesOn
<1> HIDE DEF both
<1>8. ASSUME NEW i \in 1 .. Len(both) PROVE new[i] <= both[i]
  <2>1. CASE i \in 1 .. m
    <3>1. i \in 1 .. Len(next) BY <1>1, <2>1
    <3>2. /\ next[i] = made[i] /\ (Lost(made, runs, running, made[i]) => Lost(next, after, later, made[i]))
          /\ OutputOf(made[i].usage) \in Nat
      BY <1>2, <2>1
    <3>3. new[i] = IF Lost(next, after, later, made[i]) THEN 0 ELSE OutputOf(made[i].usage) BY <1>3, <3>1, <3>2
    <3>4. both[i] = IF Lost(made, runs, running, made[i]) THEN 0 ELSE OutputOf(made[i].usage) BY <1>2, <1>5, <2>1
    <3>5. new[i] \in Nat /\ both[i] \in Nat BY <3>2, <3>3, <3>4
    <3> QED BY <3>2, <3>3, <3>4
  <2>2. CASE i \notin 1 .. m
    <3>1. PICK j \in 1 .. Len(v) : i = m + j
      <4>1. i - m \in 1 .. Len(v) /\ i = m + (i - m) BY <1>1, <1>5, <2>2
      <4> QED BY <4>1
    <3> QED BY <1>4, <1>6, <3>1
  <2> QED BY <2>1, <2>2
<1>9. Len(new) = Len(both) BY <1>3, <1>5
<1>10. Total(new) <= Total(both) BY <1>3, <1>5, <1>8, <1>9, TotalMonotone
<1> QED BY <1>7, <1>10 DEF old, new

\* A snapshot is of the counters it was taken of.
LEMMA SnapshotIs ==
    ASSUME NEW s \in Counters, AgentsAgree(s), NEW l, NEW c
    PROVE  /\ ShotIs(Snapshot(s, l, c))
           /\ Snapshot(s, l, c).session = s.session /\ Snapshot(s, l, c).tokens = s.tokens
<1> DEFINE x == Snapshot(s, l, c)
           w == s.waiting
           y == [session |-> s.session, lifetime |-> Lifetime(s), tokens |-> s.tokens, cost |-> s.cost,
                 per_agent |-> s.per_agent, waiting |-> w,
                 time |-> [wall |-> Wall(c), work |-> Work(c)], clock_started_at |-> c.start,
                 usage |-> Summary(l).total]
<1>1. x = y BY DEF Snapshot
<1>2. y.session = s.session /\ y.tokens = s.tokens /\ y.cost = s.cost /\ y.per_agent = s.per_agent OBVIOUS
<1> HIDE DEF x, y
<1>3. s.session \in Nat /\ s.tokens \in Nat /\ s.cost \in Nat /\ s.per_agent \in PerAgent BY CountersAre
<1>4. x.session = s.session /\ x.tokens = s.tokens /\ x.cost = s.cost /\ x.per_agent = s.per_agent BY <1>1, <1>2
<1>5. AgentsAgree(x) BY <1>4 DEF AgentsAgree
<1>6. ShotIs(x) BY <1>3, <1>4, <1>5 DEF ShotIs
<1> QED BY <1>4, <1>6 DEF x

\* Nothing is on the record of a process that is not there.
LEMMA NothingIs ==
    /\ ZeroCounters \in Counters /\ NoLedger \in Seq(Posts) /\ AgentsAgree(ZeroCounters)
    /\ ZeroCounters.session = 0 /\ ZeroCounters.tokens = 0 /\ ZeroCounters.inherited = <<0, 0>>
    /\ ZeroCounters.lifetime_base = 0 /\ ZeroCounters.cost = 0 /\ ZeroCounters.per_agent = NoAgents
    /\ \A s \in Counters : s.tokens = s.inherited[2] => LedgerAgrees(s, NoLedger)
<1>1. NoAgents \in PerAgent /\ \A a : OfAgent(NoAgents, a) = [tokens |-> 0, cost |-> {}]
  BY DEF NoAgents, PerAgent, OfAgent
<1> DEFINE z == ZeroCounters
<1>2. z = [session |-> 0, tokens |-> 0, cost |-> 0, per_agent |-> NoAgents,
           inherited |-> <<0, 0>>, lifetime_base |-> 0, streak |-> 0, waiting |-> FALSE]
  BY DEF ZeroCounters
<1>3. z \in Counters BY <1>1, <1>2 DEF Counters
<1>4. /\ z.session = 0 /\ z.tokens = 0 /\ z.cost = 0 /\ z.per_agent = NoAgents
      /\ z.inherited = <<0, 0>> /\ z.lifetime_base = 0
  BY <1>2
<1> HIDE DEF z
<1>5. Number({}) = 0 BY DEF Number
<1>6. AgentsAgree(z)
  <2>1. \A a : OfAgent(z.per_agent, a).tokens = 0 /\ Number(OfAgent(z.per_agent, a).cost) = 0 BY <1>1, <1>4, <1>5
  <2>2. DOMAIN z.per_agent \subseteq Agents BY <1>4 DEF NoAgents
  <2> QED BY <1>4, <2>1, <2>2 DEF AgentsAgree
<1>7. NoLedger \in Seq(Posts) /\ Len(NoLedger) = 0 BY DEF NoLedger
<1>8. \A roles : SumOf(NoLedger, roles) = NoTotals
  <2>1. ASSUME NEW roles PROVE SumOf(NoLedger, roles) = NoTotals
    <3>1. PartOf(NoLedger, roles) = <<>> BY <1>7 DEF PartOf, NoLedger
    <3>2. SumOf(NoLedger, roles) = MergeAll(PartOf(NoLedger, roles)) BY DEF SumOf, PartOf
    <3> QED BY <3>1, <3>2, MergeAllNone, Zenon
  <2> QED BY <2>1
<1>9. ASSUME NEW s \in Counters, s.tokens = s.inherited[2] PROVE LedgerAgrees(s, NoLedger)
  <2> DEFINE y == Summary(NoLedger)
  <2>1. y.total = NoTotals /\ y.worker = NoTotals /\ y.ruler = NoTotals BY <1>8 DEF Summary
  <2> HIDE DEF y
  <2>2. Merge(NoTotals, NoTotals) = NoTotals BY NoTotalsIs, MergeNothing
  <2>3. Number(NoTotals.tokens["output"]) = 0
    <3>1. NoTotals.tokens = NoTokens BY NoTotalsIs
    <3> QED BY <1>5, <3>1 DEF NoTokens, Kinds
  <2>4. s.tokens \in Nat /\ s.inherited[2] \in Nat BY CountersAre
  <2> QED BY <1>9, <2>1, <2>2, <2>3, <2>4 DEF LedgerAgrees, y
<1> QED BY <1>3, <1>4, <1>6, <1>7, <1>9 DEF z

\* The invariant holds before the first launch.
LEMMA InitAccounts == AccountsInit => AccountsInv
<1> SUFFICES ASSUME AccountsInit PROVE AccountsInv
  OBVIOUS
<1>1. /\ phase = "down" /\ st = ZeroCounters /\ ledger = NoLedger /\ announced = 0 /\ calls = <<>>
      /\ forgotten = 0 /\ live = [shot |-> {}, recent |-> <<>>] /\ files = [state |-> {}, clock |-> {}, project |-> <<>>, report |-> {}]
  BY DEF AccountsInit
<1>2. files.state = {} /\ files.project = <<>> BY <1>1
<1>3. AccountsTyped BY <1>1, NothingIs DEF AccountsTyped
<1>4. Reconciling BY <1>1, <1>2 DEF Reconciling, Up
<1>5. LifetimeSessions(<<>>) = 0
  <2>1. <<>> \in Seq(RunRecords) /\ SessionsIn(<<>>) = <<>> BY DEF SessionsIn
  <2> QED BY <2>1, SessionsAre, TotalNone
<1>6. Numbered BY <1>1, <1>2, <1>5 DEF Numbered, Up
<1>7. Dated /\ Saved BY <1>1, <1>2 DEF Dated, Saved, Up
<1> QED BY <1>3, <1>4, <1>6, <1>7 DEF AccountsInv

\* A step that leaves the accounts keeps them.
LEMMA IdlesKeep == ASSUME AccountsInv, Idles, Framed PROVE AccountsInv'
<1>1. /\ UNCHANGED <<st, ledger, files, calls, announced, forgotten>> /\ Up' = Up
      /\ phase' \in {"boot", "ran", "limited"} <=> phase \in {"boot", "ran", "limited"}
      /\ phase' = "boot" <=> phase = "boot"
  BY DEF Idles, Up
<1>2. AccountsTyped' BY <1>1 DEF AccountsInv, AccountsTyped, Framed, AccountPhases
<1>3. Reconciling' BY <1>1 DEF AccountsInv, Reconciling
<1>4. Numbered' BY <1>1 DEF AccountsInv, Numbered
<1>5. Dated' BY <1>1 DEF AccountsInv, Dated
<1>6. Saved' BY <1>1 DEF AccountsInv, Saved
<1> QED BY <1>2, <1>3, <1>4, <1>5, <1>6 DEF AccountsInv

\* A kill leaves the files; what a resume starts from is what they say.
LEMMA CrashKeeps == ASSUME AccountsInv, Crash PROVE AccountsInv'
<1>1. /\ UNCHANGED <<files, calls, announced>> /\ phase' = "down" /\ phase # "down"
      /\ ledger' = NoLedger /\ st' = ZeroCounters /\ live' = [shot |-> {}, recent |-> <<>>]
      /\ forgotten' = IF phase = "boot" THEN forgotten + st.tokens ELSE forgotten
  BY DEF Crash, Gone
<1>0. forgotten \in Nat /\ st.tokens \in Nat /\ forgotten' \in Nat
  <2>1. forgotten \in Nat /\ st.tokens \in Nat BY CountersAre DEF AccountsInv, AccountsTyped
  <2> QED BY <1>1, <2>1
<1>2. AccountsTyped' BY <1>0, <1>1, NothingIs DEF AccountsInv, AccountsTyped
<1>3. Reconciling' BY <1>1 DEF AccountsInv, Reconciling, Up
<1>4. Numbered' BY <1>1 DEF AccountsInv, Numbered, Up
<1>5. Dated' BY <1>1 DEF AccountsInv, Dated, Up
<1>6. Saved'
  <2> DEFINE k == Total(Kept(calls, files.project, Len(files.project) + 1))
  <2>1. \A shot \in files.state : k <= shot.tokens + forgotten'
    <3>1. ASSUME phase = "boot", NEW shot \in files.state PROVE k <= shot.tokens + forgotten'
      <4>1. k <= st.tokens + forgotten /\ shot.tokens \in Nat
        BY <3>1 DEF AccountsInv, Saved, Reconciling, ShotIs
      <4>2. k \in Nat BY KeptIs, TotalNat DEF AccountsInv, AccountsTyped
      <4> HIDE DEF k
      <4> QED BY <1>0, <1>1, <3>1, <4>1, <4>2
    <3>2. ASSUME phase # "boot" PROVE \A shot \in files.state : k <= shot.tokens + forgotten'
      BY <1>1, <3>2 DEF AccountsInv, Saved
    <3> QED BY <3>1, <3>2
  <2> QED BY <1>1, <2>1 DEF Saved, Up
<1> QED BY <1>2, <1>3, <1>4, <1>5, <1>6 DEF AccountsInv

\* A session is counted in memory and in the record before anything else of it.
LEMMA AnnounceKeeps == ASSUME AccountsInv, Announce PROVE AccountsInv'
<1> DEFINE n == Len(files.project)
           t == [st EXCEPT !.session = @ + 1]
           runs == Updated(files.project, t, ledger)
<1>0. AccountsTyped /\ Reconciling /\ Numbered /\ Dated /\ Saved BY DEF AccountsInv
<1>1. /\ phase = "between" /\ phase' = "announced" /\ announced' = announced + 1 /\ UNCHANGED <<ledger, live, calls, forgotten>>
      /\ st' = t /\ files' = [files EXCEPT !.project = runs]
  BY DEF Announce
<1>2. /\ st \in Counters /\ ledger \in Seq(Posts) /\ files.project \in Seq(RunRecords) /\ n \in Nat /\ n >= 1
      /\ announced \in Nat
  BY <1>0, <1>1 DEF AccountsTyped, Numbered, Up
<1>3. /\ t \in Counters /\ t.session = st.session + 1 /\ t.tokens = st.tokens /\ t.cost = st.cost
      /\ t.per_agent = st.per_agent /\ t.inherited = st.inherited /\ t.lifetime_base = st.lifetime_base
  <2>0. st \in Counters BY <1>2, Zenon
  <2>1. st.session \in Nat BY <2>0, CountersAre
  <2>2. t \in Counters
    <3>1. st.session + 1 \in Nat BY <2>1
    <3> QED BY <2>0, <3>1 DEF Counters
  <2>3. t.session = st.session + 1 BY <1>2 DEF Counters
  <2>4. t.tokens = st.tokens /\ t.cost = st.cost BY <1>2 DEF Counters
  <2>5. t.per_agent = st.per_agent /\ t.inherited = st.inherited BY <1>2 DEF Counters
  <2>6. t.lifetime_base = st.lifetime_base BY <1>2 DEF Counters
  <2> QED BY <2>2, <2>3, <2>4, <2>5, <2>6
<1>4. st.session \in Nat /\ st.tokens \in Nat /\ st.inherited[1] \in Nat /\ st.lifetime_base \in Nat BY <1>2, CountersAre
<1> HIDE DEF t
<1>5. /\ runs \in Seq(RunRecords) /\ Len(runs) = n /\ \A i \in 1 .. n : i # n => runs[i] = files.project[i]
      /\ runs[n].sessions = Less(t.session, t.inherited[1]) /\ runs[n].ended = files.project[n].ended
  BY <1>2, <1>3, UpdatedIs
<1> HIDE DEF runs
<1>6. /\ files'.project = runs /\ files'.state = files.state
      /\ files' = [state |-> files'.state, clock |-> files'.clock, project |-> files'.project, report |-> files'.report]
  <2>1. files = [state |-> files.state, clock |-> files.clock, project |-> files.project, report |-> files.report]
    BY <1>0 DEF AccountsTyped
  <2> QED BY <1>1, <2>1
<1>7. AccountsTyped'
  BY <1>0, <1>1, <1>2, <1>3, <1>5, <1>6 DEF AccountsTyped
<1>8. Reconciling'
  <2>1. AgentsAgree(st) /\ LedgerAgrees(st, ledger) BY <1>0, <1>1 DEF Reconciling, Up
  <2>2. AgentsAgree(t) BY <1>3, <2>1 DEF AgentsAgree
  <2>3. LedgerAgrees(t, ledger) BY <1>3, <2>1 DEF LedgerAgrees
  <2> QED BY <1>0, <1>1, <1>6, <2>2, <2>3 DEF Reconciling, Up
<1>9. Numbered'
  <2>1. /\ LifetimeSessions(files.project) = announced /\ (\A shot \in files.state : shot.session <= announced)
        /\ ~files.project[n].ended /\ st.inherited[1] <= st.session
        /\ files.project[n].sessions = st.session - st.inherited[1] /\ st.lifetime_base + st.session = announced
    BY <1>0, <1>1 DEF Numbered, Up, Lifetime
  <2>2. runs[n].sessions = st.session + 1 - st.inherited[1]
    <3>1. runs[n].sessions = Less(st.session + 1, st.inherited[1]) BY <1>3, <1>5, Zenon
    <3>2. PICK a, b \in Nat : a = st.session /\ b = st.inherited[1] BY <1>4, Zenon
    <3>3. b <= a BY <2>1, <3>2, Zenon
    <3>4. Less(a + 1, b) = a + 1 - b BY <3>3 DEF Less
    <3> QED BY <3>1, <3>2, <3>4, Zenon
  <2>3. PICK k \in Nat : /\ LifetimeSessions(files.project) = k + files.project[n].sessions
                         /\ LifetimeSessions(runs) = k + runs[n].sessions
    BY <1>2, <1>5, LastRecord
  <2>4. LifetimeSessions(runs) = announced + 1
    <3>1. LifetimeSessions(runs) = k + (st.session + 1 - st.inherited[1]) BY <2>2, <2>3, Zenon
    <3>2. announced = k + (st.session - st.inherited[1]) BY <2>1, <2>3, Zenon
    <3> QED BY <1>4, <3>1, <3>2
  <2>5. \A shot \in files.state : shot.session <= announced + 1
    <3>1. \A shot \in files.state : shot.session \in Nat BY <1>0 DEF Reconciling, ShotIs
    <3> QED BY <1>2, <2>1, <3>1
  <2>6. Lifetime(t) = announced + 1 /\ t.inherited[1] <= t.session
    <3>1. Lifetime(t) = st.lifetime_base + (st.session + 1) BY <1>3, Zenon DEF Lifetime
    <3>2. t.inherited[1] = st.inherited[1] /\ t.session = st.session + 1 BY <1>3, Zenon
    <3>3. PICK a, b, c \in Nat : a = st.session /\ b = st.inherited[1] /\ c = st.lifetime_base BY <1>4, Zenon
    <3>4. b <= a /\ c + a = announced BY <2>1, <3>3, Zenon
    <3>5. c + (a + 1) = announced + 1 /\ b <= a + 1 BY <3>4
    <3> QED BY <3>1, <3>2, <3>3, <3>5, Zenon
  <2>7. Len(runs) >= 1 /\ ~runs[Len(runs)].ended /\ runs[Len(runs)].sessions = t.session - t.inherited[1]
    <3>1. ~runs[n].ended BY <1>5, <2>1, Zenon
    <3>2. runs[n].sessions = t.session - t.inherited[1] BY <1>3, <1>4, <2>2
    <3> QED BY <1>2, <1>5, <3>1, <3>2
  <2> QED BY <1>1, <1>6, <2>4, <2>5, <2>6, <2>7 DEF Numbered
<1>10. Dated'
  <2>1. /\ \A i \in DOMAIN calls : calls[i].launch \in 1 .. n
        /\ \A i \in DOMAIN calls : calls[i].launch = n => calls[i].session <= st.session
    BY <1>0, <1>1 DEF Dated, Up
  <2>2. calls \in Seq(CallsMade) BY <1>0 DEF AccountsTyped
  <2>3. \A i \in DOMAIN calls : calls[i].session \in Nat
    <3>1. \A i \in DOMAIN calls : calls[i] \in CallsMade BY <2>2
    <3> QED BY <3>1 DEF CallsMade
  <2>4. \A i \in DOMAIN calls : calls[i].launch = n => calls[i].session <= t.session BY <1>3, <1>4, <2>1, <2>3
  <2> QED BY <1>1, <1>5, <1>6, <2>1, <2>4 DEF Dated
<1>11. Saved'
  <2>1. \A i \in 1 .. n : runs[i].ended = files.project[i].ended BY <1>2, <1>5
  <2>2. \A i \in DOMAIN calls : runs[calls[i].launch].ended = files.project[calls[i].launch].ended
    BY <1>0, <2>1 DEF Dated
  <2>3. ASSUME NEW running PROVE Kept(calls, runs, running) = Kept(calls, files.project, running)
    <3>1. \A i \in DOMAIN calls : Lost(calls, runs, running, calls[i]) = Lost(calls, files.project, running, calls[i])
      BY <2>2 DEF Lost
    <3> QED BY <3>1 DEF Kept
  <2>4. /\ \A shot \in files.state : Total(Kept(calls, files.project, n + 1)) <= shot.tokens + forgotten
        /\ Total(Kept(calls, files.project, n)) <= st.tokens + forgotten
        /\ \A shot \in files.state : shot.tokens = st.tokens
    BY <1>0, <1>1 DEF Saved, Up
  <2>5. Kept(calls, runs, n) = Kept(calls, files.project, n) /\ Kept(calls, runs, n + 1) = Kept(calls, files.project, n + 1)
    BY <2>3
  <2> QED BY <1>1, <1>3, <1>5, <1>6, <2>4, <2>5 DEF Saved
<1> QED BY <1>7, <1>8, <1>9, <1>10, <1>11 DEF AccountsInv

\* Calls made are kept by what counts them, now and when the run is over.
LEMMA KeptCalls ==
    ASSUME AccountsTyped, Dated, NEW role \in Roles, NEW us \in Seq(Usages), NEW made, made = Called(role, "claude", us),
           NEW after, NEW later \in {Len(files.project), Len(files.project) + 1},
           \A i \in 1 .. Len(files.project) : i # Len(files.project) => after[i].ended = files.project[i].ended
    PROVE  Total(Kept(made, after, later)) <= Total(Kept(calls, files.project, Len(files.project))) + Total(Outputs(us))
<1> DEFINE n == Len(files.project)
           v == Outputs(us)
<1>0. PICK old, runs : old = calls /\ runs = files.project OBVIOUS
<1>1. /\ old \in Seq(CallsMade) /\ n \in Nat /\ \A i \in 1 .. Len(old) : old[i].launch \in 1 .. n
  BY <1>0 DEF AccountsTyped, Dated
<1>2. /\ made \in Seq(CallsMade) /\ Len(made) = Len(old) + Len(us) /\ \A i \in 1 .. Len(old) : made[i] = old[i]
      /\ \A i \in 1 .. Len(us) : made[Len(old) + i].launch = n /\ made[Len(old) + i].usage = us[i]
  BY <1>0, CalledIs
<1>3. v \in Seq(Nat) /\ Len(v) = Len(us) /\ \A i \in 1 .. Len(us) : v[i] = OutputOf(us[i]) BY OutputsAre
<1>4. later \in {n, n + 1} /\ \A i \in 1 .. n : i # n => after[i].ended = runs[i].ended BY <1>0
<1>5. Len(old) \in Nat /\ Len(us) \in Nat /\ Len(made) \in Nat BY <1>1, <1>2
<1> HIDE DEF n, v
<1>6. ASSUME NEW i \in 1 .. Len(old), Lost(old, runs, n, old[i]) PROVE Lost(made, after, later, made[i])
  <2>1. old[i].launch # n /\ ~runs[old[i].launch].ended /\ OfLastSession(old, old[i]) BY <1>6 DEF Lost
  <2>2. old[i].launch \in 1 .. n /\ made[i] = old[i] BY <1>1, <1>2
  <2>3. old[i].launch # later BY <1>1, <1>4, <2>1, <2>2
  <2>4. ~after[old[i].launch].ended
    <3>1. after[old[i].launch].ended = runs[old[i].launch].ended BY <1>4, <2>1, <2>2
    <3> QED BY <2>1, <3>1, Zenon
  <2>5. ASSUME NEW j \in 1 .. Len(made) PROVE (j \in 1 .. Len(old) /\ made[j] = old[j]) \/ made[j].launch = n
    <3>1. CASE j \in 1 .. Len(old) BY <1>2, <3>1
    <3>2. CASE j \notin 1 .. Len(old)
      <4>1. j - Len(old) \in 1 .. Len(us) /\ j = Len(old) + (j - Len(old)) BY <1>2, <1>5, <3>2
      <4>2. made[Len(old) + (j - Len(old))].launch = n BY <1>2, <4>1
      <4> QED BY <4>1, <4>2
    <3> QED BY <3>1, <3>2
  <2>6. OfLastSession(made, old[i])
    <3>1. DOMAIN old = 1 .. Len(old) /\ DOMAIN made = 1 .. Len(made) BY <1>1, <1>2
    <3>2. PICK c : c = old[i] OBVIOUS
    <3>3. c.launch # n /\ OfLastSession(old, c) BY <2>1, <3>2, Zenon
    <3>4. ASSUME NEW j \in 1 .. Len(made), made[j].launch = c.launch PROVE made[j].session <= c.session
      <4>1. j \in 1 .. Len(old) /\ made[j] = old[j] BY <2>5, <3>3, <3>4, Zenon
      <4> QED BY <3>1, <3>3, <3>4, <4>1, Zenon DEF OfLastSession
    <3>5. OfLastSession(made, c) BY <3>1, <3>4, Zenon DEF OfLastSession
    <3> QED BY <3>2, <3>5, Zenon
  <2> QED BY <2>2, <2>3, <2>4, <2>6 DEF Lost
<1>7. ASSUME NEW i \in 1 .. Len(v) PROVE Kept(made, after, later)[Len(old) + i] <= v[i]
  <2>1. Len(old) + i \in 1 .. Len(made) /\ i \in 1 .. Len(us) BY <1>2, <1>3, <1>5
  <2>2. /\ OutputOf(made[Len(old) + i].usage) \in Nat
        /\ Kept(made, after, later)[Len(old) + i] = IF Lost(made, after, later, made[Len(old) + i]) THEN 0
                                                    ELSE OutputOf(made[Len(old) + i].usage)
    <3>1. made \in Seq(CallsMade) BY <1>2, Zenon
    <3>2. PICK x \in 1 .. Len(made) : x = Len(old) + i BY <2>1, Zenon
    <3>3. /\ OutputOf(made[x].usage) \in Nat
          /\ Kept(made, after, later)[x] = IF Lost(made, after, later, made[x]) THEN 0 ELSE OutputOf(made[x].usage)
      BY <3>1, KeptIs
    <3> QED BY <3>2, <3>3, Zenon
  <2>3. made[Len(old) + i].usage = us[i] /\ v[i] = OutputOf(us[i]) BY <1>2, <1>3, <2>1
  <2> QED BY <2>2, <2>3
<1>8. Total(Kept(made, after, later)) <= Total(Kept(old, runs, n)) + Total(v)
  BY <1>1, <1>2, <1>3, <1>6, <1>7, KeptGrows
<1> QED BY <1>0, <1>8 DEF n, v

\* Calls of the session that runs would be lost with it.
LEMMA KeptLast ==
    ASSUME AccountsTyped, Dated, Up, ~files.project[Len(files.project)].ended,
           NEW role \in Roles, NEW us \in Seq(Usages), NEW made, made = Called(role, "claude", us)
    PROVE  Total(Kept(made, files.project, Len(files.project) + 1)) <= Total(Kept(calls, files.project, Len(files.project)))
<1> DEFINE n == Len(files.project)
           v == [i \in 1 .. Len(us) |-> 0]
<1>0. PICK old, runs : old = calls /\ runs = files.project OBVIOUS
<1>a. PICK top : top = st.session OBVIOUS
<1>1. /\ old \in Seq(CallsMade) /\ n \in Nat /\ \A i \in 1 .. Len(old) : old[i].launch \in 1 .. n
      /\ top \in Nat /\ \A i \in 1 .. Len(old) : old[i].launch = n => old[i].session <= top
  BY <1>0, <1>a, CountersAre DEF AccountsTyped, Dated
<1>2. /\ made \in Seq(CallsMade) /\ Len(made) = Len(old) + Len(us) /\ \A i \in 1 .. Len(old) : made[i] = old[i]
      /\ \A i \in 1 .. Len(us) : made[Len(old) + i].launch = n /\ made[Len(old) + i].session = top
  BY <1>0, <1>a, CalledIs
<1>3. ~runs[n].ended BY <1>0
<1>5. Len(old) \in Nat /\ Len(us) \in Nat /\ Len(made) \in Nat BY <1>1, <1>2
<1>4. v \in Seq(Nat) /\ Len(v) = Len(us) /\ \A i \in 1 .. Len(us) : v[i] = 0 BY <1>5
<1> HIDE DEF n, v
<1>b. ASSUME NEW j \in 1 .. Len(made)
      PROVE  (j \in 1 .. Len(old) /\ made[j] = old[j]) \/ (made[j].launch = n /\ made[j].session = top)
  <2>1. CASE j \in 1 .. Len(old) BY <1>2, <2>1
  <2>2. CASE j \notin 1 .. Len(old)
    <3>1. j - Len(old) \in 1 .. Len(us) /\ j = Len(old) + (j - Len(old)) BY <1>2, <1>5, <2>2
    <3>2. made[Len(old) + (j - Len(old))].launch = n /\ made[Len(old) + (j - Len(old))].session = top BY <1>2, <3>1
    <3> QED BY <3>1, <3>2
  <2> QED BY <2>1, <2>2
<1>6. ASSUME NEW i \in 1 .. Len(old), Lost(old, runs, n, old[i]) PROVE Lost(made, runs, n + 1, made[i])
  <2>1. old[i].launch # n /\ ~runs[old[i].launch].ended /\ OfLastSession(old, old[i]) BY <1>6 DEF Lost
  <2>2. old[i].launch \in 1 .. n /\ made[i] = old[i] BY <1>1, <1>2
  <2>3. old[i].launch # n + 1 BY <1>1, <2>2
  <2>4. \A j \in 1 .. Len(made) : (j \in 1 .. Len(old) /\ made[j] = old[j]) \/ made[j].launch = n BY <1>b
  <2>5. OfLastSession(made, old[i])
    <3>1. DOMAIN old = 1 .. Len(old) /\ DOMAIN made = 1 .. Len(made) BY <1>1, <1>2
    <3>2. PICK c : c = old[i] OBVIOUS
    <3>3. c.launch # n /\ OfLastSession(old, c) BY <2>1, <3>2, Zenon
    <3>4. ASSUME NEW j \in 1 .. Len(made), made[j].launch = c.launch PROVE made[j].session <= c.session
      <4>1. j \in 1 .. Len(old) /\ made[j] = old[j] BY <2>4, <3>3, <3>4, Zenon
      <4> QED BY <3>1, <3>3, <3>4, <4>1, Zenon DEF OfLastSession
    <3>5. OfLastSession(made, c) BY <3>1, <3>4, Zenon DEF OfLastSession
    <3> QED BY <3>2, <3>5, Zenon
  <2> QED BY <2>1, <2>2, <2>3, <2>5 DEF Lost
<1>7. ASSUME NEW i \in 1 .. Len(v) PROVE Kept(made, runs, n + 1)[Len(old) + i] <= v[i]
  <2> DEFINE c == made[Len(old) + i]
  <2>1. Len(old) + i \in 1 .. Len(made) /\ i \in 1 .. Len(us) BY <1>2, <1>4, <1>5
  <2>2. Kept(made, runs, n + 1)[Len(old) + i] = IF Lost(made, runs, n + 1, c) THEN 0 ELSE OutputOf(c.usage)
    <3>1. made \in Seq(CallsMade) BY <1>2, Zenon
    <3>2. PICK x \in 1 .. Len(made) : x = Len(old) + i BY <2>1, Zenon
    <3>3. Kept(made, runs, n + 1)[x] = IF Lost(made, runs, n + 1, made[x]) THEN 0 ELSE OutputOf(made[x].usage)
      BY <3>1, KeptIs
    <3> QED BY <3>2, <3>3, Zenon
  <2>3. c.launch = n /\ c.session = top BY <1>2, <2>1
  <2> HIDE DEF c
  <2>4. ASSUME NEW j \in 1 .. Len(made), made[j].launch = n PROVE made[j].session <= top
    <3>1. CASE j \in 1 .. Len(old) /\ made[j] = old[j] BY <1>1, <2>4, <3>1, Zenon
    <3>2. CASE made[j].session = top
      <4>1. top <= top BY <1>1
      <4> QED BY <3>2, <4>1, Zenon
    <3> QED BY <1>b, <3>1, <3>2, Zenon
  <2>5. DOMAIN made = 1 .. Len(made) BY <1>2
  <2>6. OfLastSession(made, c) BY <2>3, <2>4, <2>5 DEF OfLastSession
  <2>7. n # n + 1 BY <1>1
  <2>8. Lost(made, runs, n + 1, c) BY <1>3, <2>3, <2>6, <2>7 DEF Lost
  <2>9. v[i] = 0 BY <1>4, <2>1
  <2> QED BY <2>2, <2>8, <2>9
<1>8. Total(Kept(made, runs, n + 1)) <= Total(Kept(old, runs, n)) + Total(v)
  BY <1>1, <1>2, <1>4, <1>6, <1>7, KeptGrows
<1>9. Total(v) = 0
  <2>1. Total(v) = Total(v) + Total(v)
    <3>1. \A i \in 1 .. Len(v) : v[i] = v[i] + v[i] BY <1>4
    <3> QED BY <1>4, <3>1, TotalBoth
  <2>2. Total(v) \in Nat BY <1>4, TotalNat
  <2> QED BY <2>1, <2>2
<1>10. Total(Kept(old, runs, n)) \in Nat BY <1>1, KeptIs, TotalNat
<1>11. Total(Kept(made, runs, n + 1)) <= Total(Kept(old, runs, n)) BY <1>8, <1>9, <1>10
<1> QED BY <1>0, <1>11 DEF n

\* The total of what is kept is a number.
LEMMA KeptNat ==
    ASSUME NEW made \in Seq(CallsMade), NEW runs, NEW running
    PROVE  Total(Kept(made, runs, running)) \in Nat
BY KeptIs, TotalNat

\* New calls are of the launch that runs and of its last session.
LEMMA CallsDated ==
    ASSUME AccountsTyped, Dated, Up, Len(files.project) >= 1,
           NEW role \in Roles, NEW us \in Seq(Usages), NEW made, made = Called(role, "claude", us)
    PROVE  \A j \in DOMAIN made : /\ made[j].launch \in 1 .. Len(files.project)
                                  /\ made[j].launch = Len(files.project) => made[j].session <= st.session
<1> DEFINE n == Len(files.project)
<1>1. /\ made \in Seq(CallsMade) /\ Len(made) = Len(calls) + Len(us) /\ \A i \in 1 .. Len(calls) : made[i] = calls[i]
      /\ \A i \in 1 .. Len(us) : made[Len(calls) + i].launch = n /\ made[Len(calls) + i].session = st.session
  BY CalledIs
<1>2. st.session \in Nat /\ n \in Nat /\ n >= 1 /\ calls \in Seq(CallsMade) BY CountersAre DEF AccountsTyped
<1>3. Len(made) \in Nat /\ Len(calls) \in Nat /\ Len(us) \in Nat /\ DOMAIN made = 1 .. Len(made) BY <1>1, <1>2
<1>4. ASSUME NEW j \in 1 .. Len(made)
      PROVE  made[j].launch \in 1 .. n /\ (made[j].launch = n => made[j].session <= st.session)
  <2>1. CASE j \in 1 .. Len(calls)
    <3>1. j \in DOMAIN calls /\ made[j] = calls[j] BY <1>1, <1>2, <2>1
    <3> QED BY <3>1 DEF Dated
  <2>2. CASE j \notin 1 .. Len(calls)
    <3>1. j - Len(calls) \in 1 .. Len(us) /\ j = Len(calls) + (j - Len(calls)) BY <1>1, <1>3, <2>2
    <3>2. made[Len(calls) + (j - Len(calls))].launch = n /\ made[Len(calls) + (j - Len(calls))].session = st.session
      BY <1>1, <3>1
    <3>3. made[j].launch = n /\ made[j].session = st.session BY <3>1, <3>2
    <3> QED BY <1>2, <3>3
  <2> QED BY <2>1, <2>2
<1> QED BY <1>3, <1>4

\* A step of a run at work keeps the accounts: what it charges is counted, and published before it counts.
LEMMA WorksKeep == ASSUME AccountsInv, Framed, NEW role, NEW us, Works(role, us) PROVE AccountsInv'
<1> DEFINE n == Len(files.project)
           runs == files.project
<1>0. AccountsTyped /\ Reconciling /\ Numbered /\ Dated /\ Saved BY DEF AccountsInv
<1>1. /\ Up /\ Up' /\ phase' # "boot" /\ announced' = announced /\ forgotten' = forgotten /\ files'.project = runs
      /\ role \in Roles /\ Charging(us, st', ledger') /\ calls' = Called(role, "claude", us)
  BY DEF Works, Up
<1>2. PICK t, m, made : t = st' /\ m = ledger' /\ made = calls' OBVIOUS
<1>3. /\ us \in Seq(Usages) /\ t \in Counters /\ m \in Seq(Posts) /\ AgentsAgree(t) /\ LedgerAgrees(t, m)
      /\ t.session = st.session /\ t.inherited = st.inherited /\ t.lifetime_base = st.lifetime_base
      /\ t.tokens = st.tokens + Total(Outputs(us))
  BY <1>1, <1>2 DEF Charging
<1>4. made = Called(role, "claude", us) BY <1>1, <1>2
<1>5. /\ made \in Seq(CallsMade) /\ Len(made) = Len(calls) + Len(us)
      /\ \A i \in 1 .. Len(calls) : made[i] = calls[i]
      /\ \A i \in 1 .. Len(us) : made[Len(calls) + i].launch = n /\ made[Len(calls) + i].session = st.session
  <2>1. AccountsTyped /\ role \in Roles /\ us \in Seq(Usages) BY <1>0, <1>1, <1>3
  <2>2. /\ made \in Seq(CallsMade) /\ Len(made) = Len(calls) + Len(us)
        /\ \A i \in 1 .. Len(calls) : made[i] = calls[i]
        /\ \A i \in 1 .. Len(us) : /\ made[Len(calls) + i].launch = Len(files.project)
                                   /\ made[Len(calls) + i].session = st.session
                                   /\ made[Len(calls) + i].usage = us[i]
    BY ONLY <2>1, <1>4, CalledIs
  <2> QED BY <2>2
<1>6. st.session \in Nat /\ st.tokens \in Nat /\ t.tokens \in Nat /\ announced \in Nat /\ calls \in Seq(CallsMade)
      /\ forgotten \in Nat /\ n \in Nat /\ n >= 1 /\ ~runs[n].ended /\ Lifetime(st) = announced
  BY <1>0, <1>1, <1>3, CountersAre DEF AccountsTyped, Numbered
<1>7. \/ /\ phase' \notin {"ran", "limited"}
         /\ \E x : files'.state = {x} /\ ShotIs(x) /\ x.session = t.session /\ x.tokens = t.tokens
      \/ phase' \in {"ran", "limited"} /\ phase = "running" /\ files'.state = files.state
  <2>1. CASE phase' \notin {"ran", "limited"} /\ \E c : files'.state = {Snapshot(st', ledger', c)}
    <3>1. PICK c : files'.state = {Snapshot(t, m, c)} BY <1>2, <2>1
    <3> DEFINE x == Snapshot(t, m, c)
    <3>2. ShotIs(x) /\ x.session = t.session /\ x.tokens = t.tokens BY <1>3, SnapshotIs
    <3> HIDE DEF x
    <3>3. files'.state = {x} BY <3>1 DEF x
    <3> QED BY <2>1, <3>2, <3>3
  <2>2. CASE phase' \in {"ran", "limited"} /\ phase = "running" /\ files'.state = files.state BY <2>2
  <2> QED BY <2>1, <2>2 DEF Works
<1>8. AccountsTyped'
  BY <1>0, <1>1, <1>2, <1>3, <1>5 DEF AccountsTyped, Framed, AccountPhases
<1>9. Reconciling' BY <1>0, <1>1, <1>2, <1>3, <1>7 DEF Reconciling
<1>10. Numbered'
  <2>1. Lifetime(t) = announced BY <1>3, <1>6 DEF Lifetime
  <2>2. st.session <= announced
    <3>1. st.lifetime_base \in Nat BY <1>0, CountersAre DEF AccountsTyped
    <3> QED BY <1>6, <3>1 DEF Lifetime
  <2>3. \A shot \in files'.state : shot.session <= announced BY <1>0, <1>3, <1>7, <2>2 DEF Numbered
  <2> QED BY <1>0, <1>1, <1>2, <1>3, <2>1, <2>3 DEF Numbered
<1>11. Dated'
  <2>1. \A j \in DOMAIN made : made[j].launch \in 1 .. n /\ (made[j].launch = n => made[j].session <= st.session)
    BY <1>0, <1>1, <1>3, <1>4, <1>6, CallsDated
  <2> QED BY <1>1, <1>2, <1>3, <2>1 DEF Dated
<1>12. Saved'
  <2>1. /\ Total(Kept(calls, runs, n)) <= st.tokens + forgotten
        /\ phase \notin {"boot", "ran", "limited"} => \A shot \in files.state : shot.tokens = st.tokens
    BY <1>0, <1>1 DEF Saved
  <2>2. Total(Kept(calls, runs, n)) \in Nat /\ Total(Kept(made, runs, n)) \in Nat /\ Total(Kept(made, runs, n + 1)) \in Nat
        /\ Total(Outputs(us)) \in Nat
    BY <1>3, <1>5, <1>6, KeptNat, OutputsAre, TotalNat
  <2>3. Total(Kept(made, runs, n)) <= Total(Kept(calls, runs, n)) + Total(Outputs(us))
    BY <1>0, <1>1, <1>3, <1>4, KeptCalls
  <2>4. Total(Kept(made, runs, n + 1)) <= Total(Kept(calls, runs, n)) + Total(Outputs(us))
    BY <1>0, <1>1, <1>3, <1>4, KeptCalls
  <2>5. Total(Kept(made, runs, n + 1)) <= Total(Kept(calls, runs, n))
    BY <1>0, <1>1, <1>3, <1>4, <1>6, KeptLast
  <2>6. Total(Kept(made, runs, n)) <= t.tokens + forgotten /\ Total(Kept(made, runs, n + 1)) <= t.tokens + forgotten
        /\ Total(Kept(made, runs, n + 1)) <= st.tokens + forgotten
    <3>1. PICK a, b, c, d \in Nat : /\ a = Total(Kept(calls, runs, n)) /\ b = Total(Kept(made, runs, n))
                                   /\ c = Total(Kept(made, runs, n + 1)) /\ d = Total(Outputs(us))
      BY <2>2, Zenon
    <3>2. PICK x, y, z \in Nat : x = st.tokens /\ y = t.tokens /\ z = forgotten BY <1>6, Zenon
    <3>3. y = x + d BY <1>3, <3>1, <3>2, Zenon
    <3>4. a <= x + z /\ b <= a + d /\ c <= a + d /\ c <= a BY <2>1, <2>3, <2>4, <2>5, <3>1, <3>2, Zenon
    <3>5. b <= y + z /\ c <= y + z /\ c <= x + z BY <3>3, <3>4
    <3> QED BY <3>1, <3>2, <3>5, Zenon
  <2>7. \A shot \in files'.state : Total(Kept(made, runs, n + 1)) <= shot.tokens + forgotten BY <1>7, <2>1, <2>6
  <2>8. phase' \notin {"boot", "ran", "limited"} => \A shot \in files'.state : shot.tokens = t.tokens BY <1>7
  <2> QED BY <1>1, <1>2, <2>6, <2>7, <2>8 DEF Saved
<1> QED BY <1>8, <1>9, <1>10, <1>11, <1>12 DEF AccountsInv

\* A run that ends leaves its last counters for a resume, and a record of the sessions it began.
LEMMA ClosesKeep == ASSUME AccountsInv, Framed, NEW role, NEW us, NEW t, NEW m, Closes(role, us, t, m) PROVE AccountsInv'
<1> DEFINE n == Len(files.project)
<1>0. AccountsTyped /\ Reconciling /\ Numbered /\ Dated /\ Saved BY DEF AccountsInv
<1>1. /\ Up /\ ~Up' /\ phase' = "down" /\ announced' = announced /\ forgotten' = forgotten /\ st' = ZeroCounters /\ ledger' = NoLedger
      /\ role \in Roles /\ Charging(us, t, m) /\ calls' = Called(role, "claude", us)
      /\ EndsWith(files'.project, t) /\ \E c : files'.state = {Snapshot(t, m, c)}
  BY DEF Closes, Up
<1>2. PICK runs, after, made : runs = files.project /\ after = files'.project /\ made = calls' OBVIOUS
<1>3. /\ us \in Seq(Usages) /\ t \in Counters /\ AgentsAgree(t)
      /\ t.session = st.session /\ t.inherited = st.inherited /\ t.tokens = st.tokens + Total(Outputs(us))
  BY <1>1 DEF Charging
<1>4. made = Called(role, "claude", us) BY <1>1, <1>2
<1>5. /\ after \in Seq(RunRecords) /\ Len(after) = n /\ \A i \in 1 .. n : i # n => after[i] = runs[i]
      /\ after[n].sessions \in {runs[n].sessions, Less(t.session, t.inherited[1])}
  BY <1>1, <1>2 DEF EndsWith
<1>6. /\ runs \in Seq(RunRecords) /\ n \in Nat /\ n >= 1 /\ st.session \in Nat /\ st.tokens \in Nat /\ t.tokens \in Nat
      /\ st.inherited[1] \in Nat /\ announced \in Nat /\ forgotten \in Nat /\ calls \in Seq(CallsMade)
      /\ st.inherited[1] <= st.session /\ runs[n].sessions = st.session - st.inherited[1]
      /\ Lifetime(st) = announced /\ LifetimeSessions(runs) = announced /\ st.lifetime_base \in Nat
  BY <1>0, <1>1, <1>2, <1>3, CountersAre DEF AccountsTyped, Numbered
<1>7. PICK x : files'.state = {x} /\ ShotIs(x) /\ x.session = t.session /\ x.tokens = t.tokens
  <2>1. PICK c : files'.state = {Snapshot(t, m, c)} BY <1>1
  <2> DEFINE x == Snapshot(t, m, c)
  <2>2. ShotIs(x) /\ x.session = t.session /\ x.tokens = t.tokens BY <1>3, SnapshotIs
  <2> HIDE DEF x
  <2>3. files'.state = {x} BY <2>1 DEF x
  <2> QED BY <2>2, <2>3
<1>8. made \in Seq(CallsMade) BY <1>0, <1>1, <1>3, <1>4, CalledIs
<1>9. AccountsTyped' BY <1>0, <1>1, <1>2, <1>5, <1>8, NothingIs DEF AccountsTyped, Framed
<1>10. Reconciling' BY <1>1, <1>7 DEF Reconciling
<1>11. Numbered'
  <2>1. after[n].sessions = runs[n].sessions
    <3>1. PICK a, b \in Nat : a = st.session /\ b = st.inherited[1] BY <1>6, Zenon
    <3>2. b <= a /\ runs[n].sessions = a - b BY <1>6, <3>1, Zenon
    <3>3. Less(a, b) = a - b BY <3>2 DEF Less
    <3>4. t.session = a /\ t.inherited[1] = b BY <1>3, <3>1, Zenon
    <3>5. after[n].sessions = runs[n].sessions \/ after[n].sessions = Less(t.session, t.inherited[1]) BY <1>5, Zenon
    <3> QED BY <3>2, <3>3, <3>4, <3>5, Zenon
  <2>2. PICK k \in Nat : /\ LifetimeSessions(runs) = k + runs[Len(runs)].sessions
                         /\ LifetimeSessions(after) = k + after[Len(runs)].sessions
    BY <1>2, <1>5, <1>6, LastRecord
  <2>3. LifetimeSessions(after) = announced BY <1>2, <1>6, <2>1, <2>2
  <2>4. x.session <= announced BY <1>3, <1>6, <1>7 DEF Lifetime
  <2> QED BY <1>1, <1>2, <1>7, <2>3, <2>4 DEF Numbered
<1>12. Dated'
  <2>1. \A j \in DOMAIN made : made[j].launch \in 1 .. n BY <1>0, <1>1, <1>3, <1>4, <1>6, CallsDated
  <2> QED BY <1>1, <1>2, <1>5, <2>1 DEF Dated
<1>13. Saved'
  <2>1. Total(Kept(calls, runs, n)) <= st.tokens + forgotten BY <1>0, <1>1, <1>2 DEF Saved
  <2>2. /\ Total(Kept(calls, runs, n)) \in Nat /\ Total(Kept(made, after, n + 1)) \in Nat /\ Total(Outputs(us)) \in Nat
    BY <1>3, <1>6, <1>8, KeptNat, OutputsAre, TotalNat
  <2>3. \A i \in 1 .. n : i # n => after[i].ended = runs[i].ended BY <1>5
  <2>4. Total(Kept(made, after, n + 1)) <= Total(Kept(calls, runs, n)) + Total(Outputs(us))
    BY <1>0, <1>1, <1>2, <1>3, <1>4, <2>3, KeptCalls
  <2>5. Total(Kept(made, after, n + 1)) <= x.tokens + forgotten BY <1>3, <1>6, <1>7, <2>1, <2>2, <2>4
  <2> QED BY <1>1, <1>2, <1>5, <1>7, <2>5 DEF Saved
<1> QED BY <1>9, <1>10, <1>11, <1>12, <1>13 DEF AccountsInv

\* A launch begins a record, with counters that tell what its run spent before, and publishes zeros.
LEMMA BeginsKeep ==
    ASSUME AccountsInv, NEW s \in Counters, NEW c, Begins(s, c), AgentsAgree(s), announced' = announced,
           s.tokens = s.inherited[2], s.inherited[1] = s.session, Lifetime(s) = announced,
           \/ calls' = <<>> /\ forgotten' = 0
           \/ /\ calls' = calls /\ forgotten' = forgotten
              /\ Total(Kept(calls, files.project, Len(files.project) + 1)) <= s.tokens + forgotten
    PROVE  AccountsInv'
<1> DEFINE n == Len(files.project)
<1>0. AccountsTyped /\ Reconciling /\ Numbered /\ Dated /\ Saved BY DEF AccountsInv
<1>1. /\ ~Up /\ Up' /\ phase' = "boot" /\ st' = s /\ ledger' = ledger
      /\ live' = [shot |-> Snapshot(ZeroCounters, NoLedger, c), recent |-> <<>>]
      /\ files' = [files EXCEPT !.project = Append(@, RunRecord), !.clock = {c}, !.report = {},
                                !.state = {live'.shot}]
  BY DEF Begins, Up
<1>2. PICK runs, made : runs = files.project /\ made = calls' OBVIOUS
<1>3. PICK after : after = Append(runs, RunRecord) OBVIOUS
<1>4. /\ files' = [state |-> files'.state, clock |-> files'.clock, project |-> files'.project, report |-> files'.report]
      /\ files'.project = after /\ files'.state = {Snapshot(ZeroCounters, NoLedger, c)}
  <2> DEFINE x == Snapshot(ZeroCounters, NoLedger, c)
  <2>0. x = live'.shot BY <1>1
  <2>1. files = [state |-> files.state, clock |-> files.clock, project |-> files.project, report |-> files.report]
    BY <1>0 DEF AccountsTyped
  <2> HIDE DEF x
  <2>2. files' = [files EXCEPT !.project = after, !.clock = {c}, !.report = {}, !.state = {x}]
    BY <1>1, <1>2, <1>3, <2>0
  <2>3. files' = [state |-> {x}, clock |-> {c}, project |-> after, report |-> {}] BY <2>1, <2>2
  <2> QED BY <2>3 DEF x
<1>5. ledger = NoLedger BY <1>0, <1>1 DEF Reconciling
<1>6. /\ runs \in Seq(RunRecords) /\ n \in Nat /\ announced \in Nat /\ calls \in Seq(CallsMade)
      /\ LifetimeSessions(runs) = announced /\ \A i \in DOMAIN calls : calls[i].launch \in 1 .. n
      /\ forgotten \in Nat
  BY <1>0, <1>2 DEF AccountsTyped, Numbered, Dated
<1>7. s.session \in Nat /\ s.tokens \in Nat /\ s.lifetime_base \in Nat /\ s.inherited \in Nat \X Nat BY CountersAre
<1>8. /\ RunRecord \in RunRecords /\ after \in Seq(RunRecords) /\ LifetimeSessions(after) = announced
  BY <1>3, <1>6, RecordBegins
<1>9. Len(after) = n + 1 /\ after[n + 1] = RunRecord /\ \A i \in 1 .. n : after[i] = runs[i]
  BY <1>2, <1>3, <1>6, <1>8
<1>10. PICK x : files'.state = {x} /\ ShotIs(x) /\ x.session = 0
  <2> DEFINE x == Snapshot(ZeroCounters, NoLedger, c)
  <2>1. ShotIs(x) /\ x.session = 0 BY NothingIs, SnapshotIs
  <2> HIDE DEF x
  <2>2. files'.state = {x} BY <1>4 DEF x
  <2> QED BY <2>1, <2>2
<1>17. PICK g : g = forgotten' OBVIOUS
<1>18. g \in Nat /\ forgotten' = g BY <1>6, <1>17
<1>11. made \in Seq(CallsMade) /\ \A i \in DOMAIN made : made[i].launch \in 1 .. n
  <2>1. CASE made = <<>> BY <2>1
  <2>2. CASE made = calls BY <1>6, <2>2
  <2> QED BY <1>2, <2>1, <2>2
<1>12. AccountsTyped'
  <2>1. live' = [shot |-> live'.shot, recent |-> live'.recent] BY <1>1
  <2>2. ledger' \in Seq(Posts) BY <1>1, <1>5, NothingIs
  <2> QED BY <1>1, <1>2, <1>4, <1>6, <1>8, <1>11, <1>18, <2>1, <2>2 DEF AccountsTyped
<1>13. Reconciling'
  <2>1. LedgerAgrees(s, NoLedger) BY NothingIs
  <2> QED BY <1>1, <1>5, <1>10, <2>1 DEF Reconciling
<1>14. Numbered'
  <2>1. x.session <= announced BY <1>6, <1>10
  <2>2. RunRecord.sessions = 0 /\ ~RunRecord.ended
    <3> DEFINE r == RunRecord
    <3>1. r = [sessions |-> 0, tokens |-> 0, usage |-> NoTotals, ended |-> FALSE, reason |-> "crashed"] BY DEF RunRecord
    <3>2. r.sessions = 0 BY <3>1
    <3>3. ~r.ended BY <3>1
    <3> QED BY <3>2, <3>3
  <2>3. PICK r : r = RunRecord OBVIOUS
  <2>4. after[n + 1] = r /\ r.sessions = 0 /\ ~r.ended
    <3>1. after[n + 1] = r BY <1>9, <2>3
    <3>2. r.sessions = 0 BY <2>2, <2>3
    <3>3. ~r.ended BY <2>2, <2>3
    <3> QED BY <3>1, <3>2, <3>3
  <2>5. Len(after) >= 1 /\ s.inherited[1] <= s.session /\ s.session - s.inherited[1] = 0 BY <1>6, <1>7, <1>9
  <2>6. ~after[Len(after)].ended /\ after[Len(after)].sessions = s.session - s.inherited[1]
    <3>1. after[Len(after)] = r BY <1>9, <2>4
    <3> QED BY <2>4, <2>5, <3>1
  <2> QED BY <1>1, <1>4, <1>8, <1>10, <2>1, <2>5, <2>6 DEF Numbered
<1>15. Dated'
  <2>1. \A i \in DOMAIN made : made[i].launch \in 1 .. n + 1 /\ made[i].launch # n + 1 BY <1>6, <1>11
  <2> QED BY <1>2, <1>4, <1>9, <2>1 DEF Dated
<1>16. Saved'
  <2>1. \A later \in {n + 1, n + 2} : Total(Kept(made, after, later)) <= s.tokens + g
    <3>1. CASE made = <<>>
      <4>1. \A later : Kept(made, after, later) = <<>> BY <3>1 DEF Kept
      <4>2. \A later : Total(Kept(made, after, later)) = 0 BY <4>1, TotalNone
      <4> QED BY <1>7, <1>18, <4>2
    <3>2. CASE made = calls /\ Total(Kept(calls, runs, n + 1)) <= s.tokens + g
      <4>1. ASSUME NEW later \in {n + 1, n + 2} PROVE Kept(made, after, later) = Kept(made, runs, n + 1)
        <5>1. ASSUME NEW i \in DOMAIN made PROVE Lost(made, after, later, made[i]) = Lost(made, runs, n + 1, made[i])
          <6>1. made[i].launch \in 1 .. n BY <1>11
          <6>2. made[i].launch # n + 1 /\ made[i].launch # later BY <1>6, <6>1
          <6>3. after[made[i].launch].ended = runs[made[i].launch].ended BY <1>9, <6>1
          <6> QED BY <6>2, <6>3 DEF Lost
        <5> QED BY <5>1 DEF Kept
      <4> QED BY <3>2, <4>1
    <3> QED BY <1>2, <1>17, <3>1, <3>2
  <2>2. /\ Total(Kept(made, after, n + 1)) <= s.tokens + g /\ Total(Kept(made, after, n + 1 + 1)) <= s.tokens + g
    <3>1. n + 1 + 1 = n + 2 BY <1>6
    <3> QED BY <2>1, <3>1
  <2> QED BY <1>1, <1>2, <1>4, <1>9, <1>18, <2>2 DEF Saved
<1> QED BY <1>12, <1>13, <1>14, <1>15, <1>16 DEF AccountsInv

\* A fresh run counts from nothing, a resumed one from what the files say.
LEMMA LaunchesKeep == ASSUME AccountsInv, StartFresh \/ StartResume PROVE AccountsInv'
<1>0. /\ AccountsTyped /\ Reconciling /\ Numbered /\ Dated /\ Saved /\ announced \in Nat
      /\ LifetimeSessions(files.project) = announced
  BY DEF AccountsInv, AccountsTyped, Numbered
<1>1. CASE StartFresh
  <2> DEFINE s == [ZeroCounters EXCEPT !.lifetime_base = LifetimeSessions(files.project)]
  <2>1. Begins(s, NewClock) /\ calls' = <<>> /\ forgotten' = 0 BY <1>1 DEF StartFresh
  <2>2. s \in Counters BY <1>0, NothingIs DEF Counters
  <2>3. ZeroCounters \in Counters BY NothingIs
  <2>4. s.session = 0 /\ s.tokens = 0 /\ s.cost = 0 BY <2>3, NothingIs DEF Counters
  <2>5. s.inherited = <<0, 0>> /\ s.per_agent = NoAgents /\ s.lifetime_base = announced BY <1>0, <2>3, NothingIs DEF Counters
  <2>6. announced' = announced BY <2>1 DEF Begins
  <2> HIDE DEF s
  <2>7. AgentsAgree(s) BY <2>4, <2>5, NothingIs DEF AgentsAgree
  <2>8. Lifetime(s) = announced BY <1>0, <2>4, <2>5 DEF Lifetime
  <2>9. s.tokens = s.inherited[2] /\ s.inherited[1] = s.session BY <2>4, <2>5
  <2>10. PICK c : Begins(s, c) BY <2>1
  <2> QED BY <2>1, <2>2, <2>6, <2>7, <2>8, <2>9, <2>10, BeginsKeep
<1>2. CASE StartResume
  <2>1. PICK shot \in files.state, c \in files.clock : Begins(Restored(files.project, shot), c) BY <1>2 DEF StartResume
  <2> DEFINE s == Restored(files.project, shot)
             b == Less(announced, shot.session)
  <2>2. calls' = calls /\ forgotten' = forgotten BY <1>2 DEF StartResume
  <2>14. phase # "boot" BY <2>1 DEF Begins
  <2>3. /\ shot.session \in Nat /\ shot.tokens \in Nat /\ shot.cost \in Nat /\ shot.per_agent \in PerAgent
        /\ AgentsAgree(shot) /\ shot.session <= announced
        /\ Total(Kept(calls, files.project, Len(files.project) + 1)) <= shot.tokens + forgotten
    BY <1>0, <2>14 DEF Reconciling, ShotIs, Numbered, Saved
  <2>4. b \in Nat /\ b + shot.session = announced BY <1>0, <2>3 DEF Less
  <2> DEFINE z == ZeroCounters
  <2>5. z \in Counters BY NothingIs
  <2>6. s = [z EXCEPT !.session = shot.session, !.tokens = shot.tokens, !.cost = shot.cost,
                      !.per_agent = shot.per_agent, !.inherited = <<shot.session, shot.tokens>>, !.lifetime_base = b]
    BY <1>0 DEF Restored
  <2> HIDE DEF s, b, z
  <2>7. s \in Counters BY <2>3, <2>4, <2>5, <2>6 DEF Counters
  <2>8. s.session = shot.session /\ s.tokens = shot.tokens /\ s.cost = shot.cost BY <2>5, <2>6 DEF Counters
  <2>9. s.per_agent = shot.per_agent /\ s.inherited = <<shot.session, shot.tokens>> /\ s.lifetime_base = b
    BY <2>5, <2>6 DEF Counters
  <2>10. AgentsAgree(s) BY <2>3, <2>8, <2>9 DEF AgentsAgree
  <2>11. Lifetime(s) = announced BY <2>4, <2>8, <2>9 DEF Lifetime
  <2>12. s.tokens = s.inherited[2] /\ s.inherited[1] = s.session BY <2>8, <2>9
  <2>13. Begins(s, c) /\ announced' = announced BY <2>1 DEF Begins, s
  <2> QED BY <2>2, <2>3, <2>7, <2>8, <2>10, <2>11, <2>12, <2>13, BeginsKeep
<1> QED BY <1>1, <1>2

\* Every step keeps the invariant.
LEMMA StepAccounts == AccountsInv /\ [AccountsNext]_accounts => AccountsInv'
<1> SUFFICES ASSUME AccountsInv, [AccountsNext]_accounts PROVE AccountsInv'
  OBVIOUS
<1>0. AccountsTyped /\ Reconciling /\ Numbered BY DEF AccountsInv
<1>1. CASE StartFresh \/ StartResume BY <1>1, LaunchesKeep
<1>2. CASE BaselineBegins \/ Baseline \/ LaunchWorker \/ WorkerExits \/ Verify \/ RateLimited \/ WaitEnds
  BY <1>0, <1>2, WorkSteps, WorksKeep
<1>3. CASE \/ BaselineEnds \/ OverMaxSessions \/ WorkerIsBroken \/ GoalsMet \/ OverBudget \/ WaitStopped \/ Interrupted
  BY <1>0, <1>3, CloseSteps, ClosesKeep
<1>4. CASE Announce BY <1>4, AnnounceKeeps
<1>5. CASE Crash BY <1>5, CrashKeeps
<1>6. CASE ReaderReads \/ LateReaderReads \/ RelaunchFresh \/ NextSession \/ Tick BY <1>0, <1>6, IdleSteps, IdlesKeep
<1>7. CASE UNCHANGED accounts
  <2>1. UNCHANGED <<phase, st, ledger, run, live, files, calls, announced, forgotten>> BY <1>7 DEF accounts
  <2>2. Idles BY <2>1 DEF Idles
  <2>3. phase' \in AccountPhases /\ (phase' = "running" => Running') BY <1>0, <2>1 DEF AccountsTyped, AccountPhases, Running
  <2>4. Framed BY <1>0, <2>1, <2>3, Unframed
  <2> QED BY <2>2, <2>4, IdlesKeep
<1> QED BY <1>1, <1>2, <1>3, <1>4, <1>5, <1>6, <1>7 DEF AccountsNext

\* The invariant of the accounts holds of every run, across crashes and resumes.
THEOREM AccountsHold == AccountsSpec => []AccountsInv
<1> QED BY InitAccounts, StepAccounts, PTL DEF AccountsSpec

\* The ceilings' counters, the agents' and the record tell one spending at any time
\* (charge_usage, restore_totals).
THEOREM AccountsReconciled == AccountsSpec => []AccountsAgree
<1>1. AccountsInv => AccountsAgree BY DEF AccountsInv, Reconciling, AccountsAgree
<1> QED BY <1>1, AccountsHold, PTL

\* A session's lifetime number counts every session ever begun in the project,
\* each once (prior_lifetime_sessions, RunLedger::update).
THEOREM LifetimeIsCounted == AccountsSpec => []LifetimeCountsEverySession
<1>1. AccountsInv => LifetimeCountsEverySession BY DEF AccountsInv, Numbered, LifetimeCountsEverySession
<1> QED BY <1>1, AccountsHold, PTL

\* What is lost and what is kept are all that was charged.
LEMMA LostIsTheLast == AccountsInv => OnlyTheLastSessionIsLost
<1> SUFFICES ASSUME AccountsInv, Up PROVE OnlyTheLastSessionIsLost
  BY DEF OnlyTheLastSessionIsLost
<1> DEFINE n == Len(files.project)
           lost == {i \in DOMAIN calls : Lost(calls, files.project, n, calls[i])}
           w == [i \in DOMAIN calls |-> OutputOf(calls[i].usage)]
           u == [i \in DOMAIN calls |-> IF i \in lost THEN OutputOf(calls[i].usage) ELSE 0]
           k == Kept(calls, files.project, n)
<1>1. PICK made : made = calls OBVIOUS
<1>2. /\ made \in Seq(CallsMade) /\ DOMAIN made = 1 .. Len(made) /\ Len(made) \in Nat /\ Total(k) <= st.tokens + forgotten
      /\ st.tokens \in Nat /\ forgotten \in Nat
  BY <1>1, CountersAre DEF AccountsInv, AccountsTyped, Saved
<1>3. /\ k \in Seq(Nat) /\ Len(k) = Len(made)
      /\ \A i \in 1 .. Len(made) : /\ OutputOf(made[i].usage) \in Nat
                                   /\ k[i] = IF i \in lost THEN 0 ELSE OutputOf(made[i].usage)
  <2>1. /\ Kept(made, files.project, n) \in Seq(Nat) /\ Len(Kept(made, files.project, n)) = Len(made)
        /\ \A i \in 1 .. Len(made) : /\ OutputOf(made[i].usage) \in Nat
                                     /\ Kept(made, files.project, n)[i] = IF Lost(made, files.project, n, made[i]) THEN 0
                                                                          ELSE OutputOf(made[i].usage)
    BY <1>2, KeptIs
  <2>2. \A i \in 1 .. Len(made) : i \in lost <=> Lost(made, files.project, n, made[i]) BY <1>1, <1>2
  <2> HIDE DEF lost
  <2> QED BY <1>1, <2>1, <2>2
<1>4. w = [i \in 1 .. Len(made) |-> OutputOf(made[i].usage)] BY <1>1, <1>2
<1>5. u = [i \in 1 .. Len(made) |-> IF i \in lost THEN OutputOf(made[i].usage) ELSE 0] BY <1>1, <1>2
<1>6. OnlyTheLastSessionIsLost <=> Total(w) <= st.tokens + forgotten + Total(u) BY DEF OnlyTheLastSessionIsLost
<1> HIDE DEF lost, w, u, k
<1>7. w \in Seq(Nat) /\ Len(w) = Len(made) /\ \A i \in 1 .. Len(made) : w[i] = OutputOf(made[i].usage)
  <2>1. w \in [1 .. Len(made) -> Nat] BY <1>3, <1>4
  <2> QED BY <1>2, <1>4, <2>1
<1>8. u \in Seq(Nat) /\ Len(u) = Len(made) /\ \A i \in 1 .. Len(made) : u[i] = IF i \in lost THEN OutputOf(made[i].usage) ELSE 0
  <2>1. u \in [1 .. Len(made) -> Nat] BY <1>3, <1>5
  <2> QED BY <1>2, <1>5, <2>1
<1>9. ASSUME NEW i \in 1 .. Len(w) PROVE w[i] = k[i] + u[i]
  <2> DEFINE o == OutputOf(made[i].usage)
  <2>1. /\ o \in Nat /\ w[i] = o /\ k[i] = (IF i \in lost THEN 0 ELSE o) /\ u[i] = (IF i \in lost THEN o ELSE 0)
    BY <1>3, <1>7, <1>8
  <2> HIDE DEF o
  <2> QED BY <2>1
<1>10. Total(w) = Total(k) + Total(u) BY <1>3, <1>7, <1>8, <1>9, TotalBoth
<1>11. Total(k) \in Nat /\ Total(u) \in Nat BY <1>3, <1>8, TotalNat
<1> QED BY <1>2, <1>6, <1>10, <1>11

\* A launch that dies takes no more spending with it than its last session's, unless it dies before
\* it has published what it restored: then it takes all of that (publish, restore_totals).
THEOREM SpendingIsSaved == AccountsSpec => []OnlyTheLastSessionIsLost
<1> QED BY LostIsTheLast, AccountsHold, PTL
=============================================================================
