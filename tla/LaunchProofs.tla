---------------------------- MODULE LaunchProofs ----------------------------
(* Theorems about Launch, for every set of configs and hosts: what an          *)
(* accepted run may count on, and how its processes are confined. And about    *)
(* Driver, for every set of programs: a resume leads back to the last kept gate. *)
EXTENDS Launch, Driver, WellFoundedInduction, SequenceTheorems, TLAPS

------------------------------------------------------------------------------
(* Paths and what covers them.                                                *)

\* The components of a path: tlapm does not know that a literal is a member of STRING.
Word == STRING \cup {"proj", "agg", "private", "container", "tmp", "home", "lib", "notes", "context", ".netrc",
                     "etc", "token", ".agg", "judges", ".cache", "trivy", "scoring", "judge", "scratch", "cache",
                     "worker", "ruler", "metrics", ".claude", ".claude.json", ".claude.json.tmp", ".codex",
                     ".copilot", ".credentials.json", "auth.json", "proc", "dev", "null", "fd"}
Path == Seq(Word)

\* A word is a path of one component.
LEMMA OneWord ==
  ASSUME NEW a \in Word
  PROVE  <<a>> \in Path /\ Len(<<a>>) = 1 /\ <<a>>[1] = a
<1>1. Append(<<>>, a) = <<a>>
  OBVIOUS
<1>2. Append(<<>>, a) \in Path
  BY DEF Path
<1> QED BY <1>1, <1>2

\* Two words are a path of two.
LEMMA TwoWords ==
  ASSUME NEW a \in Word, NEW b \in Word
  PROVE  <<a, b>> \in Path /\ Len(<<a, b>>) = 2 /\ <<a, b>>[1] = a
<1>1. <<a>> \in Seq(Word)
  BY OneWord DEF Path
<1>2. <<b>> \in Seq(Word)
  BY OneWord DEF Path
<1>3. <<a, b>> \in Seq(Word)
  BY <1>1, <1>2
<1> QED BY <1>3 DEF Path

\* The paths a run is asked about are paths of words.
LEMMA PathsAreWords == Seq(STRING) \subseteq Path
<1>1. ASSUME NEW p \in Seq(STRING) PROVE p \in Path
  BY DEF Word, Path
<1> QED BY <1>1

\* One path covers another when its components begin the other's.
LEMMA CoversByComponent ==
  ASSUME NEW p \in Path, NEW x \in Path
  PROVE  Covers(p, x) <=> Len(p) <= Len(x) /\ \A i \in 1 .. Len(p) : p[i] = x[i]
<1>1. Len(p) \in Nat /\ Len(x) \in Nat
  BY DEF Path
<1>2. SubSeq(p, 1, Len(p)) = p
  BY DEF Path
<1>3. ASSUME Len(p) <= Len(x) PROVE SubSeq(p, 1, Len(p)) = SubSeq(x, 1, Len(p)) <=> \A i \in 1 .. Len(p) : p[i] = x[i]
  <2> DEFINE y == SubSeq(x, 1, Len(p))
  <2>1. y \in Path /\ Len(y) = Len(p) /\ \A i \in 1 .. Len(p) : y[i] = x[i]
    BY <1>1, <1>3 DEF Path
  <2>2. p = y <=> \A i \in 1 .. Len(p) : p[i] = y[i]
    <3> HIDE DEF y
    <3> QED BY <2>1 DEF Path
  <2> QED BY <1>2, <2>1, <2>2
<1> QED BY <1>3 DEF Covers, IsPrefix

\* Two paths over one are the same when they are equally long.
LEMMA OneOfALength ==
  ASSUME NEW p \in Path, NEW q \in Path, NEW x \in Path, Covers(p, x), Covers(q, x), Len(p) = Len(q)
  PROVE  p = q
<1>1. \A i \in 1 .. Len(p) : p[i] = x[i] /\ q[i] = x[i]
  BY CoversByComponent
<1> QED BY <1>1 DEF Path

\* The shorter of two paths over one covers the longer.
LEMMA ShorterCovers ==
  ASSUME NEW p \in Path, NEW q \in Path, NEW x \in Path, Covers(p, x), Covers(q, x), Len(p) <= Len(q)
  PROVE  Covers(p, q)
<1>1. Len(p) \in Nat /\ Len(q) \in Nat
  BY DEF Path
<1>2. \A i \in 1 .. Len(p) : p[i] = x[i] /\ q[i] = x[i]
  BY CoversByComponent, <1>1
<1> QED BY CoversByComponent, <1>2

\* What covers a path covers all that is under it.
LEMMA CoversIsTransitive ==
  ASSUME NEW p \in Path, NEW q \in Path, NEW x \in Path, Covers(p, q), Covers(q, x)
  PROVE  Covers(p, x)
<1>1. Len(p) \in Nat /\ Len(q) \in Nat /\ Len(x) \in Nat
  BY DEF Path
<1>2. Len(p) <= Len(q) /\ Len(q) <= Len(x)
  BY CoversByComponent
<1>3. \A i \in 1 .. Len(p) : p[i] = q[i]
  BY CoversByComponent
<1>4. \A i \in 1 .. Len(q) : q[i] = x[i]
  BY CoversByComponent
<1>5. \A i \in 1 .. Len(p) : p[i] = x[i]
  BY <1>1, <1>2, <1>3, <1>4
<1> QED BY CoversByComponent, <1>1, <1>2, <1>5

\* Paths over one begin with the same component.
LEMMA OneRoot ==
  ASSUME NEW p \in Path, NEW q \in Path, NEW x \in Path, Covers(p, x), Covers(q, x), Len(p) > 0, Len(q) > 0
  PROVE  p[1] = q[1]
<1>1. Len(p) \in Nat /\ Len(q) \in Nat
  BY DEF Path
<1>2. 1 \in 1 .. Len(p) /\ 1 \in 1 .. Len(q)
  BY <1>1
<1> QED BY <1>2, CoversByComponent

\* A path covers itself.
LEMMA CoversItself ==
  ASSUME NEW p \in Path
  PROVE  Covers(p, p)
BY CoversByComponent DEF Path

\* The root covers every path.
LEMMA RootCoversAll ==
  ASSUME NEW x \in Path
  PROVE  Slash \in Path /\ Len(Slash) = 0 /\ Covers(Slash, x)
<1>1. Slash \in Path /\ Len(Slash) = 0
  BY DEF Slash, Path
<1>2. Len(x) \in Nat
  BY DEF Path
<1>3. Len(Slash) <= Len(x) /\ \A i \in 1 .. Len(Slash) : Slash[i] = x[i]
  BY <1>1, <1>2
<1> QED BY <1>1, <1>3, CoversByComponent

\* A longer path begins with what it was made from.
LEMMA ExtendingCovers ==
  ASSUME NEW p \in Path, NEW q \in Path
  PROVE  p \o q \in Path /\ Len(p \o q) = Len(p) + Len(q) /\ Covers(p, p \o q)
<1>1. p \o q \in Path /\ Len(p \o q) = Len(p) + Len(q) /\ \A i \in 1 .. Len(p) : (p \o q)[i] = p[i]
  BY DEF Path
<1> DEFINE pq == p \o q
<1>2. pq \in Path /\ Len(pq) = Len(p) + Len(q) /\ \A i \in 1 .. Len(p) : p[i] = pq[i]
  BY <1>1
<1>3. Len(p) \in Nat /\ Len(q) \in Nat
  BY DEF Path
<1> HIDE DEF pq
<1>4. Len(p) <= Len(pq)
  BY <1>2, <1>3
<1>5. Covers(p, pq)
  BY CoversByComponent, <1>2, <1>4
<1> QED BY <1>2, <1>5 DEF pq

\* Of the paths over one there is a deepest.
LEMMA DeepestOfSome ==
  ASSUME NEW x \in Path, NEW S, \A p \in S : p \in Path /\ Covers(p, x), S # {}
  PROVE  \E p \in S : \A q \in S : Len(q) <= Len(p)
<1> DEFINE less == {ss \in Nat \X Nat : ss[1] < ss[2]}
           short(p) == Len(x) - Len(p)
           gaps == {short(p) : p \in S}
<1>1. IsWellFoundedOn(less, Nat)
  BY NatLessThanWellFounded DEF OpToRel
<1>2. \A p \in S : Len(p) \in Nat /\ Len(p) <= Len(x) /\ Len(x) \in Nat
  BY CoversByComponent DEF Path
<1>3. gaps \subseteq Nat /\ gaps # {}
  BY <1>2
<1>4. \E m \in gaps : \A n \in gaps : <<n, m>> \notin less
  <2> HIDE DEF less, gaps
  <2> QED BY <1>1, <1>3, WFMin
<1>5. PICK p \in S : \A q \in S : <<short(q), short(p)>> \notin less
  BY <1>4
<1>6. ASSUME NEW q \in S PROVE Len(q) <= Len(p)
  <2>1. short(q) \in Nat /\ short(p) \in Nat
    BY <1>2
  <2>2. ~(short(q) < short(p))
    BY <1>5, <2>1
  <2> QED BY <1>2, <2>2
<1> QED BY <1>6

------------------------------------------------------------------------------
(* The paths of Confinement.                                                  *)

\* Where a fixed path begins, and that it is one.
Place(p, root) == p \in Path /\ Len(p) > 0 /\ p[1] = root

\* What is under a place has its root.
LEMMA Further ==
  ASSUME NEW root, NEW p, Place(p, root), NEW q \in Path
  PROVE  Place(p \o q, root) /\ Len(p \o q) = Len(p) + Len(q) /\ Covers(p, p \o q)
<1>1. p \o q \in Path /\ Len(p \o q) = Len(p) + Len(q) /\ Covers(p, p \o q) /\ p \in Path /\ Len(p) > 0 /\ p[1] = root
  BY ExtendingCovers DEF Place
<1>2. Len(p) \in Nat /\ Len(q) \in Nat
  BY <1>1 DEF Path
<1>3. Covers(p \o q, p \o q) /\ Len(p \o q) > 0
  BY <1>1, <1>2, CoversItself
<1>4. (p \o q)[1] = p[1]
  BY <1>1, <1>3, OneRoot
<1> QED BY <1>1, <1>3, <1>4 DEF Place

\* Places of two roots are over no path together.
LEMMA TwoRoots ==
  ASSUME NEW x \in Path, NEW r, NEW s, r # s, NEW p, Place(p, r), NEW q, Place(q, s), Covers(p, x), Covers(q, x)
  PROVE  FALSE
BY OneRoot DEF Place

\* The fixed places, and the root each has.
LEMMA Roots ==
  /\ Place(Cwd, "proj") /\ Len(Cwd) = 1
  /\ Place(TmpDir, "tmp") /\ Len(TmpDir) = 1
  /\ Place(HostHome, "home") /\ Len(HostHome) = 1
  /\ Place(<<"proc">>, "proc") /\ Place(<<"dev">>, "dev") /\ Len(<<"dev">>) = 1
  /\ Place(Scoring, "scoring") /\ Place(<<"lib">>, "lib") /\ Place(<<"etc", "token">>, "etc")
<1>1. {"proj", "tmp", "home", "proc", "dev", "scoring", "lib", "etc", "token"} \subseteq Word
  BY DEF Word
<1> QED BY <1>1, OneWord, TwoWords DEF Cwd, TmpDir, HostHome, Scoring, Place

\* agg/private and its container directory.
LEMMA PrivatePlaces ==
  /\ Place(Private, "proj") /\ Len(Private) = 3
  /\ Place(Contained, "proj") /\ Len(Contained) = 4 /\ Covers(Private, Contained)
<1>1. {"agg", "private", "container"} \subseteq Word
  BY DEF Word
<1> DEFINE secret == <<"agg", "private">>
           box == <<"container">>
<1>2. secret \in Path /\ Len(secret) = 2 /\ box \in Path /\ Len(box) = 1
  BY <1>1, OneWord, TwoWords
<1>3. Private = Cwd \o secret /\ Contained = Private \o box
  BY DEF Private, Contained
<1> HIDE DEF secret, box
<1>4. Place(Private, "proj") /\ Len(Private) = Len(Cwd) + Len(secret)
  BY <1>2, <1>3, Roots, Further
<1>5. Len(Private) = 3
  BY <1>2, <1>4, Roots
<1>6. Place(Contained, "proj") /\ Len(Contained) = Len(Private) + Len(box) /\ Covers(Private, Contained)
  BY <1>2, <1>3, <1>4, Further
<1>7. Len(Contained) = 4
  BY <1>2, <1>5, <1>6
<1> QED BY <1>4, <1>5, <1>6, <1>7

\* What is kept of a container is under agg/private.
LEMMA KeptPlaces ==
  /\ \A label \in {"worker", "ruler", "judge", "metrics"} :
        Place(Home(label), "proj") /\ Len(Home(label)) > 3 /\ Covers(Private, Home(label))
  /\ Place(Scratch("container"), "proj") /\ Len(Scratch("container")) > 3
  /\ Place(Cache("container"), "proj") /\ Len(Cache("container")) > 3
<1>1. {"worker", "ruler", "judge", "metrics", "home", "scratch", "cache"} \subseteq Word
  BY DEF Word
<1>2. ASSUME NEW a \in Word, NEW b \in Word
      PROVE  /\ Place(Contained \o <<a, b>>, "proj") /\ Len(Contained \o <<a, b>>) > 3
             /\ Covers(Private, Contained \o <<a, b>>)
  <2> DEFINE tail == <<a, b>>
             path == Contained \o tail
  <2>1. tail \in Path /\ Len(tail) = 2
    BY TwoWords
  <2> HIDE DEF tail
  <2>2. Place(path, "proj") /\ Len(path) = Len(Contained) + Len(tail) /\ Covers(Contained, path)
    BY <2>1, PrivatePlaces, Further
  <2>3. Len(path) > 3
    BY <2>1, <2>2, PrivatePlaces
  <2>4. Covers(Private, path)
    BY <2>2, PrivatePlaces, CoversIsTransitive DEF Place
  <2> QED BY <2>2, <2>3, <2>4 DEF tail
<1>3. \A label : Home(label) = Contained \o <<"home", label>>
  BY DEF Home
<1>4. Scratch("container") = Contained \o <<"judge", "scratch">> /\ Cache("container") = Contained \o <<"judge", "cache">>
  BY DEF Scratch, Cache
<1> QED BY <1>1, <1>2, <1>3, <1>4

\* A place of one component more.
LEMMA OneFurther ==
  ASSUME NEW root, NEW p, Place(p, root), NEW a \in Word
  PROVE  Place(p \o <<a>>, root) /\ Covers(p, p \o <<a>>)
BY OneWord, Further

\* A judge's scratch and cache of the sandbox are temporary.
LEMMA TmpPlaces ==
  /\ Place(Scratch("sandbox"), "tmp") /\ Covers(TmpDir, Scratch("sandbox"))
  /\ Place(Cache("sandbox"), "tmp") /\ Covers(TmpDir, Cache("sandbox"))
<1>1. {"scratch", "cache"} \subseteq Word
  BY DEF Word
<1> QED BY <1>1, Roots, OneFurther DEF Scratch, Cache

\* What an agent keeps, and what a judge reads, in the user's home.
LEMMA HomePlaces ==
  /\ \A agent \in Known : \A p \in State(agent) \cup Siblings(State(agent)) : Place(p, "home")
  /\ Place(Library, "home") /\ Place(TrivyCache, "home") /\ Place(HostHome \o <<".netrc">>, "home")
<1>1. {".claude", ".claude.json", ".claude.json.tmp", ".codex", ".copilot", ".netrc", ".agg", "judges", ".cache",
       "trivy"} \subseteq Word
  BY DEF Word
<1>2. \A a \in Word : Place(HostHome \o <<a>>, "home")
  BY Roots, OneFurther
<1>3. \A agent \in Known : \A p \in State(agent) : Place(p, "home")
  BY <1>1, <1>2 DEF Known, State, ClaudeState, ClaudeFile, CodexState, CopilotState
<1>4. \A writable : \A p \in Siblings(writable) : Place(p, "home")
  BY <1>1, <1>2 DEF Siblings
<1>5. Place(Library, "home") /\ Place(TrivyCache, "home")
  BY <1>1, Roots, TwoWords, Further DEF Library, TrivyCache
<1> QED BY <1>1, <1>2, <1>3, <1>4, <1>5

\* Where a context directory is, on the host and in a container.
LEMMA ContextPlaces ==
  ASSUME NEW n \in DOMAIN Contexts
  PROVE  /\ \E root \in {"lib", "tmp"} : Place(Contexts[n], root)
         /\ Place(ContextAt(n), "context") /\ Len(ContextAt(n)) = 2
<1>1. {"lib", "notes", "context"} \subseteq Word
  BY DEF Word
<1>2. n \in {"lib", "notes"}
  BY DEF Contexts
<1>3. Contexts.lib = <<"lib">> /\ Contexts.notes = TmpDir \o <<"notes">>
  BY DEF Contexts
<1>4. Place(Contexts.lib, "lib") /\ Place(Contexts.notes, "tmp")
  BY <1>1, <1>3, Roots, OneFurther
<1>5. Place(ContextAt(n), "context") /\ Len(ContextAt(n)) = 2
  BY <1>1, <1>2, TwoWords DEF ContextAt, Place
<1> QED BY <1>2, <1>4, <1>5

------------------------------------------------------------------------------
(* The last of some layers.                                                   *)

\* Some of the first n numbers have a last.
LEMMA LastIndex ==
  ASSUME NEW n \in Nat, NEW S \in SUBSET (1 .. n), S # {}
  PROVE  LET k == CHOOSE i \in S : \A j \in S : j <= i IN k \in S /\ \A j \in S : j <= k
<1> DEFINE less == {ss \in Nat \X Nat : ss[1] < ss[2]}
           gaps == {n - i : i \in S}
<1>1. IsWellFoundedOn(less, Nat)
  BY NatLessThanWellFounded DEF OpToRel
<1>2. \A i \in S : i \in Int /\ i <= n
  OBVIOUS
<1>3. \A i \in S : n - i \in Nat
  BY <1>2
<1>4. gaps \subseteq Nat /\ gaps # {}
  BY <1>3
<1>5. \E m \in gaps : \A g \in gaps : <<g, m>> \notin less
  <2> HIDE DEF less, gaps
  <2> QED BY <1>1, <1>4, WFMin
<1>6. PICK i \in S : \A j \in S : <<n - j, n - i>> \notin less
  BY <1>5
<1>7. ASSUME NEW j \in S PROVE j <= i
  <2>1. n - j \in Nat /\ n - i \in Nat /\ i \in Int /\ j \in Int
    BY <1>2, <1>3
  <2>2. ~(n - j < n - i)
    BY <1>6, <2>1
  <2> QED BY <2>1, <2>2
<1> QED BY <1>7

\* Of a table whose first layer is for everything, the last layer over a path decides.
LEMMA LastLayerDecides ==
  ASSUME NEW n \in Nat, NEW table, DOMAIN table = 1 .. n, NEW x, n > 0, Under(table[1].paths, x)
  PROVE  \E k \in 1 .. n : /\ LastLayer(table, x) = table[k].access
                           /\ Under(table[k].paths, x)
                           /\ \A j \in 1 .. n : Under(table[j].paths, x) => j <= k
<1> DEFINE hits == {i \in DOMAIN table : Under(table[i].paths, x)}
           k == CHOOSE i \in hits : \A j \in hits : j <= i
<1>1. hits \in SUBSET (1 .. n) /\ hits # {}
  OBVIOUS
<1>2. k \in hits /\ \A j \in hits : j <= k
  <2> HIDE DEF hits
  <2> QED BY <1>1, LastIndex
<1>3. LastLayer(table, x) = table[k].access
  BY DEF LastLayer
<1> HIDE DEF k
<1> QED BY <1>2, <1>3

------------------------------------------------------------------------------
(* The sandbox.                                                               *)

\* The six layers of linux.rs.
LEMMA BwrapLayers ==
  ASSUME NEW W, NEW D, NEW R
  PROVE  LET t == Bwrap(W, D, R)
         IN /\ DOMAIN t = 1 .. 6
            /\ t[1].paths = {Slash} /\ t[2].paths = {Cwd} /\ t[3].paths = W /\ t[4].paths = D
            /\ t[5].paths = {TmpDir, <<"proc">>, <<"dev">>} /\ t[6].paths = R
            /\ t[1].access = "ro" /\ t[2].access = "rw" /\ t[3].access = "rw" /\ t[4].access = "ro"
            /\ t[5].access = "own" /\ t[6].access = "ro"
BY DEF Bwrap, Layer

\* Two sequences of four and two, one after the other.
LEMMA FourAndTwo ==
  ASSUME NEW a, NEW b, NEW c, NEW d, NEW e, NEW f
  PROVE  LET t == <<a, b, c, d>> \o <<e, f>>
         IN DOMAIN t = 1 .. 6 /\ t[1] = a /\ t[2] = b /\ t[3] = c /\ t[4] = d /\ t[5] = e /\ t[6] = f
<1> DEFINE S == {a, b, c, d, e, f}
<1>1. <<a, b, c, d>> \in Seq(S) /\ <<e, f>> \in Seq(S)
  OBVIOUS
<1> QED BY <1>1

\* The six layers of macos.rs.
LEMMA SeatbeltLayers ==
  ASSUME NEW W, NEW D, NEW P, NEW R
  PROVE  LET t == Seatbelt(W, D, P, R)
         IN /\ DOMAIN t = 1 .. 6
            /\ t[1].paths = {Slash} /\ t[2].paths = {Cwd, TmpDir} \cup W \cup Siblings(W)
            /\ t[3].paths = {<<"dev", "null">>, <<"dev", "fd">>} /\ t[4].paths = D \ {Slash}
            /\ t[5].paths = P /\ t[6].paths = R \ {Slash}
            /\ t[1].access = "ro" /\ t[2].access = "rw" /\ t[3].access = "rw" /\ t[4].access = "ro"
            /\ t[5].access = "ro" /\ t[6].access = "ro"
BY FourAndTwo DEF Seatbelt, Profile, ReadonlyRules, Layer

\* The table of a jail, and what it has on either system.
Refused(jail) == DenySet(jail.denies \cup jail.protects)
Reading(names) == {Contexts[n] : n \in names}
Table(os, jail, names) ==
    IF os = "macos" THEN Seatbelt(jail.writable, DenySet(jail.denies), {Resolved(p) : p \in jail.protects}, Reading(names))
                    ELSE Bwrap(jail.writable, Refused(jail), Reading(names))
Granted(jail) == {Cwd, TmpDir} \cup jail.writable \cup Siblings(jail.writable)
Devices == {<<"dev", "null">>, <<"dev", "fd">>}
Own == {TmpDir, <<"proc">>, <<"dev">>}

\* Which table wrap_protected reads.
LEMMA JailedByTable ==
  ASSUME NEW os, NEW jail, NEW names, NEW x
  PROVE  Jailed(os, jail, names, x) = LastLayer(Table(os, jail, names), x)
<1>1. CASE os = "macos"
  BY <1>1 DEF Jailed, ProtectChannels, Reading, Table
<1>2. CASE os # "macos"
  BY <1>2 DEF Jailed, ProtectChannels, Reading, Table, Refused
<1> QED BY <1>1, <1>2

\* The layers of either table: what is granted before, what is refused after.
LEMMA TableLayers ==
  ASSUME NEW os, NEW jail, NEW names, NEW t, t = Table(os, jail, names)
  PROVE  /\ DOMAIN t = 1 .. 6
         /\ t[1].paths = {Slash} /\ Cwd \in t[2].paths /\ t[2].paths \cup t[3].paths \subseteq Granted(jail) \cup Devices
         /\ Refused(jail) \ {Slash} \subseteq t[4].paths \cup t[5].paths
         /\ t[4].paths \cup t[5].paths \subseteq Refused(jail) \cup Own
         /\ Reading(names) \ {Slash} \subseteq t[6].paths /\ t[6].paths \subseteq Reading(names)
         /\ t[1].access = "ro" /\ t[2].access = "rw" /\ t[3].access = "rw"
         /\ t[4].access = "ro" /\ t[5].access # "rw" /\ t[6].access = "ro"
<1>1. Refused(jail) = DenySet(jail.denies) \cup {Resolved(p) : p \in jail.protects}
  BY DEF Refused, DenySet
<1>2. CASE os = "macos"
  <2> DEFINE rules == {Resolved(p) : p \in jail.protects}
             D == DenySet(jail.denies)
             R == Reading(names)
             W == jail.writable
  <2>1. t = Seatbelt(W, D, rules, R) /\ Refused(jail) = D \cup rules
    BY <1>1, <1>2 DEF Table
  <2> HIDE DEF rules, D, R, W
  <2>2. /\ DOMAIN t = 1 .. 6
        /\ t[1].paths = {Slash} /\ t[2].paths = {Cwd, TmpDir} \cup W \cup Siblings(W)
        /\ t[3].paths = Devices /\ t[4].paths = D \ {Slash} /\ t[5].paths = rules /\ t[6].paths = R \ {Slash}
        /\ t[1].access = "ro" /\ t[2].access = "rw" /\ t[3].access = "rw" /\ t[4].access = "ro"
        /\ t[5].access = "ro" /\ t[6].access = "ro"
    BY <2>1, SeatbeltLayers DEF Devices
  <2> QED BY <2>1, <2>2 DEF Granted, W, R
<1>3. CASE os # "macos"
  <2> DEFINE D == Refused(jail)
             R == Reading(names)
             W == jail.writable
  <2>1. t = Bwrap(W, D, R)
    BY <1>3 DEF Table
  <2> HIDE DEF D, R, W
  <2>2. /\ DOMAIN t = 1 .. 6
        /\ t[1].paths = {Slash} /\ t[2].paths = {Cwd} /\ t[3].paths = W /\ t[4].paths = D
        /\ t[5].paths = Own /\ t[6].paths = R
        /\ t[1].access = "ro" /\ t[2].access = "rw" /\ t[3].access = "rw" /\ t[4].access = "ro"
        /\ t[5].access = "own" /\ t[6].access = "ro"
    BY <2>1, BwrapLayers DEF Own
  <2> QED BY <2>2 DEF Granted, W, R, D
<1> QED BY <1>2, <1>3

\* What decides about a path in it.
LEMMA JailDecides ==
  ASSUME NEW os, NEW jail, NEW names, NEW x \in Path
  PROVE  LET t == Table(os, jail, names)
         IN \E k \in 1 .. 6 : /\ Jailed(os, jail, names, x) = t[k].access
                              /\ Under(t[k].paths, x)
                              /\ \A j \in 1 .. 6 : Under(t[j].paths, x) => j <= k
<1> DEFINE t == Table(os, jail, names)
<1>1. DOMAIN t = 1 .. 6 /\ t[1].paths = {Slash}
  BY TableLayers
<1>2. Jailed(os, jail, names, x) = LastLayer(t, x)
  BY JailedByTable
<1> HIDE DEF t
<1>3. Under(t[1].paths, x)
  BY <1>1, RootCoversAll DEF Under
<1>4. 6 \in Nat /\ 6 > 0
  OBVIOUS
<1>5. \E k \in 1 .. 6 : /\ LastLayer(t, x) = t[k].access
                        /\ Under(t[k].paths, x)
                        /\ \A j \in 1 .. 6 : Under(t[j].paths, x) => j <= k
  BY <1>1, <1>3, <1>4, LastLayerDecides
<1> QED BY <1>2, <1>5 DEF t

\* A place is not the root.
LEMMA NotTheRoot ==
  ASSUME NEW root, NEW p, Place(p, root)
  PROVE  p # Slash
BY DEF Place, Slash

\* A jail writes the project, what it is given and the temporary places, and nothing it is refused.
LEMMA JailWrites ==
  ASSUME NEW os, NEW jail, NEW names, NEW x \in Path, Jailed(os, jail, names, x) = "rw",
         \A d \in jail.denies \cup jail.protects : Resolved(d) # Slash
  PROVE  Under(Granted(jail) \cup {<<"dev">>}, x) /\ ~Under(Refused(jail), x)
<1> DEFINE t == Table(os, jail, names)
<1>1. Slash \notin Refused(jail)
  <2>1. Private # Slash
    BY PrivatePlaces, NotTheRoot
  <2> QED BY <2>1 DEF Refused, DenySet
<1>2. PICK k \in 1 .. 6 : /\ Jailed(os, jail, names, x) = t[k].access
                          /\ Under(t[k].paths, x)
                          /\ \A j \in 1 .. 6 : Under(t[j].paths, x) => j <= k
  BY JailDecides
<1>3. k \in {2, 3} /\ t[k].paths \subseteq Granted(jail) \cup Devices
  BY <1>2, TableLayers
<1>4. ~Under(t[4].paths, x) /\ ~Under(t[5].paths, x)
  BY <1>2, <1>3
<1>5. ~Under(Refused(jail), x)
  BY <1>1, <1>4, TableLayers DEF Under
<1>6. ASSUME NEW p \in Devices, Covers(p, x) PROVE Covers(<<"dev">>, x)
  <2> DEFINE d == <<"dev">>
  <2>1. {"dev", "null", "fd"} \subseteq Word
    BY DEF Word
  <2>2. p \in Path /\ Len(p) = 2 /\ p[1] = "dev" /\ d \in Path /\ Len(d) = 1 /\ d[1] = "dev"
    BY <2>1, OneWord, TwoWords DEF Devices
  <2> HIDE DEF d
  <2>3. Len(p) <= Len(x) /\ \A i \in 1 .. Len(p) : p[i] = x[i]
    BY <1>6, <2>2, CoversByComponent
  <2>4. Len(d) <= Len(x) /\ \A i \in 1 .. Len(d) : d[i] = x[i]
    BY <2>2, <2>3
  <2>5. Covers(d, x)
    BY <2>2, <2>4, CoversByComponent
  <2> QED BY <2>5 DEF d
<1>7. Under(Granted(jail) \cup {<<"dev">>}, x)
  BY <1>2, <1>3, <1>6 DEF Under
<1> QED BY <1>5, <1>7

\* What a jail is neither refused nor only reads, it writes in the project.
LEMMA JailWorks ==
  ASSUME NEW os, NEW jail, NEW names \in SUBSET DOMAIN Contexts, NEW x \in Path, Covers(Cwd, x), ~Under(Refused(jail), x)
  PROVE  Jailed(os, jail, names, x) = "rw"
<1> DEFINE t == Table(os, jail, names)
<1>1. ~Under(Reading(names), x)
  BY ContextPlaces, Roots, TwoRoots DEF Under, Reading
<1>2. ~Under(Own, x)
  BY Roots, TwoRoots DEF Under, Own
<1>3. ~Under(t[4].paths, x) /\ ~Under(t[5].paths, x) /\ ~Under(t[6].paths, x) /\ Under(t[2].paths, x)
  BY <1>1, <1>2, TableLayers DEF Under
<1>4. PICK k \in 1 .. 6 : /\ Jailed(os, jail, names, x) = t[k].access
                          /\ Under(t[k].paths, x)
                          /\ \A j \in 1 .. 6 : Under(t[j].paths, x) => j <= k
  BY JailDecides
<1>5. k \in {2, 3}
  BY <1>3, <1>4
<1> QED BY <1>4, <1>5, TableLayers

\* A context directory is the last word of either table.
LEMMA JailReads ==
  ASSUME NEW os, NEW jail, NEW names \in SUBSET DOMAIN Contexts, NEW n \in names
  PROVE  Jailed(os, jail, names, Contexts[n]) = "ro"
<1> DEFINE t == Table(os, jail, names)
           x == Contexts[n]
<1>1. x \in Path /\ x # Slash
  BY ContextPlaces, NotTheRoot DEF Place
<1>2. x \in Reading(names)
  BY DEF Reading
<1> HIDE DEF x
<1>3. Under(t[6].paths, x)
  BY <1>1, <1>2, CoversItself, TableLayers DEF Under
<1>4. PICK k \in 1 .. 6 : /\ Jailed(os, jail, names, x) = t[k].access
                          /\ Under(t[k].paths, x)
                          /\ \A j \in 1 .. 6 : Under(t[j].paths, x) => j <= k
  BY <1>1, JailDecides
<1>5. k = 6
  BY <1>3, <1>4
<1> QED BY <1>4, <1>5, TableLayers DEF x

------------------------------------------------------------------------------
(* The container.                                                             *)

CredentialsOf(spec) == UNION {CredentialMounts(h, spec.files) : h \in spec.home}
Inside(names) == {ContextAt(n) : n \in names}

\* The seven layers of containerize_spec.
LEMMA MountLayers ==
  ASSUME NEW spec, NEW names, NEW t, t = Mounts(spec, names)
  PROVE  /\ DOMAIN t = 1 .. 7
         /\ t[1].paths = {Cwd} /\ t[2].paths = spec.writable /\ t[3].paths = spec.readonly
         /\ t[4].paths = DenySet(spec.denies) /\ t[5].paths = Inside(names)
         /\ t[6].paths = spec.home /\ t[7].paths = CredentialsOf(spec)
         /\ t[1].access = (IF spec.project_ro THEN "ro" ELSE "rw") /\ t[2].access = "rw" /\ t[3].access = "ro"
         /\ t[4].access = "ro" /\ t[5].access = "ro" /\ t[6].access = "rw" /\ t[7].access = "ro"
<1> DEFINE A == {ContextAt(n) : n \in names}
           B == UNION {CredentialMounts(h, spec.files) : h \in spec.home}
           D == DenySet(spec.denies)
<1>1. t = <<Layer(IF spec.project_ro THEN "ro" ELSE "rw", {Cwd}), Layer("rw", spec.writable), Layer("ro", spec.readonly),
            Layer("ro", D), Layer("ro", A), Layer("rw", spec.home), Layer("ro", B)>>
  BY DEF Mounts
<1>2. A = Inside(names) /\ B = CredentialsOf(spec)
  BY DEF Inside, CredentialsOf
<1> HIDE DEF A, B, D
<1>3. /\ DOMAIN t = 1 .. 7
      /\ t[1].paths = {Cwd} /\ t[2].paths = spec.writable /\ t[3].paths = spec.readonly
      /\ t[4].paths = D /\ t[5].paths = A /\ t[6].paths = spec.home /\ t[7].paths = B
      /\ t[1].access = (IF spec.project_ro THEN "ro" ELSE "rw") /\ t[2].access = "rw" /\ t[3].access = "ro"
      /\ t[4].access = "ro" /\ t[5].access = "ro" /\ t[6].access = "rw" /\ t[7].access = "ro"
  BY <1>1 DEF Layer
<1> QED BY <1>2, <1>3 DEF D

\* Everything mounted is mounted at a path.
Mounted(spec, names) ==
    {Cwd} \cup spec.writable \cup spec.readonly \cup DenySet(spec.denies) \cup Inside(names) \cup spec.home
    \cup CredentialsOf(spec)

\* The deepest mount over a path decides, and of the layers that mount there the last.
LEMMA DeepestDecides ==
  ASSUME NEW spec, NEW names, Mounted(spec, names) \subseteq Path, NEW x \in Path,
         \E p \in Mounted(spec, names) : Covers(p, x)
  PROVE  LET t == Mounts(spec, names)
         IN \E d \in Mounted(spec, names), k \in 1 .. 7 :
                /\ Covers(d, x) /\ \A q \in Mounted(spec, names) : Covers(q, x) => Len(q) <= Len(d)
                /\ d \in t[k].paths /\ \A j \in 1 .. 7 : d \in t[j].paths => j <= k
                /\ ContainerSees(spec, names, x) = t[k].access
<1> DEFINE t == Mounts(spec, names)
           hits == {p \in UNION {t[i].paths : i \in DOMAIN t} : Covers(p, x)}
           d == CHOOSE p \in hits : \A q \in hits : Len(q) <= Len(p)
           layers == {i \in DOMAIN t : d \in t[i].paths}
           k == CHOOSE i \in layers : \A j \in layers : j <= i
<1>1. DOMAIN t = 1 .. 7 /\ UNION {t[i].paths : i \in 1 .. 7} = Mounted(spec, names)
  <2>1. /\ DOMAIN t = 1 .. 7
        /\ t[1].paths = {Cwd} /\ t[2].paths = spec.writable /\ t[3].paths = spec.readonly
        /\ t[4].paths = DenySet(spec.denies) /\ t[5].paths = Inside(names)
        /\ t[6].paths = spec.home /\ t[7].paths = CredentialsOf(spec)
    BY MountLayers
  <2> HIDE DEF t
  <2>2. 1 .. 7 = {1, 2, 3, 4, 5, 6, 7}
    OBVIOUS
  <2> QED BY <2>1, <2>2 DEF Mounted
<1>2. ContainerSees(spec, names, x) = IF hits = {} THEN "own" ELSE t[k].access
  BY DEF ContainerSees
<1> HIDE DEF t
<1>3. hits = {p \in Mounted(spec, names) : Covers(p, x)}
  BY <1>1
<1>4. hits # {} /\ \A p \in hits : p \in Path /\ Covers(p, x)
  BY <1>3
<1> HIDE DEF hits
<1>5. d \in hits /\ \A q \in hits : Len(q) <= Len(d)
  <2>1. \E p \in hits : \A q \in hits : Len(q) <= Len(p)
    BY <1>4, DeepestOfSome
  <2> QED BY <2>1
<1> HIDE DEF d
<1>6. layers \in SUBSET (1 .. 7) /\ layers # {}
  BY <1>1, <1>3, <1>5
<1>7. k \in layers /\ \A j \in layers : j <= k
  <2> HIDE DEF layers
  <2> QED BY <1>6, LastIndex
<1> HIDE DEF k
<1>8. k \in 1 .. 7 /\ d \in t[k].paths /\ \A j \in 1 .. 7 : d \in t[j].paths => j <= k
  BY <1>1, <1>7
<1>9. d \in Mounted(spec, names) /\ Covers(d, x) /\ \A q \in Mounted(spec, names) : Covers(q, x) => Len(q) <= Len(d)
  BY <1>3, <1>5
<1> QED BY <1>2, <1>4, <1>8, <1>9 DEF t

\* What no mount covers is the container's own.
LEMMA NothingMounted ==
  ASSUME NEW spec, NEW names, NEW x, \A p \in Mounted(spec, names) : ~Covers(p, x)
  PROVE  ContainerSees(spec, names, x) = "own"
<1> DEFINE t == Mounts(spec, names)
           hits == {p \in UNION {t[i].paths : i \in DOMAIN t} : Covers(p, x)}
<1>1. \A i \in DOMAIN t : t[i].paths \subseteq Mounted(spec, names)
  <2>1. /\ DOMAIN t = 1 .. 7
        /\ t[1].paths = {Cwd} /\ t[2].paths = spec.writable /\ t[3].paths = spec.readonly
        /\ t[4].paths = DenySet(spec.denies) /\ t[5].paths = Inside(names)
        /\ t[6].paths = spec.home /\ t[7].paths = CredentialsOf(spec)
    BY MountLayers
  <2> HIDE DEF t
  <2>2. 1 .. 7 = {1, 2, 3, 4, 5, 6, 7}
    OBVIOUS
  <2> QED BY <2>1, <2>2 DEF Mounted
<1>2. hits = {}
  BY <1>1
<1> QED BY <1>2 DEF ContainerSees

\* What is under a fixed path is under what covers it.
LEMMA Beneath ==
  ASSUME NEW p \in Path, NEW q \in Path, NEW x \in Path, Covers(p, q), Covers(q, x), NEW ps, p \in ps
  PROVE  Under(ps, x)
BY CoversIsTransitive DEF Under

\* A container writes its home and what it is given, and the project where it is not refused.
LEMMA ContainerWrites ==
  ASSUME NEW spec, NEW names, Mounted(spec, names) \subseteq Path, NEW x \in Path,
         ContainerSees(spec, names, x) = "rw"
  PROVE  \E d \in Path :
            /\ Covers(d, x)
            /\ \A q \in DenySet(spec.denies) : Covers(q, x) => Len(q) <= Len(d)
            /\ \/ d \in spec.writable \cup spec.home
               \/ ~spec.project_ro /\ d = Cwd /\ Cwd \notin DenySet(spec.denies)
<1> DEFINE t == Mounts(spec, names)
<1>1. \E p \in Mounted(spec, names) : Covers(p, x)
  BY NothingMounted
<1>2. PICK d \in Mounted(spec, names), k \in 1 .. 7 :
          /\ Covers(d, x) /\ \A q \in Mounted(spec, names) : Covers(q, x) => Len(q) <= Len(d)
          /\ d \in t[k].paths /\ \A j \in 1 .. 7 : d \in t[j].paths => j <= k
          /\ ContainerSees(spec, names, x) = t[k].access
  BY <1>1, DeepestDecides
<1>3. /\ t[1].paths = {Cwd} /\ t[2].paths = spec.writable /\ t[4].paths = DenySet(spec.denies)
      /\ t[6].paths = spec.home
      /\ t[1].access = (IF spec.project_ro THEN "ro" ELSE "rw") /\ t[3].access = "ro"
      /\ t[4].access = "ro" /\ t[5].access = "ro" /\ t[7].access = "ro"
  BY MountLayers
<1> HIDE DEF t
<1>4. k \in {1, 2, 6} /\ (k = 1 => ~spec.project_ro)
  BY <1>2, <1>3
<1>5. k = 1 => Cwd \notin DenySet(spec.denies) /\ d = Cwd
  BY <1>2, <1>3
<1>6. k \in {2, 6} => d \in spec.writable \cup spec.home
  BY <1>2, <1>3
<1>7. \A q \in DenySet(spec.denies) : Covers(q, x) => Len(q) <= Len(d)
  BY <1>2 DEF Mounted
<1> QED BY <1>2, <1>4, <1>5, <1>6, <1>7

\* What is mounted at a path decides about that path.
LEMMA MountDecides ==
  ASSUME NEW spec, NEW names, Mounted(spec, names) \subseteq Path, NEW x \in Mounted(spec, names)
  PROVE  LET t == Mounts(spec, names)
         IN \E k \in 1 .. 7 : /\ x \in t[k].paths /\ \A j \in 1 .. 7 : x \in t[j].paths => j <= k
                              /\ ContainerSees(spec, names, x) = t[k].access
<1> DEFINE t == Mounts(spec, names)
<1>1. x \in Path /\ Covers(x, x)
  BY CoversItself
<1>2. PICK d \in Mounted(spec, names), k \in 1 .. 7 :
          /\ Covers(d, x) /\ \A q \in Mounted(spec, names) : Covers(q, x) => Len(q) <= Len(d)
          /\ d \in t[k].paths /\ \A j \in 1 .. 7 : d \in t[j].paths => j <= k
          /\ ContainerSees(spec, names, x) = t[k].access
  BY <1>1, DeepestDecides
<1> HIDE DEF t
<1>3. d \in Path /\ Len(d) \in Nat /\ Len(x) \in Nat
  BY <1>1 DEF Path
<1>4. Len(d) <= Len(x) /\ Len(x) <= Len(d)
  BY <1>1, <1>2, <1>3, CoversByComponent
<1>5. d = x
  BY <1>1, <1>2, <1>3, <1>4, OneOfALength
<1> QED BY <1>2, <1>5 DEF t

\* A credential is the last word of the mounts, and a context directory when no home is there.
LEMMA CredentialsAreRead ==
  ASSUME NEW spec, NEW names, Mounted(spec, names) \subseteq Path, NEW x \in CredentialsOf(spec)
  PROVE  ContainerSees(spec, names, x) = "ro"
<1> DEFINE t == Mounts(spec, names)
<1>1. x \in Mounted(spec, names)
  BY DEF Mounted
<1>2. PICK k \in 1 .. 7 : /\ x \in t[k].paths /\ \A j \in 1 .. 7 : x \in t[j].paths => j <= k
                          /\ ContainerSees(spec, names, x) = t[k].access
  BY <1>1, MountDecides
<1>3. t[7].paths = CredentialsOf(spec) /\ t[7].access = "ro"
  BY MountLayers
<1> HIDE DEF t
<1> QED BY <1>2, <1>3

\* A context directory is only read in a container whose home it is not.
LEMMA ContextsAreRead ==
  ASSUME NEW spec, NEW names, Mounted(spec, names) \subseteq Path, NEW n \in names, ContextAt(n) \notin spec.home
  PROVE  ContainerSees(spec, names, ContextAt(n)) = "ro"
<1> DEFINE t == Mounts(spec, names)
           x == ContextAt(n)
<1>1. x \in Inside(names) /\ x \in Mounted(spec, names) /\ x \notin spec.home
  BY DEF Mounted, Inside
<1> HIDE DEF x
<1>2. PICK k \in 1 .. 7 : /\ x \in t[k].paths /\ \A j \in 1 .. 7 : x \in t[j].paths => j <= k
                          /\ ContainerSees(spec, names, x) = t[k].access
  BY <1>1, MountDecides
<1>3. t[5].paths = Inside(names) /\ t[6].paths = spec.home /\ t[5].access = "ro" /\ t[7].access = "ro"
  BY MountLayers
<1> HIDE DEF t
<1>4. k \in {5, 7}
  BY <1>1, <1>2, <1>3
<1> QED BY <1>2, <1>3, <1>4 DEF x

\* Where credentials are mounted: in the home, or at the one place outside the homes.
LEMMA CredentialPlaces ==
  ASSUME NEW home, Place(home, "proj"), Covers(Private, home), NEW files \in SUBSET Path,
         NEW m \in CredentialMounts(home, files)
  PROVE  m \in Path /\ (Covers(Private, m) \/ Place(m, "etc"))
<1>1. ASSUME NEW f \in Path PROVE home \o f \in Path /\ Covers(Private, home \o f)
  <2>1. Place(home \o f, "proj") /\ Covers(home, home \o f)
    BY <1>1, Further
  <2> QED BY <2>1, PrivatePlaces, CoversIsTransitive DEF Place
<1>2. ASSUME NEW c \in Path PROVE SubSeq(c, 2, Len(c)) \in Path
  BY <1>2 DEF Path
<1>3. Len(HostHome) + 1 = 2
  BY Roots
<1>4. ASSUME NEW c \in RunCredentials PROVE c \in Path /\ (Covers(HostHome, c) \/ Place(c, "etc"))
  <2>1. ".netrc" \in Word
    BY DEF Word
  <2>2. HostHome \o <<".netrc">> \in Path /\ Covers(HostHome, HostHome \o <<".netrc">>)
    BY <2>1, Roots, OneFurther DEF Place
  <2>3. <<"etc", "token">> \in Path /\ Place(<<"etc", "token">>, "etc")
    BY Roots DEF Place
  <2>4. c = HostHome \o <<".netrc">> \/ c = <<"etc", "token">>
    BY <1>4 DEF RunCredentials
  <2> QED BY <2>2, <2>3, <2>4
<1>5. \/ \E f \in files : m = home \o f
      \/ \E c \in RunCredentials : m = (IF Covers(HostHome, c) THEN home \o SubSeq(c, Len(HostHome) + 1, Len(c)) ELSE c)
  BY DEF CredentialMounts
<1>6. ASSUME NEW c \in RunCredentials, Covers(HostHome, c), m = home \o SubSeq(c, Len(HostHome) + 1, Len(c))
      PROVE  m \in Path /\ Covers(Private, m)
  BY <1>1, <1>2, <1>3, <1>4, <1>6
<1>7. ASSUME NEW c \in RunCredentials, ~Covers(HostHome, c), m = c
      PROVE  m \in Path /\ Place(m, "etc")
  BY <1>4, <1>7
<1> QED BY <1>1, <1>5, <1>6, <1>7

------------------------------------------------------------------------------
(* What a worker and a judge are given.                                       *)

Labels == [worker |-> "worker", llm |-> "ruler", script |-> "judge", metric |-> "metrics"]
Roles == {"worker", "llm", "script", "metric"}

\* A process as the walk starts them: its lists name paths.
Process(p) ==
    /\ p.role \in Roles /\ p.agent \in Known \cup {"swe-metrics"}
    /\ p.role \in {"worker", "llm"} => p.agent \in Known
    /\ p.role # "worker" => p.denies = {} /\ p.protects = {}
    /\ \A d \in p.denies \cup p.protects : Resolved(d) \in Path /\ Resolved(d) # Slash

\* The jail of each role.
LEMMA JailFields ==
  ASSUME NEW p, Process(p)
  PROVE  LET jail == JailOf(p)
         IN /\ p.role \in {"worker", "llm"} => jail.writable = State(p.agent)
            /\ p.role \in {"script", "metric"} =>
                    jail.writable = {Scratch("sandbox"), Cache("sandbox")} /\ jail.denies = {Everything}
            /\ p.role = "worker" => jail.denies = p.denies /\ jail.protects = p.protects
            /\ p.role = "llm" => jail.denies = {}
            /\ p.role # "worker" => jail.protects = {}
<1>1. CASE p.role = "worker"
  BY <1>1 DEF JailOf, WorkerJail, Jail
<1>2. CASE p.role = "llm"
  BY <1>2 DEF JailOf, OneShotJail, Jail
<1>3. CASE p.role = "script"
  BY <1>3 DEF JailOf, ScriptJail, Jail
<1>4. CASE p.role = "metric"
  BY <1>4 DEF JailOf, MetricJail, Jail
<1> QED BY <1>1, <1>2, <1>3, <1>4 DEF Process, Roles

\* The mounts of each role.
LEMMA SpecFields ==
  ASSUME NEW p, Process(p)
  PROVE  LET spec == SpecOf(p)
         IN /\ spec.home = {Home(Labels[p.role])}
            /\ spec.project_ro <=> p.role # "worker"
            /\ p.role = "worker" => spec.denies = p.denies \cup p.protects
            /\ p.role # "worker" => spec.denies = {}
            /\ p.role \in {"worker", "llm"} => spec.writable = {} /\ spec.readonly = {} /\ spec.files = Credentials(p.agent)
            /\ p.role \in {"script", "metric"} => spec.files = {}
            /\ spec.writable \subseteq {Scratch("container"), Cache("container")}
            /\ spec.readonly \subseteq {Library, TrivyCache, Scoring}
<1> DEFINE spec == SpecOf(p)
<1>1. CASE p.role = "worker"
  <2>1. spec = WorkerSpec(p) /\ Labels[p.role] = "worker"
    BY <1>1 DEF SpecOf, Labels
  <2> HIDE DEF spec
  <2>2. /\ spec.home = {Home("worker")}
        /\ spec.writable = {} /\ spec.readonly = {}
        /\ spec.denies = p.denies \cup p.protects
        /\ spec.files = Credentials(p.agent)
        /\ spec.project_ro = FALSE
    BY <2>1 DEF WorkerSpec, Plain
  <2> QED BY <1>1, <2>1, <2>2 DEF spec
<1>2. CASE p.role = "llm"
  <2>1. spec = OneShotSpec(p) /\ Labels[p.role] = "ruler"
    BY <1>2 DEF SpecOf, Labels
  <2> HIDE DEF spec
  <2>2. /\ spec.home = {Home("ruler")}
        /\ spec.writable = {} /\ spec.readonly = {} /\ spec.denies = {}
        /\ spec.files = Credentials(p.agent)
        /\ spec.project_ro = TRUE
    BY <2>1 DEF OneShotSpec, Plain
  <2> QED BY <1>2, <2>1, <2>2 DEF spec
<1>3. CASE p.role = "script"
  <2>1. spec = ScriptSpec /\ Labels[p.role] = "judge"
    BY <1>3 DEF SpecOf, Labels
  <2> HIDE DEF spec
  <2>2. /\ spec.home = {Home("judge")}
        /\ spec.writable = {Scratch("container"), Cache("container")} /\ spec.readonly = {Library}
        /\ spec.denies = {} /\ spec.files = {}
        /\ spec.project_ro = TRUE
    BY <2>1 DEF ScriptSpec, Plain
  <2> QED BY <1>3, <2>1, <2>2 DEF spec
<1>4. CASE p.role = "metric"
  <2>1. spec = MetricSpec /\ Labels[p.role] = "metrics"
    BY <1>4 DEF SpecOf, Labels
  <2> HIDE DEF spec
  <2>2. /\ spec.home = {Home("metrics")}
        /\ spec.writable = {Scratch("container")} /\ spec.readonly = {TrivyCache, Scoring}
        /\ spec.denies = {} /\ spec.files = {}
        /\ spec.project_ro = TRUE
    BY <2>1 DEF MetricSpec, Plain
  <2> QED BY <1>4, <2>1, <2>2 DEF spec
<1> QED BY <1>1, <1>2, <1>3, <1>4 DEF Process, Roles

\* An agent's credential files are paths under a home.
LEMMA CredentialFiles ==
  ASSUME NEW agent \in Known
  PROVE  Credentials(agent) \subseteq Path
<1>1. {".claude", ".credentials.json", ".codex", "auth.json"} \subseteq Word
  BY DEF Word
<1>2. <<".claude", ".credentials.json">> \in Path /\ <<".codex", "auth.json">> \in Path
  BY <1>1, TwoWords
<1> QED BY <1>2 DEF Known, Credentials, ClaudeCredentials, CodexCredentials

\* The home of a process, and where its credentials are.
LEMMA HomeOf ==
  ASSUME NEW p, Process(p)
  PROVE  LET h == Home(Labels[p.role])
         IN /\ Place(h, "proj") /\ Len(h) > 3 /\ Covers(Private, h)
            /\ SpecOf(p).home = {h}
            /\ \A m \in CredentialsOf(SpecOf(p)) : m \in Path /\ (Covers(Private, m) \/ Place(m, "etc"))
<1> DEFINE h == Home(Labels[p.role])
<1>1. Labels[p.role] \in {"worker", "ruler", "judge", "metrics"}
  BY DEF Process, Roles, Labels
<1>2. Place(h, "proj") /\ Len(h) > 3 /\ Covers(Private, h)
  BY <1>1, KeptPlaces
<1>3. SpecOf(p).home = {h} /\ SpecOf(p).files \subseteq Path
  BY SpecFields, CredentialFiles DEF Process, Roles
<1> HIDE DEF h
<1>4. \A m \in CredentialsOf(SpecOf(p)) : m \in Path /\ (Covers(Private, m) \/ Place(m, "etc"))
  BY <1>2, <1>3, CredentialPlaces DEF CredentialsOf
<1> QED BY <1>2, <1>3, <1>4 DEF h

\* Whatever a process mounts, it mounts at a path.
LEMMA AllMounted ==
  ASSUME NEW p, Process(p), NEW names \in SUBSET DOMAIN Contexts
  PROVE  Mounted(SpecOf(p), names) \subseteq Path
<1> DEFINE spec == SpecOf(p)
<1>1. spec.writable \subseteq Path
  BY SpecFields, KeptPlaces DEF Place
<1>2. spec.readonly \subseteq Path
  BY SpecFields, HomePlaces, Roots DEF Place
<1>3. DenySet(spec.denies) \subseteq Path
  BY SpecFields, PrivatePlaces DEF Place, DenySet, Process
<1>4. Inside(names) \subseteq Path
  BY ContextPlaces DEF Inside, Place
<1>5. spec.home \subseteq Path /\ CredentialsOf(spec) \subseteq Path
  BY HomeOf DEF Place
<1>6. Cwd \in Path
  BY Roots DEF Place
<1> HIDE DEF spec
<1>7. Mounted(spec, names) \subseteq Path
  BY <1>1, <1>2, <1>3, <1>4, <1>5, <1>6 DEF Mounted
<1> QED BY <1>7 DEF spec

------------------------------------------------------------------------------
(* How a process is confined, on any system.                                  *)

\* What a confined process may not write, as its jail and its mounts have it.
LEMMA WhatIsForbidden ==
  ASSUME NEW p, Process(p), p.cage # "none"
  PROVE  /\ Forbids(p) = DenySet(p.denies \cup p.protects)
         /\ Slash \notin Forbids(p) /\ Forbids(p) \subseteq Path /\ Private \in Forbids(p)
         /\ p.role # "worker" => Forbids(p) = {Private}
         /\ Forbids(p) \subseteq Refused(JailOf(p))
         /\ p.role = "worker" => Refused(JailOf(p)) = Forbids(p)
         /\ Forbids(p) = DenySet(SpecOf(p).denies)
<1>1. Forbids(p) = DenySet(p.denies \cup p.protects)
  BY DEF Forbids, DenySet
<1>2. Private \in Path /\ Private # Slash
  BY PrivatePlaces, NotTheRoot DEF Place
<1>3. Slash \notin Forbids(p) /\ Forbids(p) \subseteq Path /\ Private \in Forbids(p)
  BY <1>1, <1>2 DEF Process, DenySet
<1>4. p.role # "worker" => Forbids(p) = {Private}
  BY <1>1 DEF Process, DenySet
<1>5. p.role = "worker" => Refused(JailOf(p)) = Forbids(p)
  BY <1>1, JailFields DEF Refused
<1>6. Private \in Refused(JailOf(p))
  BY DEF Refused, DenySet
<1>7. p.role = "worker" => Forbids(p) = DenySet(SpecOf(p).denies)
  BY <1>1, SpecFields
<1>8. p.role # "worker" => Forbids(p) = DenySet(SpecOf(p).denies)
  BY <1>4, SpecFields DEF DenySet
<1> QED BY <1>1, <1>3, <1>4, <1>5, <1>6, <1>7, <1>8

\* A judge of the sandbox is refused all of the project.
LEMMA EverythingIsTheProject == Resolved(Everything) = Cwd
<1>1. Cwd \o <<>> = Cwd
  BY Roots DEF Place, Path
<1> QED BY <1>1 DEF Resolved, Everything, Relative

\* A sandboxed process writes what is promised and nothing forbidden.
LEMMA SandboxWrites ==
  ASSUME NEW p, Process(p), p.cage = "sandbox", NEW os, NEW names, NEW x \in Path,
         Jailed(os, JailOf(p), names, x) = "rw"
  PROVE  Under(Writes(p), x) /\ ~Under(Forbids(p), x)
<1> DEFINE jail == JailOf(p)
<1>1. Cwd # Slash /\ Cwd \in Path /\ TmpDir \in Path
  BY Roots, NotTheRoot DEF Place
<1>2. \A d \in jail.denies \cup jail.protects : Resolved(d) # Slash
  BY <1>1, JailFields, EverythingIsTheProject DEF Process, Roles
<1>3. Under(Granted(jail) \cup {<<"dev">>}, x) /\ ~Under(Refused(jail), x)
  BY <1>2, JailWrites
<1>4. ~Under(Forbids(p), x)
  BY <1>3, WhatIsForbidden DEF Under
<1>5. CASE p.role \in {"worker", "llm"}
  <2>1. jail.writable = State(p.agent)
    BY <1>5, JailFields
  <2>2. Writes(p) = {Cwd, TmpDir, <<"dev">>} \cup State(p.agent) \cup Siblings(State(p.agent))
    BY <1>5 DEF Writes
  <2> HIDE DEF jail
  <2>3. Granted(jail) \cup {<<"dev">>} \subseteq Writes(p)
    BY <2>1, <2>2 DEF Granted
  <2> QED BY <1>3, <1>4, <2>3 DEF Under
<1>6. CASE p.role \in {"script", "metric"}
  <2>1. jail.writable = {Scratch("sandbox"), Cache("sandbox")} /\ jail.denies = {Everything}
    BY <1>6, JailFields
  <2>2. Writes(p) = {TmpDir, <<"dev">>}
    BY <1>6 DEF Writes
  <2>3. Cwd \in Refused(jail)
    BY <2>1, EverythingIsTheProject DEF Refused, DenySet
  <2> HIDE DEF jail
  <2>4. ~Covers(Cwd, x)
    BY <1>3, <2>3 DEF Under
  <2>5. ClaudeFile \notin jail.writable
    <3>1. \A q \in jail.writable : q[1] = "tmp"
      BY <2>1, TmpPlaces DEF Place
    <3>2. ClaudeFile[1] = "home"
      BY HomePlaces DEF Known, State, ClaudeState, Place
    <3> QED BY <3>1, <3>2
  <2>6. Siblings(jail.writable) = {}
    BY <2>5 DEF Siblings
  <2>7. \A q \in jail.writable : q \in Path /\ Covers(TmpDir, q)
    BY <2>1, TmpPlaces DEF Place
  <2>8. \A q \in jail.writable : Covers(q, x) => Covers(TmpDir, x)
    BY <1>1, <2>7, CoversIsTransitive
  <2> QED BY <1>3, <1>4, <2>2, <2>4, <2>6, <2>8 DEF Under, Granted
<1> QED BY <1>5, <1>6 DEF Process, Roles

\* A contained process writes what is promised, and what is forbidden only in its home or a given directory.
LEMMA ContainerKeepsOut ==
  ASSUME NEW p, Process(p), p.cage = "container", NEW names \in SUBSET DOMAIN Contexts, NEW x \in Path,
         ContainerSees(SpecOf(p), names, x) = "rw"
  PROVE  Under(Writes(p), x) /\ (Under(Forbids(p), x) => Under(Writes(p) \ {Cwd}, x))
<1> DEFINE spec == SpecOf(p)
<1>1. PICK d \in Path : /\ Covers(d, x)
                        /\ \A q \in DenySet(spec.denies) : Covers(q, x) => Len(q) <= Len(d)
                        /\ \/ d \in spec.writable \cup spec.home
                           \/ ~spec.project_ro /\ d = Cwd /\ Cwd \notin DenySet(spec.denies)
  BY AllMounted, ContainerWrites
<1>2. spec.home = {Home(Labels[p.role])} /\ Len(Home(Labels[p.role])) > 3
  BY HomeOf
<1>3. Cwd \in Path /\ Len(Cwd) = 1
  BY Roots DEF Place
<1>4. ASSUME d \in spec.writable \cup spec.home PROVE d \in Writes(p) \ {Cwd}
  <2>1. Len(d) > 3
    BY <1>2, <1>4, SpecFields, KeptPlaces
  <2>2. d # Cwd
    <3>1. ~(Len(Cwd) > 3)
      BY <1>3
    <3> QED BY <2>1, <3>1
  <2>3. CASE p.role = "worker"
    BY <1>2, <1>4, <2>2, <2>3, SpecFields DEF Writes, Labels
  <2>4. CASE p.role = "llm"
    BY <1>2, <1>4, <2>2, <2>4, SpecFields DEF Writes, Labels
  <2>5. CASE p.role \in {"script", "metric"}
    BY <1>4, <2>2, <2>5 DEF Writes
  <2> QED BY <2>3, <2>4, <2>5 DEF Process, Roles
<1>5. ASSUME ~spec.project_ro, d = Cwd, Cwd \notin DenySet(spec.denies)
      PROVE  Under(Writes(p), x) /\ ~Under(Forbids(p), x)
  <2>1. p.role = "worker"
    BY <1>5, SpecFields
  <2>2. Cwd \in Writes(p)
    BY <2>1 DEF Writes
  <2>3. ASSUME NEW q \in Forbids(p), Covers(q, x) PROVE FALSE
    <3>1. q \in Path /\ q # Slash /\ q # Cwd /\ Len(q) <= Len(Cwd)
      BY <1>1, <1>5, <2>3, WhatIsForbidden
    <3>2. Len(q) \in Nat /\ Len(q) # 0
      BY <3>1 DEF Path, Slash
    <3>3. Len(q) = Len(Cwd)
      <4>1. \A m \in Nat : m # 0 /\ m <= 1 => m = 1
        OBVIOUS
      <4> QED BY <1>3, <3>1, <3>2, <4>1
    <3>4. Covers(Cwd, x)
      BY <1>1, <1>5
    <3> QED BY <1>3, <2>3, <3>1, <3>3, <3>4, OneOfALength
  <2> QED BY <1>1, <1>5, <2>2, <2>3 DEF Under
<1> QED BY <1>1, <1>4, <1>5 DEF Under

\* The same in every tier.
LEMMA WritesArePromised ==
  ASSUME NEW p, Process(p), p.cage \in Tiers, NEW os, NEW names \in SUBSET DOMAIN Contexts, NEW x \in Path,
         Access(os, p, names, x) = "rw"
  PROVE  /\ Under(Writes(p), x)
         /\ Under(Forbids(p), x) => p.cage = "container" /\ Under(Writes(p) \ {Cwd}, x)
<1>1. CASE p.cage = "none"
  <2>1. Writes(p) = {Slash} /\ Forbids(p) = {}
    BY <1>1 DEF Writes, Forbids
  <2> QED BY <2>1, RootCoversAll DEF Under
<1>2. CASE p.cage = "sandbox"
  <2>1. Jailed(os, JailOf(p), names, x) = "rw"
    BY <1>2 DEF Access
  <2> QED BY <1>2, <2>1, SandboxWrites
<1>3. CASE p.cage = "container"
  <2>1. ContainerSees(SpecOf(p), names, x) = "rw"
    BY <1>3 DEF Access
  <2> QED BY <1>3, <2>1, ContainerKeepsOut
<1> QED BY <1>1, <1>2, <1>3 DEF Tiers

\* A worker writes all of the project that is not forbidden, in every tier.
LEMMA WorkGoesOn ==
  ASSUME NEW p, Process(p), p.cage \in Tiers, p.role = "worker", NEW os, NEW names \in SUBSET DOMAIN Contexts,
         NEW x \in Path, Covers(Cwd, x), ~Under(Forbids(p), x)
  PROVE  Access(os, p, names, x) = "rw"
<1>1. CASE p.cage = "none"
  BY <1>1 DEF Access
<1>2. CASE p.cage = "sandbox"
  <2>1. Refused(JailOf(p)) = Forbids(p)
    BY <1>2, WhatIsForbidden
  <2>2. Jailed(os, JailOf(p), names, x) = "rw"
    BY <2>1, JailWorks
  <2> QED BY <1>2, <2>2 DEF Access
<1>3. CASE p.cage = "container"
  <2> DEFINE spec == SpecOf(p)
             t == Mounts(spec, names)
  <2>1. Cwd \in Mounted(spec, names)
    BY DEF Mounted
  <2>2. PICK d \in Mounted(spec, names), k \in 1 .. 7 :
            /\ Covers(d, x) /\ \A q \in Mounted(spec, names) : Covers(q, x) => Len(q) <= Len(d)
            /\ d \in t[k].paths /\ \A j \in 1 .. 7 : d \in t[j].paths => j <= k
            /\ ContainerSees(spec, names, x) = t[k].access
    BY <2>1, AllMounted, DeepestDecides
  <2>3. Private \in Forbids(p) /\ Forbids(p) = DenySet(spec.denies) /\ Private \in Path
    BY <1>3, WhatIsForbidden
  <2>4. d \notin DenySet(spec.denies)
    BY <2>2, <2>3 DEF Under
  <2>5. d \notin Inside(names)
    BY <2>2, ContextPlaces, Roots, TwoRoots DEF Inside
  <2>6. d \in Path /\ ~Covers(Private, d)
    <3>1. d \in Path
      BY <2>2, AllMounted
    <3>2. ASSUME Covers(Private, d) PROVE FALSE
      <4>1. Covers(Private, x)
        BY <2>2, <2>3, <3>1, <3>2, CoversIsTransitive
      <4> QED BY <2>3, <4>1 DEF Under
    <3> QED BY <3>1, <3>2
  <2>7. d \notin spec.home
    BY <2>6, HomeOf
  <2>8. d \notin CredentialsOf(spec)
    BY <2>2, <2>6, HomeOf, Roots, TwoRoots
  <2>9. spec.writable = {} /\ spec.readonly = {} /\ ~spec.project_ro
    BY SpecFields
  <2>10. /\ t[2].paths = spec.writable /\ t[3].paths = spec.readonly /\ t[4].paths = DenySet(spec.denies)
         /\ t[5].paths = Inside(names) /\ t[6].paths = spec.home /\ t[7].paths = CredentialsOf(spec)
         /\ t[1].access = (IF spec.project_ro THEN "ro" ELSE "rw")
    BY MountLayers
  <2> HIDE DEF t, spec
  <2>11. k = 1
    BY <2>2, <2>4, <2>5, <2>7, <2>8, <2>9, <2>10
  <2>12. ContainerSees(spec, names, x) = "rw"
    BY <2>2, <2>9, <2>10, <2>11
  <2> QED BY <1>3, <2>12 DEF Access, spec
<1> QED BY <1>1, <1>2, <1>3 DEF Tiers

\* A confined process only reads a context directory.
LEMMA ContextsStay ==
  ASSUME NEW p, Process(p), p.cage \in Tiers \ {"none"}, NEW os, NEW names \in SUBSET DOMAIN Contexts, NEW n \in names
  PROVE  Access(os, p, names, IF p.cage = "container" THEN ContextAt(n) ELSE Contexts[n]) = "ro"
<1>1. CASE p.cage = "sandbox"
  <2>1. Jailed(os, JailOf(p), names, Contexts[n]) = "ro"
    BY JailReads
  <2> QED BY <1>1, <2>1 DEF Access
<1>2. CASE p.cage = "container"
  <2>1. ContextAt(n) \notin SpecOf(p).home
    <3>1. ContextAt(n)[1] = "context"
      BY ContextPlaces DEF Place
    <3>2. \A h \in SpecOf(p).home : h[1] = "proj"
      BY HomeOf DEF Place
    <3> QED BY <3>1, <3>2
  <2>2. ContainerSees(SpecOf(p), names, ContextAt(n)) = "ro"
    BY <2>1, AllMounted, ContextsAreRead
  <2> QED BY <1>2, <2>2 DEF Access
<1> QED BY <1>1, <1>2 DEF Tiers

\* A contained process only reads its credentials.
LEMMA CredentialsStay ==
  ASSUME NEW p, Process(p), p.cage = "container", NEW os, NEW names \in SUBSET DOMAIN Contexts,
         NEW h \in SpecOf(p).home, NEW c \in CredentialMounts(h, SpecOf(p).files)
  PROVE  Access(os, p, names, c) = "ro"
<1>1. c \in CredentialsOf(SpecOf(p))
  BY DEF CredentialsOf
<1>2. ContainerSees(SpecOf(p), names, c) = "ro"
  BY <1>1, AllMounted, CredentialsAreRead
<1> QED BY <1>2 DEF Access

------------------------------------------------------------------------------
(* A config that was accepted.                                                *)

Config(c) ==
    /\ AggConfig(c) /\ RunSet(c) \subseteq DOMAIN c.kinds
    /\ \A s \in Steps(c) : \A d \in s.readonly \cup s.writable : d \in PathEntry

\* What the stages leave of a config, whatever the host.
Fit(c) ==
    /\ EntryProblems(c) = {} /\ HasJudged(c) /\ Unknown(c) = {} /\ "missing" \notin Kinds(c)
    /\ \A s \in Steps(c) : s.tier = "none" => c.context = "none" /\ ~AllowList(c)
    /\ \A s \in Steps(c) : Inert(c, s) => SelfCaps(s.agent)

\* What the assembly and the capability stage let through is fit.
LEMMA AcceptedIsFit ==
  ASSUME NEW c, NEW h, Assembles(c, h), Capable(c, h)
  PROVE  Fit(c)
<1>1. EntryProblems(c) = {} /\ HasJudged(c) /\ "missing" \notin Kinds(c)
  BY DEF Assembles
<1>2. Unknown(c) = {} /\ StepDemands(c, h) = {}
  BY DEF Capable
<1>3. \A s \in Steps(c) : s.agent \in Known
  BY <1>2 DEF Unknown
<1>4. \A s \in Steps(c) : ~TierProblems(c, h, s) /\ ~(Inert(c, s) /\ ~SelfCaps(s.agent))
  BY <1>2, <1>3 DEF StepDemands
<1>5. \A s \in Steps(c) : s.tier = "none" => c.context = "none" /\ ~AllowList(c)
  BY <1>4 DEF TierProblems
<1>6. \A s \in Steps(c) : Inert(c, s) => SelfCaps(s.agent)
  BY <1>4
<1> QED BY <1>1, <1>2, <1>5, <1>6 DEF Fit

\* A key's own value, or the default.
LEMMA EitherIsOne ==
  ASSUME NEW opt, NEW default
  PROVE  Either(opt, default) \in opt \/ (opt = {} /\ Either(opt, default) = default)
BY DEF Either

\* Some tiers have a strongest.
LEMMA StrongestOfSome ==
  ASSUME NEW T \in SUBSET Tiers, T # {}
  PROVE  Strongest(T) \in T /\ \A u \in T : Rank[u] <= Rank[Strongest(T)]
<1>1. Rank["none"] = 0 /\ Rank["sandbox"] = 1 /\ Rank["container"] = 2
  BY DEF Rank
<1>2. \E t \in T : \A u \in T : Rank[u] <= Rank[t]
  <2>1. CASE "container" \in T
    BY <1>1, <2>1 DEF Tiers
  <2>2. CASE "container" \notin T /\ "sandbox" \in T
    BY <1>1, <2>2 DEF Tiers
  <2>3. CASE T = {"none"}
    BY <1>1, <2>3
  <2> QED BY <2>1, <2>2, <2>3 DEF Tiers
<1> QED BY <1>2 DEF Strongest

\* The run's tier is the strongest: of the default and of every step.
LEMMA RunTierBounds ==
  ASSUME NEW c, Config(c)
  PROVE  /\ RunTier(c) \in Tiers
         /\ \A s \in Steps(c) : s.tier \in Tiers /\ Rank[s.tier] <= Rank[RunTier(c)]
<1> DEFINE default == Either(c.tier, "none")
           T == {default} \cup UNION {c.steps[s].tier : s \in DOMAIN c.steps}
<1>1. default \in Tiers
  <2>1. c.tier \subseteq Tiers
    BY DEF Config, AggConfig, Defaults, IsOpt
  <2> QED BY <2>1, EitherIsOne DEF Tiers
<1>2. \A s \in DOMAIN c.steps : c.steps[s].tier \subseteq Tiers
  BY DEF Config, AggConfig, StepBody, IsOpt
<1>3. T \in SUBSET Tiers /\ T # {}
  BY <1>1, <1>2
<1>4. RunTier(c) = Strongest(T)
  BY DEF RunTier
<1>5. ASSUME NEW s \in DOMAIN c.steps PROVE Resolve(c, s).tier \in T
  <2>1. Resolve(c, s).tier = Either(c.steps[s].tier, default)
    BY DEF Resolve
  <2> HIDE DEF default
  <2> QED BY <2>1, EitherIsOne
<1>6. \A s \in Steps(c) : s.tier \in T
  BY <1>5 DEF Steps
<1> HIDE DEF T
<1> QED BY <1>3, <1>4, <1>6, StrongestOfSome

\* With no step but unconfined ones the run is unconfined, and the config has no context and no list.
LEMMA UnconfinedRun ==
  ASSUME NEW c, Config(c), Fit(c)
  PROVE  /\ Steps(c) # {}
         /\ RunTier(c) = "none" => c.context = "none" /\ ~AllowList(c)
<1>1. Steps(c) # {}
  BY DEF Fit, HasJudged, Steps
<1>2. Rank["none"] = 0 /\ Rank["sandbox"] = 1 /\ Rank["container"] = 2
  BY DEF Rank
<1>3. ASSUME RunTier(c) = "none", NEW s \in Steps(c) PROVE s.tier = "none"
  BY <1>2, <1>3, RunTierBounds DEF Tiers
<1> QED BY <1>1, <1>3 DEF Fit

\* An entry of a list is neither the root nor, under the project, the root.
LEMMA EntriesArePaths ==
  ASSUME NEW q \in Seq(STRING) \ {<<>>}
  PROVE  /\ q \in Path /\ q # Slash
         /\ Cwd \o q \in Path /\ Cwd \o q # Slash
<1>1. q \in Path
  BY PathsAreWords
<1>2. Place(Cwd \o q, "proj")
  BY <1>1, Roots, Further
<1> QED BY <1>1, <1>2, NotTheRoot DEF Slash, Place

\* The worker of a step is such a process.
LEMMA WorkerProcess ==
  ASSUME NEW c, Config(c), Fit(c), NEW s \in Steps(c)
  PROVE  Process(Worker(c, s)) /\ Worker(c, s).cage \in Tiers /\ Worker(c, s).role = "worker"
<1> DEFINE p == Worker(c, s)
<1>1. /\ p.role = "worker" /\ p.cage = s.tier /\ p.agent = s.agent
      /\ p.denies = DeniedPaths(s.readonly, s.writable) /\ p.protects = s.protects
  BY DEF Worker
<1> HIDE DEF p
<1>2. s.agent \in Known /\ s.tier \in Tiers
  BY RunTierBounds DEF Fit, Unknown
<1>3. ASSUME NEW d \in p.denies PROVE Resolved(d) \in Path /\ Resolved(d) # Slash
  <2>1. d \in PathEntry
    BY <1>1, <1>3 DEF DeniedPaths, Config
  <2>2. d.at \in Seq(STRING) \ {<<>>}
    BY <2>1 DEF PathEntry
  <2> QED BY <2>2, EntriesArePaths DEF Resolved
<1>4. ASSUME NEW d \in p.protects PROVE Resolved(d) \in Path /\ Resolved(d) # Slash
  <2>1. PICK name \in DOMAIN c.steps : s = Resolve(c, name)
    BY DEF Steps
  <2>2. s.protects = {Relative(q) : q \in c.protects \cup c.steps[name].protects}
    BY <2>1 DEF Resolve
  <2>3. PICK q \in c.protects \cup c.steps[name].protects : d = Relative(q)
    BY <1>1, <2>2
  <2>4. q \in Seq(STRING) \ {<<>>}
    BY DEF Config, AggConfig, Defaults, StepBody
  <2>5. Resolved(d) = Cwd \o q
    BY <2>3 DEF Relative, Resolved
  <2> QED BY <2>4, <2>5, EntriesArePaths
<1>5. Process(p)
  BY <1>1, <1>2, <1>3, <1>4 DEF Process, Roles
<1> QED BY <1>1, <1>2, <1>5 DEF p

\* So is a judge of the run set, in the run's tier.
LEMMA JudgeProcess ==
  ASSUME NEW c, Config(c), Fit(c), NEW k \in Kinds(c)
  PROVE  /\ Process(Judge(c, k)) /\ Judge(c, k).cage = RunTier(c) /\ Judge(c, k).cage \in Tiers
         /\ Judge(c, k).role = k /\ k \in {"script", "llm", "metric"}
<1> DEFINE p == Judge(c, k)
<1>1. /\ p.role = k /\ p.cage = RunTier(c) /\ p.denies = {} /\ p.protects = {}
      /\ p.agent = IF k = "metric" THEN "swe-metrics" ELSE c.ruler
  BY DEF Judge
<1> HIDE DEF p
<1>2. k \in {"script", "llm", "metric"}
  <2>1. PICK j \in RunSet(c) : k = c.kinds[j]
    BY DEF Kinds
  <2>2. j \in DOMAIN c.kinds /\ c.kinds \in [DOMAIN c.kinds -> {"script", "llm", "metric", "missing"}]
    BY DEF Config, AggConfig, JudgeCfg
  <2>3. k # "missing"
    BY DEF Fit
  <2> QED BY <2>1, <2>2, <2>3
<1>3. c.ruler \in Known
  BY DEF Fit, Unknown
<1>4. Process(p)
  BY <1>1, <1>2, <1>3 DEF Process, Roles
<1> QED BY <1>1, <1>2, <1>4, RunTierBounds DEF p

\* What an accepted run can start.
Procs(c) == {Worker(c, s) : s \in Steps(c)} \cup {Judge(c, k) : k \in Kinds(c)}

\* What an accepted run starts, and how tightly.
LEMMA ProcessOf ==
  ASSUME NEW c, Config(c), Fit(c), NEW p \in Procs(c)
  PROVE  /\ Process(p) /\ p.cage \in Tiers
         /\ p.cage = "none" => c.context = "none" /\ ~AllowList(c)
         /\ p.role # "worker" => \A s \in Steps(c) : Rank[s.tier] <= Rank[p.cage]
<1>1. ASSUME NEW s \in Steps(c), p = Worker(c, s)
      PROVE  /\ Process(p) /\ p.cage \in Tiers /\ p.role = "worker"
             /\ p.cage = "none" => c.context = "none" /\ ~AllowList(c)
  <2>1. p.cage = s.tier
    BY <1>1 DEF Worker
  <2> QED BY <1>1, <2>1, WorkerProcess DEF Fit
<1>2. ASSUME NEW k \in Kinds(c), p = Judge(c, k)
      PROVE  /\ Process(p) /\ p.cage \in Tiers
             /\ p.cage = "none" => c.context = "none" /\ ~AllowList(c)
             /\ \A s \in Steps(c) : Rank[s.tier] <= Rank[p.cage]
  <2>1. p.cage = RunTier(c)
    BY <1>2, JudgeProcess
  <2> QED BY <1>2, <2>1, JudgeProcess, UnconfinedRun, RunTierBounds
<1> QED BY <1>1, <1>2 DEF Procs

\* Whatever the host has become, a process of an accepted run is confined as its config asks.
LEMMA ProcessIsConfined ==
  ASSUME Config(cfg), Fit(cfg), NEW p \in Procs(cfg)
  PROVE  /\ WritesAreThePromise(p) /\ WorkIsPossible(p) /\ ContextIsReadOnly(p)
         /\ CredentialsAreReadOnly(p) /\ JudgedAsTightly(p) /\ ReachIsTheList(p)
<1>1. Process(p) /\ p.cage \in Tiers
  BY ProcessOf
<1>2. Names \in SUBSET DOMAIN Contexts /\ \A x \in Paths : x \in Path
  BY PathsAssumption, PathsAreWords DEF Names
<1>3. WritesAreThePromise(p)
  BY <1>1, <1>2, WritesArePromised DEF WritesAreThePromise, At
<1>4. WorkIsPossible(p)
  BY <1>1, <1>2, WorkGoesOn DEF WorkIsPossible, At
<1>5. ContextIsReadOnly(p)
  <2>1. CASE p.cage = "none"
    <3>1. Names = {}
      BY <2>1, ProcessOf DEF Names
    <3> QED BY <3>1 DEF ContextIsReadOnly
  <2>2. CASE p.cage # "none"
    BY <1>1, <1>2, <2>2, ContextsStay DEF ContextIsReadOnly, At
  <2> QED BY <2>1, <2>2
<1>6. CredentialsAreReadOnly(p)
  BY <1>1, <1>2, CredentialsStay DEF CredentialsAreReadOnly, At
<1>7. JudgedAsTightly(p)
  BY ProcessOf DEF JudgedAsTightly
<1>8. ReachIsTheList(p)
  <2>1. ASSUME AllowList(cfg), NEW d \in Dests, Reaches(cfg, p, d) PROVE Listed(d)
    <3>1. p.cage # "none"
      BY <2>1, ProcessOf
    <3>2. CASE Dials(cfg.network.rules, d, d.port, d.addrs)
      BY <3>2 DEF Dials, Listed
    <3>3. CASE d.addrs = {"loopback"} /\ Loopback(cfg.network.rules, d.port)
      BY <3>3 DEF Listed
    <3> QED BY <2>1, <3>1, <3>2, <3>3 DEF Reaches
  <2> QED BY <2>1 DEF ReachIsTheList
<1> QED BY <1>3, <1>4, <1>5, <1>6, <1>7, <1>8

------------------------------------------------------------------------------
(* The walk of an accepted run.                                               *)

Early == {"load", "assemble", "capability", "preflight", "boot"}
Going == {"boot", "pick", "work", "judge", "end", "ended"}
Passed == {"preflight"} \cup Going

\* What each stage has found stays true of the config, and of the host until something is lost.
StagesInv ==
    /\ pc \in Early \cup Going \cup {"refused"}
    /\ Config(cfg)
    /\ lost \in BOOLEAN /\ (pc \in Early => ~lost)
    /\ ~lost /\ (pc = "capability" \/ pc \in Passed) => Assembles(cfg, host)
    /\ ~lost /\ pc \in Passed => Capable(cfg, host)
    /\ ~lost /\ pc \in Going => NotOnPath(cfg, host) = {}
    /\ pc \in Passed => Fit(cfg)
    /\ pc \in Passed /\ ~warned => CostWarnings(cfg) = {}

\* The walk is at an entry of the sequence, with a step of the config, and starts what the config names.
WalkInv ==
    /\ (pc \in Early => at = 1) /\ (pc \in Going => at \in DOMAIN cfg.entries)
    /\ pc = "work" => \E s \in Steps(cfg) : step = {s}
    /\ started \subseteq (IF pc \in Going THEN Procs(cfg) ELSE {})
    /\ stillborn \subseteq (IF pc \in Going THEN Procs(cfg) ELSE {})

\* With a ceiling to hold and no warning, what is spent is what is reported and what the killed spent.
CostInv ==
    /\ spend \in Nat /\ reported \in Nat /\ untold \in Nat
    /\ pc \in Early => spend = 0 /\ reported = 0 /\ untold = 0
    /\ ~warned /\ CostWanted(cfg) => spend = reported + untold
    /\ ~warned /\ pc \in {"boot", "pick", "work"} /\ (\E e \in cfg.abort : "over_cost" \in e.terms)
           => \A l \in CostLimit(cfg) : spend <= l + untold

LaunchInv == StagesInv /\ WalkInv /\ CostInv

\* A run starts in the invariant.
LEMMA InitLaunch == Init => LaunchInv
<1> SUFFICES ASSUME Init PROVE LaunchInv
  OBVIOUS
<1>1. PICK l \in Launches : cfg = l[1] /\ host = l[2]
  BY DEF Init
<1>2. Config(cfg)
  BY <1>1, LaunchAssumption, JudgesAssumption, ListsAssumption DEF Config
<1>3. StagesInv
  BY <1>2 DEF Init, StagesInv, Early, Going, Passed
<1>4. WalkInv
  BY DEF Init, WalkInv, Early, Going
<1>5. CostInv
  BY DEF Init, CostInv, Early
<1> QED BY <1>3, <1>4, <1>5 DEF LaunchInv

\* Nothing of the config, and of the host only by losing it, changes after the stages.
LEMMA StagesStep ==
  ASSUME LaunchInv, [Next]_vars
  PROVE  StagesInv'
<1> USE DEF LaunchInv, StagesInv, Early, Going, Passed
<1>1. ASSUME Load PROVE StagesInv'
  BY <1>1 DEF Load, Stage, running
<1>2. ASSUME Assemble PROVE StagesInv'
  BY <1>2 DEF Assemble, Stage, running
<1>3. ASSUME Capability PROVE StagesInv'
  <2>1. pc = "capability" /\ pc' = (IF Capable(cfg, host) THEN "preflight" ELSE "refused") /\ UNCHANGED <<cfg, host, lost>>
    BY <1>3 DEF Capability, Stage, running
  <2>2. Capable(cfg, host) => Fit(cfg)
    BY <2>1, AcceptedIsFit
  <2>3. ~warned' => CostWarnings(cfg) = {}
    BY <1>3 DEF Capability
  <2> QED BY <2>1, <2>2, <2>3
<1>4. ASSUME Preflight PROVE StagesInv'
  BY <1>4 DEF Preflight, Stage, running
<1>5. ASSUME Boot \/ Pick \/ Work \/ Grade \/ End \/ Stopped \/ UNCHANGED vars PROVE StagesInv'
  <2>1. UNCHANGED <<cfg, host, warned, lost>>
    BY <1>5 DEF Boot, Pick, Work, Grade, End, Stopped, vars
  <2>2. \/ pc' = pc
        \/ pc \in Going /\ pc' \in Going \ {"boot"}
    BY <1>5 DEF Boot, Pick, Aborts, Work, Grade, End, Stopped, vars
  <2> QED BY <2>1, <2>2
<1>6. ASSUME Fault PROVE StagesInv'
  BY <1>6 DEF Fault
<1> QED BY <1>1, <1>2, <1>3, <1>4, <1>5, <1>6 DEF Next

\* The entry after one of the sequence is one of the sequence.
LEMMA TheWalkStays ==
  ASSUME Config(cfg), Fit(cfg)
  PROVE  /\ 1 \in DOMAIN cfg.entries
         /\ \A i \in DOMAIN cfg.entries : After(i) \in DOMAIN cfg.entries
         /\ \A i \in DOMAIN cfg.entries : Resolve(cfg, cfg.entries[i].step) \in Steps(cfg)
<1> DEFINE es == cfg.entries
<1>1. es \in Seq({es[i] : i \in DOMAIN es})
  BY DEF Config, AggConfig, Sequence
<1>2. DOMAIN es = 1 .. Len(es) /\ Len(es) \in Nat
  BY <1>1
<1>3. DOMAIN es # {}
  BY DEF Fit, HasJudged
<1> HIDE DEF es
<1>4. 1 \in DOMAIN es /\ \A i \in DOMAIN es : (IF i = Len(es) THEN 1 ELSE i + 1) \in DOMAIN es
  BY <1>2, <1>3
<1>5. \A i \in DOMAIN es : After(i) = IF i = Len(es) THEN 1 ELSE i + 1
  BY DEF After, es
<1>6. \A i \in DOMAIN es : es[i].step \in DOMAIN cfg.steps
  BY DEF Fit, EntryProblems, es
<1> QED BY <1>4, <1>5, <1>6 DEF Steps, es

\* Only what is to be started is started, or fails to.
LEMMA StartsSome ==
  ASSUME NEW ps, StartAll(ps)
  PROVE  started' \subseteq ps /\ stillborn' \subseteq ps
BY DEF StartAll

\* The walk stays in the sequence and starts what the config names.
LEMMA WalkStep ==
  ASSUME LaunchInv, [Next]_vars
  PROVE  WalkInv'
<1> USE DEF LaunchInv, WalkInv
<1>0. pc \in Going => Config(cfg) /\ Fit(cfg)
  BY DEF StagesInv, Passed
<1>1. ASSUME Load \/ Assemble \/ Capability PROVE WalkInv'
  BY <1>1 DEF Load, Assemble, Capability, Stage, running, Early, Going
<1>2. ASSUME Preflight PROVE WalkInv'
  <2>1. pc = "preflight" /\ pc' \in {"boot", "refused"} /\ UNCHANGED <<cfg, at, step, started, stillborn>>
    BY <1>2 DEF Preflight, Stage, running
  <2>2. started = {} /\ stillborn = {}
    BY <2>1 DEF Going
  <2>3. Config(cfg) /\ Fit(cfg)
    BY <2>1 DEF StagesInv, Passed
  <2>4. at = 1
    BY <2>1 DEF Early
  <2> QED BY <2>1, <2>2, <2>3, <2>4, TheWalkStays DEF Going
<1>3. ASSUME Boot \/ Grade PROVE WalkInv'
  <2>1. /\ pc \in Going /\ pc' \in Going \ {"work", "boot"} /\ UNCHANGED <<cfg, at, step>>
        /\ StartAll({Judge(cfg, k) : k \in Kinds(cfg)})
    BY <1>3 DEF Boot, Grade, Going
  <2>2. {Judge(cfg, k) : k \in Kinds(cfg)} \subseteq Procs(cfg)
    BY DEF Procs
  <2>3. started' \subseteq Procs(cfg) /\ stillborn' \subseteq Procs(cfg)
    BY <2>1, <2>2, StartsSome
  <2> QED BY <2>1, <2>3 DEF Early, Going
<1>4. ASSUME Pick PROVE WalkInv'
  <2>1. pc = "pick" /\ at \in DOMAIN cfg.entries /\ UNCHANGED cfg
    BY <1>4 DEF Pick, Going
  <2>2. Config(cfg) /\ Fit(cfg)
    BY <1>0, <2>1 DEF Going
  <2>3. \/ Aborts
        \/ \E i \in {at, After(at)} :
              at' = i /\ step' = {Resolve(cfg, cfg.entries[i].step)} /\ pc' = "work" /\ started' = {} /\ stillborn' = {}
    BY <1>4 DEF Pick
  <2>4. CASE Aborts
    BY <2>1, <2>4 DEF Aborts, Early, Going
  <2>5. CASE ~Aborts
    <3>1. PICK i \in {at, After(at)} :
              at' = i /\ step' = {Resolve(cfg, cfg.entries[i].step)} /\ pc' = "work" /\ started' = {} /\ stillborn' = {}
      BY <2>3, <2>5
    <3>2. i \in DOMAIN cfg.entries /\ Resolve(cfg, cfg.entries[i].step) \in Steps(cfg)
      BY <2>1, <2>2, <3>1, TheWalkStays
    <3> QED BY <2>1, <3>1, <3>2 DEF Early, Going
  <2> QED BY <2>4, <2>5
<1>5. ASSUME Work PROVE WalkInv'
  <2>1. pc = "work" /\ pc' \in {"end", "judge"} /\ UNCHANGED <<cfg, at, step>>
    BY <1>5 DEF Work
  <2>2. PICK s \in Steps(cfg) : step = {s}
    BY <2>1
  <2>3. StartAll({Worker(cfg, s)})
    BY <1>5, <2>2 DEF Work
  <2>4. started' \subseteq Procs(cfg) /\ stillborn' \subseteq Procs(cfg)
    BY <2>3, StartsSome DEF Procs
  <2> QED BY <2>1, <2>4 DEF Early, Going
<1>6. ASSUME End PROVE WalkInv'
  BY <1>6 DEF End, Early, Going
<1>7. ASSUME Fault \/ Stopped \/ UNCHANGED vars PROVE WalkInv'
  BY <1>7 DEF Fault, Stopped, vars, Early
<1> QED BY <1>1, <1>2, <1>3, <1>4, <1>5, <1>6, <1>7 DEF Next

\* Every step of an accepted run without a warning reports what it costs, when a ceiling wants to know.
LEMMA CostsAreReported ==
  ASSUME NEW c, Fit(c), CostWarnings(c) = {}, CostWanted(c), NEW s \in Steps(c)
  PROVE  ReportsCost(s.agent)
BY DEF Fit, CostWarnings, Inert

\* A ceiling is a number of dollars.
LEMMA CeilingsAreNumbers ==
  ASSUME NEW c, Config(c)
  PROVE  CostLimit(c) \subseteq Nat
BY DEF Config, AggConfig, Limits, IsOpt, CostLimit

\* No worker is started over a ceiling that an abort condition asks about.
LEMMA CostStep ==
  ASSUME LaunchInv, [Next]_vars
  PROVE  CostInv'
<1> USE DEF LaunchInv, CostInv
<1>0. CostLimit(cfg) \subseteq Nat
  BY CeilingsAreNumbers DEF StagesInv
<1>1. ASSUME Load \/ Assemble PROVE CostInv'
  BY <1>1 DEF Load, Assemble, Stage, running, Early, CostWanted, CostLimit, OverCost
<1>2. ASSUME Capability \/ Preflight PROVE CostInv'
  <2>1. UNCHANGED <<cfg, spend, reported, untold>> /\ spend = 0 /\ reported = 0 /\ untold = 0
    BY <1>2 DEF Capability, Preflight, Stage, running, Early
  <2> QED BY <1>0, <2>1 DEF CostWanted, CostLimit, OverCost
<1>3. ASSUME Boot \/ Pick \/ Fault \/ Stopped \/ UNCHANGED vars PROVE CostInv'
  <2>1. UNCHANGED <<cfg, spend, reported, untold, warned>>
    BY <1>3 DEF Boot, Pick, Fault, Stopped, vars
  <2>2. \/ pc' = pc
        \/ pc \in {"boot", "pick"} /\ pc' \notin Early
    BY <1>3 DEF Boot, Pick, Aborts, Fault, Stopped, vars, Early
  <2> QED BY <2>1, <2>2 DEF CostWanted, CostLimit, OverCost
<1>4. ASSUME Grade PROVE CostInv'
  BY <1>4 DEF Grade, Early, CostWanted, CostLimit, OverCost
<1>5. ASSUME Work PROVE CostInv'
  <2>1. pc = "work" /\ pc' \in {"end", "judge"} /\ UNCHANGED <<cfg, warned>>
    BY <1>5 DEF Work
  <2>2. PICK s \in Steps(cfg) : step = {s}
    BY <2>1 DEF WalkInv
  <2>3. PICK killed \in BOOLEAN :
          /\ spend' = spend + Reached
          /\ reported' = (IF ReportsCost(s.agent) /\ ~killed THEN reported + Reached ELSE reported)
          /\ untold' = (IF killed THEN untold + Reached ELSE untold)
    BY <1>5, <2>2 DEF Work
  <2>4. Reached \in Nat
    BY DEF Reached
  <2>5. ASSUME ~warned, CostWanted(cfg) PROVE ReportsCost(s.agent)
    BY <2>1, <2>5, CostsAreReported DEF StagesInv, Passed, Going
  <2>6. spend' \in Nat /\ reported' \in Nat /\ untold' \in Nat
    BY <2>3, <2>4
  <2>7. ~warned /\ CostWanted(cfg) => spend' = reported' + untold'
    BY <2>3, <2>4, <2>5
  <2> QED BY <2>1, <2>6, <2>7 DEF Early, CostWanted, CostLimit, OverCost
<1>6. ASSUME End PROVE CostInv'
  <2>1. /\ UNCHANGED <<cfg, warned, spend, reported, untold>>
        /\ pc' = IF Halts \/ sessions >= MaxSessions THEN "ended" ELSE "pick"
    BY <1>6 DEF End
  <2>2. ASSUME ~warned, NEW e \in cfg.abort, "over_cost" \in e.terms, pc' = "pick", NEW l \in CostLimit(cfg)
        PROVE  spend <= l + untold
    <3>1. ~Halts
      BY <2>1, <2>2
    <3>2. ~Over(cfg)
      BY <2>2, <3>1 DEF Halts
    <3>3. ~(reported > l)
      BY <3>2 DEF Over
    <3>4. CostWanted(cfg)
      BY <2>2 DEF CostWanted, OverCost
    <3>5. spend = reported + untold
      BY <2>2, <3>4
    <3> QED BY <1>0, <3>3, <3>5
  <2>3. pc' \in {"ended", "pick"}
    BY <2>1
  <2> QED BY <2>1, <2>2, <2>3 DEF Early, CostWanted, CostLimit, OverCost
<1> QED BY <1>1, <1>2, <1>3, <1>4, <1>5, <1>6 DEF Next

\* Every step keeps the invariant.
LEMMA LaunchStep == LaunchInv /\ [Next]_vars => LaunchInv'
BY StagesStep, WalkStep, CostStep DEF LaunchInv

\* What the stages found, where the walk is and what was spent, in every state.
THEOREM LaunchInvariant == Spec => []LaunchInv
BY InitLaunch, LaunchStep, PTL DEF Spec

\* In a run that halts over cost and was accepted without a warning, no session is started once the
\* workers that came to their end have spent more than the ceiling (step_demands, over_cost, End).
THEOREM GuardHolds == Spec => []AcceptedGuardHolds
<1>1. LaunchInv => AcceptedGuardHolds
  BY DEF LaunchInv, CostInv, AcceptedGuardHolds
<1> QED BY <1>1, LaunchInvariant, PTL

\* Whatever an accepted run starts, on whatever host and after whatever loss, writes, reads and reaches
\* what its config asks (isolation, egress, Worker and Judge of the walk).
THEOREM EveryProcessIsConfined == Spec => []ConfinedAsAsked
<1>1. LaunchInv => ConfinedAsAsked
  <2> SUFFICES ASSUME LaunchInv, NEW p \in started
               PROVE  /\ WritesAreThePromise(p) /\ WorkIsPossible(p) /\ ContextIsReadOnly(p)
                      /\ CredentialsAreReadOnly(p) /\ JudgedAsTightly(p) /\ ReachIsTheList(p)
    BY DEF ConfinedAsAsked
  <2>1. pc \in Going /\ p \in Procs(cfg)
    BY DEF LaunchInv, WalkInv
  <2>2. Config(cfg) /\ Fit(cfg)
    BY <2>1 DEF LaunchInv, StagesInv, Passed
  <2> QED BY <2>1, <2>2, ProcessIsConfined
<1> QED BY <1>1, LaunchInvariant, PTL

------------------------------------------------------------------------------
(* What an accepted run can start, and whether it reaches its model.          *)

Accepted(c, h) == Assembles(c, h) /\ Capable(c, h) /\ NotOnPath(c, h) = {}

\* A mechanism some step asks for is there, and docker is the engine behind an allow-list.
LEMMA MechanismsAreThere ==
  ASSUME NEW c, NEW h, Accepted(c, h), NEW s \in Steps(c)
  PROVE  /\ s.agent \in Known
         /\ s.tier = "sandbox" => h.wrapper /\ (AllowList(c) => h.os = "macos")
         /\ s.tier = "container" => h.engine # "none" /\ (AllowList(c) => h.engine # "podman")
         /\ AllowList(c) => ~Unreachable(c, s.agent)
<1>1. s.agent \in Known /\ s \notin StepDemands(c, h)
  BY DEF Accepted, Capable, Unknown
<1>2. ~TierProblems(c, h, s) /\ ~(AllowList(c) /\ Unreachable(c, s.agent))
  BY <1>1 DEF StepDemands
<1> QED BY <1>1, <1>2 DEF TierProblems

\* Behind the list a model that is not unreachable is dialled, on the model's port.
LEMMA ModelsAreDialled ==
  ASSUME NEW c, NEW h, TakenForGranted(<<c, h>>), NEW agent \in Known, ~Unreachable(c, agent), NEW a \in Api(agent)
  PROVE  Dials(c.network.rules, [kind |-> "name", host |-> <<a>>], 443, {"public"})
<1> DEFINE dest == [kind |-> "name", host |-> <<a>>]
<1>1. AllowsHost(c.network.rules, dest)
  BY DEF Unreachable
<1>2. \A r \in c.network.rules : HostMatches(r, dest) => r.port = {} \/ 443 \in r.port
  BY DEF TakenForGranted
<1> HIDE DEF dest
<1>3. Allows(c.network.rules, dest, 443)
  BY <1>1, <1>2 DEF AllowsHost, Allows
<1>4. ~Forbidden("public")
  BY DEF Forbidden
<1> QED BY <1>3, <1>4 DEF Dials, dest

\* A process whose model is not unreachable reaches it.
LEMMA Heard ==
  ASSUME NEW c, NEW h, TakenForGranted(<<c, h>>), NEW p, p.role \in {"worker", "llm"} => p.agent \in Known,
         AllowList(c) /\ p.role \in {"worker", "llm"} => ~Unreachable(c, p.agent)
  PROVE  Hears(c, h, p)
<1>1. h.relay
  BY DEF TakenForGranted
<1> QED BY <1>1, ModelsAreDialled DEF Hears

\* On the host an agent a step names is there, and the ruler when a judge runs it there.
LEMMA OnPath ==
  ASSUME NEW c, NEW h, Accepted(c, h), NEW a \in Known, a \in HostAgents(c)
  PROVE  a \in h.clis
BY DEF Accepted, NotOnPath

\* A worker of an accepted run starts and reaches its model.
LEMMA WorkersStart ==
  ASSUME NEW c, NEW h, Config(c), Accepted(c, h), TakenForGranted(<<c, h>>), NEW s \in Steps(c), NEW net,
         s.tier = "container" /\ AllowList(c) => net = "up"
  PROVE  Starts(c, h, net, Worker(c, s)) /\ Hears(c, h, Worker(c, s))
<1> DEFINE p == Worker(c, s)
<1>1. p.role = "worker" /\ p.cage = s.tier /\ p.agent = s.agent /\ p.image = {s.image} /\ Bin(p) = s.agent
  BY DEF Worker, Bin
<1>2. s.tier \in Tiers /\ s.agent \in Known
  BY RunTierBounds, MechanismsAreThere
<1>3. s.tier # "container" => s.agent \in h.clis
  <2>1. \A t \in Steps(c) : t.agent \in Named(c)
    <3>1. ASSUME NEW name \in DOMAIN c.steps PROVE Resolve(c, name).agent \in Named(c)
      <4>1. Resolve(c, name).agent = Either(c.steps[name].agent, c.agent)
        BY DEF Resolve
      <4> QED BY <4>1, EitherIsOne DEF Named
    <3> QED BY <3>1 DEF Steps
  <2>2. s.tier # "container" => s.agent \in HostAgents(c)
    BY <2>1 DEF HostAgents
  <2> QED BY <1>2, <2>2, OnPath
<1> HIDE DEF p
<1>4. ASSUME s.tier = "none" PROVE Starts(c, h, net, p)
  BY <1>1, <1>3, <1>4 DEF Starts
<1>5. ASSUME s.tier = "sandbox" PROVE Starts(c, h, net, p)
  <2>1. SandboxStarts(c, h, p)
    BY <1>1, <1>3, <1>5, MechanismsAreThere DEF SandboxStarts
  <2> QED BY <1>1, <1>5, <2>1 DEF Starts
<1>6. ASSUME s.tier = "container" PROVE Starts(c, h, net, p)
  <2>1. h.engine # "none"
    BY <1>6, MechanismsAreThere
  <2>2. Probe(c, h) = {} /\ <<s.image, s.agent>> \in Needs(c)
    BY <1>6 DEF Accepted, Capable, Needs
  <2>3. Runs(h, s.image, s.agent)
    BY <2>1, <2>2 DEF Probe
  <2>4. ContainerStarts(c, h, net, p)
    BY <1>1, <1>6, <2>1, <2>3 DEF ContainerStarts
  <2> QED BY <1>1, <1>6, <2>4 DEF Starts
<1>7. Hears(c, h, p)
  BY <1>1, <1>2, MechanismsAreThere, Heard
<1> QED BY <1>2, <1>4, <1>5, <1>6, <1>7 DEF Tiers, p

\* So does a judge, when the run's tier is one that a step asks for.
LEMMA JudgesStart ==
  ASSUME NEW c, NEW h, Config(c), Accepted(c, h), TakenForGranted(<<c, h>>), NEW k \in Kinds(c),
         NEW s \in Steps(c), s.tier = RunTier(c), NEW net, RunTier(c) = "container" /\ AllowList(c) => net = "up"
  PROVE  Starts(c, h, net, Judge(c, k)) /\ Hears(c, h, Judge(c, k))
<1> DEFINE p == Judge(c, k)
           bin == IF k = "script" THEN "sh" ELSE IF k = "metric" THEN "swe-metrics" ELSE c.ruler
<1>1. Fit(c) /\ c.ruler \in Known
  BY AcceptedIsFit DEF Accepted, Fit, Unknown
<1>2. p.role = k /\ p.cage = RunTier(c) /\ k \in {"script", "llm", "metric"} /\ RunTier(c) \in Tiers
  BY <1>1, JudgeProcess, RunTierBounds
<1>3. p.image = JudgeImage(c) /\ p.agent = IF k = "metric" THEN "swe-metrics" ELSE c.ruler
  BY DEF Judge
<1> HIDE DEF p
<1>4. Bin(p) = bin
  BY <1>2, <1>3 DEF Bin
<1>5. RunTier(c) # "container" => bin \in h.clis
  <2>1. ASSUME RunTier(c) # "container", k = "llm" PROVE c.ruler \in h.clis
    BY <1>1, <2>1, OnPath DEF HostAgents, Named
  <2>2. ASSUME RunTier(c) # "container", k = "metric" PROVE "swe-metrics" \in h.clis
    BY <2>2 DEF Accepted, Assembles, MetricsMissing
  <2>3. "sh" \in h.clis
    BY DEF TakenForGranted
  <2> QED BY <1>2, <2>1, <2>2, <2>3
<1>6. RunTier(c) = "container" => \E i \in JudgeImage(c) : <<i, bin>> \in Needs(c)
  <2>1. ASSUME RunTier(c) = "container" PROVE JudgeImage(c) # {}
    BY <2>1 DEF Accepted, Capable, PolicyResolves
  <2>2. bin \in {"sh"} \cup (IF "llm" \in Kinds(c) THEN {c.ruler} ELSE {})
                       \cup (IF "metric" \in Kinds(c) THEN {"swe-metrics"} ELSE {})
    BY <1>2
  <2> HIDE DEF bin
  <2> QED BY <2>1, <2>2 DEF Needs
<1> HIDE DEF bin
<1>7. ASSUME RunTier(c) = "none" PROVE Starts(c, h, net, p)
  BY <1>2, <1>4, <1>5, <1>7 DEF Starts
<1>8. ASSUME RunTier(c) = "sandbox" PROVE Starts(c, h, net, p)
  <2>1. SandboxStarts(c, h, p)
    BY <1>4, <1>5, <1>8, MechanismsAreThere DEF SandboxStarts
  <2> QED BY <1>2, <1>8, <2>1 DEF Starts
<1>9. ASSUME RunTier(c) = "container" PROVE Starts(c, h, net, p)
  <2>1. h.engine # "none"
    BY <1>9, MechanismsAreThere
  <2>2. Probe(c, h) = {}
    BY DEF Accepted, Capable
  <2>3. PICK i \in JudgeImage(c) : <<i, bin>> \in Needs(c)
    BY <1>6, <1>9
  <2>4. Runs(h, i, bin)
    BY <2>1, <2>2, <2>3 DEF Probe
  <2>5. ContainerStarts(c, h, net, p)
    BY <1>3, <1>4, <1>9, <2>1, <2>4 DEF ContainerStarts
  <2> QED BY <1>2, <1>9, <2>5 DEF Starts
<1>10. Hears(c, h, p)
  <2>1. p.role = "llm" /\ AllowList(c) => ~Unreachable(c, p.agent)
    BY <1>2, <1>3 DEF Accepted, Capable, RulerHeard
  <2> QED BY <1>1, <1>2, <1>3, <2>1, Heard
<1> QED BY <1>2, <1>7, <1>8, <1>9, <1>10 DEF Tiers, p

\* The list's bridge fails only where no step asks for a container, and stays up or failed as it was.
BridgeInv ==
    /\ bridge \in {"off", "up", "failed"}
    /\ host.engine \in {"none", "docker", "podman"} \/ lost
    /\ ~lost => TakenForGranted(<<cfg, host>>)
    /\ ~lost /\ bridge = "failed" => ByDefaultOnly /\ RunTier(cfg) = "container"

SessionsInv == LaunchInv /\ BridgeInv /\ AcceptedSessionsStart

\* Before the first container of a run, one that a step's tier asks for finds docker and its relay.
LEMMA BridgeHolds ==
  ASSUME SessionsInv, ~lost, pc \in Going, NEW ps, ps \subseteq Procs(cfg)
  PROVE  /\ Bridged(ps) \in {"off", "up", "failed"}
         /\ Bridged(ps) = "failed" => ByDefaultOnly /\ RunTier(cfg) = "container"
         /\ \A p \in ps : p.cage = "container" /\ AllowList(cfg) /\ (\E s \in Steps(cfg) : s.tier = "container")
                => Bridged(ps) = "up"
<1>1. Config(cfg) /\ Accepted(cfg, host) /\ TakenForGranted(<<cfg, host>>) /\ Fit(cfg)
  BY DEF SessionsInv, LaunchInv, StagesInv, BridgeInv, Accepted, Passed
<1>2. host.relay
  BY <1>1 DEF TakenForGranted
<1>3. ASSUME NEW s \in Steps(cfg), s.tier = "container", AllowList(cfg) PROVE host.engine = "docker"
  <2>1. host.engine \in {"none", "docker", "podman"}
    BY DEF SessionsInv, BridgeInv
  <2> QED BY <1>1, <1>3, <2>1, MechanismsAreThere
<1>4. ASSUME NEW p \in ps, p.cage = "container" PROVE (\E s \in Steps(cfg) : s.tier = "container") \/ RunTier(cfg) = "container"
  <2>1. \/ \E s \in Steps(cfg) : p = Worker(cfg, s)
        \/ \E k \in Kinds(cfg) : p = Judge(cfg, k)
    BY DEF Procs
  <2> QED BY <1>4, <2>1 DEF Worker, Judge
<1>5. ASSUME NEW s \in Steps(cfg), s.tier = "container" PROVE RunTier(cfg) = "container"
  <2>1. Rank["none"] = 0 /\ Rank["sandbox"] = 1 /\ Rank["container"] = 2
    BY DEF Rank
  <2>2. RunTier(cfg) \in Tiers /\ Rank["container"] <= Rank[RunTier(cfg)]
    BY <1>1, <1>5, RunTierBounds
  <2> QED BY <2>1, <2>2 DEF Tiers
<1>6. CASE bridge = "off" /\ AllowList(cfg) /\ \E p \in ps : p.cage = "container"
  <2>1. Bridged(ps) = IF host.engine = "docker" /\ host.relay THEN "up" ELSE "failed"
    BY <1>6 DEF Bridged
  <2>2. (\E s \in Steps(cfg) : s.tier = "container") => Bridged(ps) = "up"
    BY <1>2, <1>3, <1>6, <2>1
  <2>3. RunTier(cfg) = "container"
    BY <1>4, <1>5, <1>6
  <2>4. Bridged(ps) = "failed" => ByDefaultOnly
    BY <2>2, <2>3 DEF ByDefaultOnly
  <2> QED BY <2>1, <2>2, <2>3, <2>4
<1>7. CASE ~(bridge = "off" /\ AllowList(cfg) /\ \E p \in ps : p.cage = "container")
  <2>1. Bridged(ps) = bridge
    BY <1>7 DEF Bridged
  <2>2. bridge \in {"off", "up", "failed"} /\ (bridge = "failed" => ByDefaultOnly /\ RunTier(cfg) = "container")
    BY DEF SessionsInv, BridgeInv
  <2>3. ASSUME NEW p \in ps, p.cage = "container", AllowList(cfg), NEW s \in Steps(cfg), s.tier = "container"
        PROVE  bridge = "up"
    <3>1. RunTier(cfg) = "container"
      BY <1>5, <2>3
    <3>2. ~ByDefaultOnly
      BY <2>3, <3>1 DEF ByDefaultOnly
    <3> QED BY <1>7, <2>2, <2>3, <3>2
  <2> QED BY <2>1, <2>2, <2>3
<1> QED BY <1>6, <1>7

\* What starting some processes leaves of the sessions' promise.
LEMMA StartingKeepsIt ==
  ASSUME SessionsInv, ~lost, pc \in Going, NEW ps, ps \subseteq Procs(cfg), StartAll(ps), UNCHANGED <<cfg, host, lost>>
  PROVE  BridgeInv' /\ AcceptedSessionsStart'
<1>1. Config(cfg) /\ Accepted(cfg, host) /\ TakenForGranted(<<cfg, host>>) /\ Fit(cfg)
  BY DEF SessionsInv, LaunchInv, StagesInv, BridgeInv, Accepted, Passed
<1>2. bridge' = Bridged(ps) /\ stillborn' = ps \ {p \in ps : Starts(cfg, host, Bridged(ps), p) /\ Hears(cfg, host, p)}
  BY DEF StartAll
<1>3. BridgeInv'
  <2>1. bridge' \in {"off", "up", "failed"} /\ (bridge' = "failed" => ByDefaultOnly /\ RunTier(cfg) = "container")
    BY <1>2, BridgeHolds
  <2> QED BY <1>1, <2>1 DEF SessionsInv, BridgeInv, ByDefaultOnly
<1>4. ASSUME NEW s \in Steps(cfg), Worker(cfg, s) \in ps PROVE Worker(cfg, s) \notin stillborn'
  <2>1. Worker(cfg, s).cage = s.tier
    BY DEF Worker
  <2>2. s.tier = "container" /\ AllowList(cfg) => Bridged(ps) = "up"
    BY <1>4, <2>1, BridgeHolds
  <2>3. Starts(cfg, host, Bridged(ps), Worker(cfg, s)) /\ Hears(cfg, host, Worker(cfg, s))
    BY <1>1, <2>2, WorkersStart
  <2> QED BY <1>2, <2>3
<1>5. ASSUME NEW k \in Kinds(cfg), Judge(cfg, k) \in ps, ~ByDefaultOnly PROVE Judge(cfg, k) \notin stillborn'
  <2>1. PICK s \in Steps(cfg) : s.tier = RunTier(cfg)
    BY <1>5 DEF ByDefaultOnly
  <2>2. Judge(cfg, k).cage = RunTier(cfg)
    BY DEF Judge
  <2>3. RunTier(cfg) = "container" /\ AllowList(cfg) => Bridged(ps) = "up"
    BY <1>5, <2>1, <2>2, BridgeHolds
  <2>4. Starts(cfg, host, Bridged(ps), Judge(cfg, k)) /\ Hears(cfg, host, Judge(cfg, k))
    BY <1>1, <2>1, <2>3, JudgesStart
  <2> QED BY <1>2, <2>4
<1>6. ASSUME NEW p \in stillborn' PROVE p.role # "worker" /\ ByDefaultOnly
  <2>1. p \in ps
    BY <1>2, <1>6
  <2>2. PICK k \in Kinds(cfg) : p = Judge(cfg, k)
    BY <1>4, <1>6, <2>1 DEF Procs
  <2>3. p.role # "worker"
    BY <1>1, <2>2, JudgeProcess
  <2> QED BY <1>5, <1>6, <2>1, <2>2, <2>3
<1>7. ByDefaultOnly => ByDefaultOnly'
  BY DEF ByDefaultOnly
<1> QED BY <1>3, <1>6, <1>7 DEF AcceptedSessionsStart

\* Every step keeps the sessions' promise.
LEMMA SessionsStep ==
  ASSUME SessionsInv, [Next]_vars
  PROVE  SessionsInv'
<1> USE DEF SessionsInv
<1>1. LaunchInv'
  BY LaunchStep
<1>2. ASSUME UNCHANGED <<cfg, host, lost, bridge>>, stillborn' \subseteq stillborn
      PROVE  BridgeInv' /\ AcceptedSessionsStart'
  BY <1>2 DEF BridgeInv, AcceptedSessionsStart, ByDefaultOnly
<1>3. ASSUME Load \/ Assemble \/ Capability \/ Preflight PROVE BridgeInv' /\ AcceptedSessionsStart'
  <2>1. UNCHANGED <<cfg, host, lost, bridge, stillborn>>
    BY <1>3 DEF Load, Assemble, Capability, Preflight, Stage, running
  <2> QED BY <1>2, <2>1
<1>4. ASSUME Pick \/ End PROVE BridgeInv' /\ AcceptedSessionsStart'
  <2>1. UNCHANGED <<cfg, host, lost, bridge>> /\ stillborn' = {}
    BY <1>4 DEF Pick, Aborts, End
  <2> QED BY <1>2, <2>1
<1>5. ASSUME Stopped \/ UNCHANGED vars PROVE BridgeInv' /\ AcceptedSessionsStart'
  <2>1. UNCHANGED <<cfg, host, lost, bridge, stillborn>>
    BY <1>5 DEF Stopped, vars
  <2> QED BY <1>2, <2>1
<1>6. ASSUME Fault PROVE BridgeInv' /\ AcceptedSessionsStart'
  <2>1. lost' /\ bridge' = bridge
    BY <1>6 DEF Fault
  <2> QED BY <2>1 DEF BridgeInv, AcceptedSessionsStart
<1>7. ASSUME Boot \/ Work \/ Grade PROVE BridgeInv' /\ AcceptedSessionsStart'
  <2>1. UNCHANGED <<cfg, host, lost>> /\ pc \in Going
    BY <1>7 DEF Boot, Work, Grade, Going
  <2>2. PICK ps : ps \subseteq Procs(cfg) /\ StartAll(ps)
    <3>1. {Judge(cfg, k) : k \in Kinds(cfg)} \subseteq Procs(cfg)
      BY DEF Procs
    <3>2. CASE Boot \/ Grade
      BY <3>1, <3>2 DEF Boot, Grade
    <3>3. CASE Work
      <4>1. PICK s \in Steps(cfg) : step = {s}
        BY <3>3 DEF Work, LaunchInv, WalkInv
      <4>2. StartAll({Worker(cfg, s)}) /\ Worker(cfg, s) \in Procs(cfg)
        BY <3>3, <4>1 DEF Work, Procs
      <4> QED BY <4>2
    <3> QED BY <1>7, <3>2, <3>3
  <2>3. CASE ~lost
    BY <2>1, <2>2, <2>3, StartingKeepsIt
  <2>4. CASE lost
    <3>1. bridge' \in {"off", "up", "failed"}
      BY <2>2 DEF StartAll, Bridged, BridgeInv
    <3> QED BY <2>1, <2>4, <3>1 DEF BridgeInv, AcceptedSessionsStart
  <2> QED BY <2>3, <2>4
<1> QED BY <1>1, <1>3, <1>4, <1>5, <1>6, <1>7 DEF Next

\* prepare_run refuses what would otherwise be met later: until the host loses something, every worker of
\* an accepted run starts and reaches its model, and so does every judge of a tier that some step has. What
\* no stage looks at is taken for granted: a shell, the relay's image and the port of the model's entry.
THEOREM SessionsStart ==
  ASSUME \A l \in Launches : TakenForGranted(l)
  PROVE  Spec => []AcceptedSessionsStart
<1>1. Init => SessionsInv
  <2> SUFFICES ASSUME Init PROVE SessionsInv
    OBVIOUS
  <2>1. PICK l \in Launches : cfg = l[1] /\ host = l[2]
    BY DEF Init
  <2>2. TakenForGranted(<<cfg, host>>)
    BY <2>1 DEF TakenForGranted
  <2>3. BridgeInv
    BY <2>1, <2>2, EnginesAssumption DEF Init, BridgeInv
  <2>4. AcceptedSessionsStart
    BY DEF Init, AcceptedSessionsStart
  <2> QED BY <2>3, <2>4, InitLaunch DEF SessionsInv
<1>2. SessionsInv /\ [Next]_vars => SessionsInv'
  BY SessionsStep
<1>3. SessionsInv => AcceptedSessionsStart
  BY DEF SessionsInv
<1> QED BY <1>1, <1>2, <1>3, PTL DEF Spec

------------------------------------------------------------------------------
(* Driver: sequences of rows.                                                 *)

\* A sequence, of whatever its elements are.
IsSequence(s) == s \in Seq({s[i] : i \in 1 .. Len(s)})

\* One more element leaves the others where they are.
LEMMA Appended ==
  ASSUME NEW s, IsSequence(s), NEW e
  PROVE  /\ IsSequence(Append(s, e)) /\ Len(Append(s, e)) = Len(s) + 1 /\ Len(s) \in Nat
         /\ \A i \in 1 .. Len(s) : Append(s, e)[i] = s[i]
         /\ Append(s, e)[Len(s) + 1] = e
<1> DEFINE S == {s[i] : i \in 1 .. Len(s)}
           T == S \cup {e}
           t == Append(s, e)
<1>1. s \in Seq(S)
  BY DEF IsSequence
<1>2. s \in Seq(T)
  <2>1. S \subseteq T
    OBVIOUS
  <2> HIDE DEF S, T
  <2> QED BY <1>1, <2>1
<1>3. t \in Seq(T) /\ Len(t) = Len(s) + 1 /\ Len(s) \in Nat /\ (\A i \in 1 .. Len(s) : t[i] = s[i]) /\ t[Len(s) + 1] = e
  <2>1. e \in T
    OBVIOUS
  <2> HIDE DEF S, T
  <2> QED BY <1>2, <2>1
<1>4. IsSequence(t)
  <2> HIDE DEF S, T, t
  <2>1. t \in [1 .. Len(t) -> {t[i] : i \in 1 .. Len(t)}] /\ Len(t) \in Nat
    BY <1>3
  <2> QED BY ONLY <2>1, SeqDef DEF IsSequence
<1> QED BY <1>3, <1>4

\* The beginning of a sequence.
LEMMA Beginning ==
  ASSUME NEW s, IsSequence(s), NEW n \in 0 .. Len(s)
  PROVE  /\ IsSequence(SubSeq(s, 1, n)) /\ Len(SubSeq(s, 1, n)) = n
         /\ \A i \in 1 .. n : SubSeq(s, 1, n)[i] = s[i]
<1> DEFINE S == {s[i] : i \in 1 .. Len(s)}
           t == SubSeq(s, 1, n)
<1>1. s \in Seq(S)
  BY DEF IsSequence
<1>2. t \in Seq(S) /\ Len(t) = n /\ \A i \in 1 .. n : t[i] = s[i]
  <2> HIDE DEF S
  <2> QED BY <1>1
<1>3. IsSequence(t)
  <2> HIDE DEF S, t
  <2>1. t \in [1 .. Len(t) -> {t[i] : i \in 1 .. Len(t)}] /\ Len(t) \in Nat
    BY <1>2
  <2> QED BY ONLY <2>1, SeqDef DEF IsSequence
<1> QED BY <1>2, <1>3

\* A set of numbers has a least one.
LEMMA Least ==
  ASSUME NEW S \in SUBSET Nat, S # {}
  PROVE  \E n \in S : \A m \in S : n <= m
<1> DEFINE less == {ss \in Nat \X Nat : ss[1] < ss[2]}
<1>1. IsWellFoundedOn(less, Nat)
  BY NatLessThanWellFounded DEF OpToRel
<1>2. PICK n \in S : \A m \in S : <<m, n>> \notin less
  <2> HIDE DEF less
  <2> QED BY <1>1, WFMin
<1>3. \A m \in S : n <= m
  <2> SUFFICES ASSUME NEW m \in S, m < n PROVE FALSE
    OBVIOUS
  <2> QED BY <1>2
<1> QED BY <1>3

\* n is the place of the last kept gate, 0 where there is none.
LastKept(rows, n) ==
    /\ n \in 0 .. Len(rows)
    /\ n # 0 => IsKeptGate(rows[n])
    /\ \A i \in n + 1 .. Len(rows) : ~IsKeptGate(rows[i])

\* truncate_to_base cuts the rows after the last kept gate.
LEMMA TruncatedAtLast ==
  ASSUME NEW rows, IsSequence(rows)
  PROVE  \E n \in Nat : LastKept(rows, n) /\ Truncated(rows) = SubSeq(rows, 1, n)
<1>0. Len(rows) \in Nat
  BY DEF IsSequence
<1> DEFINE I == {i \in 1 .. Len(rows) : IsKeptGate(rows[i])}
<1>1. SelectLastInSeq(rows, IsKeptGate) = IF I # {} THEN Max(I) ELSE 0
  BY DEF SelectLastInSeq
<1>2. CASE I = {}
  BY <1>0, <1>1, <1>2 DEF LastKept, Truncated
<1>3. CASE I # {}
  <2> DEFINE U == {n \in Nat : \A i \in I : i <= n}
  <2>1. PICK n \in U : \A m \in U : n <= m
    <3>1. U \in SUBSET Nat /\ Len(rows) \in U
      BY <1>0
    <3> HIDE DEF U
    <3> QED BY <3>1, Least
  <2>2. n \in I
    <3> SUFFICES ASSUME n \notin I PROVE FALSE
      OBVIOUS
    <3>1. \A i \in I : i <= n /\ i # n /\ i \in Nat /\ i > 0
      BY <1>0, <2>1
    <3>2. n # 0
      BY <1>3, <3>1, <2>1
    <3>3. n - 1 \in U
      BY <3>1, <3>2, <2>1
    <3> QED BY <3>3, <2>1
  <2>3. Max(I) \in I /\ \A i \in I : Max(I) >= i
    <3>1. \E x \in I : \A y \in I : x >= y
      BY <2>1, <2>2, <1>0
    <3> HIDE DEF I
    <3> QED BY <3>1 DEF Max
  <2> DEFINE m == Max(I)
  <2>4. m \in 1 .. Len(rows) /\ IsKeptGate(rows[m]) /\ \A i \in m + 1 .. Len(rows) : ~IsKeptGate(rows[i])
    <3> HIDE DEF m
    <3>1. m \in I /\ \A i \in I : m >= i
      BY <2>3 DEF m
    <3> QED BY <3>1, <1>0
  <2> HIDE DEF m
  <2>5. Truncated(rows) = SubSeq(rows, 1, m)
    BY <1>1, <1>3 DEF Truncated, m
  <2> QED BY <2>4, <2>5, <1>0 DEF LastKept
<1> QED BY <1>2, <1>3

------------------------------------------------------------------------------
(* The replay as a function.                                                  *)

\* What a replay leads through: where the driver stands, the judges it still asks, its
\* ordinal, what it holds and read, and what it saw.
Standing(l, m, q, o, c, se, sp, st, t) ==
    [loc |-> l, mode |-> m, queue |-> q, ord |-> o, cache |-> c, session |-> se, spent |-> sp,
     streak |-> st, trail |-> t]
Origin == Standing(1, "calling", <<>>, 0, Unasked, 0, 0, 0, <<>>)

CallsOn(f, x, ops) == x.mode = "calling" /\ x.loc \in DOMAIN f /\ f[x.loc].op \in ops
AsksOne(x) == x.mode = "asking" /\ x.queue # <<>> /\ x.cache[Head(x.queue)] = "unasked"
AsksKnown(x) == x.mode = "asking" /\ x.queue # <<>> /\ x.cache[Head(x.queue)] # "unasked"
AsksNone(x) == x.mode = "asking" /\ x.queue = <<>>
Wanted(f, x) == IF x.mode = "asking" THEN Head(x.queue) ELSE What(f[x.loc])

\* The next call needs no row, or one of the first n rows is its own.
Ready(f, x, rows, n) ==
    \/ CallsOn(f, x, Asking \cup {"gate-state", "limits"}) \/ AsksKnown(x) \/ AsksNone(x)
    \/ /\ CallsOn(f, x, {"step", "gate", "note", "hil", "block"}) \/ AsksOne(x)
       /\ x.ord < n
       /\ rows[x.ord + 1].at = f[x.loc].at /\ rows[x.ord + 1].what = Wanted(f, x)

Onward(f, x, seen) == IF ToSet(seen) \cap Favourable # {} THEN f[x.loc].yes ELSE f[x.loc].no
Told(x, seen) == Append(x.trail, <<x.loc, seen>>)
AnswersTo(f, x) == [i \in DOMAIN f[x.loc].on |-> x.cache[f[x.loc].on[i]]]
StreakSeen(x) == IF x.streak > 0 THEN <<"many">> ELSE <<"few">>

\* What the next call makes of it.
Moved(f, x, rows) ==
    LET row == rows[x.ord + 1]
    IN CASE CallsOn(f, x, {"step"}) ->
              Standing(Onward(f, x, row.seen), "calling", x.queue, x.ord + 1, Unasked, row.mark[1], row.mark[2],
                       x.streak, Told(x, row.seen))
         [] CallsOn(f, x, Asking) ->
              Standing(x.loc, "asking", f[x.loc].on, x.ord, x.cache, x.session, x.spent, x.streak, x.trail)
         [] AsksKnown(x) ->
              Standing(x.loc, "asking", Tail(x.queue), x.ord, x.cache, x.session, x.spent, x.streak, x.trail)
         [] AsksOne(x) ->
              Standing(x.loc, "asking", Tail(x.queue), x.ord + 1,
                       [x.cache EXCEPT ![Head(x.queue)] = row.seen[1]], x.session, x.spent + 1, x.streak, x.trail)
         [] AsksNone(x) ->
              Standing(Onward(f, x, AnswersTo(f, x)), "calling", x.queue, x.ord, x.cache, x.session, x.spent,
                       x.streak, Told(x, AnswersTo(f, x)))
         [] CallsOn(f, x, {"gate"}) ->
              Standing(Onward(f, x, row.seen), "calling", x.queue, x.ord + 1, Unasked, x.session, x.spent,
                       row.mark[1], Told(x, row.seen))
         [] CallsOn(f, x, {"gate-state"}) ->
              Standing(Onward(f, x, StreakSeen(x)), "calling", x.queue, x.ord, x.cache, x.session, x.spent,
                       x.streak, Told(x, StreakSeen(x)))
         [] CallsOn(f, x, {"limits"}) ->
              Standing(Onward(f, x, <<"done">>), "calling", x.queue, x.ord, x.cache, x.session, x.spent, x.streak,
                       Told(x, <<"done">>))
         [] CallsOn(f, x, {"note"}) ->
              Standing(Onward(f, x, <<"done">>), "calling", x.queue, x.ord + 1, x.cache, x.session, x.spent,
                       x.streak, Told(x, <<"done">>))
         [] OTHER ->
              Standing(Onward(f, x, row.seen), "calling", x.queue, x.ord + 1, x.cache, x.session, x.spent, x.streak,
                       Told(x, row.seen))

\* Where rows and more agree on the first n, a call that is ready with the one is with the
\* other, and makes the same of it.
LEMMA SameMove ==
  ASSUME NEW f, NEW x, NEW rows, NEW more, NEW n \in Nat, NEW m \in Nat, n <= m, x.ord \in Nat,
         \A i \in 1 .. n : rows[i] = more[i], Ready(f, x, rows, n)
  PROVE  Ready(f, x, more, m) /\ Moved(f, x, more) = Moved(f, x, rows)
<1>1. CASE CallsOn(f, x, Asking \cup {"gate-state", "limits"}) \/ AsksKnown(x) \/ AsksNone(x)
  BY <1>1 DEF Ready, Moved, CallsOn, AsksKnown, AsksNone, AsksOne, Asking
<1>2. CASE (CallsOn(f, x, {"step", "gate", "note", "hil", "block"}) \/ AsksOne(x)) /\ x.ord < n
  <2>1. x.ord + 1 \in 1 .. n /\ x.ord < m
    BY <1>2
  <2>2. rows[x.ord + 1] = more[x.ord + 1]
    BY <2>1
  <2>3. Moved(f, x, more) = Moved(f, x, rows)
    BY <2>2 DEF Moved
  <2> QED BY <1>2, <2>1, <2>2, <2>3 DEF Ready, CallsOn, AsksKnown, AsksNone, AsksOne, Asking
<1> QED BY <1>1, <1>2 DEF Ready

------------------------------------------------------------------------------
(* Where the process is in its calls, and what the ledger then holds.         *)

Running == mode # "off" /\ ended = "no"

Shaped ==
    /\ flow \in Flows /\ mode \in Modes /\ ord \in Nat
    /\ IsSequence(calls) /\ IsSequence(replay) /\ IsSequence(trail) /\ IsSequence(kept.trail)
    /\ answer \in {"none", "yes", "no"}

\* A call that takes several steps goes on only in a run that has not ended, and past the
\* recorded rows, if it decides or waits.
InCall ==
    /\ mode = "asking" => ended = "no" /\ loc \in DOMAIN flow /\ Here.op \in Asking
    /\ mode = "recording" =>
           /\ ended = "no" /\ loc \in DOMAIN flow /\ Here.op = "gate" /\ ord >= Len(replay)
           /\ tip = {} /\ ~changed /\ ~violation
           /\ fate \in {<<"vetoed">>, <<"no-changes">>, <<"kept">>, <<"rolled-back">>, <<"no-improvement">>}
    /\ mode = "waiting" =>
           ended = "no" /\ loc \in DOMAIN flow /\ Here.op \in Waits /\ ord >= Len(replay)
    /\ mode = "off" => trail = <<>> /\ ~diverged

\* Without a divergence the replay is a beginning of the ledger, the ledger has nothing
\* else before it is used up, and ends at the ordinal after that.
Lined ==
    mode # "off" /\ ~diverged =>
        /\ ord <= Len(calls) /\ Len(replay) <= Len(calls)
        /\ \A i \in 1 .. Len(replay) : replay[i] = calls[i]
        /\ ord < Len(replay) => Len(calls) = Len(replay)
        /\ ord >= Len(replay) => ord = Len(calls)

\* The row a call appends, and what becomes of the memory of the last kept gate.
Grows == \E e : calls' = Append(calls, e) /\ (IsKeptGate(e) => mode = "recording" /\ fate = <<"kept">>)
Remembers == kept' = kept \/ (mode = "recording" /\ fate = <<"kept">>)

\* A run only appends to calls.jsonl; a kept gate's row only where the gate decided to keep, and only
\* then is there something else to remember.
LEMMA RowsGrow ==
  ASSUME Shaped, InCall, [DriverNext]_driverVars, mode # "off", mode' # "off"
  PROVE  (calls' = calls \/ Grows) /\ (Remembers) /\ flow' = flow /\ replay' = replay
<1> USE DEF Records, Skips, Grows, Remembers
<1>1. CASE \E resume \in BOOLEAN : DriverBoot(resume)
  BY <1>1 DEF DriverBoot
<1>2. CASE Exits
  BY <1>2 DEF Exits
<1>3. CASE \E op \in Ops : CallRefused(op) \/ Diverges(op)
  BY <1>3 DEF CallRefused, Diverges, history
<1>4. CASE StepReplayed \/ StepStopped
  BY <1>4 DEF StepReplayed, StepStopped, history
<1>5. CASE \E how \in StepEnds : StepRuns(how)
  <2>1. PICK how \in StepEnds : StepRuns(how)
    BY <1>5
  <2> DEFINE e == [at |-> Here.at, what |-> What(Here), seen |-> <<how, "done">>, mark |-> <<session', spent'>>]
  <2>2. calls' = Append(calls, e) /\ kept' = kept /\ flow' = flow /\ replay' = replay
    BY <2>1 DEF StepRuns
  <2>3. ~IsKeptGate(e)
    BY DEF IsKeptGate
  <2> HIDE DEF e
  <2> QED BY <2>2, <2>3
<1>6. CASE \E op \in Asking : AsksBegin(op) \/ AsksLatched(op)
  BY <1>6 DEF AsksBegin, AsksLatched, history
<1>7. CASE Memoized \/ VerdictReplayed \/ VerdictDiverges \/ AsksEnd
  BY <1>7 DEF Memoized, VerdictReplayed, VerdictDiverges, AsksEnd, Verdict, history
<1>8. CASE \E grade \in UNION Range(Grades), written \in BOOLEAN : JudgeRuns(grade, written)
  <2>1. PICK grade \in UNION Range(Grades), written \in BOOLEAN : JudgeRuns(grade, written)
    BY <1>8
  <2> DEFINE e == [at |-> Here.at, what |-> Head(queue), seen |-> <<grade>>, mark |-> <<>>]
  <2>2. (calls' = calls \/ calls' = Append(calls, e)) /\ kept' = kept /\ flow' = flow /\ replay' = replay
    BY <2>1 DEF JudgeRuns, Verdict
  <2>3. grade # "kept"
    BY VocabularyAssumption DEF Range
  <2>4. ~IsKeptGate(e)
    BY <2>3 DEF IsKeptGate
  <2> HIDE DEF e
  <2> QED BY <2>2, <2>4
<1>9. CASE GateReplayed \/ GateFindsNothing
  BY <1>9 DEF GateReplayed, GateFindsNothing
<1>10. CASE GateFails
  <2> DEFINE e == [at |-> Here.at, what |-> "gate", seen |-> <<"failed">>, mark |-> <<streak>>]
  <2>1. calls' = Append(calls, e) /\ kept' = kept /\ flow' = flow /\ replay' = replay
    BY <1>10 DEF GateFails
  <2>2. ~IsKeptGate(e)
    BY DEF IsKeptGate
  <2> HIDE DEF e
  <2> QED BY <2>1, <2>2
<1>11. CASE \E outcome \in {"vetoed", "no-changes", "kept", "rolled-back", "no-improvement"} : GateDecides(outcome)
  BY <1>11 DEF GateDecides, history
<1>12. CASE GateRecorded
  <2> DEFINE e == [at |-> Here.at, what |-> "gate", seen |-> fate, mark |-> <<streak>>]
  <2>1. calls' = Append(calls, e) /\ flow' = flow /\ replay' = replay /\ mode = "recording"
        /\ (fate = <<"kept">> \/ kept' = kept)
    BY <1>12 DEF GateRecorded
  <2>2. IsKeptGate(e) => fate = <<"kept">>
    BY DEF IsKeptGate
  <2> HIDE DEF e
  <2> QED BY <2>1, <2>2
<1>13. CASE GateStateRead \/ NoteSilent \/ LimitsEnd \/ LimitsChecked
  BY <1>13 DEF GateStateRead, NoteSilent, LimitsEnd, LimitsChecked, history
<1>14. CASE NoteDelivered
  <2> DEFINE e == [at |-> Here.at, what |-> What(Here), seen |-> <<"done">>, mark |-> <<>>]
  <2>1. (calls' = calls \/ calls' = Append(calls, e)) /\ kept' = kept /\ flow' = flow /\ replay' = replay
    BY <1>14 DEF NoteDelivered
  <2>2. ~IsKeptGate(e)
    BY DEF IsKeptGate
  <2> HIDE DEF e
  <2> QED BY <2>1, <2>2
<1>15. CASE \E op \in Waits : WaitReplayed(op) \/ WaitBegins(op)
  BY <1>15 DEF WaitReplayed, WaitBegins
<1>16. CASE HilAnswered
  <2> DEFINE e == [at |-> Here.at, what |-> "hil", seen |-> <<answer>>, mark |-> <<>>]
  <2>1. calls' = Append(calls, e) /\ kept' = kept /\ flow' = flow /\ replay' = replay
    BY <1>16 DEF HilAnswered, Answers
  <2>2. ~IsKeptGate(e)
    BY DEF IsKeptGate
  <2> HIDE DEF e
  <2> QED BY <2>1, <2>2
<1>17. CASE BlockReleased
  <2> DEFINE e == [at |-> Here.at, what |-> "block", seen |-> <<"done">>, mark |-> <<>>]
  <2>1. calls' = Append(calls, e) /\ kept' = kept /\ flow' = flow /\ replay' = replay
    BY <1>17 DEF BlockReleased, Answers
  <2>2. ~IsKeptGate(e)
    BY DEF IsKeptGate
  <2> HIDE DEF e
  <2> QED BY <2>1, <2>2
<1>18. CASE \E does \in {"yes", "no", "resume", "stop"} : Human(does)
  BY <1>18 DEF Human
<1>19. CASE UNCHANGED driverVars
  BY <1>19 DEF driverVars, history
<1> QED
  BY <1>1, <1>2, <1>3, <1>4, <1>5, <1>6, <1>7, <1>8, <1>9, <1>10, <1>11, <1>12, <1>13, <1>14, <1>15, <1>16,
     <1>17, <1>18, <1>19 DEF DriverNext

\* The ordinal moves over a recorded row while there is one, over an appended row at the
\* end, and otherwise not at all, but for a call that diverges.
OrdinalMoves ==
    \/ diverged'
    \/ calls' = calls /\ ord' = ord
    \/ calls' = calls /\ ord' = ord + 1 /\ ord < Len(replay)
    \/ \E e : calls' = Append(calls, e) /\ ord' = ord + 1 /\ ord >= Len(replay)

\* The driver is told what a call returned when it goes on.
TrailGrows == trail' = trail \/ (mode' = "calling" /\ \E seen : trail' = Append(trail, <<loc, seen>>))
GoesOn ==
    ended' = "no" /\ ~diverged' =>
        loc' = loc \/ (loc \in DOMAIN flow /\ loc' \in {flow[loc].yes, flow[loc].no})

\* How a step moves the driver: its ordinal, its trail, its place in the program.
LEMMA Positions ==
  ASSUME Shaped, InCall, [DriverNext]_driverVars, mode # "off", mode' # "off"
  PROVE  OrdinalMoves /\ TrailGrows /\ (diverged => diverged') /\ (kept' = kept \/ kept'.trail = trail')
         /\ (ended # "no" => ended' # "no" /\ calls' = calls) /\ mode' \in Modes
         /\ answer' \in {"none", "yes", "no"} /\ ord' \in Nat
         /\ GoesOn /\ (gap => gap')
<1> USE DEF Records, Skips, OrdinalMoves, GoesOn, TrailGrows, Returns, history, position, Modes, Shaped, InCall, AtCall, Here
<1>0. ord \in Nat /\ Len(replay) \in Nat
  BY DEF IsSequence
<1>1. CASE \E resume \in BOOLEAN : DriverBoot(resume)
  BY <1>1 DEF DriverBoot
<1>2. CASE Exits
  BY <1>2 DEF Exits
<1>3. CASE \E op \in Ops : CallRefused(op) \/ Diverges(op)
  BY <1>3 DEF CallRefused, Diverges
<1>4. CASE StepReplayed
  BY <1>4, <1>0 DEF StepReplayed, Answered
<1>5. CASE StepStopped
  BY <1>5 DEF StepStopped, Stops
<1>6. CASE \E how \in StepEnds : StepRuns(how)
  BY <1>6, <1>0 DEF StepRuns, Answered
<1>7. CASE \E op \in Asking : AsksBegin(op) \/ AsksLatched(op)
  BY <1>7 DEF AsksBegin, AsksLatched
<1>8. CASE Memoized \/ AsksEnd
  BY <1>8 DEF Memoized, AsksEnd
<1>9. CASE VerdictReplayed
  BY <1>9, <1>0 DEF VerdictReplayed, MustAsk, Answered, Verdict
<1>10. CASE VerdictDiverges
  BY <1>10 DEF VerdictDiverges, MustAsk, Verdict
<1>11. CASE \E grade \in UNION Range(Grades), written \in BOOLEAN : JudgeRuns(grade, written)
  BY <1>11, <1>0 DEF JudgeRuns, MustAsk, Answered, Verdict
<1>12. CASE GateReplayed
  BY <1>12, <1>0 DEF GateReplayed, Answered
<1>13. CASE GateFindsNothing \/ GateFails
  BY <1>13, <1>0 DEF GateFindsNothing, GateFails, AtLiveGate, Answered
<1>14. CASE \E outcome \in {"vetoed", "no-changes", "kept", "rolled-back", "no-improvement"} : GateDecides(outcome)
  BY <1>14 DEF GateDecides, AtLiveGate
<1>15. CASE GateRecorded
  BY <1>15, <1>0 DEF GateRecorded
<1>16. CASE GateStateRead \/ LimitsEnd \/ LimitsChecked
  BY <1>16 DEF GateStateRead, LimitsEnd, LimitsChecked, Stops
<1>17. CASE NoteSilent
  BY <1>17, <1>0 DEF NoteSilent, Answered, Latched
<1>18. CASE NoteDelivered
  <2>1. CASE "stop" \in bus
    BY <1>18, <1>0, <2>1 DEF NoteDelivered, Latched, Stops
  <2>2. CASE "stop" \notin bus
    <3>1. ord' = ord + 1 /\ \E e : calls' = Append(calls, e)
      BY <1>18, <2>2 DEF NoteDelivered
    <3>2. ord >= Len(replay) \/ diverged'
      BY <1>18, <1>0 DEF NoteDelivered, Answered
    <3>3. OrdinalMoves
      BY <3>1, <3>2
    <3>4. TrailGrows
      BY <1>18 DEF NoteDelivered
    <3>5. ended = "no" /\ mode' = "calling" /\ kept' = kept /\ answer' = answer /\ (diverged => diverged') /\ gap' = gap
      BY <1>18, <2>2 DEF NoteDelivered, Latched
    <3>6. loc \in DOMAIN flow /\ loc' \in {flow[loc].yes, flow[loc].no}
      BY <1>18, <2>2 DEF NoteDelivered
    <3> QED BY <3>1, <3>3, <3>4, <3>5, <3>6, <1>0
  <2> QED BY <2>1, <2>2
<1>19. CASE \E op \in Waits : WaitReplayed(op)
  BY <1>19, <1>0 DEF WaitReplayed, Answered
<1>20. CASE \E op \in Waits : WaitBegins(op)
  BY <1>20 DEF WaitBegins, Stops
<1>21. CASE HilAnswered \/ BlockReleased
  BY <1>21, <1>0 DEF HilAnswered, BlockReleased, Answers
<1>22. CASE \E does \in {"yes", "no", "resume", "stop"} : Human(does)
  BY <1>22 DEF Human
<1>23. CASE UNCHANGED driverVars
  BY <1>23 DEF driverVars
<1> QED
  BY <1>1, <1>2, <1>3, <1>4, <1>5, <1>6, <1>7, <1>8, <1>9, <1>10, <1>11, <1>12, <1>13, <1>14, <1>15, <1>16,
     <1>17, <1>18, <1>19, <1>20, <1>21, <1>22, <1>23 DEF DriverNext

\* Every step leaves the call in progress in order.
LEMMA InCallNext == Shaped /\ InCall /\ [DriverNext]_driverVars => InCall'
<1> SUFFICES ASSUME Shaped, InCall, [DriverNext]_driverVars PROVE InCall'
  OBVIOUS
<1> USE DEF Records, Skips, Returns, history, position, InCall, AtCall, Here, staged
<1>0. ord \in Nat /\ Len(replay) \in Nat
  BY DEF IsSequence, Shaped
<1>1. CASE \E resume \in BOOLEAN : DriverBoot(resume)
  BY <1>1 DEF DriverBoot
<1>2. CASE Exits
  BY <1>2 DEF Exits, NothingInMemory
<1>3. CASE \E op \in Ops : CallRefused(op) \/ Diverges(op)
  BY <1>3 DEF CallRefused, Diverges
<1>4. CASE StepReplayed \/ StepStopped \/ \E how \in StepEnds : StepRuns(how)
  BY <1>4 DEF StepReplayed, StepStopped, StepRuns
<1>5. CASE \E op \in Asking : AsksBegin(op) \/ AsksLatched(op)
  BY <1>5 DEF AsksBegin, AsksLatched, Latched
<1>6. CASE Memoized \/ VerdictReplayed \/ VerdictDiverges \/ AsksEnd
  BY <1>6 DEF Memoized, VerdictReplayed, VerdictDiverges, AsksEnd, MustAsk, Verdict
<1>7. CASE \E grade \in UNION Range(Grades), written \in BOOLEAN : JudgeRuns(grade, written)
  BY <1>7 DEF JudgeRuns, MustAsk, Verdict
<1>8. CASE GateReplayed \/ GateFindsNothing \/ GateFails \/ GateStateRead
  BY <1>8 DEF GateReplayed, GateFindsNothing, GateFails, GateStateRead, AtLiveGate
<1>9. CASE \E outcome \in {"vetoed", "no-changes", "kept", "rolled-back", "no-improvement"} : GateDecides(outcome)
  <2>1. PICK outcome \in {"vetoed", "no-changes", "kept", "rolled-back", "no-improvement"} : GateDecides(outcome)
    BY <1>9
  <2>2. ord >= Len(replay)
    <3>1. Answered("gate") = "live"
      BY <2>1 DEF GateDecides, AtLiveGate
    <3> QED BY <3>1 DEF Answered
  <2>3. fate' \in {<<"vetoed">>, <<"no-changes">>, <<"kept">>, <<"rolled-back">>, <<"no-improvement">>}
    BY <2>1 DEF GateDecides
  <2> QED BY <2>1, <2>2, <2>3 DEF GateDecides, AtLiveGate
<1>10. CASE GateRecorded
  BY <1>10 DEF GateRecorded
<1>11. CASE NoteSilent \/ NoteDelivered
  BY <1>11 DEF NoteSilent, NoteDelivered
<1>12. CASE LimitsEnd \/ LimitsChecked
  BY <1>12 DEF LimitsEnd, LimitsChecked
<1>13. CASE \E op \in Waits : WaitReplayed(op)
  BY <1>13 DEF WaitReplayed
<1>14. CASE \E op \in Waits : WaitBegins(op)
  BY <1>14, <1>0 DEF WaitBegins, Answered
<1>15. CASE HilAnswered \/ BlockReleased
  BY <1>15 DEF HilAnswered, BlockReleased, Answers
<1>16. CASE \E does \in {"yes", "no", "resume", "stop"} : Human(does)
  BY <1>16 DEF Human
<1>17. CASE UNCHANGED driverVars
  BY <1>17 DEF driverVars
<1> QED
  BY <1>1, <1>2, <1>3, <1>4, <1>5, <1>6, <1>7, <1>8, <1>9, <1>10, <1>11, <1>12, <1>13, <1>14, <1>15, <1>16, <1>17
  DEF DriverNext

\* What a start and an exit leave.
LEMMA Restarts ==
  ASSUME Shaped, [DriverNext]_driverVars, mode = "off" \/ mode' = "off"
  PROVE  \/ \E resume \in BOOLEAN : DriverBoot(resume)
         \/ Exits
         \/ UNCHANGED driverVars
<1> USE DEF Records, Skips, Returns, position, AtCall
<1>1. ASSUME NEW op \in Ops, CallRefused(op) \/ Diverges(op) PROVE FALSE
  BY <1>1 DEF CallRefused, Diverges
<1>2. ASSUME NEW op \in Asking, AsksBegin(op) \/ AsksLatched(op) PROVE FALSE
  BY <1>2 DEF AsksBegin, AsksLatched
<1>3. ASSUME NEW how \in StepEnds, StepRuns(how) PROVE FALSE
  BY <1>3 DEF StepRuns
<1>4. ASSUME NEW grade, NEW written, JudgeRuns(grade, written) PROVE FALSE
  BY <1>4 DEF JudgeRuns, MustAsk, Verdict
<1>5. ASSUME NEW outcome, GateDecides(outcome) PROVE FALSE
  BY <1>5 DEF GateDecides, AtLiveGate
<1>6. ASSUME NEW op \in Waits, WaitReplayed(op) \/ WaitBegins(op) PROVE FALSE
  BY <1>6 DEF WaitReplayed, WaitBegins
<1>7. ASSUME NEW does, Human(does) PROVE FALSE
  BY <1>7 DEF Human
<1>8. ASSUME \/ StepReplayed \/ StepStopped \/ Memoized \/ VerdictReplayed \/ VerdictDiverges \/ AsksEnd
             \/ GateReplayed \/ GateFindsNothing \/ GateFails
      PROVE  FALSE
  BY <1>8 DEF StepReplayed, StepStopped, Memoized, VerdictReplayed, VerdictDiverges, AsksEnd, GateReplayed,
     GateFindsNothing, GateFails, MustAsk, Verdict, AtLiveGate
<1>9. ASSUME \/ GateRecorded \/ GateStateRead \/ NoteSilent \/ NoteDelivered \/ LimitsEnd \/ LimitsChecked
             \/ HilAnswered \/ BlockReleased
      PROVE  FALSE
  BY <1>9 DEF GateRecorded, GateStateRead, NoteSilent, NoteDelivered, LimitsEnd, LimitsChecked, HilAnswered,
     BlockReleased, Answers
<1> QED BY <1>1, <1>2, <1>3, <1>4, <1>5, <1>6, <1>7, <1>8, <1>9 DEF DriverNext

\* ... and the rows in line with the ordinal.
LEMMA TypesNext == Shaped /\ InCall /\ Lined /\ [DriverNext]_driverVars => Shaped' /\ Lined'
<1> SUFFICES ASSUME Shaped, InCall, Lined, [DriverNext]_driverVars PROVE Shaped' /\ Lined'
  OBVIOUS
<1>0. /\ Len(calls) \in Nat /\ Len(replay) \in Nat /\ ord \in Nat
      /\ IsSequence(<<>>) /\ Len(<<>>) = 0
  BY DEF Shaped, IsSequence
<1>1. CASE mode = "off" \/ mode' = "off"
  <2>1. CASE UNCHANGED driverVars
    BY <2>1 DEF driverVars, position, history, Shaped, Lined
  <2>2. CASE Exits
    BY <2>2, <1>0 DEF Exits, NothingInMemory, Shaped, Lined, Modes
  <2>3. CASE \E resume \in BOOLEAN : DriverBoot(resume)
    <3>1. PICK resume \in BOOLEAN : DriverBoot(resume)
      BY <2>3
    <3>2. IsSequence(calls')
      <4>1. PICK n \in Nat : LastKept(calls, n) /\ Truncated(calls) = SubSeq(calls, 1, n)
        BY TruncatedAtLast DEF Shaped
      <4>2. IsSequence(SubSeq(calls, 1, n))
        BY <4>1, Beginning DEF LastKept, Shaped
      <4> QED BY <4>1, <4>2, <3>1, <1>0 DEF DriverBoot
    <3>3. IsSequence(kept'.trail)
      BY <3>1, <1>0 DEF DriverBoot, Nothing, Shaped
    <3>4. Shaped'
      BY <3>1, <3>2, <3>3, <1>0 DEF DriverBoot, NothingInMemory, Shaped, Modes
    <3>5. replay' = calls' /\ ord' = 0 /\ Len(calls') \in Nat
      BY <3>1, <3>2 DEF DriverBoot, NothingInMemory, IsSequence
    <3>6. Lined'
      BY <3>5 DEF Lined
    <3> QED BY <3>4, <3>6
  <2> QED BY <2>1, <2>2, <2>3, <1>1, Restarts
<1>2. CASE mode # "off" /\ mode' # "off"
  <2>1. /\ OrdinalMoves /\ TrailGrows /\ (diverged => diverged') /\ (kept' = kept \/ kept'.trail = trail')
        /\ mode' \in Modes /\ answer' \in {"none", "yes", "no"} /\ ord' \in Nat
    BY <1>2, Positions
  <2>2. (calls' = calls \/ Grows) /\ flow' = flow /\ replay' = replay
    BY <1>2, RowsGrow
  <2>3. IsSequence(calls')
    <3>1. CASE calls' = calls
      BY <3>1 DEF Shaped
    <3>2. CASE Grows
      BY <3>2, Appended DEF Shaped, Grows
    <3> QED BY <3>1, <3>2, <2>2
  <2>4. IsSequence(trail')
    <3>1. CASE trail' = trail
      BY <3>1 DEF Shaped
    <3>2. CASE \E seen : trail' = Append(trail, <<loc, seen>>)
      BY <3>2, Appended DEF Shaped
    <3> QED BY <3>1, <3>2, <2>1 DEF TrailGrows
  <2>5. Shaped'
    <3>1. IsSequence(kept'.trail)
      BY <2>1, <2>4 DEF Shaped
    <3> QED BY <2>1, <2>2, <2>3, <2>4, <3>1 DEF Shaped
  <2>6. Lined'
    <3> SUFFICES ASSUME ~diverged' PROVE Lined'
      BY DEF Lined
    <3>1. /\ ord <= Len(calls) /\ Len(replay) <= Len(calls) /\ (\A i \in 1 .. Len(replay) : replay[i] = calls[i])
          /\ (ord < Len(replay) => Len(calls) = Len(replay)) /\ (ord >= Len(replay) => ord = Len(calls))
      BY <1>2, <2>1 DEF Lined
    <3>2. CASE calls' = calls /\ (ord' = ord \/ (ord' = ord + 1 /\ ord < Len(replay)))
      BY <3>1, <3>2, <2>2, <1>0 DEF Lined
    <3>3. CASE (\E e : calls' = Append(calls, e)) /\ ord' = ord + 1 /\ ord >= Len(replay)
      <4>1. Len(calls') = Len(calls) + 1 /\ \A i \in 1 .. Len(calls) : calls'[i] = calls[i]
        BY <3>3, Appended DEF Shaped
      <4>2. \A i \in 1 .. Len(replay) : replay[i] = calls'[i]
        BY <4>1, <3>1, <1>0
      <4> QED BY <4>1, <4>2, <3>1, <3>3, <2>2, <1>0 DEF Lined
    <3> QED BY <3>2, <3>3, <2>1 DEF OrdinalMoves
  <2> QED BY <2>5, <2>6
<1> QED BY <1>1, <1>2

\* What a replay makes of a step,
LEMMA MoveStep ==
  ASSUME NEW f, NEW x, NEW rows, CallsOn(f, x, {"step"})
  PROVE  Moved(f, x, rows) =
           Standing(Onward(f, x, rows[x.ord + 1].seen), "calling", x.queue, x.ord + 1, Unasked,
                    rows[x.ord + 1].mark[1], rows[x.ord + 1].mark[2], x.streak, Told(x, rows[x.ord + 1].seen))
BY DEF Moved, CallsOn, AsksKnown, AsksOne, AsksNone, Asking

\* of a call that asks judges,
LEMMA MoveAsk ==
  ASSUME NEW f, NEW x, NEW rows, CallsOn(f, x, Asking)
  PROVE  Moved(f, x, rows) =
           Standing(x.loc, "asking", f[x.loc].on, x.ord, x.cache, x.session, x.spent, x.streak, x.trail)
BY DEF Moved, CallsOn, AsksKnown, AsksOne, AsksNone, Asking

\* of a judge whose verdict is memoized,
LEMMA MoveKnown ==
  ASSUME NEW f, NEW x, NEW rows, AsksKnown(x)
  PROVE  Moved(f, x, rows) =
           Standing(x.loc, "asking", Tail(x.queue), x.ord, x.cache, x.session, x.spent, x.streak, x.trail)
BY DEF Moved, CallsOn, AsksKnown, AsksOne, AsksNone, Asking

\* of one whose verdict is read from its row,
LEMMA MoveOne ==
  ASSUME NEW f, NEW x, NEW rows, AsksOne(x)
  PROVE  Moved(f, x, rows) =
           Standing(x.loc, "asking", Tail(x.queue), x.ord + 1,
                    [x.cache EXCEPT ![Head(x.queue)] = rows[x.ord + 1].seen[1]], x.session, x.spent + 1, x.streak,
                    x.trail)
BY DEF Moved, CallsOn, AsksKnown, AsksOne, AsksNone, Asking

\* of the end of such a call,
LEMMA MoveNone ==
  ASSUME NEW f, NEW x, NEW rows, AsksNone(x)
  PROVE  Moved(f, x, rows) =
           Standing(Onward(f, x, AnswersTo(f, x)), "calling", x.queue, x.ord, x.cache, x.session, x.spent,
                    x.streak, Told(x, AnswersTo(f, x)))
BY DEF Moved, CallsOn, AsksKnown, AsksOne, AsksNone, Asking

\* of a gate,
LEMMA MoveGate ==
  ASSUME NEW f, NEW x, NEW rows, CallsOn(f, x, {"gate"})
  PROVE  Moved(f, x, rows) =
           Standing(Onward(f, x, rows[x.ord + 1].seen), "calling", x.queue, x.ord + 1, Unasked, x.session, x.spent,
                    rows[x.ord + 1].mark[1], Told(x, rows[x.ord + 1].seen))
BY DEF Moved, CallsOn, AsksKnown, AsksOne, AsksNone, Asking

\* of a look at the gate's state,
LEMMA MoveGateState ==
  ASSUME NEW f, NEW x, NEW rows, CallsOn(f, x, {"gate-state"})
  PROVE  Moved(f, x, rows) =
           Standing(Onward(f, x, StreakSeen(x)), "calling", x.queue, x.ord, x.cache, x.session, x.spent, x.streak,
                    Told(x, StreakSeen(x)))
BY DEF Moved, CallsOn, AsksKnown, AsksOne, AsksNone, Asking

\* of a look at the ceilings,
LEMMA MoveLimits ==
  ASSUME NEW f, NEW x, NEW rows, CallsOn(f, x, {"limits"})
  PROVE  Moved(f, x, rows) =
           Standing(Onward(f, x, <<"done">>), "calling", x.queue, x.ord, x.cache, x.session, x.spent, x.streak,
                    Told(x, <<"done">>))
BY DEF Moved, CallsOn, AsksKnown, AsksOne, AsksNone, Asking

\* of a note,
LEMMA MoveNote ==
  ASSUME NEW f, NEW x, NEW rows, CallsOn(f, x, {"note"})
  PROVE  Moved(f, x, rows) =
           Standing(Onward(f, x, <<"done">>), "calling", x.queue, x.ord + 1, x.cache, x.session, x.spent, x.streak,
                    Told(x, <<"done">>))
BY DEF Moved, CallsOn, AsksKnown, AsksOne, AsksNone, Asking

\* and of a call that waits for the operator.
LEMMA MoveWait ==
  ASSUME NEW f, NEW x, NEW rows, CallsOn(f, x, {"hil", "block"})
  PROVE  Moved(f, x, rows) =
           Standing(Onward(f, x, rows[x.ord + 1].seen), "calling", x.queue, x.ord + 1, x.cache, x.session, x.spent,
                    x.streak, Told(x, rows[x.ord + 1].seen))
BY DEF Moved, CallsOn, AsksKnown, AsksOne, AsksNone, Asking

\* A call answered from its row.
LEMMA RowRead ==
  ASSUME Shaped, Lined, mode # "off", ~diverged, NEW what, Answered(what) = "replay", calls' = calls
  PROVE  /\ ord < Len(calls') /\ ord < Len(replay) /\ calls'[ord + 1] = Row
         /\ Row.at = Here.at /\ Row.what = what
<1>1. ord \in Nat /\ Len(replay) \in Nat /\ Len(calls) \in Nat
  BY DEF Shaped, IsSequence
<1>2. ord < Len(replay) /\ Row.at = Here.at /\ Row.what = what
  BY <1>1 DEF Answered, Row
<1>3. ord + 1 \in 1 .. Len(replay)
  BY <1>1, <1>2
<1> QED BY <1>1, <1>2, <1>3 DEF Lined, Row

\* A call made live writes the row a replay will read.
LEMMA RowWritten ==
  ASSUME Shaped, Lined, mode # "off", ~diverged, ord >= Len(replay), NEW e, calls' = Append(calls, e)
  PROVE  ord < Len(calls') /\ calls'[ord + 1] = e
<1>1. ord \in Nat /\ Len(replay) \in Nat /\ Len(calls) \in Nat
  BY DEF Shaped, IsSequence
<1> QED BY <1>1, Appended DEF Shaped, Lined

\* Nothing is live before the rows are used up.
LEMMA LivePast ==
  ASSUME Shaped, NEW what, Answered(what) = "live"
  PROVE  ord >= Len(replay)
BY DEF Shaped, IsSequence, Answered

------------------------------------------------------------------------------
(* A step of the process is a step of the replay.                             *)

\* x is where the process stands: at the call it is in.
Stands(x) ==
    /\ x.loc = loc /\ x.queue = queue /\ x.ord = ord /\ x.session = session /\ x.spent = spent /\ x.trail = trail
    /\ x.mode = (IF mode \in {"waiting", "recording"} THEN "calling" ELSE mode)
    /\ mode # "recording" => x.streak = streak

\* A failed gate keeps the memoized verdicts, its replay forgets them.
Agrees(x, idle) == x.cache = cache \/ (x.cache = Unasked /\ mode # "asking" /\ loc \in idle /\ "failed" \in Stagings)

\* The step made of x what a replay of the row it left behind makes of it.
Follows(x, idle) ==
    /\ Ready(flow, x, calls', Len(calls'))
    /\ \E w : /\ w = Moved(flow, x, calls') /\ Stands(w)' /\ Agrees(w, idle)'
              /\ (x.cache = cache /\ calls' = calls => w.cache = cache')

Stays(x, idle) ==
    /\ calls' = calls /\ trail' = trail /\ Stands(x)' /\ Agrees(x, idle)'
    /\ (x.cache = cache => x.cache = cache')

\* Steps and replayed gates do what a replay of their rows does,
LEMMA CallFollows ==
  ASSUME Shaped, InCall, Lined, mode = "calling", ended = "no", ~diverged, NEW x, NEW idle, NEW last,
         Stands(x), Agrees(x, idle), x.cache = cache \/ (loc \notin last /\ Pauses(flow, idle, last))
  PROVE  /\ StepReplayed => Follows(x, idle)
         /\ \A how \in StepEnds : StepRuns(how) => Follows(x, idle)
         /\ GateReplayed => Follows(x, idle)
<1> USE DEF Stands, Agrees
<1>1. ASSUME StepReplayed PROVE Follows(x, idle)
  <2>0. CallsOn(flow, x, {"step"}) /\ calls' = calls /\ Answered(What(Here)) = "replay"
    BY <1>1 DEF CallsOn, StepReplayed, AtCall, Here, Skips
  <2>1. ord < Len(calls') /\ calls'[ord + 1] = Row /\ Row.at = Here.at /\ Row.what = What(Here)
    BY <2>0, RowRead
  <2>2. PICK w : w = Moved(flow, x, calls') /\ w =
          Standing(Onward(flow, x, Row.seen), "calling", queue, ord + 1, Unasked, Row.mark[1], Row.mark[2], streak,
                   Told(x, Row.seen))
    BY <2>0, <2>1, MoveStep
  <2>3. Ready(flow, x, calls', Len(calls'))
    BY <2>0, <2>1 DEF Ready, Wanted, Here, CallsOn
  <2>4. Stands(w)'
    BY <1>1, <2>0, <2>2 DEF Standing, StepReplayed, Skips, Returns, Onward, Told, Here
  <2>5. w.cache = cache'
    BY <1>1, <2>0, <2>2 DEF Standing, StepReplayed, StepRuns, GateReplayed, ForgetsAsks
  <2> QED BY <2>2, <2>3, <2>4, <2>5 DEF Follows
<1>2. ASSUME NEW how \in StepEnds, StepRuns(how) PROVE Follows(x, idle)
  <2> DEFINE e == [at |-> Here.at, what |-> What(Here), seen |-> <<how, "done">>, mark |-> <<session', spent'>>]
  <2>0. CallsOn(flow, x, {"step"}) /\ calls' = Append(calls, e) /\ Answered(What(Here)) = "live"
    BY <1>2 DEF CallsOn, StepRuns, AtCall, Here, Records
  <2>e. e.at = Here.at /\ e.what = What(Here) /\ e.seen = <<how, "done">> /\ e.mark[1] = session' /\ e.mark[2] = spent'
    OBVIOUS
  <2> HIDE DEF e
  <2>1. ord < Len(calls') /\ calls'[ord + 1] = e
    BY <2>0, LivePast, RowWritten
  <2>2. PICK w : w = Moved(flow, x, calls') /\ w =
          Standing(Onward(flow, x, <<how, "done">>), "calling", queue, ord + 1, Unasked, session', spent', streak,
                   Told(x, <<how, "done">>))
    BY <2>0, <2>1, <2>e, MoveStep
  <2>3. Ready(flow, x, calls', Len(calls'))
    BY <2>0, <2>1, <2>e DEF Ready, Wanted, Here, CallsOn
  <2>4. Stands(w)'
    BY <1>2, <2>0, <2>2 DEF Standing, StepRuns, Records, Returns, Onward, Told, Here
  <2>5. w.cache = cache'
    BY <1>2, <2>0, <2>2 DEF Standing, StepReplayed, StepRuns, GateReplayed, ForgetsAsks
  <2> QED BY <2>2, <2>3, <2>4, <2>5 DEF Follows
<1>3. ASSUME GateReplayed PROVE Follows(x, idle)
  <2>0. CallsOn(flow, x, {"gate"}) /\ calls' = calls /\ Answered("gate") = "replay"
    BY <1>3 DEF CallsOn, GateReplayed, AtCall, Here, Skips
  <2>1. ord < Len(calls') /\ calls'[ord + 1] = Row /\ Row.at = Here.at /\ Row.what = "gate"
    BY <2>0, RowRead
  <2>2. PICK w : w = Moved(flow, x, calls') /\ w =
          Standing(Onward(flow, x, Row.seen), "calling", queue, ord + 1, Unasked, session, spent, Row.mark[1],
                   Told(x, Row.seen))
    BY <2>0, <2>1, MoveGate
  <2>3. Ready(flow, x, calls', Len(calls'))
    BY <2>0, <2>1 DEF Ready, Wanted, What, Here, CallsOn
  <2>4. Stands(w)'
    BY <1>3, <2>0, <2>2 DEF Standing, GateReplayed, GateRestores, ForgetsAsks, Skips, Returns, Onward, Told, Here
  <2>5. w.cache = cache'
    BY <1>3, <2>0, <2>2 DEF Standing, StepReplayed, StepRuns, GateReplayed, ForgetsAsks
  <2> QED BY <2>2, <2>3, <2>4, <2>5 DEF Follows
<1> QED BY <1>1, <1>2, <1>3

\* and so do the calls that ask judges,
LEMMA AskFollows ==
  ASSUME Shaped, InCall, Lined, Running, ~diverged, NEW x, NEW idle, NEW last,
         Stands(x), Agrees(x, idle), x.cache = cache \/ (loc \notin last /\ Pauses(flow, idle, last))
  PROVE  /\ \A op \in Asking : AsksBegin(op) => Follows(x, idle)
         /\ Memoized => Follows(x, idle)
         /\ VerdictReplayed => Follows(x, idle)
         /\ \A grade, written : JudgeRuns(grade, written) /\ ~gap' => Follows(x, idle)
         /\ AsksEnd => Follows(x, idle)
<1> USE DEF Stands, Agrees, Running
<1>1. ASSUME NEW op \in Asking, AsksBegin(op) PROVE Follows(x, idle)
  <2>0. CallsOn(flow, x, Asking) /\ mode = "calling" /\ x.streak = streak /\ calls' = calls
    BY <1>1 DEF CallsOn, AsksOne, AsksKnown, AsksNone, MustAsk, AtCall, Here, InCall, AsksBegin, counters, history
  <2>2. PICK w : w = Moved(flow, x, calls') /\ w =
          Standing(loc, "asking", flow[loc].on, ord, x.cache, session, spent, streak,
                   trail)
    BY <2>0, MoveAsk
  <2>3. Ready(flow, x, calls', Len(calls'))
    BY <2>0 DEF Ready, CallsOn
  <2>4. Stands(w)'
    BY <1>1, <2>0, <2>2 DEF Standing, Onward, Told, StreakSeen, AnswersTo, Here, AsksBegin, counters, history
  <2>5. w.cache = cache'
    <3>1. x.cache = cache
      BY <2>0 DEF Pauses, CallsOn
    <3> QED BY <1>1, <2>2, <3>1 DEF Standing, AsksBegin, counters, history
  <2> QED BY <2>2, <2>3, <2>4, <2>5 DEF Follows
<1>2. ASSUME Memoized PROVE Follows(x, idle)
  <2>0. AsksKnown(x) /\ mode = "asking" /\ x.cache = cache /\ x.streak = streak /\ calls' = calls
    BY <1>2 DEF CallsOn, AsksOne, AsksKnown, AsksNone, MustAsk, AtCall, Here, InCall, Memoized, asks, counters, history
  <2>2. PICK w : w = Moved(flow, x, calls') /\ w =
          Standing(loc, "asking", Tail(queue), ord, x.cache, session, spent, streak,
                   trail)
    BY <2>0, MoveKnown
  <2>3. Ready(flow, x, calls', Len(calls'))
    BY <2>0 DEF Ready, CallsOn
  <2>4. Stands(w)'
    BY <1>2, <2>0, <2>2 DEF Standing, Onward, Told, StreakSeen, AnswersTo, Here, Memoized, asks, counters, history
  <2>5. w.cache = cache'
    BY <1>2, <2>0, <2>2 DEF Standing, Memoized, asks, counters, history
  <2> QED BY <2>2, <2>3, <2>4, <2>5 DEF Follows
<1>3. ASSUME VerdictReplayed PROVE Follows(x, idle)
  <2>0. AsksOne(x) /\ mode = "asking" /\ x.cache = cache /\ x.streak = streak /\ calls' = calls /\ Answered(Head(queue)) = "replay"
    BY <1>3 DEF CallsOn, AsksOne, MustAsk, AtCall, Here, VerdictReplayed, MustAsk, Verdict, Spend, Skips
  <2>1. ord < Len(calls') /\ calls'[ord + 1] = Row /\ Row.at = Here.at /\ Row.what = Head(queue)
    BY <2>0, RowRead
  <2>2. PICK w : w = Moved(flow, x, calls') /\ w =
          Standing(loc, "asking", Tail(queue), ord + 1, [cache EXCEPT ![Head(queue)] = Row.seen[1]], session, spent + 1, streak,
                   trail)
    BY <2>0, <2>1, MoveOne
  <2>3. Ready(flow, x, calls', Len(calls'))
    BY <2>0, <2>1 DEF Ready, Wanted, What, Here, CallsOn, AsksOne
  <2>4. Stands(w)'
    BY <1>3, <2>0, <2>2 DEF Standing, Onward, Told, Here, VerdictReplayed, MustAsk, Verdict, Spend, Skips
  <2>5. w.cache = cache'
    BY <1>3, <2>0, <2>2 DEF Standing, VerdictReplayed, MustAsk, Verdict, Spend, Skips
  <2> QED BY <2>2, <2>3, <2>4, <2>5 DEF Follows
<1>4. ASSUME NEW grade, NEW written, JudgeRuns(grade, written), ~gap' PROVE Follows(x, idle)
  <2> DEFINE e == [at |-> Here.at, what |-> Head(queue), seen |-> <<grade>>, mark |-> <<>>]
  <2>0. AsksOne(x) /\ mode = "asking" /\ x.cache = cache /\ x.streak = streak /\ calls' = Append(calls, e)
    BY <1>4 DEF CallsOn, AsksOne, MustAsk, InCall, Asking, Waits, AtCall, Here, JudgeRuns, Verdict, Records
  <2>p. ord >= Len(replay)
    BY <1>4, LivePast DEF JudgeRuns
  <2>e. e.at = Here.at /\ e.what = Head(queue) /\ e.seen = <<grade>> /\ e.seen[1] = grade
    OBVIOUS
  <2> HIDE DEF e
  <2>1. ord < Len(calls') /\ calls'[ord + 1] = e
    BY <2>0, <2>p, RowWritten
  <2>2. PICK w : w = Moved(flow, x, calls') /\ w =
          Standing(loc, "asking", Tail(queue), ord + 1, [cache EXCEPT ![Head(queue)] = grade], session, spent + 1, streak,
                   trail)
    BY <2>0, <2>1, <2>e, MoveOne
  <2>3. Ready(flow, x, calls', Len(calls'))
    BY <2>0, <2>1, <2>e DEF Ready, Wanted, What, Here, CallsOn, AsksOne
  <2>4. Stands(w)'
    BY <1>4, <2>0, <2>2 DEF Standing, Onward, Told, Here, JudgeRuns, Verdict, Records
  <2>5. w.cache = cache'
    BY <1>4, <2>0, <2>2 DEF Standing, JudgeRuns, Verdict, Records
  <2> QED BY <2>2, <2>3, <2>4, <2>5 DEF Follows
<1>5. ASSUME AsksEnd PROVE Follows(x, idle)
  <2>0. AsksNone(x) /\ mode = "asking" /\ x.cache = cache /\ x.streak = streak /\ calls' = calls
    BY <1>5 DEF CallsOn, AsksOne, AsksKnown, AsksNone, MustAsk, AtCall, Here, InCall, AsksEnd, Returns, counters, history
  <2>2. PICK w : w = Moved(flow, x, calls') /\ w =
          Standing(Onward(flow, x, AnswersTo(flow, x)), "calling", queue, ord, x.cache, session, spent, streak,
                   Told(x, AnswersTo(flow, x)))
    BY <2>0, MoveNone
  <2>3. Ready(flow, x, calls', Len(calls'))
    BY <2>0 DEF Ready, CallsOn
  <2>4. Stands(w)'
    <3>1. PICK seen : seen = AnswersTo(flow, x)
      OBVIOUS
    <3>2. seen = [i \in DOMAIN Here.on |-> cache[Here.on[i]]]
      BY <2>0, <3>1 DEF AnswersTo, Here
    <3>3. /\ loc' = Onward(flow, x, seen) /\ trail' = Told(x, seen) /\ mode' = "calling"
          /\ UNCHANGED <<queue, ord, session, spent, streak>>
      BY <1>5, <3>2 DEF AsksEnd, Returns, Onward, Told, Here, counters
    <3>4. w = Standing(Onward(flow, x, seen), "calling", queue, ord, x.cache, session, spent, streak, Told(x, seen))
      BY <2>2, <3>1
    <3> QED BY <3>3, <3>4 DEF Standing
  <2>5. w.cache = cache'
    BY <1>5, <2>0, <2>2 DEF Standing, AsksEnd, Returns, counters, history
  <2> QED BY <2>2, <2>3, <2>4, <2>5 DEF Follows
<1> QED BY <1>1, <1>2, <1>3, <1>4, <1>5

\* the live gates,
LEMMA GateFollows ==
  ASSUME Shaped, InCall, Lined, Running, ~diverged, NEW x, NEW idle, NEW last,
         Stands(x), Agrees(x, idle), x.cache = cache \/ (loc \notin last /\ Pauses(flow, idle, last))
  PROVE  /\ GateFails /\ loc \notin last /\ Pauses(flow, idle, last) => Follows(x, idle)
         /\ \A outcome : GateDecides(outcome) => Stays(x, idle)
         /\ GateRecorded => Follows(x, idle)
         /\ GateStateRead => Follows(x, idle)
<1> USE DEF Stands, Agrees, Running
<1>1. ASSUME GateFails, loc \notin last, Pauses(flow, idle, last) PROVE Follows(x, idle)
  <2> DEFINE e == [at |-> Here.at, what |-> "gate", seen |-> <<"failed">>, mark |-> <<streak>>]
  <2>0. CallsOn(flow, x, {"gate"}) /\ mode = "calling" /\ x.streak = streak /\ calls' = Append(calls, e)
    BY <1>1 DEF CallsOn, AsksOne, MustAsk, InCall, Asking, Waits, AtCall, Here, GateFails, AtLiveGate, Records, Returns, asks, counters
  <2>p. ord >= Len(replay)
    BY <1>1, LivePast DEF GateFails, AtLiveGate
  <2>e. e.at = Here.at /\ e.what = "gate" /\ e.seen = <<"failed">> /\ e.mark[1] = streak
    OBVIOUS
  <2> HIDE DEF e
  <2>1. ord < Len(calls') /\ calls'[ord + 1] = e
    BY <2>0, <2>p, RowWritten
  <2>2. PICK w : w = Moved(flow, x, calls') /\ w =
          Standing(Onward(flow, x, <<"failed">>), "calling", queue, ord + 1, Unasked, session, spent, streak,
                   Told(x, <<"failed">>))
    BY <2>0, <2>1, <2>e, MoveGate
  <2>3. Ready(flow, x, calls', Len(calls'))
    BY <2>0, <2>1, <2>e DEF Ready, Wanted, What, Here, CallsOn, AsksOne
  <2>4. Stands(w)'
    BY <1>1, <2>0, <2>2 DEF Standing, Onward, Told, Here, GateFails, AtLiveGate, Records, Returns, asks, counters
  <2>5. Agrees(w, idle)' /\ calls' # calls
    <3>1. w.cache = Unasked /\ mode' = "calling" /\ loc' = flow[loc].no /\ "failed" \in Stagings
      <4>1. ToSet(<<"failed">>) \cap Favourable = {}
        BY DEF ToSet, Favourable
      <4> QED BY <1>1, <2>0, <2>2, <4>1 DEF Standing, Here, GateFails, AtLiveGate, Records, Returns, asks, counters
    <3>2. loc' \in idle
      BY <2>0, <3>1, <1>1 DEF Pauses, CallsOn
    <3>3. calls' # calls
      BY <2>0, Appended DEF Shaped
    <3> QED BY <3>1, <3>2, <3>3
  <2> QED BY <2>2, <2>3, <2>4, <2>5 DEF Follows
<1>2. ASSUME NEW outcome, GateDecides(outcome) PROVE Stays(x, idle)
  BY <1>2 DEF GateDecides, AtLiveGate, AtCall, asks, history, Stays
<1>3. ASSUME GateRecorded PROVE Follows(x, idle)
  <2> DEFINE e == [at |-> Here.at, what |-> "gate", seen |-> fate, mark |-> <<streak>>]
  <2>0. CallsOn(flow, x, {"gate"}) /\ mode = "recording" /\ calls' = Append(calls, e)
    BY <1>3 DEF CallsOn, AsksOne, MustAsk, InCall, Asking, Waits, AtCall, Here, GateRecorded, ForgetsAsks, Records, Returns, counters
  <2>p. ord >= Len(replay)
    BY <1>3 DEF GateRecorded, InCall
  <2>e. e.at = Here.at /\ e.what = "gate" /\ e.seen = fate /\ e.mark[1] = streak
    OBVIOUS
  <2> HIDE DEF e
  <2>1. ord < Len(calls') /\ calls'[ord + 1] = e
    BY <2>0, <2>p, RowWritten
  <2>2. PICK w : w = Moved(flow, x, calls') /\ w =
          Standing(Onward(flow, x, fate), "calling", queue, ord + 1, Unasked, session, spent, streak,
                   Told(x, fate))
    BY <2>0, <2>1, <2>e, MoveGate
  <2>3. Ready(flow, x, calls', Len(calls'))
    BY <2>0, <2>1, <2>e DEF Ready, Wanted, What, Here, CallsOn, AsksOne
  <2>4. Stands(w)'
    BY <1>3, <2>0, <2>2 DEF Standing, Onward, Told, Here, GateRecorded, ForgetsAsks, Records, Returns, counters
  <2>5. w.cache = cache'
    BY <1>3, <2>0, <2>2 DEF Standing, GateRecorded, ForgetsAsks, Records, Returns, counters
  <2> QED BY <2>2, <2>3, <2>4, <2>5 DEF Follows
<1>4. ASSUME GateStateRead PROVE Follows(x, idle)
  <2>0. CallsOn(flow, x, {"gate-state"}) /\ mode = "calling" /\ x.streak = streak /\ calls' = calls
    BY <1>4 DEF CallsOn, AsksOne, AsksKnown, AsksNone, MustAsk, AtCall, Here, InCall, GateStateRead, Returns, asks, counters
  <2>2. PICK w : w = Moved(flow, x, calls') /\ w =
          Standing(Onward(flow, x, StreakSeen(x)), "calling", queue, ord, x.cache, session, spent, streak,
                   Told(x, StreakSeen(x)))
    BY <2>0, MoveGateState
  <2>3. Ready(flow, x, calls', Len(calls'))
    BY <2>0 DEF Ready, CallsOn
  <2>4. Stands(w)'
    BY <1>4, <2>0, <2>2 DEF Standing, Onward, Told, StreakSeen, AnswersTo, Here, GateStateRead, Returns, asks, counters
  <2>5. Agrees(w, idle)' /\ (x.cache = cache => w.cache = cache')
    <3>1. w.cache = x.cache /\ cache' = cache /\ mode' = "calling" /\ loc' \in {flow[loc].yes, flow[loc].no}
      BY <1>4, <2>0, <2>2 DEF Standing, Here, GateStateRead, Returns, asks, counters
    <3>2. x.cache = cache \/ loc' \in idle
      BY <2>0, <3>1 DEF Pauses, CallsOn, Asking
    <3> QED BY <3>1, <3>2
  <2> QED BY <2>2, <2>3, <2>4, <2>5 DEF Follows
<1> QED BY <1>1, <1>2, <1>3, <1>4

\* and notes, ceilings and the calls that wait.
LEMMA OperatorFollows ==
  ASSUME Shaped, InCall, Lined, Running, ~diverged, NEW x, NEW idle, NEW last,
         Stands(x), Agrees(x, idle), x.cache = cache \/ (loc \notin last /\ Pauses(flow, idle, last))
  PROVE  /\ NoteSilent => Follows(x, idle)
         /\ NoteDelivered /\ Running' /\ ~diverged' => Follows(x, idle)
         /\ LimitsChecked => Follows(x, idle)
         /\ \A op \in Waits : WaitReplayed(op) => Follows(x, idle)
         /\ \A op \in Waits : WaitBegins(op) /\ Running' => Stays(x, idle)
         /\ HilAnswered \/ BlockReleased => Follows(x, idle)
         /\ \A does : Human(does) => Stays(x, idle)
         /\ UNCHANGED driverVars => Stays(x, idle)
<1> USE DEF Stands, Agrees, Running
<1>1. ASSUME NoteSilent PROVE Follows(x, idle)
  <2>0. CallsOn(flow, x, {"note"}) /\ mode = "calling" /\ x.streak = streak /\ calls' = calls /\ Answered(What(Here)) = "replay"
    BY <1>1 DEF CallsOn, AsksOne, MustAsk, AtCall, Here, NoteSilent, Latched, Skips, Returns, asks, counters
  <2>1. ord < Len(calls') /\ calls'[ord + 1] = Row /\ Row.at = Here.at /\ Row.what = What(Here)
    BY <2>0, RowRead
  <2>2. PICK w : w = Moved(flow, x, calls') /\ w =
          Standing(Onward(flow, x, <<"done">>), "calling", queue, ord + 1, x.cache, session, spent, streak,
                   Told(x, <<"done">>))
    BY <2>0, <2>1, MoveNote
  <2>3. Ready(flow, x, calls', Len(calls'))
    BY <2>0, <2>1 DEF Ready, Wanted, What, Here, CallsOn, AsksOne
  <2>4. Stands(w)'
    BY <1>1, <2>0, <2>2 DEF Standing, Onward, Told, Here, NoteSilent, Latched, Skips, Returns, asks, counters
  <2>5. Agrees(w, idle)' /\ (x.cache = cache => w.cache = cache')
    <3>1. w.cache = x.cache /\ cache' = cache /\ mode' = "calling" /\ loc' \in {flow[loc].yes, flow[loc].no}
      BY <1>1, <2>0, <2>2 DEF Standing, Here, NoteSilent, Latched, Skips, Returns, asks, counters
    <3>2. x.cache = cache \/ loc' \in idle
      BY <2>0, <3>1 DEF Pauses, CallsOn, Asking
    <3> QED BY <3>1, <3>2
  <2> QED BY <2>2, <2>3, <2>4, <2>5 DEF Follows
<1>2. ASSUME NoteDelivered, Running', ~diverged' PROVE Follows(x, idle)
  <2> DEFINE e == [at |-> Here.at, what |-> What(Here), seen |-> <<"done">>, mark |-> <<>>]
  <2>0. CallsOn(flow, x, {"note"}) /\ mode = "calling" /\ x.streak = streak /\ calls' = Append(calls, e)
    BY <1>2 DEF CallsOn, AsksOne, MustAsk, InCall, Asking, Waits, AtCall, Here, NoteDelivered, Stops, Records, Returns, asks, counters
  <2>p. ord >= Len(replay)
    <3>1. Answered(What(Here)) = "live"
      BY <1>2 DEF NoteDelivered, Answered
    <3> QED BY <3>1, LivePast
  <2>e. e.at = Here.at /\ e.what = What(Here) /\ e.seen = <<"done">>
    OBVIOUS
  <2> HIDE DEF e
  <2>1. ord < Len(calls') /\ calls'[ord + 1] = e
    BY <2>0, <2>p, RowWritten
  <2>2. PICK w : w = Moved(flow, x, calls') /\ w =
          Standing(Onward(flow, x, <<"done">>), "calling", queue, ord + 1, x.cache, session, spent, streak,
                   Told(x, <<"done">>))
    BY <2>0, <2>1, <2>e, MoveNote
  <2>3. Ready(flow, x, calls', Len(calls'))
    BY <2>0, <2>1, <2>e DEF Ready, Wanted, What, Here, CallsOn, AsksOne
  <2>4. Stands(w)'
    BY <1>2, <2>0, <2>2 DEF Standing, Onward, Told, Here, NoteDelivered, Stops, Records, Returns, asks, counters
  <2>5. Agrees(w, idle)' /\ (x.cache = cache => w.cache = cache')
    <3>1. w.cache = x.cache /\ cache' = cache /\ mode' = "calling" /\ loc' \in {flow[loc].yes, flow[loc].no}
      BY <1>2, <2>0, <2>2 DEF Standing, Here, NoteDelivered, Stops, Records, Returns, asks, counters
    <3>2. x.cache = cache \/ loc' \in idle
      BY <2>0, <3>1 DEF Pauses, CallsOn, Asking
    <3> QED BY <3>1, <3>2
  <2> QED BY <2>2, <2>3, <2>4, <2>5 DEF Follows
<1>3. ASSUME LimitsChecked PROVE Follows(x, idle)
  <2>0. CallsOn(flow, x, {"limits"}) /\ mode = "calling" /\ x.streak = streak /\ calls' = calls
    BY <1>3 DEF CallsOn, AsksOne, AsksKnown, AsksNone, MustAsk, AtCall, Here, InCall, LimitsChecked, Returns, asks, counters
  <2>2. PICK w : w = Moved(flow, x, calls') /\ w =
          Standing(Onward(flow, x, <<"done">>), "calling", queue, ord, x.cache, session, spent, streak,
                   Told(x, <<"done">>))
    BY <2>0, MoveLimits
  <2>3. Ready(flow, x, calls', Len(calls'))
    BY <2>0 DEF Ready, CallsOn
  <2>4. Stands(w)'
    BY <1>3, <2>0, <2>2 DEF Standing, Onward, Told, StreakSeen, AnswersTo, Here, LimitsChecked, Returns, asks, counters
  <2>5. Agrees(w, idle)' /\ (x.cache = cache => w.cache = cache')
    <3>1. w.cache = x.cache /\ cache' = cache /\ mode' = "calling" /\ loc' \in {flow[loc].yes, flow[loc].no}
      BY <1>3, <2>0, <2>2 DEF Standing, Here, LimitsChecked, Returns, asks, counters
    <3>2. x.cache = cache \/ loc' \in idle
      BY <2>0, <3>1 DEF Pauses, CallsOn, Asking
    <3> QED BY <3>1, <3>2
  <2> QED BY <2>2, <2>3, <2>4, <2>5 DEF Follows
<1>4. ASSUME NEW op \in Waits, WaitReplayed(op) PROVE Follows(x, idle)
  <2>0. CallsOn(flow, x, {"hil", "block"}) /\ mode = "calling" /\ x.streak = streak /\ calls' = calls /\ Answered(What(Here)) = "replay"
    BY <1>4 DEF CallsOn, AsksOne, MustAsk, AtCall, Here, WaitReplayed, Waits, What, Skips, Returns, asks, counters
  <2>1. ord < Len(calls') /\ calls'[ord + 1] = Row /\ Row.at = Here.at /\ Row.what = What(Here)
    BY <2>0, RowRead
  <2>2. PICK w : w = Moved(flow, x, calls') /\ w =
          Standing(Onward(flow, x, Row.seen), "calling", queue, ord + 1, x.cache, session, spent, streak,
                   Told(x, Row.seen))
    BY <2>0, <2>1, MoveWait
  <2>3. Ready(flow, x, calls', Len(calls'))
    BY <2>0, <2>1 DEF Ready, Wanted, What, Here, CallsOn, AsksOne
  <2>4. Stands(w)'
    BY <1>4, <2>0, <2>2 DEF Standing, Onward, Told, Here, WaitReplayed, Waits, What, Skips, Returns, asks, counters
  <2>5. Agrees(w, idle)' /\ (x.cache = cache => w.cache = cache')
    <3>1. w.cache = x.cache /\ cache' = cache /\ mode' = "calling" /\ loc' \in {flow[loc].yes, flow[loc].no}
      BY <1>4, <2>0, <2>2 DEF Standing, Here, WaitReplayed, Waits, What, Skips, Returns, asks, counters
    <3>2. x.cache = cache \/ loc' \in idle
      BY <2>0, <3>1 DEF Pauses, CallsOn, Asking
    <3> QED BY <3>1, <3>2
  <2> QED BY <2>2, <2>3, <2>4, <2>5 DEF Follows
<1>5. ASSUME NEW op \in Waits, WaitBegins(op), Running' PROVE Stays(x, idle)
  BY <1>5 DEF WaitBegins, AtCall, Stops, asks, counters, Stays
<1>6. ASSUME NEW op, NEW seen, op \in Waits, Answers(op, seen), asks' = asks PROVE Follows(x, idle)
  <2> DEFINE e == [at |-> Here.at, what |-> op, seen |-> seen, mark |-> <<>>]
  <2>0. CallsOn(flow, x, {"hil", "block"}) /\ flow[loc].op = op /\ mode = "waiting" /\ x.streak = streak /\ calls' = Append(calls, e)
    BY <1>6 DEF CallsOn, AsksOne, MustAsk, InCall, Asking, Waits, AtCall, Here, Answers, Waits, Records, Returns, asks, counters
  <2>p. ord >= Len(replay)
    BY <1>6 DEF Answers, InCall
  <2>e. e.at = Here.at /\ e.what = op /\ e.seen = seen
    OBVIOUS
  <2> HIDE DEF e
  <2>1. ord < Len(calls') /\ calls'[ord + 1] = e
    BY <2>0, <2>p, RowWritten
  <2>2. PICK w : w = Moved(flow, x, calls') /\ w =
          Standing(Onward(flow, x, seen), "calling", queue, ord + 1, x.cache, session, spent, streak,
                   Told(x, seen))
    BY <2>0, <2>1, <2>e, MoveWait
  <2>3. Ready(flow, x, calls', Len(calls'))
    BY <2>0, <2>1, <2>e DEF Ready, Wanted, What, Here, CallsOn, AsksOne
  <2>4. Stands(w)'
    BY <1>6, <2>0, <2>2 DEF Standing, Onward, Told, Here, Answers, Waits, Records, Returns, asks, counters
  <2>5. Agrees(w, idle)' /\ (x.cache = cache => w.cache = cache')
    <3>1. w.cache = x.cache /\ cache' = cache /\ mode' = "calling" /\ loc' \in {flow[loc].yes, flow[loc].no}
      BY <1>6, <2>0, <2>2 DEF Standing, Here, Answers, Waits, Records, Returns, asks, counters
    <3>2. x.cache = cache \/ loc' \in idle
      BY <2>0, <3>1 DEF Pauses, CallsOn, Asking
    <3> QED BY <3>1, <3>2
  <2> QED BY <2>2, <2>3, <2>4, <2>5 DEF Follows
<1>7. ASSUME HilAnswered \/ BlockReleased PROVE Follows(x, idle)
  BY <1>6, <1>7 DEF HilAnswered, BlockReleased, Answers, Waits, asks
<1>8. ASSUME NEW does, Human(does) PROVE Stays(x, idle)
  BY <1>8 DEF Human, position, asks, counters, Stays
<1>9. ASSUME UNCHANGED driverVars PROVE Stays(x, idle)
  BY <1>9 DEF driverVars, position, asks, counters, history, Stays
<1> QED BY <1>1, <1>2, <1>3, <1>4, <1>5, <1>7, <1>8, <1>9

\* Every step of a run is one of the replay of its own rows, or leaves the replay where it is.
LEMMA EveryStep ==
  ASSUME Shaped, InCall, Lined, [DriverNext]_driverVars, Running, Running', ~diverged, ~diverged', ~gap',
         NEW x, NEW idle, NEW last, Stands(x), Agrees(x, idle),
         x.cache = cache \/ (loc \notin last /\ Pauses(flow, idle, last)),
         GateFails => loc \notin last /\ Pauses(flow, idle, last)
  PROVE  Follows(x, idle) \/ Stays(x, idle)
<1> USE DEF Running
<1>c. /\ mode = "calling" => /\ StepReplayed => Follows(x, idle)
                             /\ \A how \in StepEnds : StepRuns(how) => Follows(x, idle)
                             /\ GateReplayed => Follows(x, idle)
  BY CallFollows, Zenon
<1>a. /\ \A op \in Asking : AsksBegin(op) => Follows(x, idle)
      /\ Memoized => Follows(x, idle)
      /\ VerdictReplayed => Follows(x, idle)
      /\ \A grade, written : JudgeRuns(grade, written) /\ ~gap' => Follows(x, idle)
      /\ AsksEnd => Follows(x, idle)
  BY AskFollows, Zenon
<1>g. /\ GateFails => Follows(x, idle)
      /\ \A outcome : GateDecides(outcome) => Stays(x, idle)
      /\ GateRecorded => Follows(x, idle)
      /\ GateStateRead => Follows(x, idle)
  BY GateFollows, Zenon
<1>o. /\ NoteSilent => Follows(x, idle)
      /\ NoteDelivered /\ Running' /\ ~diverged' => Follows(x, idle)
      /\ LimitsChecked => Follows(x, idle)
      /\ \A op \in Waits : WaitReplayed(op) => Follows(x, idle)
      /\ \A op \in Waits : WaitBegins(op) /\ Running' => Stays(x, idle)
      /\ HilAnswered \/ BlockReleased => Follows(x, idle)
      /\ \A does : Human(does) => Stays(x, idle)
      /\ UNCHANGED driverVars => Stays(x, idle)
  BY OperatorFollows, Zenon
<1>1. CASE (\E resume \in BOOLEAN : DriverBoot(resume)) \/ Exits
  BY <1>1 DEF DriverBoot, Exits
<1>2. CASE \E op \in Ops : CallRefused(op) \/ Diverges(op)
  BY <1>2 DEF CallRefused, Diverges
<1>3. CASE StepReplayed \/ StepStopped \/ (\E how \in StepEnds : StepRuns(how)) \/ GateReplayed
  <2>1. ~StepStopped
    BY DEF StepStopped, Stops
  <2>2. mode = "calling"
    BY <1>3, <2>1 DEF StepReplayed, StepRuns, GateReplayed, AtCall
  <2> QED BY <1>3, <1>c, <2>1, <2>2
<1>4. CASE \E op \in Asking : AsksBegin(op) \/ AsksLatched(op)
  <2>1. \A op \in Asking : ~AsksLatched(op)
    BY DEF AsksLatched, Latched
  <2> QED BY <1>4, <1>a, <2>1
<1>5. CASE Memoized \/ VerdictReplayed \/ VerdictDiverges \/ AsksEnd
  <2>1. ~VerdictDiverges
    BY DEF VerdictDiverges
  <2> QED BY <1>5, <1>a, <2>1
<1>6. CASE \E grade \in UNION Range(Grades), written \in BOOLEAN : JudgeRuns(grade, written)
  BY <1>6, <1>a
<1>7. CASE GateFindsNothing
  BY <1>7 DEF GateFindsNothing
<1>8. CASE \/ GateFails \/ GateRecorded \/ GateStateRead
           \/ \E outcome \in {"vetoed", "no-changes", "kept", "rolled-back", "no-improvement"} : GateDecides(outcome)
  BY <1>8, <1>g
<1>9. CASE LimitsEnd
  BY <1>9 DEF LimitsEnd, Stops
<1>10. CASE NoteSilent \/ NoteDelivered \/ LimitsChecked \/ HilAnswered \/ BlockReleased
  BY <1>10, <1>o
<1>11. CASE \E op \in Waits : WaitReplayed(op) \/ WaitBegins(op)
  BY <1>11, <1>o
<1>12. CASE (\E does \in {"yes", "no", "resume", "stop"} : Human(does)) \/ UNCHANGED driverVars
  BY <1>12, <1>o
<1> QED
  BY <1>1, <1>2, <1>3, <1>4, <1>5, <1>6, <1>7, <1>8, <1>9, <1>10, <1>11, <1>12 DEF DriverNext

\* While rows are left, nothing is live: no row is written, no span is staged or judged.
LEMMA NothingIsLive ==
  ASSUME Shaped, InCall, Lined, [DriverNext]_driverVars, Running, Running', ~diverged, mode \in {"calling", "asking"},
         NEW x, Stands(x), x.cache = cache, Ready(flow, x, calls, Len(replay))
  PROVE  /\ calls' = calls /\ ~diverged' /\ gap' = gap /\ mode' \in {"calling", "asking"} /\ staged' = staged
         /\ ~GateFails
         /\ mode = "calling" /\ loc \in DOMAIN flow /\ flow[loc].op = "gate" => trail' = trail \/ ForgetsAsks
<1> USE DEF Running, AtCall, Here
<1>0. /\ ord \in Nat /\ Len(replay) \in Nat
      /\ ord < Len(replay) => replay[ord + 1] = calls[ord + 1]
  <2>1. ord \in Nat /\ Len(replay) \in Nat
    BY DEF Shaped, IsSequence
  <2>2. ord < Len(replay) => ord + 1 \in 1 .. Len(replay)
    BY <2>1
  <2> QED BY <2>1, <2>2 DEF Lined
<1>r. mode = "calling" /\ loc \in DOMAIN flow /\ flow[loc].op \in {"step", "gate", "note", "hil", "block"}
      => Answered(What(flow[loc])) = "replay"
  BY <1>0 DEF Ready, Stands, CallsOn, AsksOne, AsksKnown, AsksNone, Wanted, Answered, Asking
<1>m. MustAsk => Answered(Head(queue)) = "replay"
  BY <1>0 DEF MustAsk, Ready, Stands, CallsOn, AsksOne, AsksKnown, AsksNone, Wanted, Answered, Asking
<1>g. mode = "calling" /\ loc \in DOMAIN flow /\ flow[loc].op \in {"gate", "hil", "block"}
      => Answered(flow[loc].op) = "replay"
  BY <1>r DEF What
<1>f. ~GateFails
  BY <1>g DEF GateFails, AtLiveGate
<1> USE <1>f DEF Skips, Returns, history, position, staged
<1>1. CASE (\E resume \in BOOLEAN : DriverBoot(resume)) \/ Exits
  BY <1>1 DEF DriverBoot, Exits
<1>2. CASE \E op \in Ops : CallRefused(op) \/ Diverges(op)
  BY <1>2, <1>r DEF CallRefused, Diverges
<1>3. CASE StepReplayed
  BY <1>3 DEF StepReplayed
<1>4. CASE StepStopped \/ \E how \in StepEnds : StepRuns(how)
  BY <1>4, <1>r DEF StepStopped, StepRuns
<1>5. CASE \E op \in Asking : AsksBegin(op) \/ AsksLatched(op)
  BY <1>5 DEF AsksBegin, AsksLatched, Asking
<1>6. CASE Memoized \/ AsksEnd
  BY <1>6 DEF Memoized, AsksEnd
<1>7. CASE VerdictReplayed
  BY <1>7, <1>m DEF VerdictReplayed, Verdict, MustAsk
<1>8. CASE VerdictDiverges \/ \E grade \in UNION Range(Grades), written \in BOOLEAN : JudgeRuns(grade, written)
  BY <1>8, <1>m DEF VerdictDiverges, JudgeRuns
<1>9. CASE GateReplayed
  BY <1>9 DEF GateReplayed, GateFails, AtLiveGate
<1>10. CASE GateFindsNothing \/ GateFails
  BY <1>10, <1>g DEF GateFindsNothing, GateFails, AtLiveGate
<1>11. CASE \E outcome \in {"vetoed", "no-changes", "kept", "rolled-back", "no-improvement"} : GateDecides(outcome)
  BY <1>11, <1>g DEF GateDecides, AtLiveGate
<1>12. CASE GateRecorded
  BY <1>12 DEF GateRecorded
<1>13. CASE GateStateRead \/ LimitsEnd \/ LimitsChecked
  BY <1>13 DEF GateStateRead, LimitsEnd, LimitsChecked, Stops
<1>14. CASE NoteSilent
  BY <1>14 DEF NoteSilent, Latched
<1>15. CASE NoteDelivered
  BY <1>15, <1>r DEF NoteDelivered
<1>16. CASE \E op \in Waits : WaitReplayed(op)
  BY <1>16 DEF WaitReplayed, Waits
<1>17. CASE \E op \in Waits : WaitBegins(op)
  BY <1>17, <1>g DEF WaitBegins, Waits
<1>18. CASE HilAnswered \/ BlockReleased
  BY <1>18 DEF HilAnswered, BlockReleased, Answers
<1>19. CASE \E does \in {"yes", "no", "resume", "stop"} : Human(does)
  BY <1>19 DEF Human
<1>20. CASE UNCHANGED driverVars
  BY <1>20 DEF driverVars
<1> QED
  BY <1>1, <1>2, <1>3, <1>4, <1>5, <1>6, <1>7, <1>8, <1>9, <1>10, <1>11, <1>12, <1>13, <1>14, <1>15, <1>16,
     <1>17, <1>18, <1>19, <1>20 DEF DriverNext

------------------------------------------------------------------------------
(* The process is where its ledger leads.                                     *)

Precedes(s, t) == Len(s) <= Len(t) /\ \A i \in 1 .. Len(s) : s[i] = t[i]

\* H holds the start and what follows it under the first n rows, up to x.
Chain(f, H, rows, n, x) ==
    /\ Origin \in H /\ x \in H
    /\ \A y \in H : /\ y.ord \in Nat /\ IsSequence(y.trail) /\ Precedes(y.trail, x.trail)
                    /\ y = x \/ (Ready(f, y, rows, n) /\ Moved(f, y, rows) \in H)

\* A pair of idle and last, for a driver that has one.
Places(f) == CHOOSE p \in (SUBSET Nat) \X (SUBSET Nat) : Pauses(f, p[1], p[2])
GatesAhead == "failed" \in Stagings => loc \notin Places(flow)[2]

Followed ==
    Running /\ ~gap /\ ~diverged /\ GatesAhead =>
        \E H, x : Stands(x) /\ Agrees(x, Places(flow)[1]) /\ Chain(flow, H, calls, Len(calls), x)

\* A chain of one.
LEMMA StartChain ==
  ASSUME NEW f, NEW rows, NEW n
  PROVE  Chain(f, {Origin}, rows, n, Origin)
BY DEF Chain, Origin, Standing, Precedes, IsSequence

\* A chain grows with the move of its end.
LEMMA LongerChain ==
  ASSUME NEW f, NEW H, NEW rows, NEW more, NEW n \in Nat, NEW m \in Nat, NEW x, Chain(f, H, rows, n, x), n <= m,
         \A i \in 1 .. n : rows[i] = more[i],
         Ready(f, x, more, m), NEW w, w = Moved(f, x, more), w.ord \in Nat, IsSequence(w.trail),
         Precedes(x.trail, w.trail)
  PROVE  Chain(f, H \cup {w}, more, m, w)
<1>1. ASSUME NEW y \in H
      PROVE  /\ y.ord \in Nat /\ IsSequence(y.trail) /\ Precedes(y.trail, w.trail)
             /\ Ready(f, y, more, m) /\ Moved(f, y, more) \in H \cup {w}
  <2>1. y.ord \in Nat /\ IsSequence(y.trail) /\ IsSequence(x.trail) /\ Precedes(y.trail, x.trail)
    BY DEF Chain
  <2>2. Precedes(y.trail, w.trail)
    <3>1. Len(y.trail) \in Nat /\ Len(x.trail) \in Nat /\ Len(w.trail) \in Nat
      BY <2>1 DEF IsSequence
    <3> QED BY <3>1, <2>1 DEF Precedes
  <2>3. CASE y = x
    BY <2>1, <2>2, <2>3
  <2>4. CASE y # x
    <3>1. Ready(f, y, rows, n) /\ Moved(f, y, rows) \in H
      BY <2>4 DEF Chain
    <3>2. Ready(f, y, more, m) /\ Moved(f, y, more) = Moved(f, y, rows)
      BY <3>1, <2>1, SameMove
    <3> QED BY <2>1, <2>2, <3>1, <3>2
  <2> QED BY <2>3, <2>4
<1>2. Precedes(w.trail, w.trail)
  BY DEF Precedes, IsSequence
<1> QED BY <1>1, <1>2 DEF Chain

\* A step that follows makes the chain longer.
LEMMA FollowsOn ==
  ASSUME Shaped, Shaped', calls' = calls \/ Grows, TrailGrows, NEW x, Stands(x), NEW idle, Follows(x, idle), NEW H,
         Chain(flow, H, calls, Len(calls), x)
  PROVE  \E w : /\ Stands(w)' /\ Agrees(w, idle)' /\ Chain(flow, H \cup {w}, calls', Len(calls'), w)
                /\ w = Moved(flow, x, calls')
<1>1. PICK w : w = Moved(flow, x, calls') /\ Stands(w)' /\ Agrees(w, idle)'
  BY DEF Follows
<1>2. /\ Len(calls) \in Nat /\ Len(calls') \in Nat /\ Len(calls) <= Len(calls')
      /\ \A i \in 1 .. Len(calls) : calls[i] = calls'[i]
  <2>1. CASE calls' = calls
    BY <2>1 DEF Shaped, IsSequence
  <2>2. CASE Grows
    <3>1. PICK e : calls' = Append(calls, e)
      BY <2>2 DEF Grows
    <3> QED BY <3>1, Appended DEF Shaped
  <2> QED BY <2>1, <2>2
<1>3. Precedes(trail, trail')
  <2>1. CASE trail' = trail
    BY <2>1 DEF Precedes, Shaped, IsSequence
  <2>2. CASE \E seen : trail' = Append(trail, <<loc, seen>>)
    BY <2>2, Appended DEF Precedes, Shaped
  <2> QED BY <2>1, <2>2 DEF TrailGrows
<1>4. w.ord \in Nat /\ IsSequence(w.trail) /\ Precedes(x.trail, w.trail)
  BY <1>1, <1>3 DEF Stands, Shaped
<1>5. Ready(flow, x, calls', Len(calls'))
  BY DEF Follows
<1>6. Chain(flow, H \cup {w}, calls', Len(calls'), w)
  BY <1>1, <1>2, <1>4, <1>5, LongerChain
<1> QED BY <1>1, <1>6

\* Every step keeps a chain from the start to where the process stands.
LEMMA FollowedNext ==
  ASSUME AskedAfresh,
         Shaped, InCall, Lined, Followed, [DriverNext]_driverVars, Shaped'
  PROVE  Followed'
<1> SUFFICES ASSUME Running', ~gap', ~diverged', GatesAhead'
             PROVE  (\E H, x : Stands(x) /\ Agrees(x, Places(flow)[1]) /\ Chain(flow, H, calls, Len(calls), x))'
  BY DEF Followed
<1>1. CASE mode = "off"
  <2>1. PICK resume \in BOOLEAN : DriverBoot(resume)
    BY <1>1, Restarts DEF Running, Exits, driverVars, position
  <2>2. Stands(Origin)' /\ Agrees(Origin, Places(flow)[1])'
    BY <2>1 DEF DriverBoot, NothingInMemory, Stands, Agrees, Origin, Standing
  <2>3. Chain(flow', {Origin}, calls', Len(calls'), Origin)
    BY StartChain
  <2> QED BY <2>2, <2>3
<1>2. CASE mode # "off"
  <2>1. mode' # "off" /\ ended' = "no"
    BY DEF Running
  <2>2. /\ OrdinalMoves /\ TrailGrows /\ (diverged => diverged') /\ (ended # "no" => ended' # "no" /\ calls' = calls)
        /\ GoesOn /\ (gap => gap')
    BY <1>2, <2>1, Positions
  <2>3. (calls' = calls \/ Grows) /\ flow' = flow
    BY <1>2, <2>1, RowsGrow
  <2>4. Running /\ ~gap /\ ~diverged
    BY <1>2, <2>1, <2>2 DEF Running
  <2>i. PICK idle, last : idle = Places(flow)[1] /\ last = Places(flow)[2]
    OBVIOUS
  <2>5. "failed" \in Stagings => loc \notin last /\ Pauses(flow, idle, last)
    <3> SUFFICES ASSUME "failed" \in Stagings PROVE loc \notin last /\ Pauses(flow, idle, last)
      OBVIOUS
    <3>1. Pauses(flow, idle, last)
      BY <2>i DEF AskedAfresh, AsksAfresh, Places, Shaped
    <3>2. loc' \notin last
      BY <2>3, <2>i DEF GatesAhead
    <3>3. loc' = loc \/ (loc \in DOMAIN flow /\ loc' \in {flow[loc].yes, flow[loc].no})
      BY <2>1, <2>2 DEF GoesOn
    <3> QED BY <3>1, <3>2, <3>3 DEF Pauses
  <2>6. PICK H, x : Stands(x) /\ Agrees(x, idle) /\ Chain(flow, H, calls, Len(calls), x)
    <3>1. GatesAhead
      BY <2>5, <2>i DEF GatesAhead
    <3> QED BY <2>4, <2>i, <3>1 DEF Followed
  <2>7. idle = Places(flow')[1]
    BY <2>3, <2>i
  <2>8. Follows(x, idle) \/ Stays(x, idle)
    <3>1. x.cache = cache \/ (loc \notin last /\ Pauses(flow, idle, last))
      BY <2>5, <2>6 DEF Agrees
    <3>2. GateFails => loc \notin last /\ Pauses(flow, idle, last)
      BY <2>5 DEF GateFails
    <3> QED BY <2>4, <2>6, <3>1, <3>2, EveryStep
  <2>9. CASE Follows(x, idle)
    <3>1. PICK w : /\ Stands(w)' /\ Agrees(w, idle)' /\ Chain(flow, H \cup {w}, calls', Len(calls'), w)
                   /\ w = Moved(flow, x, calls')
      BY <2>2, <2>3, <2>6, <2>9, FollowsOn
    <3> QED BY <3>1, <2>3, <2>7
  <2>10. CASE Stays(x, idle)
    BY <2>10, <2>6, <2>3, <2>7 DEF Stays
  <2> QED BY <2>8, <2>9, <2>10
<1> QED BY <1>1, <1>2
------------------------------------------------------------------------------
(* The replay leads to the last kept gate.                                    *)

\* The rows up to the n-th lead from the start to z, the driver as of the kept gate.
Memory(n, H, z) ==
    /\ Chain(flow, H, calls, n, z)
    /\ z.trail = kept.trail /\ z.ord = n /\ z.mode = "calling"
    /\ \A y \in H : y = z \/ Len(y.trail) < Len(z.trail)
    /\ kept.trail # <<>> =>
           /\ kept.state = <<z.session, z.spent, z.streak, {}, FALSE, FALSE, Unasked, Unasked, {}, {}>>
           /\ z.cache = Unasked
           /\ \E i \in DOMAIN flow : kept.trail[Len(kept.trail)][1] = i /\ flow[i].op = "gate"

\* The process has made every call of the kept trail,
Beyond ==
    /\ ord >= Len(replay) /\ Precedes(kept.trail, trail)
    /\ mode = "calling" /\ kept.trail # <<>> /\ Len(trail) = Len(kept.trail) => AggState = kept.state

\* or is on the way there, with nothing staged and nothing but rows to read.
Led(n, H, z) ==
    /\ Len(replay) = n /\ ~gap /\ mode \in {"calling", "asking"}
    /\ tip = {} /\ changed = FALSE /\ violation = FALSE
    /\ \E y \in H : y # z /\ Stands(y) /\ y.cache = cache

Underway(n, H, z) == mode = "off" \/ ended # "no" \/ (~diverged /\ (Beyond \/ Led(n, H, z)))
Retraced == ~kept.gap => \E n, H, z : LastKept(calls, n) /\ Memory(n, H, z) /\ Underway(n, H, z)

\* There is one last kept gate.
LEMMA LastKeptOnce ==
  ASSUME NEW rows, IsSequence(rows), NEW n, NEW m, LastKept(rows, n), LastKept(rows, m)
  PROVE  n = m
<1>1. Len(rows) \in Nat /\ n \in 0 .. Len(rows) /\ m \in 0 .. Len(rows)
  BY DEF IsSequence, LastKept
<1>2. ~(n < m)
  <2> SUFFICES ASSUME n < m PROVE FALSE
    OBVIOUS
  <2>1. m # 0 /\ m \in n + 1 .. Len(rows)
    BY <1>1
  <2> QED BY <2>1 DEF LastKept
<1>3. ~(m < n)
  <2> SUFFICES ASSUME m < n PROVE FALSE
    OBVIOUS
  <2>1. n # 0 /\ n \in m + 1 .. Len(rows)
    BY <1>1
  <2> QED BY <2>1 DEF LastKept
<1> QED BY <1>1, <1>2, <1>3

\* Rows that agree on the first n lead the same way.
LEMMA SameChain ==
  ASSUME NEW f, NEW H, NEW rows, NEW more, NEW n \in Nat, NEW x, Chain(f, H, rows, n, x),
         \A i \in 1 .. n : rows[i] = more[i]
  PROVE  Chain(f, H, more, n, x)
<1>1. ASSUME NEW y \in H, y # x PROVE Ready(f, y, more, n) /\ Moved(f, y, more) \in H
  <2>1. y.ord \in Nat /\ Ready(f, y, rows, n) /\ Moved(f, y, rows) \in H
    BY <1>1 DEF Chain
  <2>2. Ready(f, y, more, n) /\ Moved(f, y, more) = Moved(f, y, rows)
    BY <2>1, SameMove
  <2> QED BY <2>1, <2>2
<1> QED BY <1>1 DEF Chain

\* What is remembered of the kept gate outlives every step that keeps the rows up to it.
LEMMA SameMemory ==
  ASSUME NEW n \in Nat, NEW H, NEW z, Memory(n, H, z), flow' = flow, kept' = kept,
         \A i \in 1 .. n : calls[i] = calls'[i]
  PROVE  Memory(n, H, z)'
<1>1. Chain(flow, H, calls', n, z)
  BY SameChain DEF Memory
<1> QED BY <1>1 DEF Memory

\* Rows that are no kept gate leave the last one where it is.
LEMMA KeptRows ==
  ASSUME Shaped, NEW n, LastKept(calls, n),
         calls' = calls \/ \E e : calls' = Append(calls, e) /\ ~IsKeptGate(e)
  PROVE  LastKept(calls', n) /\ n \in Nat /\ \A i \in 1 .. n : calls[i] = calls'[i]
<1>1. Len(calls) \in Nat /\ n \in 0 .. Len(calls)
  BY DEF Shaped, IsSequence, LastKept
<1>2. CASE calls' = calls
  BY <1>1, <1>2
<1>3. CASE \E e : calls' = Append(calls, e) /\ ~IsKeptGate(e)
  <2>1. PICK e : calls' = Append(calls, e) /\ ~IsKeptGate(e)
    BY <1>3
  <2>2. /\ Len(calls') = Len(calls) + 1 /\ calls'[Len(calls) + 1] = e
        /\ \A i \in 1 .. Len(calls) : calls'[i] = calls[i]
    BY <2>1, Appended DEF Shaped
  <2>3. n # 0 => IsKeptGate(calls'[n])
    BY <1>1, <2>2 DEF LastKept
  <2>4. ASSUME NEW i \in n + 1 .. Len(calls') PROVE ~IsKeptGate(calls'[i])
    <3>1. CASE i = Len(calls) + 1
      BY <3>1, <2>1, <2>2
    <3>2. CASE i \in n + 1 .. Len(calls)
      BY <3>2, <1>1, <2>2 DEF LastKept
    <3> QED BY <3>1, <3>2, <2>2, <1>1
  <2> QED BY <1>1, <2>2, <2>3, <2>4 DEF LastKept
<1> QED BY <1>2, <1>3

\* A gate that decided to keep is left only by its record.
LEMMA Keeping ==
  ASSUME Shaped, InCall, [DriverNext]_driverVars, mode = "recording", mode' # "off", ~GateRecorded
  PROVE  kept' = kept /\ calls' = calls
<1> USE DEF AtCall, history
<1>1. CASE (\E resume \in BOOLEAN : DriverBoot(resume)) \/ Exits
  BY <1>1 DEF DriverBoot, Exits
<1>2. CASE \E op \in Ops : CallRefused(op) \/ Diverges(op)
  BY <1>2 DEF CallRefused, Diverges
<1>3. CASE StepReplayed \/ StepStopped \/ \E how \in StepEnds : StepRuns(how)
  BY <1>3 DEF StepReplayed, StepStopped, StepRuns
<1>4. CASE \E op \in Asking : AsksBegin(op) \/ AsksLatched(op)
  BY <1>4 DEF AsksBegin, AsksLatched
<1>5. CASE Memoized \/ VerdictReplayed \/ VerdictDiverges \/ AsksEnd
  BY <1>5 DEF Memoized, VerdictReplayed, VerdictDiverges, AsksEnd, MustAsk
<1>6. CASE \E grade \in UNION Range(Grades), written \in BOOLEAN : JudgeRuns(grade, written)
  BY <1>6 DEF JudgeRuns, MustAsk
<1>7. CASE GateReplayed \/ GateFindsNothing \/ GateFails
  BY <1>7 DEF GateReplayed, GateFindsNothing, GateFails, AtLiveGate
<1>8. CASE \E outcome \in {"vetoed", "no-changes", "kept", "rolled-back", "no-improvement"} : GateDecides(outcome)
  BY <1>8 DEF GateDecides, AtLiveGate
<1>9. CASE GateStateRead \/ NoteSilent \/ NoteDelivered \/ LimitsEnd \/ LimitsChecked
  BY <1>9 DEF GateStateRead, NoteSilent, NoteDelivered, LimitsEnd, LimitsChecked
<1>10. CASE \E op \in Waits : WaitReplayed(op) \/ WaitBegins(op)
  BY <1>10 DEF WaitReplayed, WaitBegins
<1>11. CASE HilAnswered \/ BlockReleased
  BY <1>11 DEF HilAnswered, BlockReleased, Answers
<1>12. CASE \E does \in {"yes", "no", "resume", "stop"} : Human(does)
  BY <1>12 DEF Human
<1>13. CASE UNCHANGED driverVars
  BY <1>13 DEF driverVars
<1> QED
  BY <1>1, <1>2, <1>3, <1>4, <1>5, <1>6, <1>7, <1>8, <1>9, <1>10, <1>11, <1>12, <1>13 DEF DriverNext

\* Past the rows nothing diverges, and the gate's state stays until the next call returns;
\* and the step that ends a run writes no row.
LEMMA PastTheRows ==
  ASSUME Shaped, InCall, [DriverNext]_driverVars, Running, mode' # "off"
  PROVE  /\ ord >= Len(replay) /\ ~diverged => ~diverged'
         /\ ended' = "no" /\ ~diverged' /\ trail' = trail /\ mode' = "calling" => mode = "calling" /\ AggState' = AggState
         /\ ended' # "no" => calls' = calls
<1> USE DEF AtCall, Running, history
<1>t. /\ trail' = trail => \A seen : trail' # Append(trail, <<loc, seen>>)
      /\ ord \in Nat /\ Len(replay) \in Nat
  BY Appended DEF Shaped, IsSequence
<1>1. CASE (\E resume \in BOOLEAN : DriverBoot(resume)) \/ Exits
  BY <1>1 DEF DriverBoot, Exits
<1>2. CASE \E op \in Ops : CallRefused(op) \/ Diverges(op)
  BY <1>2, <1>t DEF CallRefused, Diverges, Answered
<1>3. CASE StepReplayed \/ StepStopped \/ \E how \in StepEnds : StepRuns(how)
  <2>1. CASE StepReplayed
    BY <2>1, <1>t DEF StepReplayed, Returns
  <2>2. CASE StepStopped
    BY <2>2 DEF StepStopped, Stops
  <2>3. CASE \E how \in StepEnds : StepRuns(how)
    BY <2>3, <1>t DEF StepRuns, Returns
  <2> QED BY <1>3, <2>1, <2>2, <2>3
<1>4. CASE \E op \in Asking : AsksBegin(op) \/ AsksLatched(op)
  BY <1>4 DEF AsksBegin, AsksLatched, Latched
<1>5. CASE Memoized \/ VerdictReplayed \/ AsksEnd
  BY <1>5, <1>t DEF Memoized, VerdictReplayed, AsksEnd, MustAsk, Verdict, Returns
<1>6. CASE VerdictDiverges
  BY <1>6, <1>t DEF VerdictDiverges, MustAsk, Verdict, Answered
<1>7. CASE \E grade \in UNION Range(Grades), written \in BOOLEAN : JudgeRuns(grade, written)
  BY <1>7 DEF JudgeRuns, MustAsk, Verdict
<1>8. CASE GateReplayed \/ GateFindsNothing \/ GateFails \/ GateRecorded
  BY <1>8, <1>t DEF GateReplayed, GateFindsNothing, GateFails, GateRecorded, AtLiveGate, Returns
<1>9. CASE \E outcome \in {"vetoed", "no-changes", "kept", "rolled-back", "no-improvement"} : GateDecides(outcome)
  BY <1>9 DEF GateDecides, AtLiveGate
<1>10. CASE GateStateRead \/ NoteSilent \/ LimitsChecked
  BY <1>10, <1>t DEF GateStateRead, NoteSilent, LimitsChecked, Returns
<1>11. CASE NoteDelivered
  BY <1>11, <1>t DEF NoteDelivered, Returns, Stops, Answered
<1>12. CASE LimitsEnd
  BY <1>12 DEF LimitsEnd, Stops
<1>13. CASE \E op \in Waits : WaitReplayed(op)
  BY <1>13, <1>t DEF WaitReplayed, Returns
<1>14. CASE \E op \in Waits : WaitBegins(op)
  BY <1>14, <1>t DEF WaitBegins, Stops
<1>15. CASE HilAnswered \/ BlockReleased
  BY <1>15, <1>t DEF HilAnswered, BlockReleased, Answers, Returns
<1>16. CASE \E does \in {"yes", "no", "resume", "stop"} : Human(does)
  BY <1>16 DEF Human, AggState, position, asks, staged, counters
<1>17. CASE UNCHANGED driverVars
  BY <1>17 DEF driverVars, AggState, position, asks, staged, counters
<1> QED
  BY <1>1, <1>2, <1>3, <1>4, <1>5, <1>6, <1>7, <1>8, <1>9, <1>10, <1>11, <1>12, <1>13, <1>14, <1>15, <1>16,
     <1>17 DEF DriverNext
\* A trail that begins another begins every longer one.
LEMMA Longer ==
  ASSUME NEW s, IsSequence(s), NEW t, NEW e, IsSequence(t), Precedes(s, t)
  PROVE  Len(s) <= Len(t) /\ Len(s) < Len(Append(t, e)) /\ Precedes(s, Append(t, e))
<1>1. Len(s) \in Nat /\ Len(t) \in Nat
  BY DEF IsSequence
<1>2. Len(Append(t, e)) = Len(t) + 1 /\ \A i \in 1 .. Len(t) : Append(t, e)[i] = t[i]
  BY Appended
<1> QED BY <1>1, <1>2 DEF Precedes

\* A kept gate: the rows up to its own lead where the driver stands now.
LEMMA Keeps ==
  ASSUME AskedAfresh,
         Shaped, Shaped', InCall, Lined, Lined', Followed, [DriverNext]_driverVars,
         GateRecorded, fate = <<"kept">>, ~kept'.gap
  PROVE  Retraced'
<1>1. /\ mode = "recording" /\ ended = "no" /\ loc \in DOMAIN flow /\ flow[loc].op = "gate" /\ ord >= Len(replay)
      /\ tip = {} /\ ~changed /\ ~violation /\ ~gap /\ ~diverged
  <2>1. kept' = [trail |-> trail', gap |-> gap \/ diverged, state |-> AggState']
    BY DEF GateRecorded
  <2>2. ~gap /\ ~diverged
    BY <2>1
  <2> QED BY <2>2 DEF GateRecorded, InCall, Here
<1>2. /\ mode' = "calling" /\ ended' = "no" /\ flow' = flow /\ replay' = replay /\ ord' = ord + 1
      /\ trail' = Append(trail, <<loc, <<"kept">>>>) /\ cache' = Unasked
      /\ kept'.trail = trail' /\ kept'.state = AggState' /\ staged' = staged
      /\ gap' = gap /\ diverged' = diverged
  <2>1. /\ mode' = "calling" /\ flow' = flow /\ replay' = replay /\ ord' = ord + 1
        /\ trail' = Append(trail, <<loc, <<"kept">>>>) /\ cache' = Unasked /\ staged' = staged
        /\ ended' = ended /\ gap' = gap /\ diverged' = diverged
    BY DEF GateRecorded, Records, Returns, ForgetsAsks
  <2>2. kept' = [trail |-> trail', gap |-> gap \/ diverged, state |-> AggState']
    BY DEF GateRecorded
  <2>3. kept'.trail = trail' /\ kept'.state = AggState'
    BY <2>2, Zenon
  <2> QED BY <1>1, <2>1, <2>3
<1>3. \E e : calls' = Append(calls, e) /\ e.what = "gate" /\ e.seen = <<"kept">>
  BY DEF GateRecorded, Records
<1>i. PICK idle, last : idle = Places(flow)[1] /\ last = Places(flow)[2]
  OBVIOUS
<1>4. "failed" \in Stagings => loc \notin last /\ Pauses(flow, idle, last)
  <2> SUFFICES ASSUME "failed" \in Stagings PROVE loc \notin last /\ Pauses(flow, idle, last)
    OBVIOUS
  <2>1. Pauses(flow, idle, last)
    BY <1>i DEF AskedAfresh, AsksAfresh, Places, Shaped
  <2> QED BY <2>1, <1>1 DEF Pauses
<1>5. PICK H, x : Stands(x) /\ Agrees(x, idle) /\ Chain(flow, H, calls, Len(calls), x)
  BY <1>1, <1>i, <1>4 DEF Followed, Running, GatesAhead
<1>6. Follows(x, idle)
  <2>1. x.cache = cache \/ (loc \notin last /\ Pauses(flow, idle, last))
    BY <1>4, <1>5 DEF Agrees
  <2> QED BY <1>1, <1>5, <2>1, GateFollows DEF Running
<1>7. TrailGrows /\ (calls' = calls \/ Grows)
  BY <1>1, <1>2, Positions, RowsGrow
<1>8. PICK w : /\ Stands(w)' /\ Agrees(w, idle)' /\ Chain(flow, H \cup {w}, calls', Len(calls'), w)
               /\ w = Moved(flow, x, calls')
  BY <1>5, <1>6, <1>7, FollowsOn
<1>9. Len(calls') \in Nat /\ ord' \in Nat /\ Len(replay') \in Nat /\ ord \in Nat /\ Len(replay) \in Nat
  BY DEF Shaped, IsSequence
<1>10. LastKept(calls', Len(calls'))
  <2>1. IsKeptGate(calls'[Len(calls')])
    BY <1>3, Appended DEF IsKeptGate, Shaped
  <2> QED BY <2>1, <1>9 DEF LastKept
<1>11. w.trail = trail' /\ w.ord = Len(calls') /\ w.mode = "calling" /\ w.cache = Unasked
       /\ w.session = session' /\ w.spent = spent' /\ w.streak = streak'
  BY <1>1, <1>2, <1>8, <1>9 DEF Stands, Agrees, Lined
<1>12. \A y \in H \cup {w} : y = w \/ Len(y.trail) < Len(w.trail)
  <2> SUFFICES ASSUME NEW y \in H PROVE Len(y.trail) < Len(w.trail)
    OBVIOUS
  <2>1. IsSequence(y.trail) /\ Precedes(y.trail, trail)
    BY <1>5 DEF Chain, Stands
  <2> QED BY <2>1, <1>2, <1>11, Longer DEF Shaped
<1>13. AggState' = <<w.session, w.spent, w.streak, {}, FALSE, FALSE, Unasked, Unasked, {}, {}>>
  <2>1. /\ tip' = {} /\ changed' = FALSE /\ violation' = FALSE
        /\ span' = Unasked /\ direct' = {} /\ groups' = {}
    BY <1>1, <1>2 DEF GateRecorded, ForgetsAsks, staged
  <2> QED BY <1>2, <1>11, <2>1 DEF AggState
<1>14. kept'.trail[Len(kept'.trail)][1] = loc
  BY <1>2, Appended DEF Shaped
<1>n. PICK n : n = Len(calls')
  OBVIOUS
<1>h. PICK G : G = H \cup {w}
  OBVIOUS
<1>15. Memory(n, G, w)'
  BY <1>1, <1>2, <1>n, <1>h, <1>8, <1>11, <1>12, <1>13, <1>14 DEF Memory
<1>16. Beyond'
  BY <1>1, <1>2, <1>9 DEF Beyond, Precedes, Shaped, IsSequence
<1>17. Underway(n, G, w)'
  BY <1>1, <1>2, <1>16 DEF Underway
<1> QED BY <1>10, <1>n, <1>15, <1>17 DEF Retraced
\* A resume starts where the rows up to the last kept gate begin.
LEMMA Resumes ==
  ASSUME Shaped, Shaped', Retraced, mode = "off", DriverBoot(TRUE), ~kept.gap
  PROVE  Retraced'
<1>1. PICK n, H, z : LastKept(calls, n) /\ Memory(n, H, z)
  BY DEF Retraced
<1>2. n \in Nat /\ calls' = SubSeq(calls, 1, n)
  <2>1. PICK m \in Nat : LastKept(calls, m) /\ Truncated(calls) = SubSeq(calls, 1, m)
    BY TruncatedAtLast DEF Shaped
  <2>2. m = n
    BY <1>1, <2>1, LastKeptOnce DEF Shaped
  <2> QED BY <2>1, <2>2 DEF DriverBoot
<1>3. Len(calls') = n /\ \A i \in 1 .. n : calls[i] = calls'[i]
  <2>1. n \in 0 .. Len(calls) /\ Len(calls) \in Nat
    BY <1>1 DEF LastKept, Shaped, IsSequence
  <2>2. calls \in Seq({calls[i] : i \in 1 .. Len(calls)})
    BY DEF Shaped, IsSequence
  <2> DEFINE S == {calls[i] : i \in 1 .. Len(calls)}
  <2> HIDE DEF S
  <2>3. calls \in Seq(S)
    BY <2>2 DEF S
  <2> QED BY <1>2, <2>1, <2>3
<1>4. LastKept(calls', n)
  BY <1>1, <1>2, <1>3 DEF LastKept
<1>5. /\ flow' = flow /\ kept' = kept /\ replay' = calls' /\ mode' = "calling" /\ ended' = "no"
      /\ ord' = 0 /\ trail' = <<>> /\ ~gap' /\ ~diverged' /\ tip' = {} /\ changed' = FALSE /\ violation' = FALSE
      /\ loc' = 1 /\ queue' = <<>> /\ cache' = Unasked /\ session' = 0 /\ spent' = 0 /\ streak' = 0
  BY DEF DriverBoot, NothingInMemory
<1>6. Memory(n, H, z)'
  BY <1>1, <1>2, <1>3, <1>5, SameMemory
<1>7. Stands(Origin)' /\ Origin.cache = cache' /\ Origin.ord = 0 /\ Origin.trail = <<>>
  BY <1>5 DEF Stands, Origin, Standing
<1>8. CASE Origin = z
  <2>1. kept.trail = <<>> /\ n = 0
    BY <1>1, <1>7, <1>8 DEF Memory
  <2>2. Beyond'
    BY <2>1, <1>3, <1>5 DEF Beyond, Precedes
  <2>3. Underway(n, H, z)'
    BY <1>5, <2>2 DEF Underway
  <2> QED BY <1>4, <1>6, <2>3 DEF Retraced
<1>9. CASE Origin # z
  <2>1. Origin \in H
    BY <1>1 DEF Memory, Chain
  <2>2. Led(n, H, z)'
    BY <1>3, <1>5, <1>7, <1>9, <2>1 DEF Led
  <2>3. Underway(n, H, z)'
    BY <1>5, <2>2 DEF Underway
  <2> QED BY <1>4, <1>6, <2>3 DEF Retraced
<1> QED BY <1>8, <1>9

\* A fresh run remembers nothing.
LEMMA StartsAfresh ==
  ASSUME mode = "off", DriverBoot(FALSE)
  PROVE  Retraced'
<1>1. /\ calls' = <<>> /\ replay' = <<>> /\ kept' = Nothing /\ mode' = "calling" /\ ended' = "no"
      /\ ord' = 0 /\ trail' = <<>> /\ ~diverged'
  BY DEF DriverBoot, NothingInMemory
<1>2. Origin.trail = <<>> /\ Origin.ord = 0 /\ Origin.mode = "calling" /\ kept'.trail = <<>>
  BY <1>1 DEF Origin, Standing, Nothing
<1>3. Memory(0, {Origin}, Origin)'
  BY <1>1, <1>2, StartChain DEF Memory
<1>4. Beyond'
  BY <1>1, <1>2 DEF Beyond, Precedes
<1>5. Underway(0, {Origin}, Origin)'
  BY <1>1, <1>4 DEF Underway
<1>6. LastKept(calls', 0)
  BY <1>1 DEF LastKept
<1> QED BY <1>3, <1>5, <1>6 DEF Retraced

\* The calls past the kept trail leave it behind.
LEMMA GoesBeyond ==
  ASSUME Shaped, Shaped', InCall, [DriverNext]_driverVars, Running, Running', ~diverged, Beyond, kept' = kept
  PROVE  ~diverged' /\ Beyond'
<1>1. ~diverged'
  BY PastTheRows DEF Running, Beyond
<1>2. OrdinalMoves /\ TrailGrows /\ replay' = replay
  BY Positions, RowsGrow DEF Running
<1>3. ord' >= Len(replay')
  <2>1. ord \in Nat /\ Len(replay) \in Nat
    BY DEF Shaped, IsSequence
  <2> QED BY <1>1, <1>2, <2>1 DEF OrdinalMoves, Beyond
<1>4. CASE trail' = trail
  <2>1. mode' = "calling" => mode = "calling" /\ AggState' = AggState
    BY <1>1, <1>4, PastTheRows DEF Running
  <2> QED BY <1>1, <1>3, <1>4, <2>1 DEF Beyond
<1>5. CASE \E seen : trail' = Append(trail, <<loc, seen>>)
  <2>0. PICK seen : trail' = Append(trail, <<loc, seen>>)
    BY <1>5
  <2>1. Precedes(kept.trail, trail') /\ Len(kept.trail) < Len(trail') /\ Len(kept.trail) \in Nat
    <3>1. IsSequence(kept.trail) /\ IsSequence(trail) /\ Precedes(kept.trail, trail)
      BY DEF Shaped, Beyond
    <3>2. Len(kept.trail) \in Nat
      BY <3>1 DEF IsSequence
    <3> QED BY <2>0, <3>1, <3>2, Longer
  <2> QED BY <1>1, <1>3, <2>1 DEF Beyond
<1> QED BY <1>2, <1>4, <1>5 DEF TrailGrows

\* While the rows lead, the next call is the one the next row was written by.
LEMMA LedOn ==
  ASSUME AskedAfresh,
         Shaped, InCall, Lined, [DriverNext]_driverVars, Running, Running', ~diverged,
         NEW n, NEW H, NEW z, Memory(n, H, z), Led(n, H, z), kept' = kept, Memory(n, H, z)'
  PROVE  ~diverged' /\ (Beyond' \/ Led(n, H, z)')
<1>1. PICK y \in H : y # z /\ Stands(y) /\ y.cache = cache
  BY DEF Led
<1>2. Ready(flow, y, calls, Len(replay)) /\ Moved(flow, y, calls) \in H
  BY <1>1 DEF Memory, Chain, Led
<1>3. /\ calls' = calls /\ ~diverged' /\ gap' = gap /\ mode' \in {"calling", "asking"} /\ staged' = staged
      /\ ~GateFails
      /\ mode = "calling" /\ loc \in DOMAIN flow /\ flow[loc].op = "gate" => trail' = trail \/ ForgetsAsks
  BY <1>1, <1>2, NothingIsLive DEF Led
<1>4. replay' = replay /\ TrailGrows
  BY RowsGrow, Positions DEF Running
<1>5. ~gap' /\ tip' = {} /\ changed' = FALSE /\ violation' = FALSE /\ Len(replay') = n
  BY <1>3, <1>4 DEF Led, staged
<1>i. PICK idle, last : idle = Places(flow)[1] /\ last = Places(flow)[2]
  OBVIOUS
<1>6. Follows(y, idle) \/ Stays(y, idle)
  BY <1>1, <1>3, <1>5, EveryStep DEF Agrees
<1>7. CASE Stays(y, idle)
  BY <1>7, <1>1, <1>3, <1>5 DEF Stays, Led
<1>8. CASE Follows(y, idle)
  <2>1. PICK w : w = Moved(flow, y, calls') /\ Stands(w)' /\ w.cache = cache'
    BY <1>1, <1>3, <1>8 DEF Follows
  <2>2. w \in H
    BY <1>2, <1>3, <2>1
  <2>3. CASE w # z
    BY <1>3, <1>5, <2>1, <2>2, <2>3 DEF Led
  <2>4. CASE w = z
    <3>1. /\ trail' = kept.trail /\ ord' = Len(replay') /\ IsSequence(trail')
          /\ session' = z.session /\ spent' = z.spent /\ streak' = z.streak /\ cache' = z.cache
          /\ trail = y.trail /\ Len(y.trail) < Len(z.trail) /\ z.trail = kept.trail
      BY <1>1, <1>3, <1>5, <2>1, <2>4 DEF Memory, Chain, Stands
    <3>2. PICK seen : trail' = Append(trail, <<loc, seen>>)
      BY <1>4, <3>1 DEF TrailGrows, Shaped, IsSequence
    <3>3. Precedes(kept'.trail, trail') /\ ord' >= Len(replay')
      <4>1. ord' \in Nat
        BY Positions DEF Running
      <4> QED BY <3>1, <4>1 DEF Precedes, IsSequence
    <3>4. kept.trail # <<>> /\ Len(kept.trail) = Len(trail) + 1 /\ kept.trail[Len(kept.trail)] = <<loc, seen>>
      <4>1. Len(trail) \in Nat /\ Len(trail') = Len(trail) + 1 /\ trail'[Len(trail) + 1] = <<loc, seen>>
        BY <3>2, Appended DEF Shaped
      <4>2. trail' # <<>>
        BY <4>1
      <4> QED BY <3>1, <4>1, <4>2
    <3>5. loc \in DOMAIN flow /\ flow[loc].op = "gate" /\ z.cache = Unasked
          /\ kept.state = <<z.session, z.spent, z.streak, {}, FALSE, FALSE, Unasked, Unasked, {}, {}>>
      <4>1. kept.trail[Len(kept.trail)][1] = loc
        BY <3>4
      <4> QED BY <3>4, <4>1 DEF Memory
    <3>6. mode = "calling"
      BY <3>5 DEF Led, InCall, Here, Asking
    <3>7. ForgetsAsks
      <4>1. trail' # trail
        BY <3>1 DEF Shaped, IsSequence
      <4> QED BY <1>3, <3>5, <3>6, <4>1
    <3>8. AggState' = kept.state
      <4>1. /\ tip' = {} /\ changed' = FALSE /\ violation' = FALSE /\ cache' = Unasked
            /\ span' = Unasked /\ direct' = {} /\ groups' = {}
        BY <1>5, <3>1, <3>5, <3>7 DEF ForgetsAsks
      <4> QED BY <3>1, <3>5, <4>1 DEF AggState
    <3>9. Beyond'
      BY <3>3, <3>8 DEF Beyond
    <3> QED BY <1>3, <3>9
  <2> QED BY <2>3, <2>4
<1> QED BY <1>6, <1>7, <1>8

\* Every step keeps the process on the way to the kept gate, or past it.
LEMMA RetracedNext ==
  ASSUME AskedAfresh,
         Shaped, Shaped', InCall, InCall', Lined, Lined', Followed, Retraced, [DriverNext]_driverVars
  PROVE  Retraced'
<1> SUFFICES ASSUME ~kept'.gap PROVE Retraced'
  BY DEF Retraced
<1>1. CASE mode = "off"
  <2>1. CASE UNCHANGED driverVars
    <3>1. mode' = "off" /\ kept' = kept /\ calls' = calls /\ flow' = flow
      BY <1>1, <2>1 DEF driverVars, position, history
    <3>2. PICK n, H, z : LastKept(calls, n) /\ Memory(n, H, z)
      BY <3>1 DEF Retraced
    <3>3. Memory(n, H, z)'
      BY <3>1, <3>2, SameMemory DEF LastKept, Shaped, IsSequence
    <3> QED BY <3>1, <3>2, <3>3 DEF Retraced, Underway
  <2>2. CASE DriverBoot(TRUE)
    <3>1. ~kept.gap
      BY <2>2 DEF DriverBoot
    <3> QED BY <1>1, <2>2, <3>1, Resumes
  <2>3. CASE DriverBoot(FALSE)
    BY <1>1, <2>3, StartsAfresh
  <2>4. ~Exits
    BY <1>1 DEF Exits
  <2> QED BY <1>1, <2>1, <2>2, <2>3, <2>4, Restarts
<1>2. CASE mode # "off" /\ GateRecorded /\ fate = <<"kept">>
  BY <1>2, Keeps
<1>3. CASE mode # "off" /\ ~(GateRecorded /\ fate = <<"kept">>)
  <2>1. /\ kept' = kept /\ flow' = flow
        /\ calls' = calls \/ \E e : calls' = Append(calls, e) /\ ~IsKeptGate(e)
    <3>1. CASE mode' = "off"
      <4>1. Exits
        BY <1>3, <3>1, Restarts DEF DriverBoot, driverVars, position
      <4> QED BY <4>1 DEF Exits
    <3>2. CASE mode' # "off" /\ ~(mode = "recording" /\ fate = <<"kept">>)
      BY <1>3, <3>2, RowsGrow DEF Remembers, Grows
    <3>3. CASE mode' # "off" /\ mode = "recording" /\ fate = <<"kept">>
      BY <1>3, <3>3, RowsGrow, Keeping
    <3> QED BY <3>1, <3>2, <3>3
  <2>2. PICK n, H, z : LastKept(calls, n) /\ Memory(n, H, z) /\ Underway(n, H, z)
    BY <2>1 DEF Retraced
  <2>3. LastKept(calls', n) /\ n \in Nat /\ \A i \in 1 .. n : calls[i] = calls'[i]
    BY <2>1, <2>2, KeptRows
  <2>4. Memory(n, H, z)'
    BY <2>1, <2>2, <2>3, SameMemory
  <2>5. Underway(n, H, z)'
    <3>1. CASE mode' = "off" \/ ended' # "no"
      BY <3>1 DEF Underway
    <3>2. CASE mode' # "off" /\ ended' = "no"
      <4>1. Running /\ Running'
        BY <1>3, <3>2, Positions DEF Running
      <4>2. ~diverged /\ (Beyond \/ Led(n, H, z))
        BY <2>2, <4>1 DEF Underway, Running
      <4>3. ~diverged' /\ (Beyond' \/ Led(n, H, z)')
        <5>1. CASE Beyond
          BY <5>1, <4>1, <4>2, <2>1, GoesBeyond
        <5>2. CASE Led(n, H, z)
          BY <5>2, <4>1, <4>2, <2>1, <2>2, <2>4, LedOn
        <5> QED BY <4>2, <5>1, <5>2
      <4> QED BY <4>3 DEF Underway
    <3> QED BY <3>1, <3>2
  <2> QED BY <2>3, <2>4, <2>5 DEF Retraced
<1> QED BY <1>1, <1>2, <1>3
------------------------------------------------------------------------------
(* The theorems.                                                              *)

ReplayInv == Shaped /\ InCall /\ Lined /\ Followed /\ Retraced

\* Before the first run,
LEMMA InitReplays == DriverInit => ReplayInv
<1> SUFFICES ASSUME DriverInit PROVE ReplayInv
  OBVIOUS
<1> USE DEF DriverInit
<1>1. Shaped /\ InCall /\ Lined /\ Followed
  BY DEF Shaped, InCall, Lined, Followed, Running, IsSequence, Modes, Nothing
<1>2. Origin.trail = <<>> /\ Origin.ord = 0 /\ Origin.mode = "calling" /\ kept.trail = <<>>
  BY DEF Origin, Standing, Nothing
<1>3. Memory(0, {Origin}, Origin)
  BY <1>2, StartChain DEF Memory
<1>4. LastKept(calls, 0) /\ Underway(0, {Origin}, Origin)
  BY DEF LastKept, Underway
<1> QED BY <1>1, <1>3, <1>4 DEF ReplayInv, Retraced

\* after every step,
LEMMA NextReplays ==
  ASSUME AskedAfresh, ReplayInv, [DriverNext]_driverVars
  PROVE  ReplayInv'
<1> USE DEF ReplayInv
<1>1. Shaped' /\ Lined'
  BY TypesNext
<1>2. InCall'
  BY InCallNext
<1>3. Followed'
  BY <1>1, FollowedNext
<1>4. Retraced'
  BY <1>1, <1>2, RetracedNext
<1> QED BY <1>1, <1>2, <1>3, <1>4

\* and always: the invariant of the three theorems.
LEMMA ReplayHolds == AskedAfresh /\ DriverSpec => []ReplayInv
<1> SUFFICES ASSUME AskedAfresh PROVE DriverSpec => []ReplayInv
  OBVIOUS
<1>1. DriverInit => ReplayInv
  BY InitReplays
<1>2. ReplayInv /\ [DriverNext]_driverVars => ReplayInv'
  BY NextReplays
<1> QED BY <1>1, <1>2, PTL DEF DriverSpec

\* What the three properties share: on the way to the kept gate or past it.
LEMMA OnTheWay ==
  ASSUME ReplayInv, Running, ~kept.gap
  PROVE  /\ ~diverged /\ IsSequence(trail) /\ IsSequence(kept.trail)
         /\ \/ Beyond
            \/ Precedes(trail, kept.trail) /\ Len(trail) < Len(kept.trail)
<1>1. PICK n, H, z : LastKept(calls, n) /\ Memory(n, H, z) /\ Underway(n, H, z)
  BY DEF ReplayInv, Retraced
<1>2. ~diverged /\ (Beyond \/ Led(n, H, z))
  BY <1>1 DEF Underway, Running
<1>3. Led(n, H, z) => Precedes(trail, kept.trail) /\ Len(trail) < Len(kept.trail)
  BY <1>1 DEF Led, Memory, Chain, Stands
<1> QED BY <1>2, <1>3 DEF ReplayInv, Shaped

\* As long as every call up to the last kept gate took its ordinal, a resumed driver sees what it saw
\* before, and no call and its row differ: `replayed` finds a row by its ordinal alone.
THEOREM ReplayIsReproduced == AskedAfresh /\ DriverSpec => []ReplayReproduces
<1>1. ReplayInv => ReplayReproduces
  <2> SUFFICES ASSUME ReplayInv, ended = "no", ~kept.gap
               PROVE  /\ ~diverged
                      /\ \A i \in DOMAIN trail \cap DOMAIN kept.trail : trail[i] = kept.trail[i]
    BY DEF ReplayReproduces
  <2>1. CASE mode = "off"
    BY <2>1 DEF ReplayInv, InCall
  <2>2. CASE mode # "off"
    <3>1. /\ ~diverged /\ IsSequence(trail) /\ IsSequence(kept.trail)
          /\ Precedes(kept.trail, trail) \/ Precedes(trail, kept.trail)
      BY <2>2, OnTheWay DEF Running, Beyond
    <3>2. DOMAIN trail = 1 .. Len(trail) /\ DOMAIN kept.trail = 1 .. Len(kept.trail)
      BY <3>1 DEF IsSequence
    <3> QED BY <3>1, <3>2 DEF Precedes
  <2> QED BY <2>1, <2>2
<1> QED BY <1>1, ReplayHolds, PTL

\* Where the fast-forward ends, Agg holds what it held at that gate.
THEOREM ResumeRebuilds == AskedAfresh /\ DriverSpec => []ResumeRebuildsTheState
<1>1. ReplayInv => ResumeRebuildsTheState
  <2> SUFFICES ASSUME ReplayInv, mode = "calling", ended = "no", ~kept.gap, kept.trail # <<>>,
                      Len(trail) = Len(kept.trail)
               PROVE  AggState = kept.state
    BY DEF ResumeRebuildsTheState
  <2>1. Beyond
    BY OnTheWay DEF Running, IsSequence
  <2> QED BY <2>1 DEF Beyond
<1> QED BY <1>1, ReplayHolds, PTL

\* Until then no row is written, no gate decides and no human is asked.
THEOREM NothingIsRedone == AskedAfresh /\ DriverSpec => NothingLandedIsRedone
<1>1. ReplayInv /\ ReplayInv' /\ [DriverNext]_driverVars
      => [(Len(calls') > Len(calls) \/ mode' \in {"waiting", "recording"}) /\ ~kept.gap
          => Len(trail) >= Len(kept.trail)]_driverVars
  <2> SUFFICES ASSUME ReplayInv, ReplayInv', DriverNext, ~kept.gap,
                      Len(calls') > Len(calls) \/ mode' \in {"waiting", "recording"}
               PROVE  Len(trail) >= Len(kept.trail)
    OBVIOUS
  <2>0. Len(calls) \in Nat /\ Len(calls') \in Nat /\ Len(trail) \in Nat /\ Len(kept.trail) \in Nat
    BY DEF ReplayInv, Shaped, IsSequence
  <2>1. mode # "off"
    <3> SUFFICES ASSUME mode = "off" PROVE FALSE
      OBVIOUS
    <3>1. PICK resume \in BOOLEAN : DriverBoot(resume)
      BY Restarts, <2>0 DEF Exits, driverVars, position, ReplayInv
    <3>2. Len(calls') <= Len(calls)
      <4>1. CASE ~resume
        BY <2>0, <3>1, <4>1 DEF DriverBoot
      <4>2. CASE resume
        <5>1. PICK m \in Nat : LastKept(calls, m) /\ Truncated(calls) = SubSeq(calls, 1, m)
          BY TruncatedAtLast DEF Shaped, ReplayInv
        <5>2. Len(calls') = m
          <6>1. m \in 0 .. Len(calls) /\ calls' = SubSeq(calls, 1, m)
            BY <3>1, <4>2, <5>1 DEF DriverBoot, LastKept
          <6>2. calls \in Seq({calls[i] : i \in 1 .. Len(calls)})
            BY DEF Shaped, IsSequence, ReplayInv
          <6> DEFINE S == {calls[i] : i \in 1 .. Len(calls)}
          <6> HIDE DEF S
          <6>3. calls \in Seq(S)
            BY <6>2 DEF S
          <6> QED BY <2>0, <6>1, <6>3
        <5> QED BY <2>0, <5>1, <5>2 DEF LastKept
      <4> QED BY <4>1, <4>2
    <3>3. mode' = "calling"
      BY <3>1 DEF DriverBoot
    <3> QED BY <2>0, <3>2, <3>3
  <2>2. mode' # "off"
    <3>1. ~Exits
      BY <2>0 DEF Exits
    <3> QED BY <2>0, <2>1, <3>1, Restarts DEF DriverBoot, driverVars, position, ReplayInv
  <2>3. ended' = "no" /\ ended = "no"
    <3>1. mode' \in {"waiting", "recording"} => ended' = "no"
      BY DEF ReplayInv, InCall
    <3>2. ended # "no" => ended' # "no" /\ calls' = calls
      BY <2>1, <2>2, Positions DEF ReplayInv
    <3>3. ended = "no" /\ ended' # "no" => calls' = calls
      BY <2>1, <2>2, PastTheRows DEF ReplayInv, Running
    <3> QED BY <2>0, <3>1, <3>2, <3>3
  <2>4. PICK n, H, z : LastKept(calls, n) /\ Memory(n, H, z) /\ Underway(n, H, z)
    BY DEF ReplayInv, Retraced
  <2>5. ~diverged /\ (Beyond \/ Led(n, H, z))
    BY <2>1, <2>3, <2>4 DEF Underway
  <2>6. ~Led(n, H, z)
    <3> SUFFICES ASSUME Led(n, H, z) PROVE FALSE
      OBVIOUS
    <3>1. PICK y \in H : y # z /\ Stands(y) /\ y.cache = cache
      BY DEF Led
    <3>2. Ready(flow, y, calls, Len(replay))
      BY <2>4, <3>1 DEF Memory, Chain, Led
    <3>3. calls' = calls /\ mode' \in {"calling", "asking"}
      BY <2>1, <2>2, <2>3, <2>5, <3>1, <3>2, NothingIsLive DEF ReplayInv, Running, Led
    <3> QED BY <2>0, <3>3
  <2> QED BY <2>0, <2>5, <2>6 DEF Beyond, Precedes
<1> QED BY <1>1, ReplayHolds, PTL DEF DriverSpec, NothingLandedIsRedone

==============================================================================
