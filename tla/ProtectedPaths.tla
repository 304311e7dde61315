--------------------------- MODULE ProtectedPaths --------------------------
(* write_deny: the patterns a step protects, the walk that fingerprints what *)
(* they cover, the restore that puts it back, and the check around each      *)
(* worker with the span it taints.  A path is a sequence of names, the tree  *)
(* a function from its paths to entries: a file and its bytes, a directory   *)
(* and its mode, a link and its target, a special file.                      *)
EXTENDS Naturals, FiniteSets, SequencesExt, Functions

CONSTANTS
    Names,       \* the names of the tree, sorted
    Paths,       \* bound: the paths an entry can be at
    StrayPaths,  \* bound: those of them another process writes
    Entries,     \* bound: what can be written at a path
    Trees,       \* the trees a run may start with
    Steps,       \* what each step protects and its tier: [deny, tier, judged]
    MaxSessions, \* bound: sessions
    MaxWrites,   \* bound: writes of a session's worker
    MaxStrays    \* bound: writes of other processes between two checks

\* a pattern is a sequence of names, of Star for any one name and AnyDepth for any number
Star == "*"
AnyDepth == "**"
Private == {<<".git">>, <<"agg", "private">>}
Tiers == {"none", "rules", "bind"}

ASSUME BoundsAssumption == {MaxSessions, MaxWrites, MaxStrays} \subseteq Nat
ASSUME TreesAssumption ==
    \A t \in Trees : \A p \in DOMAIN t : Len(p) > 1 => t[Front(p)].kind = "dir"

------------------------------------------------------------------------------
(* One pattern.                                                              *)

MatchName(c, name) == c = Star \/ c = name

RECURSIVE MatchComps(_, _)
MatchComps(pat, path) ==
    IF pat = <<>> THEN path = <<>>
    ELSE IF Head(pat) = AnyDepth
    THEN \E k \in 1..Len(path) + 1 : MatchComps(Tail(pat), SubSeq(path, k, Len(path)))
    ELSE path # <<>> /\ MatchName(Head(pat), Head(path)) /\ MatchComps(Tail(pat), Tail(path))

\* could a path strictly below this directory match
RECURSIVE PrefixMatch(_, _)
PrefixMatch(pat, path) ==
    /\ pat # <<>>
    /\ \/ Head(pat) = AnyDepth
       \/ path = <<>>
       \/ MatchName(Head(pat), Head(path)) /\ PrefixMatch(Tail(pat), Tail(path))

Matches(deny, path) == \E g \in deny : MatchComps(g, path)
CouldMatchBelowIfItMatches(deny, path) == Matches(deny, path)
CouldMatchBelow(deny, path) == \E g \in deny : PrefixMatch(g, path)

IsLiteral(g) == \A i \in DOMAIN g : g[i] \notin {Star, AnyDepth}
IsSubtree(g) == Len(g) > 1 /\ Last(g) = AnyDepth /\ IsLiteral(Front(g))

\* check_step: a bind cannot cover what need not exist yet
Accepted(step) == step.tier = "bind" => \A g \in step.deny : IsLiteral(g) \/ IsSubtree(g)
ASSUME StepsAssumption ==
    \A s \in DOMAIN Steps : Steps[s].tier \in Tiers /\ Accepted(Steps[s])

------------------------------------------------------------------------------
(* The tree.                                                                 *)

Dir(mode) == [kind |-> "dir", what |-> mode]
Fresh == Dir("rwx")
IsLink(t, p) == p \in DOMAIN t /\ t[p].kind = "link"
IsDir(t, p) == p \in DOMAIN t /\ t[p].kind = "dir"
Under(p, q) == Len(q) > Len(p) /\ IsPrefix(p, q)
Below(t, p) == {q \in DOMAIN t : Under(p, q)}

\* where a path leads when a directory on the way is a link
Real(t, p) ==
    LET links == {n \in 1..Len(p) - 1 : IsLink(t, SubSeq(p, 1, n))}
    IN IF links = {} THEN p
       ELSE LET n == CHOOSE n \in links : \A m \in links : n <= m
            IN t[SubSeq(p, 1, n)].what \o SubSeq(p, n + 1, Len(p))

Without(t, ps) == Restrict(t, DOMAIN t \ ps)
Gone(t, p) == Without(t, {p} \cup Below(t, p))
Put(t, p, e) == (p :> e) @@ (IF IsDir(t, p) /\ e.kind = "dir" THEN t ELSE Gone(t, p))
Parents(p) == {SubSeq(p, 1, n) : n \in 1..Len(p) - 1}
\* create_dir_all, and whether a file or a special file is in its way
MadeDirs(t, ps) == t @@ [p \in ps \ DOMAIN t |-> Fresh]
Blocked(t, p) == \E q \in Parents(p) : q \in DOMAIN t /\ ~IsDir(t, q)

------------------------------------------------------------------------------
(* The snapshot: the entries by path, and the directories links were        *)
(* followed to.                                                              *)

Keep(acc, p, e) == [acc EXCEPT !.snap = (p :> e) @@ @]

RECURSIVE WalkDir(_, _, _, _, _, _)
WalkEntry(t, deny, abs, rel, via, acc) ==
    IF IsLink(t, abs)
    THEN LET real == t[abs].what
             linked == IF Matches(deny, rel) THEN Keep(acc, rel, t[abs]) ELSE acc
         IN IF CouldMatchBelow(deny, rel) /\ IsDir(t, real) /\ real \notin linked.seen
            THEN WalkDir(t, deny, real, rel, TRUE, [linked EXCEPT !.seen = @ \cup {real}])
            ELSE linked
    ELSE LET key == IF via THEN abs ELSE rel
             kept == IF Matches(deny, rel) \/ Matches(deny, key) THEN Keep(acc, key, t[abs]) ELSE acc
         IN IF IsDir(t, abs) /\ CouldMatchBelow(deny, rel)
            THEN WalkDir(t, deny, abs, rel, via, kept)
            ELSE kept
WalkDir(t, deny, abs, rel, via, acc) ==
    FoldLeft(LAMBDA a, n :
                 IF Append(abs, n) \notin DOMAIN t \/ Append(rel, n) \in Private THEN a
                 ELSE WalkEntry(t, deny, Append(abs, n), Append(rel, n), via, a),
             acc, Names)

Take(t, deny) == WalkDir(t, deny, <<>>, <<>>, FALSE, [snap |-> <<>>, seen |-> {<<>>}]).snap

DiffOfKnown(old, new) == {p \in DOMAIN old : p \notin DOMAIN new \/ old[p] # new[p]}
Diff(old, new) ==
    {p \in DOMAIN old \cup DOMAIN new :
        p \notin DOMAIN old \/ p \notin DOMAIN new \/ old[p] # new[p]}

------------------------------------------------------------------------------
(* The restore: what appeared or changed is cleared, deepest first, then     *)
(* what was there is put back, shallowest first, directory modes at the end. *)
(* A result is a tree, or a failure.                                         *)

Index(name) == CHOOSE i \in DOMAIN Names : Names[i] = name
RECURSIVE Before(_, _)
Before(p, q) ==
    \/ p = <<>> /\ q # <<>>
    \/ p # <<>> /\ q # <<>> /\
         (\/ Index(Head(p)) < Index(Head(q))
          \/ Head(p) = Head(q) /\ Before(Tail(p), Tail(q)))
Sorted(ps) == SetToSortSeq(ps, Before)

Done(t) == [ok |-> TRUE, tree |-> t]
Failure(t) == [ok |-> FALSE, tree |-> t]
Then(r, Op(_)) == IF r.ok THEN Op(r.tree) ELSE r

Cleared(t, key, old) ==
    LET p == Real(t, key)
    IN IF p \notin DOMAIN t \/ (IsDir(t, p) /\ key \in DOMAIN old /\ old[key].kind = "dir")
       THEN t ELSE Gone(t, p)

PutBack(t, key, e, kept) ==
    LET p == Real(t, key)
    IN IF e.kind = "dir" THEN (IF Blocked(t, p) THEN Failure(t) ELSE Done(MadeDirs(t, Parents(p) \cup {p})))
       ELSE IF e.kind = "special" \/ (e.kind = "file" /\ e.what \notin kept) THEN Failure(t)
       ELSE IF Blocked(t, p) \/ IsDir(t, p) \/ (e.kind = "link" /\ p \in DOMAIN t) THEN Failure(t)
       ELSE Done(Put(MadeDirs(t, Parents(p)), p, e))

WithMode(t, key, e) == IF Real(t, key) \in DOMAIN t THEN Put(t, Real(t, key), e) ELSE t

Restored(t, old, changed, kept) ==
    LET keys == Sorted(changed)
        back == SelectSeq(keys, LAMBDA k : k \in DOMAIN old)
        dirs == SelectSeq(back, LAMBDA k : old[k].kind = "dir")
        cleared == FoldRight(LAMBDA k, u : Cleared(u, k, old), keys, t)
        put == FoldLeft(LAMBDA r, k : Then(r, LAMBDA u : PutBack(u, k, old[k], kept)),
                        Done(cleared), back)
    IN Then(put, LAMBDA u : Done(FoldRight(LAMBDA k, v : WithMode(v, k, old[k]), dirs, u)))

\* undo: the restore, proved by reading the paths again
Undone(t, deny, want, changed, kept) ==
    LET r == Restored(t, want, changed, kept)
    IN IF r.ok /\ Take(r.tree, deny) # want THEN Failure(r.tree) ELSE r

------------------------------------------------------------------------------
(* What the kernel denies a worker.                                          *)

\* the directories of dir/** are created for the binds of a session
Materialized(t, step) ==
    IF step.tier # "bind" THEN t
    ELSE LET roots == {Front(g) : g \in {g \in step.deny : IsSubtree(g)}}
             free == {p \in roots : ~Blocked(t, p)}
         IN MadeDirs(t, UNION {Parents(p) \cup {p} : p \in free})

BindSubtrees(t, step) == {Front(g) : g \in {g \in step.deny : IsSubtree(g)}}
BindPaths(t, step) ==
    {Front(g) : g \in {g \in step.deny : IsSubtree(g)}}
        \cup {g \in step.deny : IsLiteral(g) /\ g \in DOMAIN t}

\* what is removed or replaced by a write at a path
LiteralPrefix(g) == SelectInSeq(g \o <<Star>>, LAMBDA c : c \in {Star, AnyDepth}) - 1
Ancestors(g) ==
    LET n == LiteralPrefix(g)
        upto == IF IsLiteral(g) \/ IsSubtree(g) THEN n - 1 ELSE n
    IN {SubSeq(g, 1, i) : i \in 1..upto}

Denied(t, step, bound, p) ==
    \/ step.tier = "bind" /\ \E b \in bound : IsPrefix(b, p) \/ (p \in DOMAIN t /\ IsPrefix(p, b))
    \/ step.tier = "rules" /\ (\/ Matches(step.deny, p)
                               \/ p \in DOMAIN t /\ \E g \in step.deny : p \in Ancestors(g))

------------------------------------------------------------------------------
(* The check around each worker.                                             *)

VARIABLES
    fs,       \* the project's tree
    pc,       \* "boundary", "working", "checked" after the worker, "ended" on an error
    step,     \* the session's step
    before,   \* scratch.protect_before: the snapshot the worker started from, as a set
    last,     \* ProtectState.last: the patterns and the snapshot of the last check, as a set
    span,     \* ProtectState.span_violation is not empty
    kept,     \* agg/private's copies of protected files, by content
    bound,    \* what the kernel mounted read-only for the worker
    good,     \* the tree of the last merge, all of it tracked
    session, writes, strays,
    \* history
    start,    \* the tree the worker started from, then what its check left of what is protected
    touched,  \* a worker of the open span changed what its step protects
    merged    \* the last gate merged a span

vars == <<fs, pc, step, before, last, span, kept, bound, good, session, writes, strays, start, touched, merged>>

\* what a step protects of a tree, whichever way the walk goes
Covered(t, deny) == {p \in DOMAIN t : Matches(deny, p) /\ \A q \in Private : ~IsPrefix(q, p)}
Changed(t, u, deny) ==
    {p \in Covered(t, deny) \cup Covered(u, deny) :
        p \notin DOMAIN t \/ p \notin DOMAIN u \/ t[p] # u[p]}

FilesOf(snap) == {snap[p].what : p \in {p \in DOMAIN snap : snap[p].kind = "file"}}

Init ==
    /\ fs \in Trees
    /\ pc = "boundary" /\ step \in DOMAIN Steps
    /\ before = {} /\ last = {} /\ span = FALSE /\ kept = {}
    /\ session = 0 /\ writes = 0 /\ strays = 0
    /\ good = fs /\ start = <<>> /\ bound = {} /\ touched = FALSE /\ merged = FALSE

\* before_worker, and the session it starts; what changed since the last check of
\* the same patterns is put back first
BeforeWorker(s) ==
    /\ pc = "boundary" /\ session < MaxSessions
    /\ LET deny == Steps[s].deny
           made == IF deny = {} THEN fs ELSE Materialized(fs, Steps[s])
           now == Take(made, deny)
           wanted == {l.snap : l \in {l \in last : l.deny = deny /\ Diff(l.snap, now) # {}}}
           want == IF wanted = {} THEN now ELSE CHOOSE w \in wanted : TRUE
           copies == kept \cup FilesOf(now)
           r == IF wanted = {} THEN Done(made)
                ELSE Undone(made, deny, want, Diff(want, now), copies)
       IN /\ fs' = r.tree
          /\ kept' = IF deny = {} THEN kept ELSE copies
          /\ before' = IF deny = {} \/ ~r.ok THEN {} ELSE {want}
          /\ pc' = IF r.ok THEN "working" ELSE "ended"
          /\ start' = r.tree
          /\ bound' = IF Steps[s].tier = "bind" THEN BindPaths(r.tree, Steps[s]) ELSE {}
    /\ step' = s
    /\ last' = {}
    /\ session' = session + 1
    /\ merged' = FALSE
    /\ UNCHANGED <<good, span, writes, strays, touched>>

\* one write, removal or rename away in the tree
Writable(t, p, e) == (Len(p) > 1 => IsDir(t, Front(p))) /\ (e.kind = "link" => e.what # p)
Changes(t, p) ==
    {Put(t, p, e) : e \in {e \in Entries : Writable(t, p, e)}}
        \cup (IF p \in DOMAIN t THEN {Gone(t, p)} ELSE {})

WorkerWrites ==
    /\ pc = "working" /\ writes < MaxWrites
    /\ \E p \in Paths :
          /\ ~Denied(fs, Steps[step], bound, p)
          /\ fs' \in Changes(fs, p)
    /\ writes' = writes + 1
    /\ UNCHANGED <<pc, step, before, last, span, kept, bound, good, session, strays, start, touched, merged>>

\* the open span's violation, and the reference for the time until the next worker
TaintOfThisSession(violated) == violated
Taint(violated) == span \/ violated
WhatWasFound(deny, want, found) == {[deny |-> deny, snap |-> found]}
Reference(deny, want, found) == {[deny |-> deny, snap |-> want]}

\* after_worker
AfterWorker ==
    /\ pc = "working"
    /\ LET deny == Steps[step].deny
           want == CHOOSE b \in before : TRUE
           found == Take(fs, deny)
           changed == Diff(want, found)
           r == IF before = {} \/ changed = {} THEN Done(fs)
                ELSE Undone(fs, deny, want, changed, kept)
       IN /\ fs' = r.tree
          /\ pc' = IF r.ok THEN "checked" ELSE "ended"
          /\ span' = Taint(before # {} /\ changed # {})
          /\ last' = IF before = {} \/ ~r.ok THEN last ELSE Reference(deny, want, found)
          /\ touched' = (touched \/ Changed(start, fs, deny) # {})
          /\ start' = Restrict(r.tree, Covered(r.tree, deny))
    /\ before' = {} /\ bound' = {}
    /\ writes' = 0
    /\ UNCHANGED <<step, kept, good, session, strays, merged>>

\* a process the worker left, or an operator
Stray ==
    /\ pc \in {"checked", "boundary"} /\ session > 0 /\ strays < MaxStrays
    /\ \E p \in StrayPaths : fs' \in Changes(fs, p)
    /\ strays' = strays + 1
    /\ UNCHANGED <<pc, step, before, last, span, kept, bound, good, session, writes, start, touched, merged>>

\* the gate over the open span: keep_or_rollback clears the violation on every
\* arm, and a span that is not merged is reset to the last good tree
Gate ==
    /\ pc = "checked" /\ Steps[step].judged
    /\ merged' \in IF span THEN {FALSE} ELSE BOOLEAN
    /\ IF merged' THEN good' = fs /\ fs' = fs ELSE fs' = good /\ good' = good
    /\ span' = FALSE /\ touched' = FALSE
    /\ pc' = "boundary"
    /\ UNCHANGED <<step, before, last, kept, bound, session, writes, strays, start>>

\* a skip session stays in the span
Skip ==
    /\ pc = "checked" /\ ~Steps[step].judged
    /\ pc' = "boundary"
    /\ UNCHANGED <<fs, step, before, last, span, kept, bound, good, session, writes, strays, start, touched, merged>>

Next ==
    \/ \E s \in DOMAIN Steps : BeforeWorker(s)
    \/ WorkerWrites
    \/ AfterWorker
    \/ Stray
    \/ Gate
    \/ Skip

Spec == Init /\ [][Next]_vars

------------------------------------------------------------------------------
(* Properties.                                                               *)

TypeOK ==
    /\ pc \in {"boundary", "working", "checked", "ended"} /\ step \in DOMAIN Steps
    /\ \A p \in DOMAIN fs : Len(p) > 1 => IsDir(fs, Front(p))
    /\ Cardinality(before) <= 1 /\ Cardinality(last) <= 1
    /\ {span, touched, merged} \subseteq BOOLEAN

\* The walk prunes no directory below which a pattern matches: every path a
\* step's patterns match is in the snapshot, under its own name.
WalkMissesNothing ==
    \A s \in DOMAIN Steps : Covered(fs, Steps[s].deny) \subseteq DOMAIN Take(fs, Steps[s].deny)

\* A span one of whose workers changed a protected path is never merged,
\* whichever sessions came after it and whatever they were judged.
TaintedSpanNeverMerges == [][pc = "checked" /\ merged' /\ ~merged => ~touched]_vars

\* What a worker changed of a protected tree is back when its judges look at it.
RestoredBeforeJudging ==
    [][pc = "working" /\ pc' = "checked" => Changed(start, fs', Steps[step].deny) = {}]_vars

\* The restore removes what appeared and what is in the way of what was there:
\* it leaves alone a path the patterns did not cover and nobody changed.
RestoreLeavesTheRest ==
    [][pc = "working" /\ pc' = "checked" =>
         \A p \in DOMAIN start \cap DOMAIN fs :
             start[p] = fs[p] /\ ~Matches(Steps[step].deny, p) => p \in DOMAIN fs' /\ fs'[p] = fs[p]]_vars

\* Under read-only binds only a path that was not there can be changed: the
\* accepted patterns leave the gate nothing else to find.
BindsHold ==
    pc = "working" /\ Steps[step].tier = "bind" =>
        \A p \in Changed(start, fs, Steps[step].deny) : p \notin DOMAIN start

\* A protected path another process changes after the check is put back before
\* the next worker of a step with the same patterns starts, whatever the gate
\* did to the tree in between.
StrayIsUndone ==
    [][pc = "boundary" /\ pc' = "working" =>
         \A l \in last : Steps[step'].deny = l.deny => Changed(start, fs', l.deny) = {}]_vars

\* The same, whichever step comes next.
StrayIsAlwaysUndone ==
    [][pc = "boundary" /\ pc' = "working" => \A l \in last : Changed(start, fs', l.deny) = {}]_vars
============================================================================
