------------------------------- MODULE Launch -------------------------------
(* How a YAML run is accepted or refused, and what an accepted run starts:     *)
(* the stages of prepare_run, each with its own refusals, then the walk over   *)
(* the sequence, the workers and the judges in the tiers the config gives them.*)
(* A config is a record of what the checks tell apart; a value that may be     *)
(* missing is a set of at most one element. The engine or the OS wrapper may   *)
(* be lost while a run is going.                                               *)
EXTENDS Confinement

CONSTANTS Launches,          \* pairs of a config and a host
          Paths, Dests,      \* what a process is asked about
          MaxSessions,       \* sessions of a run
          Faults             \* what a host may lose, at most one in a run

VARIABLES cfg, host, pc, warned,
          at, reps, step, unjudged,     \* the walk, and the picks since a judged step
          sessions, spend, reported,    \* sessions started, dollars spent and dollars reported
          untold,                       \* dollars of the sessions that were killed
          started, stillborn, lost,
          bridge             \* the network behind the allow-list: "off", "up", "failed"

vars == <<cfg, host, pc, warned, at, reps, step, unjudged, sessions, spend, reported, untold, started, stillborn, lost, bridge>>

------------------------------------------------------------------------------
(* The config, as far as it is told apart.                                    *)

Tiers == {"none", "sandbox", "container"}
IsOpt(o, S) == o \subseteq S /\ Cardinality(o) <= 1

\* a condition: its grammar, the judges it names, the groups whose gain it asks for, its plain terms
Conditions == [parses : BOOLEAN, judges : SUBSET STRING, gains : SUBSET STRING, terms : SUBSET STRING]

SeqStep(e) ==
    /\ e.step \in STRING /\ IsOpt(e.times, Nat) /\ IsOpt(e.max, Nat) /\ IsOpt(e.until, Conditions)

StepBody(b) ==
    /\ IsOpt(b.agent, STRING) /\ IsOpt(b.tier, Tiers) /\ IsOpt(b.image, STRING)
    /\ {b.skip, b.auto, b.effort, b.shapeless, b.prompt} \subseteq BOOLEAN
    /\ b.readonly \cup b.writable \cup b.protects \subseteq Seq(STRING) \ {<<>>}

Sequence(c) ==
    /\ c.entries \in Seq({c.entries[i] : i \in DOMAIN c.entries})
    /\ \A i \in DOMAIN c.entries : SeqStep(c.entries[i])
    /\ c.done \in Conditions /\ IsOpt(c.abort, Conditions) /\ IsOpt(c.notify, Conditions)
    /\ c.invariants \cup c.ratchet \subseteq STRING
    /\ \A g \in DOMAIN c.groups : c.groups[g] \subseteq STRING
    /\ c.improves \in BOOLEAN /\ c.notifies \in BOOLEAN

Defaults(c) ==
    /\ c.agent \in STRING /\ IsOpt(c.tier, Tiers) /\ IsOpt(c.image, STRING)
    /\ c.protects \subseteq Seq(STRING) \ {<<>>}
JudgeCfg(c) == c.ruler \in STRING /\ IsOpt(c.jimage, STRING) /\ c.kinds \in [DOMAIN c.kinds -> {"script", "llm", "metric", "missing"}]
Limits(c) == IsOpt(c.cost, Nat) /\ IsOpt(c.env, Nat)

AggConfig(c) ==
    /\ Defaults(c) /\ JudgeCfg(c) /\ Limits(c) /\ Sequence(c)
    /\ \A s \in DOMAIN c.steps : StepBody(c.steps[s])
    /\ c.summary \in BOOLEAN /\ c.context \in {"none", "ok", "gone"} /\ c.network.closed \in BOOLEAN

ASSUME LaunchAssumption == \A l \in Launches : AggConfig(l[1])
ASSUME EnginesAssumption == \A l \in Launches : l[2].engine \in {"none", "docker", "podman"}
ASSUME PathsAssumption == Paths \subseteq Seq(STRING)

Either(opt, default) == IF opt = {} THEN default ELSE CHOOSE x \in opt : TRUE

------------------------------------------------------------------------------
(* What the backends say of themselves.                                       *)

Known == {"claude", "codex", "copilot"}
ReportsCost(agent) == agent = "claude"
SelfCaps(agent) == agent = "copilot"
Conflicts(agent, s) == agent = "copilot" /\ s.auto /\ s.effort
Api(agent) == CASE agent = "claude"  -> {"anthropic"}
                [] agent = "codex"   -> {"openai"}
                [] agent = "copilot" -> {"githubcopilot", "github"}

------------------------------------------------------------------------------
(* The config, resolved.                                                      *)

Rank == [none |-> 0, sandbox |-> 1, container |-> 2]
Strongest(tiers) == CHOOSE t \in tiers : \A u \in tiers : Rank[u] <= Rank[t]

\* resolve_step: the body's own value, else the one of defaults; protected paths are those of both
Resolve(c, s) ==
    LET b == c.steps[s]
    IN [agent |-> Either(b.agent, c.agent), tier |-> Either(b.tier, Either(c.tier, "none")),
        image |-> Either(b.image, Either(c.image, "alpine")), skip |-> b.skip, auto |-> b.auto,
        effort |-> b.effort, readonly |-> NormalizedAll(b.readonly), writable |-> NormalizedAll(b.writable),
        protects |-> {Relative(p) : p \in c.protects \cup b.protects}, shapeless |-> b.shapeless]

Steps(c) == {Resolve(c, s) : s \in DOMAIN c.steps}

\* a normalized entry is the components of a path, at least one
PathEntry == [absolute : BOOLEAN, at : Seq(STRING) \ {<<>>}]
ASSUME ListsAssumption == \A l \in Launches : \A s \in Steps(l[1]) : \A d \in s.readonly \cup s.writable : d \in PathEntry

RunTier(c) == Strongest({Either(c.tier, "none")} \cup UNION {c.steps[s].tier : s \in DOMAIN c.steps})

\* judge_image: no image when the container steps name several and no key decides
JudgeImage(c) ==
    IF c.jimage # {} THEN c.jimage
    ELSE IF c.image # {} THEN c.image
    ELSE LET images == {s.image : s \in {t \in Steps(c) : t.tier = "container"}}
         IN IF images = {} THEN {"alpine"} ELSE IF Cardinality(images) = 1 THEN images ELSE {}

\* apply_env_overrides
CostLimit(c) == IF c.env # {} THEN c.env ELSE c.cost
AllowList(c) == c.network.closed

\* an expression's judges, those of the groups it asks for a gain among them
Judged(c, e) == e.judges \cup UNION {c.groups[g] : g \in e.gains \cap DOMAIN c.groups}
Untils(c) == UNION {c.entries[i].until : i \in DOMAIN c.entries}
InDod(c) == Judged(c, c.done) \cup c.invariants
RunSet(c) ==
    InDod(c) \cup UNION {Judged(c, e) : e \in c.abort \cup c.notify \cup Untils(c)}
    \cup c.ratchet \cup UNION {c.groups[g] : g \in DOMAIN c.groups}

\* a judge that is named and not found has a kind as well
ASSUME JudgesAssumption == \A l \in Launches : RunSet(l[1]) \subseteq DOMAIN l[1].kinds

Kinds(c) == {c.kinds[j] : j \in RunSet(c)}
Runs(h, image, bin) == h.images[image].starts /\ bin \in h.images[image].clis

------------------------------------------------------------------------------
(* The refusals, by stage.                                                    *)

\* entry_problems
EntryProblems(c) ==
    {i \in DOMAIN c.entries :
        LET e == c.entries[i]
        IN \/ e.step \notin DOMAIN c.steps
           \/ e.times # {} /\ e.until # {}
           \/ (e.until = {}) # (e.max = {})
           \/ 0 \in e.times \cup e.max}

HasJudged(c) == \E i \in DOMAIN c.entries : c.entries[i].step \in DOMAIN c.steps /\ ~c.steps[c.entries[i].step].skip

\* where the run's swe-metrics runs, and whether it is there
MetricsMissing(c, h) ==
    /\ "metric" \in Kinds(c)
    /\ IF RunTier(c) # "container" THEN "swe-metrics" \notin h.clis
       ELSE h.engine # "none" /\ \E i \in JudgeImage(c) : ~Runs(h, i, "swe-metrics")

\* build: a judged step in the sequence, prompts and judges that are there, conditions that parse (those of
\* the run are validated too), a command for notify_if, and something that merge_requires_improvement can see
Assembles(c, h) ==
    /\ EntryProblems(c) = {}
    /\ HasJudged(c)
    /\ \A s \in DOMAIN c.steps : c.steps[s].prompt
    /\ \A e \in {c.done} \cup c.abort \cup c.notify \cup Untils(c) : e.parses
    /\ "missing" \notin Kinds(c)
    /\ ~MetricsMissing(c, h)
    /\ c.notify # {} => c.notifies
    /\ c.improves => c.ratchet \cup InDod(c) # {}
    /\ \A e \in {c.done} \cup c.abort \cup c.notify : e.gains \subseteq DOMAIN c.groups

\* isolation::run::resolve
PolicyResolves(c) ==
    /\ c.context # "gone"
    /\ RunTier(c) = "container" => JudgeImage(c) # {}

Unreachable(c, agent) == \E a \in Api(agent) : ~AllowsHost(c.network.rules, [kind |-> "name", host |-> <<a>>])

\* the ruler's own demands
RulerHeard(c) == (AllowList(c) /\ "llm" \in Kinds(c)) => ~Unreachable(c, c.ruler)

OverCost(c) == \E e \in {c.done} \cup c.abort : "over_cost" \in e.terms
CostWanted(c) == CostLimit(c) # {} \/ OverCost(c)
InertByDefault(c, s) == CostWanted(c) /\ ~ReportsCost(c.agent)
Inert(c, s) == CostWanted(c) /\ ~ReportsCost(s.agent)

\* step_demands
TierProblems(c, h, s) ==
    \/ s.tier = "none" /\ (c.context # "none" \/ AllowList(c))
    \/ s.tier = "sandbox" /\ (~h.wrapper \/ (AllowList(c) /\ h.os # "macos"))
    \/ s.tier = "container" /\ (h.engine = "none" \/ (AllowList(c) /\ h.engine = "podman"))
    \/ s.shapeless /\ (s.tier = "container" \/ (s.tier = "sandbox" /\ h.os # "macos"))

StepDemands(c, h) ==
    {s \in Steps(c) : s.agent \in Known /\
        \/ Inert(c, s) /\ ~SelfCaps(s.agent)
        \/ Conflicts(s.agent, s)
        \/ AllowList(c) /\ Unreachable(c, s.agent)
        \/ TierProblems(c, h, s)}

Unknown(c) == ({c.ruler} \cup {s.agent : s \in Steps(c)}) \ Known
CostWarnings(c) == {s \in Steps(c) : Inert(c, s) /\ SelfCaps(s.agent)}

\* probe: what must run inside which image, asked of the engine when it answers
Needs(c) ==
    {<<s.image, s.agent>> : s \in {t \in Steps(c) : t.tier = "container"}}
    \cup (IF RunTier(c) # "container" THEN {}
          ELSE JudgeImage(c) \X ({"sh"} \cup (IF "llm" \in Kinds(c) THEN {c.ruler} ELSE {})
                                        \cup (IF "metric" \in Kinds(c) THEN {"swe-metrics"} ELSE {})))

Probe(c, h) == IF h.engine = "none" THEN {} ELSE {n \in Needs(c) : ~Runs(h, n[1], n[2])}

\* the unknown agents are told alone
Capable(c, h) ==
    /\ Unknown(c) = {}
    /\ PolicyResolves(c) /\ RulerHeard(c) /\ StepDemands(c, h) = {} /\ Probe(c, h) = {}

\* agent_sites and host_agents: every agent named, those that run on the host kept
Named(c) == {c.agent, c.ruler} \cup UNION {c.steps[s].agent : s \in DOMAIN c.steps}
HostAgentsUnconfined(c) == {a \in Named(c) : (\E s \in Steps(c) : s.agent = a /\ s.tier = "none") \/ (a = c.ruler /\ c.summary)}
HostAgents(c) ==
    {a \in Named(c) :
        \/ \E s \in Steps(c) : s.agent = a /\ s.tier # "container"
        \/ DOMAIN c.steps = {} /\ a = c.agent
        \/ a = c.ruler /\ (c.summary \/ ("llm" \in Kinds(c) /\ RunTier(c) # "container"))}

NotOnPath(c, h) == (HostAgents(c) \cap Known) \ h.clis

\* `agg check`: every stage's problems at once
Validate(c, h) == c.parse = "ok" /\ Assembles(c, h) /\ Capable(c, h) /\ NotOnPath(c, h) = {}

------------------------------------------------------------------------------
(* Starting a process.                                                        *)

Worker(c, s) == [role |-> "worker", cage |-> s.tier, agent |-> s.agent, image |-> {s.image},
                 denies |-> DeniedPaths(s.readonly, s.writable), protects |-> s.protects]
Judge(c, kind) == [role |-> kind, cage |-> RunTier(c), agent |-> IF kind = "metric" THEN "swe-metrics" ELSE c.ruler,
                   image |-> JudgeImage(c), denies |-> {}, protects |-> {}]

Bin(p) == IF p.role = "script" THEN "sh" ELSE p.agent

\* wrap_protected: only Seatbelt can narrow the network to the proxy (whose port can be opened)
SandboxStarts(c, h, p) == h.wrapper /\ (AllowList(c) => h.os = "macos") /\ Bin(p) \in h.clis

\* Egress::container: the internal network and its relay, started with the first container that is
\* to be behind the list; how that went is remembered for the run
Bridged(ps) ==
    IF bridge # "off" \/ ~AllowList(cfg) \/ \A p \in ps : p.cage # "container" THEN bridge
    ELSE IF host.engine = "docker" /\ host.relay THEN "up" ELSE "failed"

ContainerStarts(c, h, net, p) ==
    /\ h.engine # "none"
    /\ AllowList(c) => net = "up"
    /\ \E i \in p.image : Runs(h, i, Bin(p))

\* what the jail needs, then the program itself
Starts(c, h, net, p) ==
    CASE p.cage = "none"      -> Bin(p) \in h.clis
      [] p.cage = "sandbox"   -> SandboxStarts(c, h, p)
      [] p.cage = "container" -> ContainerStarts(c, h, net, p)

\* a confined agent behind the list reaches its model through the proxy, from a container by the relay
Hears(c, h, p) ==
    \/ ~AllowList(c) \/ p.cage = "none" \/ p.role \notin {"worker", "llm"}
    \/ /\ p.cage = "container" => h.relay
       /\ \A a \in Api(p.agent) : Dials(c.network.rules, [kind |-> "name", host |-> <<a>>], 443, {"public"})

\* what a started process reaches: a jail behind the list has the proxy, and on the host the loopback ports
Reaches(c, p, dest) ==
    \/ ~AllowList(c) \/ p.cage = "none"
    \/ Dials(c.network.rules, dest, dest.port, dest.addrs)
    \/ p.cage = "sandbox" /\ dest.addrs = {"loopback"} /\ Loopback(c.network.rules, dest.port)

StartAll(ps) ==
    LET born == {p \in ps : Starts(cfg, host, Bridged(ps), p)}
    IN /\ bridge' = Bridged(ps)
       /\ started' = born
       /\ stillborn' = ps \ {p \in born : Hears(cfg, host, p)}

------------------------------------------------------------------------------
Init ==
    /\ \E l \in Launches : cfg = l[1] /\ host = l[2]
    /\ pc = "load" /\ warned = FALSE
    /\ at = 1 /\ reps = 0 /\ step = {} /\ unjudged = 0
    /\ sessions = 0 /\ spend = 0 /\ reported = 0 /\ untold = 0
    /\ started = {} /\ stillborn = {} /\ lost = FALSE /\ bridge = "off"

running == <<at, reps, step, unjudged, sessions, spend, reported, untold, started, stillborn, lost, bridge>>

Stage(here, passes, next) ==
    /\ pc = here
    /\ pc' = IF passes THEN next ELSE "refused"
    /\ UNCHANGED <<cfg, host, running>>

Load == Stage("load", cfg.parse = "ok", "assemble") /\ UNCHANGED warned
Assemble == Stage("assemble", Assembles(cfg, host), "capability") /\ UNCHANGED warned
Capability == Stage("capability", Capable(cfg, host), "preflight") /\ warned' = (CostWarnings(cfg) # {})
Preflight == Stage("preflight", NotOnPath(cfg, host) = {}, "boot") /\ UNCHANGED warned

\* the baseline pass: every judge of the run set, in the run's tier
Boot ==
    /\ pc = "boot" /\ pc' = "pick"
    /\ StartAll({Judge(cfg, k) : k \in Kinds(cfg)})
    /\ UNCHANGED <<cfg, host, warned, at, reps, step, unjudged, sessions, spend, reported, untold, lost>>

Cap(e) == Either(e.times \cup e.max, 1)
After(i) == IF i = Len(cfg.entries) THEN 1 ELSE i + 1

\* next_step: an entry's condition is asked from its second repetition on
Exhausted(e, held) == e.until # {} /\ ~held /\ reps >= Cap(e)
MovesOn(e, held) == IF e.until # {} /\ reps > 0 THEN held ELSE reps >= Cap(e)
Broken(e) == reps > 0 /\ \E u \in e.until : ~(u.gains \subseteq DOMAIN cfg.groups)

Aborts ==
    /\ pc' = "ended" /\ started' = {} /\ stillborn' = {}
    /\ UNCHANGED <<at, reps, step, unjudged>>

Pick ==
    /\ pc = "pick"
    /\ \E held \in BOOLEAN :
        LET e == cfg.entries[at]
            next == IF MovesOn(e, held) THEN After(at) ELSE at
            s == Resolve(cfg, cfg.entries[next].step)
        IN IF Broken(e) \/ Exhausted(e, held) THEN Aborts
           ELSE /\ at' = next /\ reps' = (IF MovesOn(e, held) THEN 1 ELSE reps + 1)
                /\ step' = {s}
                /\ unjudged' = (IF s.skip THEN unjudged + 1 ELSE 0)
                /\ pc' = "work" /\ started' = {} /\ stillborn' = {}
    /\ UNCHANGED <<cfg, host, warned, sessions, spend, reported, untold, lost, bridge>>

\* a worker that could not start is a failed session; one that ran has spent a dollar, and names it
\* on its last line: one that is killed, as hung, by a signal or at a limit of its own, never does
Reached == IF stillborn' = {} THEN 1 ELSE 0

Work ==
    /\ pc = "work"
    /\ \E s \in step :
        /\ StartAll({Worker(cfg, s)})
        /\ spend' = spend + Reached
        /\ \E killed \in BOOLEAN :
            /\ reported' = (IF ReportsCost(s.agent) /\ ~killed THEN reported + Reached ELSE reported)
            /\ untold' = (IF killed THEN untold + Reached ELSE untold)
        /\ pc' = (IF s.skip \/ stillborn' # {} THEN "end" ELSE "judge")
    /\ sessions' = sessions + 1
    /\ UNCHANGED <<cfg, host, warned, at, reps, step, unjudged, lost>>

\* the judges of the run, in its tier; done_if may come to hold
Grade ==
    /\ pc = "judge" /\ pc' \in {"end", "ended"}
    /\ StartAll({Judge(cfg, k) : k \in Kinds(cfg)})
    /\ UNCHANGED <<cfg, host, warned, at, reps, step, unjudged, sessions, spend, reported, untold, lost>>

Over(c) == \E l \in CostLimit(c) : reported > l
Halts == \E e \in cfg.abort : "over_cost" \in e.terms /\ Over(cfg)

End ==
    /\ pc = "end"
    /\ pc' = IF Halts \/ sessions >= MaxSessions THEN "ended" ELSE "pick"
    /\ started' = {} /\ stillborn' = {}
    /\ UNCHANGED <<cfg, host, warned, at, reps, step, unjudged, sessions, spend, reported, untold, lost, bridge>>

\* the engine's daemon, the wrapper or the relay goes away under a run; the mechanism chosen stays the same
Fault ==
    /\ pc \in {"pick", "work", "judge"} /\ ~lost /\ lost' = TRUE
    /\ \E f \in Faults : host' = (CASE f = "wrapper" -> [host EXCEPT !.wrapper = FALSE]
                                    [] f = "engine"  -> [host EXCEPT !.engine = "none"]
                                    [] f = "relay"   -> [host EXCEPT !.relay = FALSE])
    /\ UNCHANGED <<cfg, pc, warned, at, reps, step, unjudged, sessions, spend, reported, untold, started, stillborn, bridge>>

Stopped == pc \in {"refused", "ended"} /\ UNCHANGED vars

Next == Load \/ Assemble \/ Capability \/ Preflight \/ Boot \/ Pick \/ Work \/ Grade \/ End \/ Fault \/ Stopped
Spec == Init /\ [][Next]_vars

------------------------------------------------------------------------------
(* Properties.                                                                *)

\* What no stage of prepare_run looks at: a shell on the host, the relay's image, and whether an entry
\* that names a model's host leaves the model's port open.
TakenForGranted(l) ==
    /\ "sh" \in l[2].clis /\ l[2].relay
    /\ \A agent \in Known : \A a \in Api(agent) : \A r \in l[1].network.rules :
        HostMatches(r, [kind |-> "name", host |-> <<a>>]) => r.port = {} \/ 443 \in r.port

ByDefaultOnly == \A s \in Steps(cfg) : s.tier # RunTier(cfg)

\* Every stage of prepare_run refuses for a reason that would otherwise be met later: in a run that was
\* accepted and has lost nothing, every worker starts and reaches its model, and so does every judge of a
\* tier that some step has. (A tier that only `defaults` names is not asked for by any step.)
AcceptedSessionsStart ==
    ~lost => \A p \in stillborn : p.role # "worker" /\ ByDefaultOnly

\* The same of every judge: docs/CONFIG.md says that a missing mechanism is refused at startup.
AcceptedJudgesStart == ~lost => stillborn = {}

\* "a guard that never fires is worse than no guard": in a run that halts over cost and was accepted
\* without a warning, no session is started once the workers that came to their end have spent more than
\* the ceiling, whichever agents its steps resolve to and however it walks them.
AcceptedGuardHolds ==
    (pc = "work" /\ ~warned /\ \E e \in cfg.abort : "over_cost" \in e.terms) => \A l \in CostLimit(cfg) : spend <= l + untold

\* The dollars of the killed counted too: a "dollar ceiling".
DollarCeiling ==
    (pc = "work" /\ ~warned /\ \E e \in cfg.abort : "over_cost" \in e.terms) => \A l \in CostLimit(cfg) : spend <= l

\* The ceiling alone, named in no condition.
CeilingHolds == (pc = "work" /\ ~warned) => \A l \in CostLimit(cfg) : spend <= l + untold

\* Nothing merges and done_if is not asked without a judged step: the walk of an accepted run never goes
\* longer without one than its unjudged entries may be repeated.
SkipCaps == {i \in DOMAIN cfg.entries : cfg.steps[cfg.entries[i].step].skip}
WalkReachesAJudge == step # {} => unjudged <= MapThenSumSet(LAMBDA i : Cap(cfg.entries[i]), SkipCaps)

\* A condition of the sequence that is accepted can be evaluated when the walk asks it.
WalkIsAnswerable == (pc = "pick") => ~Broken(cfg.entries[at])

\* `agg check` and `agg run` give one verdict.
CheckIsTheRunsVerdict ==
    /\ pc = "refused" => ~Validate(cfg, host)
    /\ pc = "boot" => Validate(cfg, host)

Names == IF cfg.context = "ok" THEN DOMAIN Contexts ELSE {}
At(p, path) == Access(host.os, p, Names, path)

\* what docs/CONFIG.md says a process of a role and a tier writes
Writes(p) ==
    CASE p.cage = "none"    -> {Slash}
      [] p.cage = "sandbox" ->
            {TmpDir, <<"dev">>}
            \cup (IF p.role \in {"worker", "llm"} THEN {Cwd} \cup State(p.agent) \cup Siblings(State(p.agent)) ELSE {})
      [] p.cage = "container" /\ p.role = "worker" -> {Cwd, Home("worker")}
      [] p.cage = "container" /\ p.role = "llm"    -> {Home("ruler")}
      [] OTHER -> SpecOf(p).writable \cup SpecOf(p).home

Forbids(p) == IF p.cage = "none" THEN {} ELSE {Private} \cup {Resolved(d) : d \in p.denies \cup p.protects}

WritesAreThePromise(p) ==
    \A path \in Paths : At(p, path) = "rw" =>
        /\ Under(Writes(p), path)
        /\ Under(Forbids(p), path) => p.cage = "container" /\ Under(Writes(p) \ {Cwd}, path)

WorkIsPossible(p) ==
    p.role = "worker" => \A path \in Paths :
        (Covers(Cwd, path) /\ ~Under(Forbids(p), path)) => At(p, path) = "rw"

ContextIsReadOnly(p) ==
    \A n \in Names : At(p, IF p.cage = "container" THEN ContextAt(n) ELSE Contexts[n]) = "ro"

\* no process of a container writes a credential back
CredentialsAreReadOnly(p) ==
    p.cage = "container" => \A h \in SpecOf(p).home :
        \A c \in CredentialMounts(h, SpecOf(p).files) : At(p, c) = "ro"

\* a judge runs a file the worker may have rewritten: it is held at least as tightly as any step
JudgedAsTightly(p) == p.role # "worker" => \A s \in Steps(cfg) : Rank[s.tier] <= Rank[p.cage]

Listed(dest) ==
    \/ Allows(cfg.network.rules, dest, dest.port)
    \/ dest.addrs = {"loopback"} /\ Loopback(cfg.network.rules, dest.port)
ReachIsTheList(p) == AllowList(cfg) => \A d \in Dests : Reaches(cfg, p, d) => Listed(d)

\* Every worker and judge that an accepted run starts is confined as its config asks: it writes what its
\* tier is documented to write and no protected path, only reads context directories and credentials,
\* reaches what the allow-list names, and a judge is never held more loosely than a step of the run.
ConfinedAsAsked ==
    \A p \in started :
        /\ WritesAreThePromise(p)
        /\ WorkIsPossible(p)
        /\ ContextIsReadOnly(p)
        /\ CredentialsAreReadOnly(p)
        /\ JudgedAsTightly(p)
        /\ ReachIsTheList(p)
==============================================================================
