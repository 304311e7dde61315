---------------------------- MODULE Confinement ----------------------------
(* What a process that agg confines can write and reach. A tier is turned into *)
(* a table of rules in the order the code emits them: bwrap's binds (the last  *)
(* one over a path holds), a Seatbelt profile (the last rule that matches      *)
(* holds), a container's mounts (the deepest one holds). A path is the         *)
(* sequence of its components from the root; every listed path is taken to     *)
(* exist, to be free of links, and the root is none of the writable ones.      *)
EXTENDS Naturals, FiniteSets, SequencesExt

Slash == <<>>
TmpDir == <<"tmp">>
HostHome == <<"home">>
Cwd == <<"proj">>
Private == Cwd \o <<"agg", "private">>
Contained == Private \o <<"container">>

\* the run's context directories by their name, one of them under the temporary directory
Contexts == [lib |-> <<"lib">>, notes |-> TmpDir \o <<"notes">>]
ContextAt(name) == <<"context", name>>

\* the files of `isolation_policy.credentials`
RunCredentials == {HostHome \o <<".netrc">>, <<"etc", "token">>}

\* what a judge reads outside the project
Library == HostHome \o <<".agg", "judges">>
TrivyCache == HostHome \o <<".cache", "trivy">>
Scoring == <<"scoring">>

Home(label) == Contained \o <<"home", label>>
Scratch(tier) == IF tier = "container" THEN Contained \o <<"judge", "scratch">> ELSE TmpDir \o <<"scratch">>
Cache(tier) == IF tier = "container" THEN Contained \o <<"judge", "cache">> ELSE TmpDir \o <<"cache">>

Covers(p, path) == IsPrefix(p, path)
Under(ps, path) == \E p \in ps : Covers(p, path)

------------------------------------------------------------------------------
(* What an agent keeps outside the project.                                  *)

ClaudeFile == HostHome \o <<".claude.json">>
ClaudeState == {HostHome \o <<".claude">>, ClaudeFile}
CodexState == {HostHome \o <<".codex">>}
CopilotState == {HostHome \o <<".copilot">>}
State(agent) ==
    CASE agent = "claude"  -> ClaudeState
      [] agent = "codex"   -> CodexState
      [] agent = "copilot" -> CopilotState
      [] OTHER             -> {}

\* its credential files, relative to a home
ClaudeCredentials == {<<".claude", ".credentials.json">>}
CodexCredentials == {<<".codex", "auth.json">>}
Credentials(agent) ==
    CASE agent = "claude" -> ClaudeCredentials
      [] agent = "codex"  -> CodexCredentials
      [] OTHER            -> {}

------------------------------------------------------------------------------
(* The lists of a step. An entry is what splitting it at "/" gives: an         *)
(* absolute one begins with "".                                                *)

\* normalize_path: the entry's one spelling, none when it is the project or above it
Component(acc, part) ==
    CASE part \in {"", "."} -> acc
      [] part = ".."        -> IF acc.at = <<>> THEN [acc EXCEPT !.ok = FALSE] ELSE [acc EXCEPT !.at = Front(@)]
      [] OTHER              -> [acc EXCEPT !.at = Append(@, part)]

Normalized(raw) ==
    LET read == FoldLeft(Component, [ok |-> TRUE, at |-> <<>>], raw)
    IN IF read.ok /\ read.at # <<>>
       THEN {[absolute |-> raw[1] = "", at |-> read.at]}
       ELSE {}

NormalizedAll(raws) == UNION {Normalized(r) : r \in raws}

\* denied_paths, of two normalized lists
DeniedPaths(readonly, writable) == readonly \ writable

\* deny_set: agg/private first, then the step's own entries; all of the project is denied by "."
Relative(at) == [absolute |-> FALSE, at |-> at]
Everything == Relative(<<>>)
Resolved(d) == IF d.absolute THEN d.at ELSE Cwd \o d.at
DenySet(denies) == {Private} \cup {Resolved(d) : d \in denies}

\* protect_channels: rules of the profile on macOS, further read-only binds elsewhere
ProtectChannels(os, denies, protects) ==
    IF os = "macos" THEN [denies |-> denies, rules |-> {Resolved(p) : p \in protects}]
                    ELSE [denies |-> denies \cup protects, rules |-> {}]

------------------------------------------------------------------------------
(* The sandbox. A layer is an access and the paths it is for; "own" is a file  *)
(* system of the process's own, thrown away with it.                           *)

Layer(access, paths) == [access |-> access, paths |-> paths]

BwrapDeniedFirst(writable, denied, readonly) ==
    <<Layer("ro", {Slash}), Layer("ro", denied), Layer("rw", {Cwd}), Layer("rw", writable),
      Layer("own", {TmpDir, <<"proc">>, <<"dev">>}), Layer("ro", readonly)>>

\* linux.rs, build
Bwrap(writable, denied, readonly) ==
    <<Layer("ro", {Slash}), Layer("rw", {Cwd}), Layer("rw", writable), Layer("ro", denied),
      Layer("own", {TmpDir, <<"proc">>, <<"dev">>}), Layer("ro", readonly)>>

\* macos.rs, profile: the files a writable file is rewritten through are granted with it
Siblings(writable) == IF ClaudeFile \in writable THEN {HostHome \o <<".claude.json.tmp">>} ELSE {}
Profile(writable, denied) ==
    <<Layer("ro", {Slash}), Layer("rw", {Cwd, TmpDir} \cup writable \cup Siblings(writable)),
      Layer("rw", {<<"dev", "null">>, <<"dev", "fd">>}), Layer("ro", denied \ {Slash})>>

\* readonly_rules; the rules against unlinking a parent of such a directory are left out
ReadonlyRules(dirs) == Layer("ro", dirs \ {Slash})

\* macos.rs, build
Seatbelt(writable, denied, rules, readonly) ==
    Profile(writable, denied) \o <<Layer("ro", rules), ReadonlyRules(readonly)>>

LastLayer(table, path) ==
    LET hits == {i \in DOMAIN table : Under(table[i].paths, path)}
    IN table[CHOOSE i \in hits : \A j \in hits : j <= i].access

\* what each caller of wrap and wrap_protected gives it
Jail(writable, denies, protects) == [writable |-> writable, denies |-> denies, protects |-> protects]
WorkerJail(p) == Jail(State(p.agent), p.denies, p.protects)
OneShotJail(p) == Jail(State(p.agent), {}, {})
ScriptJail == Jail({Scratch("sandbox"), Cache("sandbox")}, {Everything}, {})
MetricJail == Jail({Scratch("sandbox"), Cache("sandbox")}, {Everything}, {})

JailOf(p) ==
    CASE p.role = "worker" -> WorkerJail(p)
      [] p.role = "llm"    -> OneShotJail(p)
      [] p.role = "script" -> ScriptJail
      [] p.role = "metric" -> MetricJail

\* wrap_protected
Jailed(os, jail, names, path) ==
    LET channels == ProtectChannels(os, jail.denies, jail.protects)
        denied   == DenySet(channels.denies)
        readonly == {Contexts[n] : n \in names}
    IN LastLayer(IF os = "macos" THEN Seatbelt(jail.writable, denied, channels.rules, readonly)
                                 ELSE Bwrap(jail.writable, denied, readonly), path)

------------------------------------------------------------------------------
(* The container.                                                            *)

\* Spec: what is mounted besides the project, and the home's files
Plain == [writable |-> {}, readonly |-> {}, denies |-> {}, project_ro |-> FALSE, home |-> {}, files |-> {}]

WorkerSpec(p) == [Plain EXCEPT !.denies = p.denies \cup p.protects, !.home = {Home("worker")},
                               !.files = Credentials(p.agent)]
OneShotSpec(p) == [Plain EXCEPT !.project_ro = TRUE, !.home = {Home("ruler")}, !.files = Credentials(p.agent)]
ScriptSpec == [Plain EXCEPT !.project_ro = TRUE, !.home = {Home("judge")},
                            !.writable = {Scratch("container"), Cache("container")}, !.readonly = {Library}]
MetricSpec == [Plain EXCEPT !.project_ro = TRUE, !.home = {Home("metrics")},
                            !.writable = {Scratch("container")}, !.readonly = {TrivyCache, Scoring}]

SpecOf(p) ==
    CASE p.role = "worker" -> WorkerSpec(p)
      [] p.role = "llm"    -> OneShotSpec(p)
      [] p.role = "script" -> ScriptSpec
      [] p.role = "metric" -> MetricSpec

\* credential_mounts: under the home what lives under the host's, else at its own path
CredentialMounts(home, files) ==
    {home \o f : f \in files}
    \cup {IF Covers(HostHome, c) THEN home \o SubSeq(c, Len(HostHome) + 1, Len(c)) ELSE c : c \in RunCredentials}

\* containerize_spec's mounts, by the path inside
Mounts(spec, names) ==
    <<Layer(IF spec.project_ro THEN "ro" ELSE "rw", {Cwd}), Layer("rw", spec.writable), Layer("ro", spec.readonly),
      Layer("ro", DenySet(spec.denies)), Layer("ro", {ContextAt(n) : n \in names}), Layer("rw", spec.home),
      Layer("ro", UNION {CredentialMounts(h, spec.files) : h \in spec.home})>>

\* what no mount covers is the container's own
ContainerSees(spec, names, path) ==
    LET table   == Mounts(spec, names)
        hits    == {p \in UNION {table[i].paths : i \in DOMAIN table} : Covers(p, path)}
        deepest == CHOOSE p \in hits : \A q \in hits : Len(q) <= Len(p)
        layers  == {i \in DOMAIN table : deepest \in table[i].paths}
    IN IF hits = {} THEN "own" ELSE table[CHOOSE i \in layers : \A j \in layers : j <= i].access

\* what a started process may do at a path, in a run with the contexts of these names
Access(os, proc, names, path) ==
    CASE proc.cage = "none"      -> "rw"
      [] proc.cage = "sandbox"   -> Jailed(os, JailOf(proc), names, path)
      [] proc.cage = "container" -> ContainerSees(SpecOf(proc), names, path)

------------------------------------------------------------------------------
(* The egress allow-list. A destination is a name or an address, and a port.  *)

\* an entry: the host's pattern (name, suffix, ip, localhost) and its port, none for any
HostMatches(rule, dest) ==
    CASE rule.kind = "name"   -> dest.kind = "name" /\ rule.host = dest.host
      [] rule.kind = "suffix" -> dest.kind = "name" /\ dest.host # rule.host /\ IsSuffix(rule.host, dest.host)
      [] rule.kind = "ip"     -> dest.kind = "ip" /\ rule.host = dest.host
      [] OTHER                -> FALSE

AllowsHost(rules, dest) == \E r \in rules : HostMatches(r, dest)
Allows(rules, dest, port) == \E r \in rules : (r.port = {} \/ port \in r.port) /\ HostMatches(r, dest)

\* the loopback ports a jail reaches without the proxy
Loopback(rules, port) == \E r \in rules : r.kind = "localhost" /\ (r.port = {} \/ port \in r.port)

Forbidden(class) == class \in {"loopback", "linklocal", "unspecified", "multicast", "broadcast"}

\* dial: an address is taken as asked; a name only if one of its addresses is not forbidden
Dials(rules, dest, port, addrs) ==
    /\ Allows(rules, dest, port)
    /\ dest.kind = "ip" \/ \E a \in addrs : ~Forbidden(a)
==============================================================================
