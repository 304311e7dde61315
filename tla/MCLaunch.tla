------------------------------ MODULE MCLaunch ------------------------------
(* Launch over slices of configs: in each, a base config is varied in the      *)
(* keys one question is about, on the hosts that matter to it.                 *)
EXTENDS Launch

Goal == [parses |-> TRUE, judges |-> {"tests"}, gains |-> {}, terms |-> {}]
Spent == [Goal EXCEPT !.judges = {}, !.terms = {"over_cost"}]
Typo == [Goal EXCEPT !.judges = {}, !.gains = {"ghosts"}]
Garbled == [Goal EXCEPT !.parses = FALSE, !.judges = {}]

Body == [agent |-> {}, tier |-> {}, image |-> {}, skip |-> FALSE, auto |-> FALSE, effort |-> FALSE,
         readonly |-> {}, writable |-> {}, protects |-> {}, shapeless |-> FALSE, prompt |-> TRUE]
Entry(s) == [step |-> s, times |-> {}, until |-> {}, max |-> {}]

Base == [parse |-> "ok", tier |-> {}, agent |-> "claude", image |-> {}, jimage |-> {}, ruler |-> "claude",
         steps |-> [build |-> Body, plan |-> [Body EXCEPT !.skip = TRUE]],
         entries |-> <<Entry("plan"), Entry("build")>>,
         done |-> Goal, abort |-> {}, notify |-> {}, notifies |-> FALSE,
         invariants |-> {}, ratchet |-> {}, groups |-> [style |-> {"lint"}],
         kinds |-> [tests |-> "script", lint |-> "script"],
         improves |-> FALSE, summary |-> FALSE, protects |-> {<<"agg", "judges">>}, context |-> "none",
         network |-> [closed |-> FALSE, rules |-> {}], cost |-> {}, env |-> {}]

Images == [alpine  |-> [starts |-> TRUE, clis |-> {"sh"}],
           agents  |-> [starts |-> TRUE, clis |-> {"sh", "claude", "codex"}],
           metrics |-> [starts |-> TRUE, clis |-> {"sh", "claude", "swe-metrics"}],
           broken  |-> [starts |-> FALSE, clis |-> {"sh", "claude"}]]

Clis == {"sh", "claude", "codex", "copilot", "swe-metrics"}
Machine == [os |-> "linux", wrapper |-> TRUE, engine |-> "docker", relay |-> TRUE, clis |-> Clis, images |-> Images]
Machines == {[Machine EXCEPT !.os = os, !.wrapper = w, !.engine = e, !.clis = Clis \ no] :
                os \in {"linux", "macos"}, w \in BOOLEAN, e \in {"none", "docker", "podman"},
                no \in {{}, {"claude"}, {"codex"}, {"swe-metrics"}}}
Tier == {{}, {"none"}, {"sandbox"}, {"container"}}

Tiered(c, d, b, p) == [c EXCEPT !.tier = d, !.steps = [@ EXCEPT !.build.tier = b, !.plan.tier = p]]
Kinded(c, k) == [c EXCEPT !.kinds.tests = k]

\* tiers, images and agents of two steps, and what kind of judge grades them
Confined ==
    {Kinded([Tiered(Base, d, b, p) EXCEPT !.steps.build.image = i, !.steps.plan.agent = a, !.jimage = j], k) :
        d \in Tier, b \in {{}, {"none"}, {"container"}}, p \in {{}, {"sandbox"}, {"container"}},
        i \in {{}, {"agents"}, {"broken"}}, a \in {{}, {"codex"}}, j \in {{}, {"metrics"}},
        k \in {"script", "llm", "metric"}}

\* an entry of every form, and two of them in a sequence
Forms == {[Entry(s) EXCEPT !.times = t] : s \in {"build", "plan", "ghost"}, t \in {{}, {0}, {2}}}
         \cup {[Entry(s) EXCEPT !.until = u, !.max = m] :
                  s \in {"build", "plan"}, u \in {{}, {Goal}}, m \in {{}, {1}, {2}}}
         \cup {[Entry("plan") EXCEPT !.times = {1}, !.until = {Goal}, !.max = {2}]}
Walks == {[Base EXCEPT !.entries = es] : es \in {<<a>> : a \in Forms} \cup {<<a, b>> : a \in Forms, b \in Forms}}

\* agents that report dollars, cap themselves or do neither, under a ceiling or without one
Spending ==
    {[Base EXCEPT !.agent = a, !.steps.plan.agent = p, !.cost = c, !.env = e, !.abort = x, !.done = d,
                  !.steps.build.auto = m, !.steps.build.effort = m] :
        a \in Known, p \in {{}, {"codex"}, {"copilot"}}, c \in {{}, {1}}, e \in {{}, {2}},
        x \in {{}, {Spent}}, d \in {Goal, [Goal EXCEPT !.terms = {"over_cost"}]}, m \in BOOLEAN}

Name(h, port) == [kind |-> "name", host |-> <<h>>, port |-> port]
Lists == {{Name("anthropic", {})}, {Name("anthropic", {443}), Name("openai", {443})},
          {Name("anthropic", {}), [kind |-> "localhost", host |-> <<>>, port |-> {8080}]},
          {Name("openai", {}), [kind |-> "ip", host |-> <<"10.0.0.5">>, port |-> {}]}, {}}
Networked ==
    {Kinded([Tiered(Base, d, b, {}) EXCEPT !.network = [closed |-> TRUE, rules |-> l], !.ruler = r, !.jimage = {"agents"},
                                           !.image = {"agents"}, !.steps.plan.agent = a], k) :
        d \in Tier, b \in Tier, l \in Lists, r \in {"claude", "codex"}, a \in {{}, {"codex"}}, k \in {"script", "llm"}}

\* lists of a step: a directory denied, one inside it allowed again, a protected file, a path above the root
Lister ==
    {[Tiered([Base EXCEPT !.steps.build = [Body EXCEPT !.readonly = r, !.writable = w, !.protects = p, !.shapeless = x],
                          !.context = c, !.image = {"agents"}], d, b, {"sandbox"})
        EXCEPT !.jimage = {"metrics"}] :
        d \in {{}, {"container"}}, b \in Tier,
        r \in {{}, {<<"docs", "">>, <<"src", ".", "..", "tests">>}, {<<"..">>, <<"docs">>, <<"", "home", ".codex">>}},
        w \in {{}, {<<".", "docs">>}}, p \in {{}, {<<"oracle">>}}, x \in BOOLEAN, c \in {"none", "ok", "gone"}}

\* one thing wrong at a time
Odd == {[Base EXCEPT !.parse = "removed key"], [Base EXCEPT !.parse = "unknown key"],
        [Base EXCEPT !.steps.plan.prompt = FALSE], [Base EXCEPT !.done = Garbled], [Base EXCEPT !.abort = {Typo}],
        [Base EXCEPT !.notify = {Goal}], [Base EXCEPT !.notify = {Goal}, !.notifies = TRUE],
        [Base EXCEPT !.notify = {Typo}, !.notifies = TRUE], [Base EXCEPT !.kinds.lint = "missing"],
        [Base EXCEPT !.improves = TRUE, !.done = Spent], [Base EXCEPT !.improves = TRUE, !.done = Spent, !.ratchet = {"lint"}],
        [Base EXCEPT !.improves = TRUE], [Base EXCEPT !.agent = "ghost"], [Base EXCEPT !.ruler = "ghost"],
        [Base EXCEPT !.summary = TRUE, !.ruler = "codex"], [Base EXCEPT !.invariants = {"lint"}],
        [Base EXCEPT !.steps.build.image = {"agents"}, !.steps.plan.image = {"metrics"}, !.tier = {"container"}]}

\* a condition of the walk that names no group: it parses, and is first asked after a session
UntilTypo == {[Base EXCEPT !.entries = <<[Entry("build") EXCEPT !.until = {Typo}, !.max = {2}]>>]}
\* an allow-list entry for another port than the model's
OtherPort == {[Tiered(Base, {"container"}, {}, {}) EXCEPT !.network = [closed |-> TRUE, rules |-> {Name("anthropic", {8443})}],
                                                          !.image = {"agents"}]}

Hosted(configs, hosts) == configs \X hosts
Sound == {Machine, [Machine EXCEPT !.os = "macos"]}
Sliced ==
    Hosted(Confined, {m \in Machines : m.engine # "podman" /\ (m.os = "macos" => m.wrapper)})
    \cup Hosted(Walks, {Machine}) \cup Hosted(Spending, {Machine})
    \cup Hosted(Networked, {m \in Machines : m.wrapper /\ m.clis = Clis}) \cup Hosted(Lister, Sound) \cup Hosted(Odd, {Machine})
ASSUME \A l \in Sliced : TakenForGranted(l)

TypoSlice == Hosted(UntilTypo, {Machine})
PortSlice == Hosted(OtherPort, {Machine})

AllPaths ==
    {<<>>, <<"etc">>, Cwd, Cwd \o <<"src">>, Cwd \o <<"docs">>, Cwd \o <<"tests">>, Cwd \o <<"oracle">>,
     Cwd \o <<"agg", "judges">>, Private, Private \o <<"verdicts">>, Home("worker"), Home("ruler"), Home("judge"),
     Home("metrics"), Scratch("container"), Cache("container"), Scratch("sandbox"), TmpDir, <<"dev", "null">>, <<"proc">>,
     Library, TrivyCache, Scoring, <<"etc", "token">>}
    \cup UNION {State(a) : a \in Known} \cup Siblings(ClaudeState)
    \cup UNION {{Contexts[n], ContextAt(n)} : n \in DOMAIN Contexts}
Dest(h, port, addrs) == [kind |-> "name", host |-> <<h>>, port |-> port, addrs |-> addrs]
AllDests ==
    {Dest("anthropic", 443, {"public"}), Dest("openai", 80, {"public"}), Dest("elsewhere", 443, {"public"}),
     [kind |-> "ip", host |-> <<"10.0.0.5">>, port |-> 443, addrs |-> {"public"}],
     Dest("localhost", 8080, {"loopback"}), Dest("localhost", 22, {"loopback"})}
=============================================================================
