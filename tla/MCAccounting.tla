---------------------------- MODULE MCAccounting ----------------------------
(* Sessions of the three agents, good ones and bad ones, and a ruler that    *)
(* prices some of its calls.                                                 *)
EXTENDS Accounting

Said(type) == [Blank(type) EXCEPT !.text = "words"]
Tokens(in, out, read) ==
    [NoTokens EXCEPT !["input"] = {in}, !["output"] = {out}, !["cache_read"] = {read}]

Init1 == [Blank("init") EXCEPT !.model = {"m1"}]
Result(out, cost) ==
    [Blank("result") EXCEPT !.tokens = {[Tokens(1, out, 1) EXCEPT !["cache_write"] = {1}]},
                            !.cost = cost, !.model = {"m2"}, !.sid = {"s1"}]
Claude(lines, exit) == [agent |-> "claude", lines |-> lines, exit |-> exit, resumed |-> FALSE]
ClaudeGood == Claude(<<Init1, Result(1, {2})>>, {0})
ClaudeAtLimit == Claude(<<Init1, [Result(0, {1}) EXCEPT !.text = "limit", !.reset = {5}]>>, {1})
ClaudeHung == Claude(<<Init1, Said("text")>>, {})
Rejected == Claude(<<>>, {2})
Unresumable == [Rejected EXCEPT !.resumed = TRUE]

CodexGood ==
    [agent |-> "codex", exit |-> {0}, resumed |-> FALSE,
     lines |-> <<[Blank("thread_started") EXCEPT !.sid = {"s2"}],
                 [Blank("turn_completed") EXCEPT !.tokens = {Tokens(3, 1, 2)}]>>]
CodexAtLimit ==
    [agent |-> "codex", exit |-> {1}, resumed |-> FALSE,
     lines |-> <<[Blank("turn_failed") EXCEPT !.text = "limit"]>>]
Message(text, out) ==
    [Blank("message") EXCEPT !.text = text, !.tokens = {[NoTokens EXCEPT !["output"] = {out}]}, !.model = {"m3"}]
CopilotGood ==
    [agent |-> "copilot", exit |-> {0}, resumed |-> FALSE,
     lines |-> <<Message("words", 1), Message("", 1)>>]

SomeWorkers == {CopilotGood, CodexAtLimit, Unresumable}
EveryWorker == {ClaudeGood, ClaudeAtLimit, Unresumable, CodexGood, CopilotGood}
HungWorkers == {ClaudeHung}
TwoWorkers == {ClaudeGood, ClaudeAtLimit}

Priced == [model |-> {"m1"}, tokens |-> Tokens(1, 1, 0), cost |-> {1}]
Unpriced == [model |-> {}, tokens |-> Tokens(1, 1, 0), cost |-> {}]
SomeRulings == {<<Unpriced, Priced>>}
NoRulings == {<<>>}
=============================================================================
