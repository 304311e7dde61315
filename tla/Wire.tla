-------------------------------- MODULE Wire --------------------------------
(* What the three agents print and what the program reads out of it: the     *)
(* backends' parsers, and the fold of a whole output into one call's usage.  *)
(* A line is a record; text is kept only as far as the parsers tell it       *)
(* apart: nothing, words, or words that speak of a rate limit.               *)
EXTENDS Naturals, FiniteSets, SequencesExt

Agents == {"claude", "codex", "copilot"}
Texts == {"", "words", "limit"}

\* token kinds: an option each, "not reported" is not zero
Kinds == {"input", "output", "cache_write", "cache_read"}
NoTokens == [k \in Kinds |-> {}]

\* an option is a set of at most one number
Options == {o \in SUBSET Nat : o = {} \/ \E n \in o : o = {n}}
Counts == [Kinds -> Options]
Usages == [model : SUBSET STRING, tokens : Counts, cost : Options]

\* a line names at most one count of tokens
OutputLines ==
    {l \in [type : STRING, text : Texts, tokens : SUBSET Counts, cost : Options,
            model : SUBSET STRING, sid : SUBSET STRING, reset : SUBSET Nat] :
        l.tokens = {} \/ \E t \in l.tokens : l.tokens = {t}}

\* a line no parser takes anything from but its type
Blank(type) ==
    [type |-> type, text |-> "", tokens |-> {}, cost |-> {}, model |-> {}, sid |-> {}, reset |-> {}]

------------------------------------------------------------------------------
(* Options and sums of usage.                                                *)

Number(option) == IF option = {} THEN 0 ELSE CHOOSE n \in option : TRUE

AddOpt(a, b) == IF a = {} /\ b = {} THEN {} ELSE {Number(a) + Number(b)}

AddTokens(a, b) == [k \in Kinds |-> AddOpt(a[k], b[k])]

NoUsage == [model |-> {}, tokens |-> NoTokens, cost |-> {}]

------------------------------------------------------------------------------
(* Claude: one terminal line prices the whole session.                       *)

Lookup(table, type) == IF type \in DOMAIN table THEN {table[type]} ELSE {}
OnlyOn(types, line, value) == IF line.type \in types THEN value ELSE {}

\* what a line shows in the dashboard's activity
ClaudeEvent(line) ==
    Lookup([init |-> "init", text |-> "think", tool_use |-> "tool",
            tool_result |-> "tool_result", result |-> "result"], line.type)

ClaudeTokens(line) == OnlyOn({"result"}, line, line.tokens)
ClaudeModel(line) == OnlyOn({"init", "result"}, line, line.model)
ClaudeSession(line) == OnlyOn({"result"}, line, line.sid)

ClaudeLimited(line) == line.type = "result" /\ line.text = "limit"
ClaudeResult(line) ==
    OnlyOn({"result"}, line,
           {[cost |-> line.cost, limited |-> ClaudeLimited(line),
             reset |-> IF ClaudeLimited(line) THEN line.reset ELSE {}]})

------------------------------------------------------------------------------
(* Codex: a line per turn; no price, no model, no time of reset.             *)

CodexEvent(line) ==
    IF line.type = "agent_message" /\ line.text = "" THEN {}
    ELSE Lookup([agent_message |-> "think", command |-> "tool", item_error |-> "tool_result",
                 turn_completed |-> "result", turn_failed |-> "result", error |-> "tool_result"], line.type)

\* the cached prompt is counted inside the input; the four kinds do not overlap
Uncached(tokens) ==
    LET cached == Number(tokens["cache_read"])
    IN  [tokens EXCEPT !["input"] = {IF i > cached THEN i - cached ELSE 0 : i \in @},
                       !["cache_write"] = {}]

CodexTokens(line) == OnlyOn({"turn_completed"}, line, {Uncached(t) : t \in line.tokens})
CodexSession(line) == OnlyOn({"thread_started"}, line, line.sid)

CodexLimited(line) == line.type \in {"turn_failed", "error"} /\ line.text = "limit"
CodexResult(line) ==
    OnlyOn({"turn_completed", "turn_failed", "error"}, line,
           {[cost |-> {}, limited |-> CodexLimited(line), reset |-> {}]})

------------------------------------------------------------------------------
(* Copilot: output tokens on every message, some of them without words.      *)

CopilotEvent(line) ==
    IF line.type \in {"reasoning", "message"} /\ line.text = "" THEN {}
    ELSE Lookup([reasoning |-> "think", message |-> "think", tool_start |-> "tool",
                 tool_complete |-> "tool_result", result |-> "result"], line.type)

CopilotTokens(line) ==
    OnlyOn({"message"}, line, {[NoTokens EXCEPT !["output"] = t["output"]] : t \in line.tokens})
CopilotModel(line) == OnlyOn({"message", "reasoning"}, line, line.model)
CopilotSession(line) == OnlyOn({"result"}, line, line.sid)
CopilotResult(line) == OnlyOn({"result"}, line, {[cost |-> {}, limited |-> FALSE, reset |-> {}]})

------------------------------------------------------------------------------
(* The backend of an agent.                                                  *)

ParseEvent(agent, line) ==
    CASE agent = "claude" -> ClaudeEvent(line)
      [] agent = "codex" -> CodexEvent(line)
      [] agent = "copilot" -> CopilotEvent(line)
ParseUsage(agent, line) ==
    CASE agent = "claude" -> ClaudeTokens(line)
      [] agent = "codex" -> CodexTokens(line)
      [] agent = "copilot" -> CopilotTokens(line)
ParseModel(agent, line) ==
    CASE agent = "claude" -> ClaudeModel(line)
      [] agent = "codex" -> {}
      [] agent = "copilot" -> CopilotModel(line)
ParseSessionId(agent, line) ==
    CASE agent = "claude" -> ClaudeSession(line)
      [] agent = "codex" -> CodexSession(line)
      [] agent = "copilot" -> CopilotSession(line)
ParseResult(agent, line) ==
    CASE agent = "claude" -> ClaudeResult(line)
      [] agent = "codex" -> CodexResult(line)
      [] agent = "copilot" -> CopilotResult(line)

------------------------------------------------------------------------------
(* A session's output, line by line, and a one-shot's at once.               *)

FreshShared == [usage |-> NoUsage, limited |-> FALSE, reset |-> {}, sid |-> {}]

\* what the line reports, where it reports tokens
Noted(tokens, reported) ==
    IF reported = {} THEN tokens ELSE AddTokens(tokens, CHOOSE t \in reported : TRUE)

\* tokens add up, the first model named stays
NoteUsage(usage, agent, line) ==
    [usage EXCEPT !.tokens = Noted(@, ParseUsage(agent, line)),
                  !.model = IF @ = {} THEN ParseModel(agent, line) ELSE @]

\* the value that replaces an earlier one, when there is a new one
Latest(old, new) == IF new = {} THEN old ELSE new

\* the reader thread on one line; the price is set, not added
ReadLine(shared, agent, line) ==
    LET report == ParseResult(agent, line)
        Said(field) == UNION {r[field] : r \in report}
        noted == NoteUsage(shared.usage, agent, line)
    IN  [usage |-> [noted EXCEPT !.cost = Latest(@, Said("cost"))],
         limited |-> shared.limited \/ \E r \in report : r.limited,
         reset |-> Latest(shared.reset, Said("reset")),
         sid |-> Latest(shared.sid, ParseSessionId(agent, line))]

ReadAll(agent, lines) ==
    FoldLeft(LAMBDA shared, line : ReadLine(shared, agent, line), FreshShared, lines)

\* tally_one_shot: a body that is one event counts as it is, others line by line
WholeEvent(agent, line) ==
    [model |-> ParseModel(agent, line),
     tokens |-> IF ParseUsage(agent, line) = {} THEN NoTokens ELSE CHOOSE t \in ParseUsage(agent, line) : TRUE,
     cost |-> UNION {r.cost : r \in ParseResult(agent, line)}]

\* mutant: the model named last
TallyLineLast(usage, agent, line) ==
    [model |-> Latest(usage.model, ParseModel(agent, line)),
     tokens |-> Noted(usage.tokens, ParseUsage(agent, line)),
     cost |-> Latest(usage.cost, UNION {r.cost : r \in ParseResult(agent, line)})]

TallyLine(usage, agent, line) ==
    [model |-> IF usage.model = {} THEN ParseModel(agent, line) ELSE usage.model,
     tokens |-> Noted(usage.tokens, ParseUsage(agent, line)),
     cost |-> Latest(usage.cost, UNION {r.cost : r \in ParseResult(agent, line)})]

TallyOneShot(agent, lines) ==
    IF Len(lines) = 1 /\ (ParseUsage(agent, lines[1]) # {} \/ ParseResult(agent, lines[1]) # {})
    THEN WholeEvent(agent, lines[1])
    ELSE FoldLeft(LAMBDA usage, line : TallyLine(usage, agent, line), NoUsage, lines)

------------------------------------------------------------------------------
(* How a session ended.                                                      *)

\* exit is an option: a killed worker has no code, and no code is not a limit
Outcome(shared, exit, killed) ==
    [exit |-> exit, usage |-> shared.usage, killed |-> killed, sid |-> shared.sid,
     limited |-> shared.limited /\ Number(exit) # 0, reset |-> shared.reset]

OutputOf(usage) == Number(usage.tokens["output"])

IsDud(outcome) == ~outcome.limited /\ outcome.exit # {0} /\ OutputOf(outcome.usage) = 0
=============================================================================
