-------------------------------- MODULE Usage --------------------------------
(* The record of what every agent call reported: lines by session, role,     *)
(* agent and model, and their sums.                                          *)
EXTENDS Wire

Roles == {"worker", "ruler"}
Sources == {"reported", "partial", "unknown"}

CostSource(cost) == IF cost = {} THEN "unknown" ELSE "reported"
Combine(a, b) == IF a = b THEN a ELSE "partial"

NoTotals == [tokens |-> NoTokens, cost |-> {}, source |-> "unknown", calls |-> 0]

\* mutant: a sum over nothing yet has a source already
MergeAsIs(self, other) ==
    [tokens |-> AddTokens(self.tokens, other.tokens), cost |-> AddOpt(self.cost, other.cost),
     source |-> Combine(self.source, other.source), calls |-> self.calls + other.calls]

Merge(self, other) ==
    IF other.calls = 0 THEN self
    ELSE [tokens |-> AddTokens(self.tokens, other.tokens),
          cost |-> AddOpt(self.cost, other.cost),
          source |-> IF self.calls = 0 THEN other.source ELSE Combine(self.source, other.source),
          calls |-> self.calls + other.calls]

AddCall(totals, u) ==
    Merge(totals, [tokens |-> u.tokens, cost |-> u.cost, source |-> CostSource(u.cost), calls |-> 1])

------------------------------------------------------------------------------
\* the lines a ledger holds, in the order in which they were first charged
NoLedger == <<>>

Line(session, role, agent, u) ==
    [session |-> session, role |-> role, agent |-> agent, model |-> u.model]

Record(ledger, session, role, agent, u) ==
    LET line == Line(session, role, agent, u)
        filed == {i \in DOMAIN ledger : ledger[i].line = line}
        position == CHOOSE i \in filed : TRUE
    IN  IF filed = {} THEN Append(ledger, [line |-> line, totals |-> AddCall(NoTotals, u)])
        ELSE [ledger EXCEPT ![position].totals = AddCall(@, u)]

\* sums merged one after the other
MergeAll(sums) ==
    LET upto[n \in 0 .. Len(sums)] == IF n = 0 THEN NoTotals ELSE Merge(upto[n - 1], sums[n])
    IN  upto[Len(sums)]

SumOf(ledger, roles) ==
    MergeAll([i \in DOMAIN ledger |-> IF ledger[i].line.role \in roles THEN ledger[i].totals ELSE NoTotals])

\* Summary: the total, and the two roles apart
Summary(ledger) ==
    [total |-> SumOf(ledger, Roles), worker |-> SumOf(ledger, {"worker"}), ruler |-> SumOf(ledger, {"ruler"})]
=============================================================================
