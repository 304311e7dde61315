----------------------------- MODULE Conditions -----------------------------
(* The condition language of done_if, abort_if, notify_if and until: what an *)
(* expression over the judges' last verdicts, the gate's counters and the    *)
(* run's totals is worth, which expressions a start refuses, and which       *)
(* judges and groups one names.  An expression is its syntax tree in         *)
(* post-order: the operands before the operator, the right one just before   *)
(* it and the left one `back` nodes before it.  The lexer and the precedence *)
(* of the grammar are left out.                                              *)
EXTENDS Integers, FiniteSets, Sequences, TLC

\* Numbers are counted in sixtieths: the met_fraction of up to six judges is
\* exact.  Infinity is an unset cap; nothing measured reaches it.
Unit == 60
Infinity == 1000000
NaN == -1000000

Bool(b) == [t |-> "bool", v |-> IF b THEN Unit ELSE 0]
GoalBool(b) == [t |-> "goal", v |-> IF b THEN Unit ELSE 0]
Num(n) == [t |-> "num", v |-> n]
Missing == [t |-> "missing", v |-> 0]
Bail == [t |-> "error", v |-> 0]

AsBool(x) == x.t # "missing" /\ x.v # 0
IsGoal(x) == x.t = "goal"
Boolean(b, fromGoal) == IF fromGoal THEN GoalBool(b) ELSE Bool(b)

------------------------------------------------------------------------------
(* What a context offers: ctx.goals gives each judge's state and last        *)
(* verdict, ctx.dod, ctx.invariants and ctx.groups the sets the aggregates   *)
(* range over, ctx.errors the judges that failed this step, ctx.gate the     *)
(* counters and references, ctx.run the totals and their caps.               *)

Scope(c, of) ==
    CASE of = "dod" -> c.dod
      [] of = "invariants" -> c.invariants
      [] OTHER -> c.groups[of]
InState(c, of, state) == Cardinality({j \in Scope(c, of) : c.goals[j].state = state})
Total(c, of) == Cardinality(Scope(c, of))

Subset(c, of) == of \in {"dod", "invariants"} \cup DOMAIN c.groups

Aggregate(c, name, of) ==
    IF ~Subset(c, of) THEN Bail ELSE
    CASE name = "all_goals" -> Bool(Total(c, of) > 0 /\ InState(c, of, "met") = Total(c, of))
      [] name = "count_met" -> Num(Unit * InState(c, of, "met"))
      [] name = "count_regressed" -> Num(Unit * InState(c, of, "regressed"))
      [] name = "total" -> Num(Unit * Total(c, of))
      [] name = "met_fraction" ->
            Num(IF Total(c, of) = 0 THEN 0 ELSE (Unit * InState(c, of, "met")) \div Total(c, of))
      [] name = "any_regressed" -> Bool(InState(c, of, "regressed") > 0)
      [] OTHER -> Bail

Counters == {"rollbacks", "consecutive_rollbacks", "no_improvements",
             "consecutive_no_improvements", "no_changes", "consecutive_no_changes"}
Ceilings == {"over_budget", "over_cost", "over_iterations"}

\* a cap of 0 sessions is no cap; the other two are exceeded, not reached
Over(c, name) ==
    CASE name = "over_budget" -> c.run.budget_total # Infinity /\ c.run.tokens_spent > c.run.budget_total
      [] name = "over_cost" -> c.run.cost_limit # Infinity /\ c.run.cost_spent > c.run.cost_limit
      [] name = "over_iterations" ->
            /\ c.run.max_iterations \notin {0, Infinity}
            /\ c.run.iterations >= c.run.max_iterations

WorkTime(c) ==
    LET worked == c.run.wall_time - c.run.human_wait_time - c.run.rate_limit_wait_time
    IN IF worked < 0 THEN 0 ELSE worked

Term(c, name) ==
    CASE name \in Counters -> Num(Unit * c.gate[name])
      [] name \in Ceilings -> Bool(Over(c, name))
      [] name = "work_time" -> Num(WorkTime(c))
      [] name = "any_judge_error" -> Bool(c.errors # {})
      [] name = "oscillating" -> Bool(c.gate.oscillating)
      [] name = "ratchet_regressed" -> Bool(c.gate.last_ratchet # {})
      [] name \in DOMAIN c.run -> Num(c.run[name])
      [] name \in DOMAIN c.goals -> GoalBool(c.goals[name].state = "met")
      [] OTHER -> Bail

\* a verdict's optional number is a set of at most one
Measured(opt) == LET n == CHOOSE n \in opt : TRUE IN IF n = NaN THEN NaN ELSE Unit * n

\* .value and .max of the last verdict, .ref of a ratchet
Accessor(c, judge, field) ==
    LET last == c.goals[judge].last
    IN IF judge \notin DOMAIN c.goals \/ field \notin {"value", "max", "ref"} THEN Bail
       ELSE IF field = "ref" THEN
               IF judge \notin c.gate.ratcheted THEN Bail
               ELSE IF judge \in DOMAIN c.gate.refs THEN Num(Unit * c.gate.refs[judge]) ELSE Missing
       ELSE    IF last.given /\ ~last.error /\ last[field] # {}
               THEN Num(Measured(last[field])) ELSE Missing

------------------------------------------------------------------------------
(* Comparisons.                                                              *)

Related(rel, l, r) ==
    CASE rel = ">=" -> l >= r
      [] rel = ">"  -> l > r
      [] rel = "<=" -> l <= r
      [] rel = "<"  -> l < r
      [] rel = "==" -> l = r
      [] rel = "!=" -> l # r
Flip(rel) == CASE rel = ">=" -> "<=" [] rel = ">" -> "<" [] rel = "<=" -> ">="
               [] rel = "<" -> ">" [] OTHER -> rel

\* a threshold on a group's count that no verdicts can reach
IsCount(c, n) == n.op = "aggregate" /\ n.name \in {"count_met", "count_regressed"}
                 /\ n.of \in DOMAIN c.groups
NeverReachedEarly(rel, size, k) == rel \in {">=", "==", ">"} /\ k >= size
NeverReached(rel, size, k) == (rel \in {">=", "=="} /\ k > size) \/ (rel = ">" /\ k >= size)

Left(e, i) == i - e[i].back
Right(i) == i - 1
Unreachable(c, e, i) ==
    LET l == e[Left(e, i)]
        r == e[Right(i)]
    IN \/ IsCount(c, l) /\ r.op = "num" /\ NeverReached(e[i].rel, Unit * Total(c, l.of), r.n)
       \/ IsCount(c, r) /\ l.op = "num" /\ NeverReached(Flip(e[i].rel), Unit * Total(c, r.of), l.n)

\* the type check comes before the missing number: a start must see it
Compare(rel, l, r) ==
    IF IsGoal(l) \/ IsGoal(r) THEN Bail
    ELSE IF "missing" \in {l.t, r.t} THEN Bool(FALSE)
    ELSE IF NaN \in {l.v, r.v} THEN Bail
    ELSE Bool(Related(rel, l.v, r.v))

------------------------------------------------------------------------------
(* Evaluation.  Neither `and` nor `or` stops early: an operand that cannot   *)
(* be evaluated spoils the whole condition.                                  *)

Operators == {"and", "or", "compare"}

Operated(node, l, r) ==
    CASE node.op = "and" -> Boolean(AsBool(l) /\ AsBool(r), IsGoal(l) \/ IsGoal(r))
      [] node.op = "or" -> Boolean(AsBool(l) \/ AsBool(r), IsGoal(l) \/ IsGoal(r))
      [] node.op = "compare" -> Compare(node.rel, l, r)

\* what the context says of a node by itself
Alone(c, e, i) ==
    CASE e[i].op = "num" -> Num(e[i].n)
      [] e[i].op = "aggregate" -> Aggregate(c, e[i].name, e[i].of)
      [] e[i].op = "term" -> Term(c, e[i].name)
      [] e[i].op = "accessor" -> Accessor(c, e[i].judge, e[i].field)
      [] e[i].op = "compare" -> IF Unreachable(c, e, i) THEN Bail ELSE Bool(TRUE)
      [] OTHER -> Bool(TRUE)

\* the tree's worth, from what each of its nodes is by itself
Combined(alone, e) ==
    LET value[i \in DOMAIN e] ==
            CASE e[i].op \in Operators ->
                    LET l == value[Left(e, i)]
                        r == value[Right(i)]
                    IN IF "error" \in {l.t, r.t, alone[i].t} THEN Bail ELSE Operated(e[i], l, r)
              [] e[i].op = "not" ->
                    LET x == value[Right(i)]
                    IN IF x.t = "error" THEN Bail ELSE Boolean(~AsBool(x), IsGoal(x))
              [] OTHER -> alone[i]
    IN value[Len(e)]
Eval(c, e) == Combined([i \in DOMAIN e |-> Alone(c, e, i)], e)

\* eval_or_log: what cannot be evaluated does not hold
Holds(c, e) == AsBool(Eval(c, e))
Accepted(c, e) == Eval(c, e).t # "error"

\* the judges a condition names one by one, and the groups it names
Nodes(e, ops) == {e[i] : i \in {i \in DOMAIN e : e[i].op \in ops}}
Named(judges, e) ==
    ({n.name : n \in Nodes(e, {"term"})} \cap judges) \cup {n.judge : n \in Nodes(e, {"accessor"})}
Subsets(e) == {n.of : n \in Nodes(e, {"aggregate"})} \ {"dod", "invariants"}

\* spellings for configurations
N(k) == <<[op |-> "num", n |-> Unit * k]>>
T(name) == <<[op |-> "term", name |-> name]>>
A(name, of) == <<[op |-> "aggregate", name |-> name, of |-> of]>>
V(judge, field) == <<[op |-> "accessor", judge |-> judge, field |-> field]>>
Not(e) == Append(e, [op |-> "not"])
And(l, r) == l \o r \o <<[op |-> "and", back |-> Len(r) + 1]>>
Or(l, r) == l \o r \o <<[op |-> "or", back |-> Len(r) + 1]>>
Cmp(l, rel, r) == l \o r \o <<[op |-> "compare", back |-> Len(r) + 1, rel |-> rel]>>
=============================================================================
