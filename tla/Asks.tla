-------------------------------- MODULE Asks --------------------------------
(* core/asks.rs: the ledger asks.jsonl of questions to a human, the worker's *)
(* request files that are promoted into it, and the operators who answer.    *)
(* A row reaches the file in two writes, the text and the newline; what      *)
(* several processes write in between ends up on one line, which no reader   *)
(* can parse.  The processes that ask are in Project.                        *)
EXTENDS Integers, SequencesExt

CONSTANTS
    Runs,                 \* starts of the program, in the project's directory
    Answerers,            \* operators' processes: `agg answer`, POST /api/answer
    Values,               \* the answers
    Says,                 \* the one each of them gives
    Questions,            \* what workers ask
    NoRun, NoValue,
    MaxOpenWorkerAsks,    \* MAX_OPEN_WORKER_ASKS
    AppendsOverlap,       \* others write, or the writer dies, between the two writes of an append
    AppendFaults,         \* the appends that may fail
    MaxAsks,              \* bound: questions in the ledger
    MaxRequests           \* bound: request files written by workers

ASSUME NobodyAssumption == NoRun \notin Runs /\ NoValue \notin Values /\ Runs \cap Answerers = {}
ASSUME SaysAssumption == Says \in [Answerers -> Values]
ASSUME AppendAssumption ==
    AppendsOverlap \in BOOLEAN /\ AppendFaults \subseteq {"promote", "mark", "withdraw", "answer"}
ASSUME AskBoundsAssumption == {MaxOpenWorkerAsks, MaxAsks, MaxRequests} \subseteq Nat

VARIABLES
    view,      \* the fold of the ledger's complete lines
    tail,      \* the text after its last newline
    writing,   \* who has written a text and not its newline
    inbox,     \* agg/state/asks: the worker's requests, oldest first
    requested, \* request files written so far
    answering  \* the answer an operator's process has validated and not recorded

ledgerVars == <<view, tail, writing>>
askVars == <<ledgerVars, inbox, requested, answering>>

Ids == 1 .. MaxAsks
Writers == Runs \cup Answerers

Open(id, origin, question) == [row |-> "open", id |-> id, origin |-> origin, text |-> question]
Answered(id, value) == [row |-> "answered", id |-> id, origin |-> "human", text |-> value]
Delivered(id)       == [row |-> "delivered", id |-> id, origin |-> "agg", text |-> "none"]
Withdrawn(id)       == [row |-> "withdrawn", id |-> id, origin |-> "agg", text |-> "none"]
Nothing == [row |-> "nothing", id |-> 0, origin |-> "none", text |-> "none"]
Glued   == [Nothing EXCEPT !.row = "glued"]

Unknown == [origin |-> "none", question |-> "none", answer |-> NoValue,
            delivered |-> FALSE, withdrawn |-> FALSE]
Known(v, id) == v[id].origin # "none"

AskInit ==
    /\ view = [id \in Ids |-> Unknown] /\ tail = Nothing
    /\ writing = {}
    /\ inbox = <<>> /\ requested = 0
    /\ answering = [o \in Answerers |-> Nothing]

------------------------------------------------------------------------------
(* Reading: a row that is the first to say so counts, the rest is ignored.   *)

FoldNoAnswerCheck(v, r) ==
    [v EXCEPT ![r.id] =
        CASE r.row = "open" /\ ~Known(v, r.id) ->
                [Unknown EXCEPT !.origin = r.origin, !.question = r.text]
          [] r.row = "answered" /\ Known(v, r.id) -> [@ EXCEPT !.answer = r.text]
          [] r.row = "delivered" /\ Known(v, r.id) -> [@ EXCEPT !.delivered = TRUE]
          [] r.row = "withdrawn" /\ Known(v, r.id) /\ @.answer = NoValue ->
                [@ EXCEPT !.withdrawn = TRUE]
          [] OTHER -> @]
FoldRow(v, r) ==
    [v EXCEPT ![r.id] =
        CASE r.row = "open" /\ ~Known(v, r.id) ->
                [Unknown EXCEPT !.origin = r.origin, !.question = r.text]
          [] r.row = "answered" /\ Known(v, r.id) /\ @.answer = NoValue ->
                [@ EXCEPT !.answer = r.text]
          [] r.row = "delivered" /\ Known(v, r.id) -> [@ EXCEPT !.delivered = TRUE]
          [] r.row = "withdrawn" /\ Known(v, r.id) /\ @.answer = NoValue ->
                [@ EXCEPT !.withdrawn = TRUE]
          [] OTHER -> @]

Line(v, r) == IF r.row \in {"nothing", "glued"} THEN v ELSE FoldRow(v, r)

\* asks::all: a last line without a newline is read as far as it parses
All == Line(view, tail)
IsOpen(a) == a.origin # "none" /\ a.answer = NoValue /\ ~a.withdrawn
\* mint_id: the first id of the clock's second that the ledger does not hold; the
\* clock is taken to stand still, so a question that was lost leaves its id free
Mintable == {id \in Ids : ~Known(All, id)}
Minted == CHOOSE id \in Mintable : \A other \in Mintable : id <= other
OpenIds(origin) == {id \in Ids : IsOpen(All[id]) /\ All[id].origin = origin}

------------------------------------------------------------------------------
(* Appending.                                                                *)

Text(r) == IF tail = Nothing THEN r ELSE Glued

\* the first write
AppendRow(w, r) ==
    /\ AppendsOverlap \/ writing = {}
    /\ tail' = Text(r) /\ writing' = writing \cup {w} /\ view' = view

\* the second write: the line is complete, for better or worse
Newline(w) ==
    /\ w \in writing
    /\ view' = Line(view, tail) /\ tail' = Nothing /\ writing' = writing \ {w}
    /\ UNCHANGED <<inbox, requested, answering>>

Idle(w) == w \notin writing
Fails(what) == what \in AppendFaults /\ UNCHANGED <<view, tail, writing>>

\* what a process that dies in the middle of an append leaves behind: the row
\* without its newline, or a part of it
Tears(w) ==
    /\ AppendsOverlap \/ Idle(w)
    /\ writing' = writing \ {w}
    /\ tail' \in IF w \in writing /\ tail # Nothing THEN {tail, Glued} ELSE {tail}
    /\ UNCHANGED <<view, inbox, requested, answering>>

------------------------------------------------------------------------------
(* The operator's side.                                                      *)

MayAnswerUnread(id) == Known(All, id)
MayAnswer(id) == Known(All, id) /\ ~All[id].withdrawn /\ All[id].answer = NoValue

\* record_answer, handle_answer: validated against what the ledger says now ...
Validate(o, id) ==
    /\ Idle(o) /\ answering[o] = Nothing
    /\ MayAnswer(id)
    /\ answering' = [answering EXCEPT ![o] = Answered(id, Says[o])]
    /\ UNCHANGED <<ledgerVars, inbox, requested>>

\* ... and appended to what it says by then
Record(o) ==
    /\ Idle(o) /\ answering[o] # Nothing
    /\ AppendRow(o, answering[o]) \/ Fails("answer")
    /\ answering' = [answering EXCEPT ![o] = Nothing]
    /\ UNCHANGED <<inbox, requested>>

------------------------------------------------------------------------------
(* The worker's side.                                                        *)

\* `agg hil`: one file per request, complete before it has its name
Request(q) ==
    /\ requested < MaxRequests
    /\ requested' = requested + 1
    /\ inbox' = Append(inbox, [file |-> requested', question |-> q])
    /\ UNCHANGED <<ledgerVars, answering>>

Repeated(q) == \E id \in OpenIds("worker") : All[id].question = q
TooMany == Cardinality(OpenIds("worker")) >= MaxOpenWorkerAsks
AsksNothingNew(q) == TooMany \/ Repeated(q)
Without(file) == SelectSeq(inbox, LAMBDA request : request.file # file)

DropRequest ==
    /\ inbox # <<>> /\ AsksNothingNew(Head(inbox).question)
    /\ inbox' = Tail(inbox)
    /\ UNCHANGED <<ledgerVars, requested, answering>>

PromoteUnrecorded(r) ==
    /\ inbox # <<>> /\ ~AsksNothingNew(Head(inbox).question)
    /\ UNCHANGED askVars

\* the row is appended before the file is removed
PromoteRequest(r) ==
    /\ inbox # <<>> /\ Mintable # {} /\ ~AsksNothingNew(Head(inbox).question)
    /\ AppendRow(r, Open(Minted, "worker", Head(inbox).question))
    /\ UNCHANGED <<inbox, requested, answering>>

RemoveRequest(file) ==
    /\ inbox' = Without(file)
    /\ UNCHANGED <<ledgerVars, requested, answering>>

Promoted == inbox = <<>> \/ Mintable = {} \/ "promote" \in AppendFaults

\* answers_for_worker
OwedToWorkerRepeatedly == {id \in Ids : All[id].origin = "worker" /\ All[id].answer # NoValue}
OwedToWorker ==
    {id \in Ids : All[id].origin = "worker" /\ All[id].answer # NoValue /\ ~All[id].delivered}
=============================================================================
