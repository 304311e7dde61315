SPECIFICATION Spec
CONSTANTS
  r1 = r1
  r2 = r2
  Runs = {r1, r2}
  o1 = o1
  o2 = o2
  Answerers = {o1, o2}
  Says <- Answers
  yes = yes
  no = no
  Values = {yes, no}
  Questions = {q1}
  NoRun = NoRun
  NoValue = NoValue
  MaxOpenWorkerAsks = 1
  AppendsOverlap = FALSE
  AppendFaults = {"promote", "answer"}
  MaxAsks = 2
  MaxRequests = 1
  Kinds <- Started
  StartsOverlap = FALSE
  ReportFaults = FALSE
  MaxKills = 1
INVARIANT OneLoop
INVARIANT ReportIsTheRuns
INVARIANT WaitsForAnAnswerableAsk
INVARIANT ToldAtMostOnce
PROPERTY AsksAreKept
CHECK_DEADLOCK FALSE
