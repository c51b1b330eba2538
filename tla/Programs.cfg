SPECIFICATION MCSpec
CONSTANTS
  Tasks = {t1, t2, t3}
  Writes = 2
  MayFail = TRUE
  CPUCount = 1
  MaxPrio = 2
  RTLimit = 2
  Callers = {rc, admin}
  MaxPid = 2
  Inputs <- Buffers
INVARIANT AllTogether
INVARIANT Summarized
INVARIANT NamesLeadBack
INVARIANT ScriptResult
INVARIANT OneServer
PROPERTY AllWritten
PROPERTY Ends
PROPERTY Answered
CHECK_DEADLOCK FALSE
