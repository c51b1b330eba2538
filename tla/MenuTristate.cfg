SPECIFICATION Spec
CONSTANTS
  Tristates = {"t"}
  Booleans = {"a", "b"}
  Inputs <- Some
INVARIANT MeaningKept
CHECK_DEADLOCK FALSE
