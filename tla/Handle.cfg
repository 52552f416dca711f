SPECIFICATION FairSpec
CONSTANTS
  Length = 3
  Extra = 3
  Args <- MCArgs
  Bodies <- MCBodies
  Status = {0, 200, 404}
  None = None
INVARIANTS TypeOK HandsWholeBody EndsAnswered ParamsRight RoundTrip DecodesForms
PROPERTIES Ends
CHECK_DEADLOCK FALSE
