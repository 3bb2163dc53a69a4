CONSTANTS
  None = None
  MaxKeys = 1
  SignIds = {"one"}
  MaxEdits = 1
SPECIFICATION AgreementSpec
INVARIANT SameVerdict
CHECK_DEADLOCK FALSE
