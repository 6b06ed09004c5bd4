SPECIFICATION Spec
CONSTANTS
  X = X
  Kinds = {"api", "logoff", "web3", "google", "popup"}
  Codes = {X}
  MaxLogins = 2
  MaxActs = 4
  Garbage = Garbage
  Failed = Failed
  None = None
INVARIANTS StoredIsState SessionKept CodeSentOnce
CHECK_DEADLOCK FALSE
