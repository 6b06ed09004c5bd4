SPECIFICATION Spec
CONSTANTS
  Flow <- MCFlow
  EnrollTypes = {"state", "event"}
  Emails <- MCEmails
  GivenName = "name"
  GivenEmail = "given"
  Services <- MCEveryOutcome
  MaxEmails = 2
  MaxConfirms = 2
  MaxContinues = 1
  MaxCrashes = 1
  MaxFailures = 1
INVARIANTS TypeOK UserConfirmed UsersBounded FinishedHasUser
PROPERTIES FinishedForever
CHECK_DEADLOCK FALSE
