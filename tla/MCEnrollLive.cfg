SPECIFICATION FairSpec
CONSTANTS
  Flow <- MCFlow
  EnrollTypes = {"state"}
  Emails <- MCOneEmail
  GivenName = "name"
  GivenEmail = "given"
  Services <- MCReliable
  MaxEmails = 2
  MaxConfirms = 2
  MaxContinues = 1
  MaxCrashes = 0
  MaxFailures = 0
PROPERTIES ConfirmedFinishes StartedWaits
CHECK_DEADLOCK FALSE
