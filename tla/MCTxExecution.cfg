SPECIFICATION FairSpec
CONSTANTS
  Ops = {o1, o2}
  Signers = {s1, s2}
  MaxRetries = 1
INVARIANTS SubmissionTrue AtMostOneArrival OneUnderWay
PROPERTIES ImplementsTxOutcome CallsEnd
CHECK_DEADLOCK FALSE
