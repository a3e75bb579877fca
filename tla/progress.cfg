CONSTANTS
  h1 = h1
  h2 = h2
  h3 = h3
  w1 = w1
  w2 = w2
  j1 = j1
  j2 = j2
  j3 = j3
  k1 = k1
  k2 = k2
  good = good
  bad = bad
  junk = junk
  None = None
  Outcome <- MCOutcome
  QueueLimit = 1
  Retention = 1
  Handlers = {h1, h2}
  Workers = {w1}
  JobIDs = {j1, j2}
  Keys = {k1}
  Payloads = {good, bad}
  Kinds = {"submit"}
  MaxClock = 2
SPECIFICATION FairSpec
PROPERTIES
  AcceptedJobsFinish
  RequestsAnswered
CHECK_DEADLOCK FALSE
