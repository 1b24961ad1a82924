SPECIFICATION FairSpec
CONSTANTS
  i1 = i1  i2 = i2  v1 = v1  v2 = v2  u1 = u1  o1 = o1  k1 = k1  k2 = k2
  k3 = k3  short = short  n1 = n1  n2 = n2  None = None
  Instances = {i1, i2}
  Requests = {r1, r2}
  Configurations <- MCConfigurations
  Calls <- MCCalls
  Issued <- MCIssued
  Venues = {v1, v2}
  Users = {u1}
  Orders = {o1}
  ShortKeys = {short}
  MaxStarts = 2
  MaxCalls = 3
INVARIANTS TypeOK CallersAreKnown AnswersAreHonest
PROPERTIES StopEnds
CHECK_DEADLOCK FALSE
