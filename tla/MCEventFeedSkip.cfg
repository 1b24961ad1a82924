SPECIFICATION FeedSpec
CONSTANTS
  r1 = r1  r2 = r2  r3 = r3  o1 = o1  o2 = o2  u1 = u1  u2 = u2
  v1 = v1  v2 = v2  k1 = k1  k2 = k2  x1 = x1  x2 = x2
  plain = plain  other = other  None = None
  VenueOrderIDs = {x1, x2}
  Requests = {r1, r2}
  Commands <- FeedCommands
  Orders = {o1, o2}
  Users = {u1}
  Venues = {v1, v2}
  MaxRequests = 3
  MaxMenuVersion = 0
  PageLimit = 2
INVARIANTS NoEventIsSkipped
CHECK_DEADLOCK FALSE
