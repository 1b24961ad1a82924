SPECIFICATION MCSpec
CONSTANTS
  pending = pending  accepted = accepted
  lisbon = lisbon  porto = porto
  Everything = Everything  AnyCity = AnyCity  None = None
  Orders <- FourOrders
  Times <- TwoOfThem
  Statuses = {pending, accepted}
  Venues <- ThreeVenues
  Names <- TwoOfThem
  Cities = {lisbon, porto}
  Limits <- PageSizes
INVARIANTS TypeOK NothingIsSkipped
PROPERTIES NoOrderTwice CursorLeadsOn CatalogueIsAList
