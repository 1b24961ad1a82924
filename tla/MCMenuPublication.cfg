SPECIFICATION Spec
CONSTANTS
  p1 = p1  p2 = p2  c1 = c1  c2 = c2  tea = tea  pie = pie
  None = None
  Publishers = {p1, p2}
  Customers = {c1, c2}
  Seed <- SeedMenu
  Snapshots <- MenuSnapshots
  Baskets <- MenuBaskets
  MaxMoney = 9
  DeliveryFee = 1
SYMMETRY Symmetry
INVARIANTS TypeOK VersionNamesOneMenu PaidAsShown CurrentMenuIsTranslated PricesAreExact
PROPERTIES ViewsMoveForward
