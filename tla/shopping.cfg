SPECIFICATION Spec
CONSTANTS
  Processes = {c1}
  r1 = r1
  r2 = r2
  Dishes <- TwoDishes
  Restaurants <- TwoRestaurants
  Owner <- OneDishEach
  Prices <- APriceChanges
  Nobody = nobody
  MaxUnits = 2
  MaxOrders = 2
INVARIANTS
  OrderGoesToACook
  PricesWereAsked
  OrderedOnce
