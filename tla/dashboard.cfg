SPECIFICATION DashboardSpec
CONSTANTS
  o1 = o1
  o2 = o2
  o3 = o3
  Orders <- ThreeOrders
INVARIANTS
  MirrorsInOrder
  UnannouncedArePaidFor
PROPERTIES
  FreshBoxHasNews
  NewOrdersAreShown
