SPECIFICATION Spec
CONSTANTS
  p1 = p1
  p2 = p2
  n1 = n1
  n2 = n2
  People = {p1, p2}
  Names = {n1, n2}
  Clients = {c1}
  Server = server
  FirstUsers <- TwoRestaurants
  Faults = FALSE
INVARIANT RestaurantSessionPerLogin
