SPECIFICATION Spec
CONSTANTS
  Orders = {o1}
  Dashboards = {r1}
  Customers = {c1, c2}
  Mine <- OneUser
  WalletOrders = {o1}
  Network = TRUE
  Restarts = TRUE
  MaxQueue = 1
SYMMETRY Windows
INVARIANTS
  
  ReviewsAreEarned
PROPERTIES
  OneStageAtATime
  CancelledStaysCancelled
