SPECIFICATION Spec
CONSTANTS
  client = client
  server = server
  u1 = u1
  NoOne = none
  Processes <- OneClientOneServer
  Users <- OneUser
  Ops <- Calls
  Tx <- Transactional
  Owner <- CallOwner
  Of <- CallOf
  Delta <- CallDelta
  Stmts <- CallStmts
  Refers <- CallRefers
  After <- CallAfter
INVARIANTS
  RefusedNeverTakesEffect
  AnsweredTrueIsStored
  PersistedInOrder
PROPERTIES
  Atomicity
