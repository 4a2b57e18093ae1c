SPECIFICATION Spec
CONSTANTS
  Processes = {c1, server}
  Tables <- SomeTables
  Columns <- SomeColumns
  Script <- SomeScript
  Files <- AnyFile
SYMMETRY Starters
INVARIANTS
  SchemaComplete
  FinishedSeedingIsWhole
  SeededByEarlyStarters
