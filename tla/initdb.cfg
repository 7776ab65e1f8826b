SPECIFICATION FairSpec
INVARIANTS
  TablesAreWhole
  ServicesFindTables
PROPERTIES
  ComesUp
\* The start-up of the engine ends.
CHECK_DEADLOCK FALSE
