\* The two files of migrations/, applied by three processes.
CONSTANTS
  Cards <- MCCards
  Old <- MCOld
  Runners = {r1, r2, r3}
  Files = 2
  MaxMoves = 2
  MaxFaults = 2
SPECIFICATION Spec
SYMMETRY Symmetry
CHECK_DEADLOCK FALSE
INVARIANTS
  TypeOK
  BackfillKeepsOrder
  FilesAppliedOnce
