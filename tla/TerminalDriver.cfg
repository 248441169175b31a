SPECIFICATION Spec
CONSTANTS
  Capacity = 1
  ReadSize = 2
  KernelOut = 3
  KernelIn = 3
  MaxOutput = 4
  Patience = 1
INVARIANTS
  TypeOK
  ShowsWhatWasWritten
PROPERTIES
  StuckIsNoticed
  EndsWithTheProgram
CHECK_DEADLOCK FALSE
