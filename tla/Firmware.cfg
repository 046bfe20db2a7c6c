SPECIFICATION LiveSpec
CONSTANTS
  Devices <- MCDevices
  WriteTries = 3
INVARIANTS
  TypeOK ReadsInFile WritesUnlocked PagesInOrder FailsForCause 
PROPERTIES
  KeepsContract UpdateReturns
