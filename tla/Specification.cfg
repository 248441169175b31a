SPECIFICATION Spec
CONSTANTS
  Embedded = {"bombadil"}
  OnDisk = {"spec", "props", "lib"}
  Files = {"words", "config"}
  Stubs = {"stub"}
  Sorted <- MCSorted
  Extension <- MCExtension
  Decodes <- MCDecodes
  Entry = "spec"
  Programs <- MCPrograms
  Edits <- MCEdits
  Runtime = "bombadil"
  MaxDocuments = 2
  MaxThrows = 1
  MaxStates = 2
INVARIANTS
  TypeOK
  TypedImportsGetTheirType
  
PROPERTIES
  SnapshotsReachTheirExtractors
CHECK_DEADLOCK FALSE
