SPECIFICATION Spec
CONSTANTS
  NSectors = 2
  Sectors <- SomeSectors
  ByteSum <- SomeSums
  Marked = {"a1", "b1", "c1"}
  RootMarked = {"a1", "b1"}
  Images <- SomeImages
  Fresh <- ImageA
  Unwritten <- Zeros
  Interfaces = {"ide", "ahci"}
  MaxSaves = 2
  MaxFaults = 2
  MaxCrashes = 2
INVARIANTS
  LoadReturnsCandidate
  SavedIsReadable
  FlushedImageSurvives
PROPERTIES
  ImplementsImageStore
