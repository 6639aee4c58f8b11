\* One user (root), no disk, directories three deep and a table that is full, as a tree of paths.
CONSTANTS
  MaxNodes = 5
  Names = {"a", "b", ".", "..", "long"}
  LongNames = {"long"}
  Uids = {0, 1000}
  Modes <- SomeModes
  Paths <- DeepPaths
  Texts = {"x"}
  NewModes = {}
  Users = {0}
  HasDisk = FALSE
  SeedPlan <- DeepSeed
  InstallPlan <- SmallInstall
  InitialDisks <- NoDisks
  MaxSaves = 0
  MaxFaults = 0
SPECIFICATION Spec
INVARIANTS UniqueNames PathsLeadBack
PROPERTY ImplementsPathTree
