\* The user debian, a disk that may fail or lose power, a table of one free slot: sessions and images.
\* (The files of shell_tree have texts; here they are empty.)
CONSTANTS
  MaxNodes = 2
  Names = {"a", "b", ".", "..", "long"}
  LongNames = {"long"}
  Uids = {0, 1000}
  Modes <- SomeModes
  Paths <- FewPaths
  Texts = {}
  NewModes <- FewModes
  Users = {1000}
  HasDisk = TRUE
  SeedPlan <- SmallSeed
  InstallPlan <- SmallInstall
  InitialDisks <- SomeDisks
  MaxSaves = 2
  MaxFaults = 1
SPECIFICATION Spec
PROPERTIES SessionsResume ImplementsPathTree
