SPECIFICATION DesktopSpec
CONSTANTS
  MaxNodes = 5
  Names = {"etc", "hostname", "timezone", "untitled.txt", ".", ".."}
  LongNames = {}
  Uids = {0, 1000}
  Modes <- SomeModes
  Texts = {"x", "furos", "pc", "UTC"}
  Paths <- SomePaths
  NewModes <- NoModes
  Users = {0}
  HasDisk = TRUE
  SeedPlan <- SmallSeed
  InstallPlan <- NoPlan
  InitialDisks <- SomeDisks
  MaxSaves = 2
  MaxFaults = 1
  Drafts = {"x"}
  HostNames = {"pc"}
  Zones = {"x"}
  NameLen <- Lengths
  PathBuf = 16
  MaxCommands = 1
  MaxResets = 1
INVARIANTS
  DesktopTypeOK
  EditorTellsTheTruth
  SettingsReadBack
  ViewerShowsSelection
PROPERTIES
  SavesFollowALogin
CHECK_DEADLOCK FALSE
