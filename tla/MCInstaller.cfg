SPECIFICATION Spec
CONSTANTS
  MaxNodes = 16
  Names = {"bin", "etc", "home", "var", "tmp", "usr", "run", "hostname", "timezone", "os-release", "passwd", "group", "motd", ".bashrc", "debian", "a", "b", ".", ".."}
  LongNames = {}
  Uids = {0, 1000}
  Modes <- SomeModes
  Texts = {"furos", "pc", "UTC", "text"}
  Disks = {0, 1}
  HostNames = {"furos", "pc", "nul"}
  Zones = {"UTC"}
  Passwords = {"nul", "p"}
  UserNames <- SomeUsers
  ShortNames <- ShortUsers
  Sectors <- KernelSizes
  InitialDisks <- TwoDisks
  MaxBoots = 2
INVARIANTS
  TypeOK
  AccountsSettled
  WholeKernel
  CompleteMeansInstalled
PROPERTIES
  TargetIsShown
  InstallationEnds
CHECK_DEADLOCK FALSE
