SPECIFICATION FairSpec
CONSTANTS
  SecTicks = 5
  MinCells = 4
  PpsTimeout = 6
  ArmLo = 2
  ArmHi = 3
  MaxArmOffset = 1
  Copies = {"mon", "aclk"}
  Monitor = "mon"
  Relocking = {"aclk"}
  MaxFaults <- SomeOfEach
  Budget = 3
INVARIANTS
  NeverASecondFast
  AuditCoversCopies
PROPERTY Converges
