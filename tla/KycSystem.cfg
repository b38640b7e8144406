\* Two people who may each be admin, operator and user; two overrides at a time.
SPECIFICATION KycSpec
CONSTANTS
  People = {ann, ben}
  Timelocks = {0, 2}
  MinTimelock = 1
  DefaultTimelock = 1
  Expiries = {0, 4}
  MinExpiry = 1
  DefaultExpiry = 1
  OverrideTargets = {"Unverified", "Pending", "Verified"}
  MaxOperators = 1
  MaxTimestamp = 4
  LastTime = 2
  MaxOverrides = 2
INVARIANTS
  OverridesWait
PROPERTIES
  FrozenUntilOverride
  ImplementsStanding
CHECK_DEADLOCK FALSE
