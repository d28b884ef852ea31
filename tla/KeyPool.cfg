SPECIFICATION Spec
CONSTANTS
  Keys = {k1}
  NoKey = NoKey
  Handlers = {h1, h2}
  Reloaders = {b}
  Admins = {b}
  Threshold = 2
  RecoverIntervals = {1}
  ProviderCooldownSec = 2
  SubSec = 2
  MaxSec = 4
  StoreMayFail = TRUE
  MayCrash = TRUE
INVARIANTS TypeOK ErrsBelowThreshold CooldownIsEarned RecoversInTime
PROPERTIES AdminOwnsKey
