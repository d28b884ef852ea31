SPECIFICATION Spec
CONSTANTS
  Users = {u1}
  NoUser = NoUser
  Handlers = {h1, h2}
  Tokens = {1, 3}
  Prices = {1, 6}
  DefaultPrice = 1
  Unit = 2
  WordHalf = 8
  OpeningBalances = {0, 3}
  TopupAmounts = {2}
  MaxLedger = 2
  MaxRequests = 3
  StoreMayFail = TRUE
  MayCrash = TRUE
INVARIANTS TypeOK CreditBacksBalance UncontestedChargeSucceeds UsageCoversCharges
PROPERTIES ImplementsWallet
SYMMETRY Symmetry
