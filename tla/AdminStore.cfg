SPECIFICATION Spec
CONSTANTS
  Handlers = {h1, h2}
  Names = {ann, bob}
  SeedAdmin = ann
  Providers = {p, q}
  SeedProviders = {p}
  SeedRows = {k}
  MaxAccounts = 2
  MaxTokens = 3
  MaxWrites = 2
INVARIANTS TypeOK NoEntryWithoutChange 
PROPERTIES PrivilegedWhileRunning OwnerOwnsAccounts TokensComeFromLogins ActorForCause 
