SPECIFICATION Spec
CONSTANTS
  Handlers = {h1}
  Names = {ann, bob}
  SeedAdmin = ann
  Providers = {p, q}
  SeedProviders = {p}
  SeedRows = {k}
  MaxAccounts = 2
  MaxTokens = 3
  MaxWrites = 3
PROPERTIES SeedOnlyEmptyDB
