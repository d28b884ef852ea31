SPECIFICATION Spec
CONSTANTS
  Requests = {r1, r2}
  Sessions = {s1}
  NoSession = no_session
  p1 = p1
  p2 = p2
  m1 = m1
  m2 = m2
  Providers = {p1, p2}
  NoProvider = no_provider
  Models = {m1, m2}
  Configs <- MCConfigs
  MaxChanges = 2
  StoreMayFail = TRUE
INVARIANTS TypeOK RoutedAsPublished UnavailableForCause RulesObeyed AdmittedAsConfigured PickIsProportional
PROPERTIES StickyMovesForCause
SYMMETRY Symmetry
