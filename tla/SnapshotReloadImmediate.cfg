SPECIFICATION Spec
CONSTANTS
  Loop = loop
  Handlers = {h1}
  Admins = {a1}
  MaxWrites = 2
  MaxErrors = 0
  MayCrash = FALSE
PROPERTIES ImmediateReload
