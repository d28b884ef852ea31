SPECIFICATION Spec
CONSTANTS
  Loop = loop
  Handlers = {h1}
  Admins = {a1}
  MaxWrites = 2
  MaxErrors = 1
  MayCrash = TRUE
INVARIANTS TypeOK 
PROPERTIES PublishedIsRecent Converges
