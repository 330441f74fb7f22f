\* A DCS that drops nothing, nobody else writing, a connection that stays up.
CONSTANTS
  Values = {v1, v2}
  MaxWrites = 2
  MaxRetries = 2
  MaxDrops = 0
  MaxErrors = 0
  MaxFlaps = 0
  MaxEdits = 0
SPECIFICATION Spec
PROPERTIES RewriteRepairsDrops
CHECK_DEADLOCK FALSE
