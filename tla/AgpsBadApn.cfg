SPECIFICATION Spec
CONSTANTS
  Handles = {1, 2}
  Created = {"AGNSS"}
  WaitsForClose = {}
  FreedReads = {}
  Restarts = FALSE
  BadApns = TRUE
  MaxInFlight = 4
INVARIANT
  PendingWillBeAnswered
