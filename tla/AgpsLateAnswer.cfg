SPECIFICATION Spec
CONSTANTS
  Handles = {1, 2}
  Created = {"AGNSS"}
  WaitsForClose = {}
  FreedReads = {}
  Restarts = FALSE
  BadApns = FALSE
  MaxInFlight = 4
INVARIANT
  QuiescentMeansReleased
