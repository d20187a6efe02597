SPECIFICATION Spec
CONSTANTS
  Handles = {1, 2}
  Created = {"AGNSS"}
  WaitsForClose = {2}
  FreedReads = {1, 2}
  Restarts = TRUE
  BadApns = TRUE
  MaxInFlight = 3
INVARIANTS
  ReleasedIsEmpty
  AcquiredMeansConnected
