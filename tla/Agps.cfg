SPECIFICATION FairSpec
CONSTANTS
  Handles = {1, 2}
  Created = {"AGNSS", "INTERNET"}
  WaitsForClose = {}
  FreedReads = {}
  Restarts = FALSE
  BadApns = FALSE
  MaxInFlight = 4
INVARIANTS
  PendingWillBeAnswered
  EveryHandleTracked
  OpenIsBacked
PROPERTY
  OpeningIsAnswered
