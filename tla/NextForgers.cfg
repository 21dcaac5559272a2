\* GetNextForgersInternalAPI against the auction's own rule, with auction
\* events stored while the API reads the published snapshot.
CONSTANTS
  Bidders = {b1, b2}
  URLs = {u1, u2}
  BidValues = {1, 2}
  MinBidValues = {1, 2}
  NSets = 2
  ClosedAuctionSlots = 1
  MaxSlot = 3
  BlocksPerSlot = 2
  GenesisBlockNum = 3
  MaxBids = 2
  MaxCoordinators = 2
  MaxVarUpdates = 2
  BootCoordinator = boot
  BootCoordinatorURL = bootURL
SPECIFICATION Spec
PROPERTY NextForgersCorrect
