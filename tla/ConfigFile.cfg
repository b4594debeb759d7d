\* Once the file is gone, or no update is left, nothing may happen any more.
CHECK_DEADLOCK FALSE
SPECIFICATION FairSpec
CONSTANTS
  Port = Port
  Host = Host
  Zero = Zero
  One = One
  Two = Two
  Cut = Cut
  Unset = Unset
  Other = Other
  NoFile = NoFile
  Key <- MCKey
  Number <- MCNumber
  Value <- MCValue
  Parse <- MCParse
  Wanted <- MCWanted
  InitialFile <- MCInitialFile
  MaxUpdates = 2
INVARIANTS NothingLost SuccessIsLoaded RunsOnWhole
PROPERTIES StoreSpec ProxyReturns
