SPECIFICATION LoginSpec
CONSTANTS
  DigitBits = 3
  ByteBits = 4
  Colon = 10
  Space = 2
  Verbatim <- MCVerbatim
  Equated <- MCEquated
  Names <- MCNames
  Passwords <- MCPasswords
  MaxName = 2
  MaxPassword = 2
  MaxField = 2
  OtherTexts <- MCOtherTexts
  AccumulatorBits = 7
  MaxHostPort = 9
  PortBits = 16
  HostNames <- MCHostNames
  Ports <- MCPorts
  Blanks <- MCBlanks
  Texts <- MCTexts
INVARIANTS DecoderTypeOK LoopDecodes RoundTrip TargetAsAsked
PROPERTIES ReadableLogsIn GrantedWasSent
