SPECIFICATION Spec
CONSTANTS
  Plain = Plain
  Odd = Odd
  Cut = Cut
  Unset = Unset
  Other = Other
  NoFile = NoFile
  Zero = 0
  Key <- MCKey
  Number <- MCNumber
  Value <- MCValue
  Parse <- MCParse
  MaxPort = 3
  IntRange = 16
  Typed = {4, 15, 16}
  Words = {Odd}
  DefaultText = Plain
  DefaultPort = 3
  InitialConf <- MCInitialConf
INVARIANTS TypeOK SuccessIsEffective ReadyAfterSetup
PROPERTIES RowsGoByRequest ListensWhereAnswered
