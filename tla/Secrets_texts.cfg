CONSTANTS
  Bytes <- MCBytes
  Texts <- MCTexts
  Validators <- MCValidators
  Newline <- MCNewline
  CarriageReturn <- MCCarriageReturn
  Header <- MCHeader
  Footer <- MCFooter
  Kind <- MCKind
  Base64 <- MCBase64
  DenyWords <- MCDenyWords
  PemRule = 3
  HeaderCap = 4
  BlockCap = 7
  LineCap = 2
  Radius = 1
  PemRadius = 1
  TailBytes = 1
SPECIFICATION Spec
INVARIANTS TokensAreExact BlocksAreExact EvidenceIsRedacted NoTokenWithinToken
CHECK_DEADLOCK FALSE
