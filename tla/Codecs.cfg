SPECIFICATION Spec
CONSTANTS
  Context = 1
  MaxMemory = 13
  Top = 15
  DefaultRegion = 7
  Radix = 2
  AddressWidth = 3
  Window = 1
  Fields <- MCFields
  MaxFields = 3
  Orders <- MCOrders
  TypedOrders <- MCTypedOrders
  WordOrders <- MCWordOrders
  WordLists <- MCWordLists
  MaxDepth = 2
  MaxWhole = 2
  Values <- MCValues
  Texts <- MCTexts
  Bodies <- MCBodies
  MaxResponse = 24
  SeedBits = 5
  ChecksumBits = 4
  WordBits = 3
  StandardWords = {4}
  Digest <- MCDigest
  StandardDigest <- MCStandardDigest
  Replies <- MCReplies
  Numerals <- MCNumerals
  Base = 2
  WideMax = 7
  WordMax = 6
  ByteMax = 2
  Protocol = 2
  MaxItems = 2
  HexTexts <- MCHexTexts
  HashTexts <- MCHashTexts
CHECK_DEADLOCK FALSE
INVARIANTS
  ArgumentsReadBack
  ArgumentsAdmitted
  JsonReadsBack
  ReadingsAreReported
  AnswersAreWhole
  PhrasesReadBack
