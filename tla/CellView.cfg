SPECIFICATION FairSpec
CONSTANTS
  Other = Other
  Nothing = Nothing
  Malformed = Malformed
  Names <- SampleNames
  NotAString = Other
  NoObject = Nothing
  NoWords = Malformed
  Texts <- SampleTexts
  Payloads <- SamplePayloads
  Settings <- SampleSettings
INVARIANTS
  TypeOK
  KeywordsMirrored
  OpenersPainted
  DialectsAgree
  PathShownWhole
PROPERTIES
  TextsGetPainted
