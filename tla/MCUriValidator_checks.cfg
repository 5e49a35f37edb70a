SPECIFICATION Spec
CONSTANTS
  Words <- MCWords
  SuffixArgs <- MCSuffixArgs
  Providers <- MCProviders
  Policies <- MCPolicies
  UrlParts <- MCUrlParts
  MaxSuffixes = 3
INVARIANTS
  PassMeansJudged
  PlainUrlPasses
  AddressTextIsRecognised
PROPERTY
  CallsMoveOneWay
