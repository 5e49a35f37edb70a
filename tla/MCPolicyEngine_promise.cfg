SPECIFICATION Spec
CONSTANTS
  OctetBits = 2
  Octets = 2
  V4Octets = 1
  MappedOnes = 1
  TextLists <- MCSmallTextLists
  CloudNames = {"aws"}
  DefaultTexts <- MCSmallDefaultTexts
  UrlRuleArgs <- MCFewRules
  RulesetArgs = {}
  HeaderRuleArgs = {}
  ProtocolArgs = {}
  Urls <- MCFewUrls
  IpLists <- MCSmallIpLists
  HostLists <- MCSmallHosts
  HeaderLists = {}
  Schemes = {}
  MaxCalls = 2
PROPERTIES
  CallsMoveOneWay
  ImplementsPromise
CHECK_DEADLOCK FALSE
