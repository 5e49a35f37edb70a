SPECIFICATION BothSpec
CONSTANTS
  OctetBits = 2
  Octets = 2
  V4Octets = 1
  MappedOnes = 1
  TextLists <- MCParityTextLists
  CloudNames = {"aws"}
  CloudTexts <- MCCloudTexts
  ToLower <- MCToLower
  DefaultTexts <- MCParityDefaultTexts
  UrlRuleArgs <- MCParityRules
  RulesetArgs = {}
  HeaderRuleArgs = {}
  ProtocolArgs = {}
  Urls <- MCUrls
  IpLists <- MCSmallIpLists
  HostLists <- MCSmallHosts
  HeaderLists = {}
  Schemes = {}
  MaxCalls = 3
  MaxEvents = 2
INVARIANTS
  EnginesAgree
  DenyPrefixesTellTheSet
CHECK_DEADLOCK FALSE
