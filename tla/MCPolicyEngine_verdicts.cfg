SPECIFICATION Spec
CONSTANTS
  OctetBits = 2
  Octets = 3
  V4Octets = 1
  MappedOnes = 1
  TextLists <- MCTextLists
  CloudNames = {"aws", "other"}
  DefaultTexts <- MCDefaultTexts
  UrlRuleArgs <- MCUrlRules
  RulesetArgs <- MCRulesets
  HeaderRuleArgs <- MCHeaderRules
  ProtocolArgs <- MCProtocols
  Urls <- MCUrls
  IpLists <- MCIpLists
  HostLists <- MCHosts
  HeaderLists <- MCHeaders
  Schemes = {"http", "https"}
  MaxCalls = 2
INVARIANTS
  TypeOK
  VerdictKeepsCallerIntent
  ListIsConjunction
  DenialNamesTheFirstOffender
  UrlVerdictPromise
VIEW
  MCView
CHECK_DEADLOCK FALSE
