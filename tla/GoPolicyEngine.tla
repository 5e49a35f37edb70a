--------------------------- MODULE GoPolicyEngine ---------------------------
(***************************************************************************)
(* The native Go engine of go-native/ressrf/internal/engine, beside the    *)
(* Rust engine of PolicyEngine.  The two are written apart and promise to  *)
(* decide alike, so a step here is a call a caller makes on both builders, *)
(* or a question put to both policies.                                     *)
(*                                                                         *)
(* The Go builder keeps texts and parses them all in Build, with an error  *)
(* for the first that does not parse; the Rust builder parses as it goes   *)
(* and skips.  Addresses and prefixes are those of net/netip, compared bit *)
(* by bit.                                                                 *)
(***************************************************************************)
EXTENDS PolicyEngine

CONSTANTS
  CloudTexts,     \* [provider name |-> its deny texts], the generated data
  ToLower,        \* [name as a caller writes it |-> name in lower case]
  MaxEvents       \* bound: questions asked while the Go sink is attached

VARIABLES
  goPhase,        \* "building", "built", "refused" (Build returned an error)
  goBuilder,      \* the fields of PolicyBuilder
  goPolicy,       \* the deny and allow sets and the rules of Policy
  goAnswer,       \* the verdict on the question asked last
  goEvents        \* events the Go sink received

goVars == <<goPhase, goBuilder, goPolicy, goAnswer, goEvents>>

\* In front of a mapped address stands an octet of ones.  What a provider's
\* name stands for, a caller of the Rust builder passes.  Every shipped text
\* parses strictly: mustParseCIDR panics on one that does not parse at all, and
\* that none has host bits is so in the shipped data (Go masks them before it
\* looks for them, cidr.go:65-72, where Rust passes over such a text).
ASSUME GoAssumption ==
  /\ MappedOnes # 0
  /\ CloudTexts \in [CloudNames -> TextLists]
  /\ \A list \in Range(DefaultTexts) : \A i \in DOMAIN list : ParsesStrict(list[i])
  /\ MaxEvents \in Nat

-----------------------------------------------------------------------------
(***************************************************************************)
(* Prefixes (cidr.go over net/netip).                                      *)
(***************************************************************************)

\* Bit k of octet i is within the first n bits of an address.
Within(i, k, n) == OctetBits * (i - 1) + k <= n

\* The first n bits of two addresses are the same.
SharesBits(a, b, n) ==
  \A i \in DOMAIN a, k \in Ones : Within(i, k, n) => (k \in a[i] <=> k \in b[i])

\* netip.Prefix.Masked: the bits behind the prefix are cleared.
MaskedOctets(octets, n) ==
  [i \in DOMAIN octets |-> {k \in octets[i] : Within(i, k, n)}]

\* parseCIDR, loose: forms other than "canonical" are refused by ParseUint and
\* parseIPStrict.
GoParses(text) ==
  /\ text.form = "canonical"
  /\ text.prefix <= IF text.ip.fam = "v4" THEN V4Bits ELSE V6Bits

\* addrPrefixBits.
PrefixBits(text) == IF text.ip.fam = "v4" THEN text.prefix + V4Shift ELSE text.prefix

ParseCIDRLoose(text, tier) ==
  [addr     |-> MaskedOctets(Normalized(text.ip), PrefixBits(text)),
   bits     |-> PrefixBits(text),
   original |-> text,
   source   |-> tier]

\* CIDR.Contains and CIDRSet.Contains (the first range that matches).
GoContains(range, ip) == SharesBits(range.addr, Normalized(ip), range.bits)
GoMatches(ranges, ip) == {i \in DOMAIN ranges : GoContains(ranges[i], ip)}
GoInSet(ranges, ip)   == GoMatches(ranges, ip) # {}
GoFirst(ranges, ip) ==
  ranges[CHOOSE i \in GoMatches(ranges, ip) : \A j \in GoMatches(ranges, ip) : i <= j]

Is4In6(octets) ==
  \A i \in 1 .. (Octets - V4Octets) :
     octets[i] = IF i <= Octets - V4Octets - MappedOnes THEN {} ELSE Ones

\* Mutated form: an IPv4 range keeps the length it has in the mapped space.
NativePrefixUnshifted(range) ==
  IF Is4In6(range.addr)
  THEN [fam |-> "v4", octets |-> SubSeq(range.addr, Octets - V4Octets + 1, Octets),
        bits |-> range.bits]
  ELSE [fam |-> "v6", octets |-> range.addr, bits |-> range.bits]

\* CIDR.NativePrefix.
NativePrefix(range) ==
  IF Is4In6(range.addr)
  THEN [fam |-> "v4", octets |-> SubSeq(range.addr, Octets - V4Octets + 1, Octets),
        bits |-> range.bits - V4Shift]
  ELSE [fam |-> "v6", octets |-> range.addr, bits |-> range.bits]

\* DefaultDenySet over the lists mustParseCIDR parsed: strict parsing masks the
\* prefix like loose parsing and then finds no host bits to refuse.
GoDefaultDenySet ==
  LET tier(texts, name) == [i \in DOMAIN texts |-> ParseCIDRLoose(texts[i], name)]
  IN tier(DefaultTexts.iana_v4, "iana") \o tier(DefaultTexts.iana_v6, "iana")
       \o tier(DefaultTexts.override, "override")
       \o tier(DefaultTexts.csp_metadata, "csp_metadata")

-----------------------------------------------------------------------------
(***************************************************************************)
(* Decisions (policy.go, url_rules.go).                                    *)
(***************************************************************************)

\* Mutated form: a range of the deny set is found before the allow set is read.
GoExternalOnlyDenyFirst(p, ips) ==
  LET denied == {i \in DOMAIN ips : GoInSet(p.denySet, ips[i])}
      first  == CHOOSE i \in denied : \A j \in denied : i <= j
  IN IF denied = {} THEN Ok ELSE BlockedByCidr(GoFirst(p.denySet, ips[first]))

\* The loop of ExternalOnly in isNetworkAllowedIPs.
GoExternalOnly(p, ips) ==
  LET denied == {i \in DOMAIN ips : /\ ~ GoInSet(p.allowSet, ips[i])
                                    /\ GoInSet(p.denySet, ips[i])}
      first  == CHOOSE i \in denied : \A j \in denied : i <= j
  IN IF denied = {} THEN Ok ELSE BlockedByCidr(GoFirst(p.denySet, ips[first]))

\* IsNetworkAllowed.
GoNetworkVerdict(p, ips) ==
  IF ips = <<>> THEN Blocked("DnsEmptyResponse")
  ELSE CASE p.preset = "None" -> Ok
         [] p.preset = "InternalOnly" ->
              IF \E i \in DOMAIN ips : ~ GoInSet(p.allowSet, ips[i])
              THEN Blocked("NotInAllowList") ELSE Ok
         [] p.preset = "ExternalOnly" -> GoExternalOnly(p, ips)

\* URLRule.matches; the glob functions are those of url_rules.rs, line by line.
GoRuleMatches(rule, url) ==
  IF rule.regex # {} THEN \E r \in rule.regex : url \in r.matches
  ELSE /\ rule.scheme = {} \/ rule.scheme = url.scheme
       /\ \A h \in rule.host : GlobMatchHost(h, url.host)
       /\ \A p \in rule.path : GlobMatchPath(p, url.path)

\* URLRuleset.Evaluate, and isRequestAllowed around it: what is left to the
\* URI validator is "NoMatch" or "Allowed".
GoUrlDecision(p, url) ==
  LET hits(rules) == {i \in DOMAIN rules : GoRuleMatches(rules[i], url)}
      allow       == hits(p.ruleset.allow)
      first       == CHOOSE i \in allow : \A j \in allow : i <= j
  IN IF hits(p.ruleset.deny) # {} THEN "Denied"
     ELSE IF p.ruleset.allow = <<>> THEN "NoMatch"
     ELSE IF allow = {} THEN "Denied"
     ELSE IF p.ruleset.allow[first].bypass_ip_check THEN "AllowedBypassIp" ELSE "Allowed"

\* DenyPrefixes: native prefixes, the first of each kind kept.
DenyPrefixes(p) ==
  LET native == [i \in DOMAIN p.denySet |-> NativePrefix(p.denySet[i])]
  IN KeepAt(native, {i \in DOMAIN native : \A j \in 1 .. (i - 1) : native[j] # native[i]})

-----------------------------------------------------------------------------
(***************************************************************************)
(* The Go builder and policy.                                              *)
(***************************************************************************)
NoPolicy == [preset |-> "None", denySet |-> <<>>, allowSet |-> <<>>,
             cloudModules |-> <<>>, ruleset |-> [allow |-> <<>>, deny |-> <<>>]]

\* NewPolicyBuilder.
GoInit ==
  /\ goPhase = "building"
  /\ goBuilder = [preset |-> cfg.preset, denyCIDRs |-> <<>>, allowCIDRs |-> <<>>,
                  cloudModules |-> <<>>, sink |-> FALSE,
                  ruleset |-> [allow |-> <<>>, deny |-> <<>>]]
  /\ goPolicy = NoPolicy
  /\ goAnswer = Ok
  /\ goEvents = <<>>

Tiered(texts, tier) == [i \in DOMAIN texts |-> [cidr |-> texts[i], tier |-> tier]]

GoCall(newBuilder) ==
  /\ goPhase = "building"
  /\ goBuilder' = newBuilder
  /\ UNCHANGED <<goPhase, goPolicy, goAnswer, goEvents>>

AddDeniedCIDRs(texts) ==
  GoCall([goBuilder EXCEPT !.denyCIDRs = @ \o Tiered(texts, "user_deny")])
AddAllowedCIDRs(texts) ==
  GoCall([goBuilder EXCEPT !.allowCIDRs = @ \o texts])

\* AddCloudProviderDenies for one of its names, written in any case.
AddCloudProviderDenies(written) ==
  LET name == ToLower[written]
  IN /\ name \in CloudNames
     /\ GoCall([goBuilder EXCEPT !.cloudModules = Append(@, name),
                                 !.denyCIDRs = @ \o Tiered(CloudTexts[name], name)])

\* AddCloudProviderDenies for a name that is no provider's.
IgnoreCloudProvider(written) == ToLower[written] \notin CloudNames /\ GoCall(goBuilder)

AddURLAllow(rule) == GoCall([goBuilder EXCEPT !.ruleset.allow = Append(@, rule)])
AddURLDeny(rule)  == GoCall([goBuilder EXCEPT !.ruleset.deny = Append(@, rule)])
GoSetAuditSink    == GoCall([goBuilder EXCEPT !.sink = TRUE])

\* Every text of the builder parses.
GoTextsParse(b) ==
  /\ \A i \in DOMAIN b.denyCIDRs : GoParses(b.denyCIDRs[i].cidr)
  /\ \A i \in DOMAIN b.allowCIDRs : GoParses(b.allowCIDRs[i])

\* The sets Build fills: the shipped ranges come first.
GoBuilt(b) ==
  [preset       |-> b.preset,
   denySet      |-> (IF b.preset = "ExternalOnly" THEN GoDefaultDenySet ELSE <<>>)
                      \o [i \in DOMAIN b.denyCIDRs |->
                            ParseCIDRLoose(b.denyCIDRs[i].cidr, b.denyCIDRs[i].tier)],
   allowSet     |-> [i \in DOMAIN b.allowCIDRs |->
                            ParseCIDRLoose(b.allowCIDRs[i], "user_allow")],
   cloudModules |-> b.cloudModules,
   ruleset      |-> b.ruleset]

GoPolicyCreated(p) ==
  [kind |-> "PolicyCreated", preset |-> p.preset, cloud_modules |-> p.cloudModules,
   deny_count |-> Len(p.denySet), allow_count |-> Len(p.allowSet)]

GoBuild ==
  /\ goPhase = "building"
  /\ GoTextsParse(goBuilder)
  /\ goPhase' = "built"
  /\ goPolicy' = GoBuilt(goBuilder)
  /\ goEvents' = IF goBuilder.sink THEN Append(goEvents, GoPolicyCreated(goPolicy'))
                 ELSE goEvents
  /\ UNCHANGED <<goBuilder, goAnswer>>

GoBuildFails ==
  /\ goPhase = "building"
  /\ ~ GoTextsParse(goBuilder)
  /\ goPhase' = "refused"
  /\ UNCHANGED <<goBuilder, goPolicy, goAnswer, goEvents>>

\* IsNetworkAllowed: the verdict, and HostValidated to the sink.
GoAskNetwork(ips) ==
  /\ goPhase = "built"
  /\ Len(goEvents) < MaxEvents
  /\ goAnswer' = GoNetworkVerdict(goPolicy, ips)
  /\ goEvents' = IF goBuilder.sink
                 THEN Append(goEvents, [kind |-> "HostValidated",
                                        reason |-> goAnswer'.reason])
                 ELSE goEvents
  /\ UNCHANGED <<goPhase, goBuilder, goPolicy>>

-----------------------------------------------------------------------------
(***************************************************************************)
(* One caller, both engines.                                               *)
(***************************************************************************)
bothVars == <<vars, goVars>>

BothInit == Init /\ GoInit

\* A name that is a provider's stands for a value of the enum with_cloud takes; any
\* other is passed over before the Rust builder sees it (`_ => {}` of
\* ressrf_policy_new).
BothConfigure ==
  \/ \E texts \in TextLists : AddDenied(texts) /\ AddDeniedCIDRs(texts)
  \/ \E texts \in TextLists : AddAllowed(texts) /\ AddAllowedCIDRs(texts)
  \/ \E written \in DOMAIN ToLower :
        LET name == ToLower[written]
        IN AddCloudProviderDenies(written) /\ WithCloudDeny(name, CloudTexts[name])
  \/ \E written \in DOMAIN ToLower : IgnoreCloudProvider(written) /\ UNCHANGED vars
  \/ \E rule \in UrlRuleArgs : UrlAllow(rule) /\ AddURLAllow(rule)
  \/ \E rule \in UrlRuleArgs : UrlDeny(rule) /\ AddURLDeny(rule)
  \/ SetAuditSink /\ GoSetAuditSink

BothBuild == Build /\ (GoBuild \/ GoBuildFails)

BothAsk == \E ips \in IpLists : AskNetwork(ips) /\ GoAskNetwork(ips)

BothNext == BothConfigure \/ BothBuild \/ BothAsk

BothSpec == BothInit /\ [][BothNext]_bothVars

-----------------------------------------------------------------------------
(***************************************************************************)
(* Properties.                                                             *)
(***************************************************************************)

\* Texts the caller passed that the Rust engine holds no range for.
Skipped ==
  Len(goBuilder.denyCIDRs) + Len(goBuilder.allowCIDRs)
    + (IF cfg.preset = "ExternalOnly" /\ phase = "built" THEN Len(GoDefaultDenySet) ELSE 0)
    - Len(cfg.deny_set) - Len(cfg.allow_set)

\* HACKING.md asks that the engines never part on what is allowed.  The Go
\* engine gives a policy exactly when the Rust engine skipped no text, and then
\* both pass the same addresses, answer a list with the same reason, come to the
\* same decision on every URL, and report the same policy to their sinks.
EnginesAgree ==
  phase = "built" =>
    /\ goPhase = "built" <=> Skipped = 0
    /\ goPhase = "built" =>
         /\ \A ip \in IpAddr :
              Passed(GoNetworkVerdict(goPolicy, <<ip>>)) <=> Passed(IsNetworkAllowed(cfg, <<ip>>))
         /\ answer.ask = "network" => goAnswer.reason = answer.verdict.reason
         /\ \A url \in Urls : GoUrlDecision(goPolicy, url) = UrlRulesDecision(cfg, url)
         /\ goEvents # <<>> => audit = <<goEvents[1]>>

\* A native prefix covers an address, whichever way the address is written.
NativeCovers(prefix, ip) ==
  LET octets == Normalized(ip)
  IN IF prefix.fam = "v4"
     THEN /\ Is4In6(octets)
          /\ SharesBits(prefix.octets, SubSeq(octets, Octets - V4Octets + 1, Octets),
                        prefix.bits)
     ELSE SharesBits(prefix.octets, octets, prefix.bits)

\* The prefixes DenyPrefixes hands out, without the repeated ones and in their
\* own family, are valid there and cover exactly the addresses that the deny
\* set matches: a block list derived from them blocks what the policy blocks.
DenyPrefixesTellTheSet ==
  goPhase = "built" =>
    LET out == Range(DenyPrefixes(goPolicy))
    IN /\ Len(DenyPrefixes(goPolicy)) = Cardinality(out)
       /\ \A p \in out : p.bits \in 0 .. (IF p.fam = "v4" THEN V4Bits ELSE V6Bits)
       /\ \A ip \in IpAddr :
            GoInSet(goPolicy.denySet, ip) <=> \E p \in out : NativeCovers(p, ip)
=============================================================================
