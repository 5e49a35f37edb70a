---------------------------- MODULE PolicyEngine ----------------------------
(***************************************************************************)
(* The policy engine of crates/ressrf-core/src/policy.rs: a builder that   *)
(* collects ranges and rules call by call, build() that freezes them into  *)
(* a Policy, and the questions the frozen policy answers.                  *)
(*                                                                         *)
(* PolicyBuilder and Policy hold the same fields (build moves them), so    *)
(* one record, cfg, stands for whichever of the two exists; "phase" says   *)
(* which.  The audit sink is a list of the events it was given.            *)
(***************************************************************************)
EXTENDS Cidr, UrlRules

CONSTANTS
  TextLists,      \* slices of CIDR texts the caller passes to the builder
  CloudNames,     \* names passed to with_cloud_deny
  DefaultTexts,   \* [tier |-> texts] of config/ip_ranges.json, per tier list
  UrlRuleArgs,    \* URL rules the caller adds
  RulesetArgs,    \* whole rulesets passed to url_ruleset
  HeaderRuleArgs, \* [required, denied] sequences of header names
  ProtocolArgs,   \* [allow_plaintext_http, require_https]
  Urls,           \* URLs asked about
  IpLists,        \* lists of addresses asked about
  HostLists,      \* lists of hosts asked about: [form, ip]
  HeaderLists,    \* lists of header names asked about
  Schemes,        \* schemes asked about
  MaxCalls        \* bound: number of builder calls before build

VARIABLES
  phase,    \* "building", "built", "failed" (try_build Err), "panicked" (build)
  cfg,      \* the fields of PolicyBuilder, then of Policy
  audit,    \* events the audit sink received
  answer,   \* the last question and its verdict
  calls     \* history: the range-changing builder calls, in order

vars == <<phase, cfg, audit, answer, calls>>

Presets    == {"InternalOnly", "ExternalOnly", "None"}
HostForms  == {"ip", "ambiguous", "name"}
Reasons    == {"Allowed", "DnsEmptyResponse", "NotInAllowList", "InDenyCidr",
               "UrlRuleDenied", "MultiHostFallbackDenied", "AmbiguousIpEncoding",
               "RequiredHeaderMissing", "DeniedHeaderPresent", "PlaintextHttpDenied"}

\* A verdict: Ok(()), or Err(Blocked(reason)) with the ranges it names.
Ok                   == [reason |-> "Allowed", cidr |-> <<>>]
Blocked(reason)      == [reason |-> reason, cidr |-> <<>>]
BlockedByCidr(cidr)  == [reason |-> "InDenyCidr", cidr |-> <<cidr>>]
Passed(verdict)      == verdict.reason = "Allowed"

-----------------------------------------------------------------------------
\* default_deny_set: the four tables of config/ip_ranges.json, in this order.
DefaultDenySet ==
  StrictCidrs(DefaultTexts.iana_v4, "iana")
    \o StrictCidrs(DefaultTexts.iana_v6, "iana")
    \o StrictCidrs(DefaultTexts.override, "override")
    \o StrictCidrs(DefaultTexts.csp_metadata, "csp_metadata")

\* Mutated form: the shipped ranges go in front of the caller's.
WithDefaultsFirst(c) ==
  IF c.preset = "ExternalOnly"
  THEN [c EXCEPT !.deny_set = DefaultDenySet \o @] ELSE c

\* The fields build() and try_build() move into the Policy.
WithDefaults(c) ==
  IF c.preset = "ExternalOnly"
  THEN [c EXCEPT !.deny_set = @ \o DefaultDenySet] ELSE c

WithCompiledRules(c) ==
  IF RulesetIsEmpty(c.url_ruleset) THEN c
  ELSE [c EXCEPT !.url_ruleset = Compiled(@)]

Finalised(c) == WithCompiledRules(WithDefaults(c))

-----------------------------------------------------------------------------
\* Mutated form: an allowed address ends the loop with Ok.
ExternalOnlyVerdictEarlyOk(c, ips) ==
  LET denied == {i \in DOMAIN ips : /\ \A j \in 1 .. i : ~ InSet(c.allow_set, ips[j])
                                    /\ InSet(c.deny_set, ips[i])}
      first  == CHOOSE i \in denied : \A j \in denied : i <= j
  IN IF denied = {} THEN Ok
     ELSE BlockedByCidr(FirstMatch(c.deny_set, ips[first]))

\* Policy::is_network_allowed.
ExternalOnlyVerdict(c, ips) ==
  LET denied == {i \in DOMAIN ips : /\ ~ InSet(c.allow_set, ips[i])
                                    /\ InSet(c.deny_set, ips[i])}
      first  == CHOOSE i \in denied : \A j \in denied : i <= j
  IN IF denied = {} THEN Ok
     ELSE BlockedByCidr(FirstMatch(c.deny_set, ips[first]))

InternalOnlyVerdict(c, ips) ==
  IF \A i \in DOMAIN ips : InSet(c.allow_set, ips[i])
  THEN Ok ELSE Blocked("NotInAllowList")

\* Mutated form: no answer to check is taken for nothing to object to.
IsNetworkAllowedEmptyOk(c, ips) ==
  CASE c.preset = "None"         -> Ok
    [] c.preset = "InternalOnly" -> InternalOnlyVerdict(c, ips)
    [] c.preset = "ExternalOnly" -> ExternalOnlyVerdict(c, ips)

IsNetworkAllowed(c, ips) ==
  IF ips = <<>> THEN Blocked("DnsEmptyResponse")
  ELSE CASE c.preset = "None"         -> Ok
         [] c.preset = "InternalOnly" -> InternalOnlyVerdict(c, ips)
         [] c.preset = "ExternalOnly" -> ExternalOnlyVerdict(c, ips)

\* Policy::validate_url_rules: Err, Ok(true) or Ok(false).
UrlRulesDecision(c, url) ==
  IF RulesetIsEmpty(c.url_ruleset) THEN "NoMatch" ELSE Evaluate(c.url_ruleset, url)

\* Policy::is_request_allowed.
IsRequestAllowed(c, url, ips) ==
  LET decision == UrlRulesDecision(c, url)
  IN CASE decision = "Denied"          -> Blocked("UrlRuleDenied")
       [] decision = "AllowedBypassIp" -> Ok
       [] OTHER                        -> IsNetworkAllowed(c, ips)

\* Policy::validate_all_hosts: the first host that does not pass decides;
\* names are left to the protocol modules.
HostVerdict(c, host) ==
  CASE host.form = "ambiguous" -> Blocked("AmbiguousIpEncoding")
    [] host.form = "name"      -> Ok
    [] host.form = "ip"        -> IF Passed(IsNetworkAllowed(c, <<host.ip>>))
                                  THEN Ok ELSE Blocked("MultiHostFallbackDenied")

\* Mutated form: only the first host is looked at.
ValidateFirstHost(c, hosts) ==
  IF hosts = <<>> THEN Ok ELSE HostVerdict(c, hosts[1])

ValidateAllHosts(c, hosts) ==
  LET bad   == {i \in DOMAIN hosts : ~ Passed(HostVerdict(c, hosts[i]))}
      first == CHOOSE i \in bad : \A j \in bad : i <= j
  IN IF bad = {} THEN Ok ELSE HostVerdict(c, hosts[first])

\* Policy::validate_headers: required names first, then denied ones.
ValidateHeaders(c, names) ==
  LET present == Range(names)
  IN IF ~ Range(c.header_rules.required) \subseteq present
     THEN Blocked("RequiredHeaderMissing")
     ELSE IF Range(c.header_rules.denied) \cap present # {}
          THEN Blocked("DeniedHeaderPresent")
          ELSE Ok

\* Policy::validate_scheme.
ValidateScheme(c, scheme) ==
  IF /\ scheme = "http"
     /\ c.protocol_rules.require_https \/ ~ c.protocol_rules.allow_plaintext_http
  THEN Blocked("PlaintextHttpDenied") ELSE Ok

-----------------------------------------------------------------------------
NoAnswer == [ask |-> "none", url |-> <<>>, subject |-> <<>>, verdict |-> Ok]

NoHeaderRules        == [required |-> <<>>, denied |-> <<>>]
DefaultProtocolRules == [allow_plaintext_http |-> FALSE, require_https |-> TRUE]

\* PolicyBuilder::new.
NewBuilder(preset) ==
  [preset         |-> preset,
   deny_set       |-> <<>>,
   allow_set      |-> <<>>,
   header_rules   |-> NoHeaderRules,
   protocol_rules |-> DefaultProtocolRules,
   cloud_modules  |-> <<>>,
   has_sink       |-> FALSE,
   url_ruleset    |-> EmptyRuleset]

Init ==
  /\ phase = "building"
  /\ \E preset \in Presets : cfg = NewBuilder(preset)
  /\ audit = <<>>
  /\ answer = NoAnswer
  /\ calls = <<>>

\* A builder call: it returns to the caller with the builder still open.
BuilderCall(op, texts, newCfg) ==
  /\ phase = "building"
  /\ Len(calls) < MaxCalls
  /\ cfg' = newCfg
  /\ calls' = Append(calls, [op |-> op, texts |-> texts])
  /\ UNCHANGED <<phase, audit, answer>>

AddDenied(texts) ==
  BuilderCall("deny", texts,
    [cfg EXCEPT !.deny_set = @ \o LooseCidrs(texts, "user_deny")])

\* Mutated form: a later call replaces the allow list.
ReplaceAllowed(texts) ==
  BuilderCall("allow", texts, [cfg EXCEPT !.allow_set = LooseCidrs(texts, "user_allow")])

AddAllowed(texts) ==
  BuilderCall("allow", texts,
    [cfg EXCEPT !.allow_set = @ \o LooseCidrs(texts, "user_allow")])

\* Mutated form: any name is taken for a tier.
CloudTierOfAnyName(name) == name

CloudTier(name) == IF name \in {"aws", "azure", "gcp"} THEN name ELSE "user_deny"

WithCloudDeny(name, texts) ==
  BuilderCall("deny", texts,
    [cfg EXCEPT !.cloud_modules = Append(@, name),
                !.deny_set = @ \o LooseCidrs(texts, CloudTier(name))])

SetHeaderRules(rules)   == BuilderCall("other", <<>>, [cfg EXCEPT !.header_rules = rules])
SetProtocolRules(rules) == BuilderCall("other", <<>>, [cfg EXCEPT !.protocol_rules = rules])
SetAuditSink            == BuilderCall("other", <<>>, [cfg EXCEPT !.has_sink = TRUE])
UrlAllow(rule) ==
  BuilderCall("other", <<>>, [cfg EXCEPT !.url_ruleset = AddAllowRule(@, rule)])
UrlDeny(rule) ==
  BuilderCall("other", <<>>, [cfg EXCEPT !.url_ruleset = AddDenyRule(@, rule)])
SetUrlRuleset(ruleset) ==
  BuilderCall("other", <<>>, [cfg EXCEPT !.url_ruleset = ruleset])

\* Policy::emit_audit of PolicyCreated.
PolicyCreated(c) ==
  IF c.has_sink
  THEN <<[kind |-> "PolicyCreated", preset |-> c.preset,
          cloud_modules |-> c.cloud_modules,
          deny_count |-> Len(c.deny_set), allow_count |-> Len(c.allow_set)]>>
  ELSE <<>>

\* build() and try_build() succeed alike.
Build ==
  /\ phase = "building"
  /\ Compiles(cfg.url_ruleset)
  /\ phase' = "built"
  /\ cfg' = Finalised(cfg)
  /\ audit' = audit \o PolicyCreated(Finalised(cfg))
  /\ UNCHANGED <<answer, calls>>

\* The regex of a rule does not compile: build() panics, try_build() returns
\* Err; both consumed the builder.
BuildFails(outcome) ==
  /\ phase = "building"
  /\ ~ Compiles(cfg.url_ruleset)
  /\ phase' = outcome
  /\ UNCHANGED <<cfg, audit, answer, calls>>

\* A question to the frozen policy.
Ask(kind, url, subject, verdict) ==
  /\ phase = "built"
  /\ answer' = [ask |-> kind, url |-> url, subject |-> subject, verdict |-> verdict]
  /\ UNCHANGED <<phase, cfg, audit, calls>>

AskRequest(url, ips) == Ask("request", url, ips, IsRequestAllowed(cfg, url, ips))
AskNetwork(ips)      == Ask("network", <<>>, ips, IsNetworkAllowed(cfg, ips))
AskHosts(hosts)      == Ask("hosts", <<>>, hosts, ValidateAllHosts(cfg, hosts))
AskHeaders(names)    == Ask("headers", <<>>, names, ValidateHeaders(cfg, names))
AskScheme(scheme)    == Ask("scheme", <<>>, scheme, ValidateScheme(cfg, scheme))

ConfigureRanges ==
  \E texts \in TextLists :
     \/ AddDenied(texts)
     \/ AddAllowed(texts)
     \/ \E name \in CloudNames : WithCloudDeny(name, texts)

ConfigureRules ==
  \/ \E rules \in HeaderRuleArgs : SetHeaderRules(rules)
  \/ \E rules \in ProtocolArgs : SetProtocolRules(rules)
  \/ SetAuditSink
  \/ \E rule \in UrlRuleArgs : UrlAllow(rule) \/ UrlDeny(rule)
  \/ \E ruleset \in RulesetArgs : SetUrlRuleset(ruleset)

Finish == Build \/ BuildFails("panicked") \/ BuildFails("failed")

Query ==
  \/ \E url \in Urls, ips \in IpLists : AskRequest(url, ips)
  \/ \E ips \in IpLists : AskNetwork(ips)
  \/ \E hosts \in HostLists : AskHosts(hosts)
  \/ \E names \in HeaderLists : AskHeaders(names)
  \/ \E scheme \in Schemes : AskScheme(scheme)

Next == ConfigureRanges \/ ConfigureRules \/ Finish \/ Query

Spec == Init /\ [][Next]_vars

-----------------------------------------------------------------------------
\* The state's type.
Ruleset   == [allow : Seq(UrlRuleArgs), deny : Seq(UrlRuleArgs),
              compiled_allow : Seq(UrlRuleArgs), compiled_deny : Seq(UrlRuleArgs)]

\* What the caller may pass: lists of texts, rules whose optional fields hold
\* at most one value, rulesets of such rules, and questions about addresses and
\* URLs.  The shipped texts come in four lists.
ASSUME CallerAssumption ==
  /\ TextLists \subseteq Seq(CidrText)
  /\ DefaultTexts \in [iana_v4 : Seq(CidrText), iana_v6 : Seq(CidrText),
                       override : Seq(CidrText), csp_metadata : Seq(CidrText)]
  /\ \A rule \in UrlRuleArgs :
        /\ \A s, t \in rule.scheme : s = t
        /\ rule.host \subseteq Seq(STRING)
        /\ rule.path \subseteq Seq(STRING)
  /\ \A url \in Urls : url.host \in Seq(STRING) /\ url.path \in Seq(STRING)
  /\ RulesetArgs \subseteq Ruleset
  /\ IpLists \subseteq Seq(IpAddr)
  /\ HostLists \subseteq Seq([form : HostForms, ip : IpAddr])
  /\ MaxCalls \in Nat

Config == [preset : Presets,
           deny_set : Seq(CidrRange), allow_set : Seq(CidrRange),
           header_rules : HeaderRuleArgs \cup {NoHeaderRules},
           protocol_rules : ProtocolArgs \cup {DefaultProtocolRules},
           cloud_modules : Seq(CloudNames), has_sink : BOOLEAN,
           url_ruleset : Ruleset]
Event  == [kind : {"PolicyCreated"}, preset : Presets,
           cloud_modules : Seq(CloudNames), deny_count : Nat, allow_count : Nat]
Call   == [op : {"deny", "allow", "other"}, texts : TextLists \cup {<<>>}]

TypeOK ==
  /\ phase \in {"building", "built", "failed", "panicked"}
  /\ cfg \in Config
  /\ audit \in Seq(Event)
  /\ calls \in Seq(Call)
  /\ answer.verdict.reason \in Reasons

-----------------------------------------------------------------------------
(***************************************************************************)
(* Reference meaning of the caller's texts.                                *)
(***************************************************************************)

\* Some text the caller passed in calls of kind op covers ip.
CallerCovers(op, ip) ==
  \E i \in DOMAIN calls :
     calls[i].op = op /\ \E k \in DOMAIN calls[i].texts : RefCovers(calls[i].texts[k], ip)

\* A shipped text with host bits set is not a range.
ShippedCovers(ip) ==
  \E list \in Range(DefaultTexts) : \E k \in DOMAIN list :
     /\ RefCovers(list[k], ip)
     /\ AddrBits(list[k].ip) \subseteq NetBits(list[k])

CallerPermits(ip) ==
  CASE cfg.preset = "None"         -> TRUE
    [] cfg.preset = "InternalOnly" -> CallerCovers("allow", ip)
    [] cfg.preset = "ExternalOnly" ->
         CallerCovers("allow", ip) \/ ~ (CallerCovers("deny", ip) \/ ShippedCovers(ip))

-----------------------------------------------------------------------------
(***************************************************************************)
(* Properties.                                                             *)
(***************************************************************************)

\* The decision about an address is the one the caller's texts call for,
\* whatever the order and the split of the builder calls: parsing, IPv4
\* normalisation, masking, skipping of bad texts, first match and the defaults
\* appended by build() together lose or add nothing.
VerdictKeepsCallerIntent ==
  phase = "built" =>
    \A ip \in IpAddr : Passed(IsNetworkAllowed(cfg, <<ip>>)) <=> CallerPermits(ip)

\* A list passes exactly when it is not empty and each of its addresses passes
\* alone: SafeResolver filters address by address, the bindings ask about the
\* whole list, and the two must agree.
ListIsConjunction ==
  \A ips \in IpLists :
     Passed(IsNetworkAllowed(cfg, ips))
       <=> /\ ips # <<>>
           /\ \A i \in DOMAIN ips : Passed(IsNetworkAllowed(cfg, <<ips[i]>>))

\* The range a denial names covers the first address that does not pass, and
\* it is a shipped range only if no range of the caller covers that address.
DenialNamesTheFirstOffender ==
  phase = "built" =>
    \A ips \in IpLists :
       LET verdict == IsNetworkAllowed(cfg, ips)
       IN verdict.reason = "InDenyCidr" =>
            \E i \in DOMAIN ips :
               /\ \A j \in 1 .. (i - 1) : CallerPermits(ips[j])
               /\ ~ CallerPermits(ips[i])
               /\ RefCovers(verdict.cidr[1].original, ips[i])
               /\ verdict.cidr[1].source \in {"iana", "override", "csp_metadata"}
                    => ~ CallerCovers("deny", ips[i])

\* Addresses that would pass alone if the policy were frozen now.
Permitted(c) == {ip \in IpAddr : Passed(IsNetworkAllowed(Finalised(c), <<ip>>))}

\* A builder call that leaves the allow list alone never opens an address, one
\* that leaves the deny list alone never closes one, and freezing changes the
\* verdict on none.
CallsMoveOneWay ==
  [][/\ cfg'.allow_set = cfg.allow_set => Permitted(cfg') \subseteq Permitted(cfg)
     /\ cfg'.deny_set = cfg.deny_set => Permitted(cfg) \subseteq Permitted(cfg')
     /\ phase' = "built" => Permitted(cfg') = Permitted(cfg)]_cfg

\* A list of IP literals gets the same verdict from validate_all_hosts as the
\* addresses get from is_network_allowed.
HostsAgreeWithNetwork ==
  phase = "built" =>
    \A ips \in IpLists \ {<<>>} :
       Passed(ValidateAllHosts(cfg, [i \in DOMAIN ips |-> [form |-> "ip", ip |-> ips[i]]]))
         <=> Passed(IsNetworkAllowed(cfg, ips))

\* A request passes only if no deny rule in force matches its URL and, when
\* allow rules are in force, one does; the addresses are asked about unless
\* the first allow rule that matches bypasses them.
UrlVerdictPromise ==
  phase = "built" =>
    \A url \in Urls, ips \in IpLists :
       LET rs      == cfg.url_ruleset
           hits(s) == {i \in DOMAIN s : RefRuleMatches(s[i], url)}
           bypass  == \E i \in hits(rs.allow) :
                         /\ rs.allow[i].bypass_ip_check
                         /\ hits(rs.allow) \cap 1 .. (i - 1) = {}
       IN Passed(IsRequestAllowed(cfg, url, ips))
            <=> /\ hits(rs.deny) = {}
                /\ rs.allow = <<>> \/ hits(rs.allow) # {}
                /\ bypass \/ Passed(IsNetworkAllowed(cfg, ips))

-----------------------------------------------------------------------------
(***************************************************************************)
(* Refinement: the sets of PolicyPromise are the addresses the lists match.*)
(***************************************************************************)
Covered(ranges) == {ip \in IpAddr : InSet(ranges, ip)}

Promise == INSTANCE PolicyPromise WITH
  DefaultDenied <- Covered(DefaultDenySet),
  preset        <- cfg.preset,
  denied        <- Covered(cfg.deny_set),
  allowed       <- Covered(cfg.allow_set),
  rules         <- [url \in Urls |->
                      UrlRulesDecision(WithCompiledRules(cfg), url)],
  answer        <- [ask |-> answer.ask, url |-> answer.url,
                    subject |-> answer.subject, ok |-> Passed(answer.verdict)]

\* The engine keeps every promise of PolicyPromise.
ImplementsPromise == Promise!PromiseSpec
=============================================================================
