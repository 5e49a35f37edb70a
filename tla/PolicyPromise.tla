---------------------------- MODULE PolicyPromise ---------------------------
(***************************************************************************)
(* What the policy engine promises, in terms of sets of addresses only: no *)
(* ranges, masks, lists or orders.  The caller opens and closes parts of   *)
(* the address space while the policy is being built; once it is frozen    *)
(* every decision is a function of those sets and of the decision the URL  *)
(* rules take.  PolicyEngine is shown to implement this module.            *)
(***************************************************************************)
EXTENDS Sequences

CONSTANTS
  IpAddr,         \* addresses
  Urls,           \* URLs asked about
  IpLists,        \* lists of addresses asked about
  HostLists,      \* lists of hosts asked about
  DefaultDenied   \* addresses the shipped deny list covers

VARIABLES
  phase,          \* "building", "built", or how the build failed
  preset,         \* "InternalOnly", "ExternalOnly" or "None"
  denied,         \* addresses the deny list covers
  allowed,        \* addresses the allow list covers
  rules,          \* decision of the URL rules for each URL
  answer          \* the last question and whether it passed

promiseVars == <<phase, preset, denied, allowed, rules, answer>>

Decisions == {"Denied", "Allowed", "AllowedBypassIp", "NoMatch"}

\* Every address must be open: an allow overrides a deny, an empty list never
\* passes.
AddressOpen(ip) ==
  CASE preset = "None"         -> TRUE
    [] preset = "InternalOnly" -> ip \in allowed
    [] preset = "ExternalOnly" -> ip \in allowed \/ ip \notin denied

NetworkOpen(ips) == ips # <<>> /\ \A i \in DOMAIN ips : AddressOpen(ips[i])

\* A URL rule that denies settles the request; one that bypasses settles it
\* the other way; otherwise the addresses decide.
RequestOpen(url, ips) ==
  /\ rules[url] # "Denied"
  /\ rules[url] = "AllowedBypassIp" \/ NetworkOpen(ips)

HostsOpen(hosts) ==
  \A i \in DOMAIN hosts :
     /\ hosts[i].form # "ambiguous"
     /\ hosts[i].form = "ip" => NetworkOpen(<<hosts[i].ip>>)

-----------------------------------------------------------------------------
PromiseInit ==
  /\ phase = "building"
  /\ preset \in {"InternalOnly", "ExternalOnly", "None"}
  /\ denied = {}
  /\ allowed = {}
  /\ rules = [url \in Urls |-> "NoMatch"]
  /\ answer = [ask |-> "none", url |-> <<>>, subject |-> <<>>, ok |-> TRUE]

\* While building, ranges are only ever added: none is taken back.
Deny ==
  /\ phase = "building"
  /\ denied \subseteq denied'
  /\ UNCHANGED <<phase, preset, allowed, rules, answer>>

Allow ==
  /\ phase = "building"
  /\ allowed \subseteq allowed'
  /\ UNCHANGED <<phase, preset, denied, rules, answer>>

ChangeRules ==
  /\ phase = "building"
  /\ rules' \in [Urls -> Decisions]
  /\ UNCHANGED <<phase, preset, denied, allowed, answer>>

\* Freezing adds the shipped deny list to the preset that asks for it, and
\* changes nothing else.
Freeze ==
  /\ phase = "building"
  /\ phase' = "built"
  /\ denied' = IF preset = "ExternalOnly" THEN denied \cup DefaultDenied ELSE denied
  /\ UNCHANGED <<preset, allowed, rules, answer>>

Fail ==
  /\ phase = "building"
  /\ phase' \in {"failed", "panicked"}
  /\ UNCHANGED <<preset, denied, allowed, rules, answer>>

\* A frozen policy answers and does not change.
Reply(kind, url, subject, ok) ==
  /\ phase = "built"
  /\ answer' = [ask |-> kind, url |-> url, subject |-> subject, ok |-> ok]
  /\ UNCHANGED <<phase, preset, denied, allowed, rules>>

Decide ==
  \/ \E url \in Urls, ips \in IpLists :
        Reply("request", url, ips, RequestOpen(url, ips))
  \/ \E ips \in IpLists : Reply("network", <<>>, ips, NetworkOpen(ips))
  \/ \E hosts \in HostLists : Reply("hosts", <<>>, hosts, HostsOpen(hosts))

\* Header and scheme questions depend on rules this module does not model.
DecideOther ==
  /\ phase = "built"
  /\ answer'.ask \in {"headers", "scheme"}
  /\ UNCHANGED <<phase, preset, denied, allowed, rules>>

PromiseNext ==
  Deny \/ Allow \/ ChangeRules \/ Freeze \/ Fail \/ Decide \/ DecideOther

PromiseSpec == PromiseInit /\ [][PromiseNext]_promiseVars
=============================================================================
