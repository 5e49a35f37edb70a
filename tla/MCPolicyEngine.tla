--------------------------- MODULE MCPolicyEngine ---------------------------
(***************************************************************************)
(* Small instances of PolicyEngine.  Octets have two bits, IPv6 addresses  *)
(* three octets and IPv4 addresses one: 64 + 4 addresses, with IPv4        *)
(* prefixes of 0..2 bits landing at 4..6 bits of the mapped space.         *)
(***************************************************************************)
EXTENDS PolicyEngine

\* The octet whose value is n.
octet(n)       == {k \in Ones : (n \div 2^(OctetBits - k)) % 2 = 1}
v4(a)          == [fam |-> "v4", octets |-> <<octet(a)>>]
v6(a, b, c)    == [fam |-> "v6", octets |-> <<octet(a), octet(b), octet(c)>>]
text(ip, p)    == [ip |-> ip, form |-> "canonical", prefix |-> p]
bad(form, ip)  == [ip |-> ip, form |-> form, prefix |-> 0]

\* Texts: host bits to mask, a prefix too long for IPv4, a mapped range
\* written as IPv6, a range that cuts an octet, everything, and garbage.
MCTextLists ==
  { <<bad("zone_id", v6(1, 0, 0)), text(v4(3), 1)>>,
    <<text(v4(1), 2), text(v4(0), 3)>>,
    <<text(v6(0, 0, 0), 0)>>,
    <<text(v6(1, 2, 3), 3), text(v6(0, 3, 1), 6)>> }

MCDefaultTexts ==
  [iana_v4      |-> <<text(v4(2), 2), text(v4(3), 1)>>,   \* the second: host bits
   iana_v6      |-> <<text(v6(2, 0, 0), 2)>>,
   override     |-> <<text(v6(0, 3, 0), 5)>>,
   csp_metadata |-> <<text(v4(1), 2)>>]

MCIpLists ==
  {<<>>, <<v4(1)>>, <<v4(3), v4(1)>>, <<v6(1, 3, 0), v6(0, 3, 2)>>,
   <<v6(0, 3, 2), v6(2, 1, 1)>>, <<v4(1), v6(1, 0, 0), v4(2)>>}

-----------------------------------------------------------------------------
\* The run on the refinement: IPv6 addresses of two octets, 16 + 4 addresses.
w6(a, b) == [fam |-> "v6", octets |-> <<octet(a), octet(b)>>]

MCSmallTextLists ==
  { <<bad("hex", v4(1)), text(v4(3), 1)>>,
    <<text(v4(1), 2), text(w6(0, 0), 5)>>,
    <<text(w6(1, 2), 3), text(w6(3, 1), 4)>> }

MCSmallDefaultTexts ==
  [iana_v4      |-> <<text(v4(2), 1)>>,
   iana_v6      |-> <<text(w6(2, 0), 2)>>,
   override     |-> <<text(w6(0, 1), 2)>>,               \* host bits
   csp_metadata |-> <<text(v4(1), 2)>>]

MCSmallIpLists == {<<>>, <<v4(3), v4(1)>>, <<w6(1, 3), w6(3, 2)>>}
MCSmallHosts   == {<<[ip |-> v4(2), form |-> "ip"]>>, <<[ip |-> v4(2), form |-> "ambiguous"]>>}

-----------------------------------------------------------------------------
\* Rules and URLs for the run on URL rules: three hosts, paths of up to three
\* segments, globs that overlap, a bypass, a regex, and one that fails.
Url(s, h, p)  == [scheme |-> s, host |-> h, path |-> p]
Glob(h, p, b) == [scheme |-> {}, host |-> h, path |-> p, regex |-> {},
                  bypass_ip_check |-> b]

MCUrls ==
  { Url({"https"}, <<"api", "ex">>, <<>>),
    Url({"https"}, <<"api", "ex">>, <<"v1", "a">>),
    Url({"http"}, <<"api", "ex">>, <<"v1">>),
    Url({"https"}, <<"x", "api", "ex">>, <<"v1">>),
    Url({}, <<"in", "lan">>, <<"v1", "v1", "b">>) }

MCPlainHttp == [scheme |-> {}, host |-> {<<"in", "lan">>}, path |-> {},
                regex |-> {[compiles |-> TRUE,
                            matches |-> {u \in MCUrls : u.scheme = {"http"}}]},
                bypass_ip_check |-> FALSE]
MCBroken == [MCPlainHttp EXCEPT !.regex = {[compiles |-> FALSE, matches |-> {}]}]

MCUrlRules ==
  { Glob({<<"*", "ex">>}, {<<"**">>}, FALSE),
    Glob({<<"api", "ex">>}, {<<"v1", "*">>}, TRUE),
    Glob({}, {<<"**", "v1">>}, FALSE),
    Glob({}, {<<"v1", "**", "b">>}, TRUE),
    [Glob({}, {}, FALSE) EXCEPT !.scheme = {"https"}],
    MCPlainHttp, MCBroken }

MCRulesets ==
  { EmptyRuleset,
    [EmptyRuleset EXCEPT !.allow = <<Glob({}, {<<"**", "v1">>}, FALSE)>>,
                         !.compiled_allow = <<MCPlainHttp>>],
    [EmptyRuleset EXCEPT !.allow = <<Glob({}, {<<"v1", "**", "b">>}, TRUE),
                                     Glob({<<"*", "ex">>}, {<<"**">>}, FALSE)>>,
                         !.deny  = <<MCPlainHttp>>] }

\* Two rules and two URLs, one of them bypassed, for the refinement run.
MCFewRules == {Glob({<<"api", "ex">>}, {<<"v1", "*">>}, TRUE), MCPlainHttp}
MCFewUrls  == {Url({"https"}, <<"api", "ex">>, <<"v1", "a">>),
               Url({"http"}, <<"api", "ex">>, <<"v1">>)}

MCHosts ==
  LET h(form) == [ip |-> v4(1), form |-> form]
  IN {<<>>, <<h("name")>>, <<h("ip"), h("ambiguous")>>, <<h("ambiguous")>>}

MCHeaderRules == {[required |-> <<"a">>, denied |-> <<"b", "a">>],
                  [required |-> <<>>, denied |-> <<"b">>]}
MCHeaders     == {<<>>, <<"a">>, <<"b">>, <<"c", "b">>}
MCProtocols   == {[allow_plaintext_http |-> a, require_https |-> r] :
                    a \in BOOLEAN, r \in BOOLEAN}

\* No invariant of the run on verdicts looks at the answer given last.
MCView == <<phase, cfg, audit, calls>>
=============================================================================
