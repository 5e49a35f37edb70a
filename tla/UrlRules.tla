------------------------------ MODULE UrlRules ------------------------------
(***************************************************************************)
(* URL allow and deny rules of crates/ressrf-core/src/url_rules.rs.        *)
(*                                                                         *)
(* A URL is what parse_url_components makes of it: a set with at most one  *)
(* scheme, the labels of the host and the non-empty segments of the path,  *)
(* all case-folded where the code compares without case.  An optional      *)
(* field of a rule is a set with at most one element.  A regular           *)
(* expression is the set of URLs it matches, or does not compile.          *)
(*                                                                         *)
(*   url  : [scheme, host, path]                                           *)
(*   rule : [scheme, host, path, regex, bypass_ip_check]                   *)
(*   regex: [compiles, matches]                                            *)
(***************************************************************************)
EXTENDS Integers, Sequences, FiniteSets

\* glob_match_host: same number of labels, "*" stands for one whole label.
GlobMatchHost(pattern, host) ==
  /\ Len(pattern) = Len(host)
  /\ \A i \in DOMAIN pattern : pattern[i] \in {"*", host[i]}

\* glob_match_segments over the suffixes of pattern and path, at <<i, j>>: "*"
\* takes one segment, "**" takes zero or more.
GlobMatchPath(pattern, path) ==
  LET match[at \in (1 .. Len(pattern) + 1) \X (1 .. Len(path) + 1)] ==
        LET i == at[1]
            j == at[2]
        IN IF i > Len(pattern) THEN j > Len(path)
           ELSE IF pattern[i] = "**"
                THEN match[<<i + 1, j>>] \/ (j <= Len(path) /\ match[<<i, j + 1>>])
                ELSE /\ j <= Len(path)
                     /\ pattern[i] \in {"*", path[j]}
                     /\ match[<<i + 1, j + 1>>]
  IN match[<<1, 1>>]

\* UrlRule::matches_parts.
MatchesParts(rule, url) ==
  /\ \A s \in rule.scheme : url.scheme = {s}
  /\ \A h \in rule.host : GlobMatchHost(h, url.host)
  /\ \A p \in rule.path : GlobMatchPath(p, url.path)

\* rule_matches: a regex decides alone; scheme, host and path are ignored.
RuleMatches(rule, url) ==
  IF rule.regex # {} THEN \E r \in rule.regex : url \in r.matches
                     ELSE MatchesParts(rule, url)

-----------------------------------------------------------------------------
\* UrlRuleset: the rules as given and the lists evaluate() reads.
EmptyRuleset ==
  [allow |-> <<>>, deny |-> <<>>, compiled_allow |-> <<>>, compiled_deny |-> <<>>]

RulesetIsEmpty(rs) == rs.allow = <<>> /\ rs.deny = <<>>

AddAllowRule(rs, rule) == [rs EXCEPT !.allow = Append(@, rule)]
AddDenyRule(rs, rule)  == [rs EXCEPT !.deny = Append(@, rule)]

\* compile_rules fails on the first pattern that is no regular expression;
\* then the ruleset is of no use, so only the success is a value.
Compiles(rs) ==
  \A rules \in {rs.deny, rs.allow} :
     \A i \in DOMAIN rules : \A r \in rules[i].regex : r.compiles
Compiled(rs) ==
  [rs EXCEPT !.compiled_deny = rs.deny, !.compiled_allow = rs.allow]

\* The first allow rule that matches.
FirstAllow(rules, url) ==
  rules[CHOOSE i \in DOMAIN rules :
          /\ RuleMatches(rules[i], url)
          /\ \A j \in DOMAIN rules : RuleMatches(rules[j], url) => i <= j]

AnyMatches(rules, url) == \E i \in DOMAIN rules : RuleMatches(rules[i], url)

\* Mutated form: a matching allow rule is looked for before the deny rules.
EvaluateAllowFirst(rs, url) ==
  IF AnyMatches(rs.compiled_allow, url) THEN "Allowed"
  ELSE IF AnyMatches(rs.compiled_deny, url) THEN "Denied"
  ELSE IF rs.compiled_allow = <<>> THEN "NoMatch" ELSE "Denied"

\* UrlRuleset::evaluate (the std build).
Evaluate(rs, url) ==
  IF AnyMatches(rs.compiled_deny, url) THEN "Denied"
  ELSE IF rs.compiled_allow = <<>> /\ rs.allow = <<>> THEN "NoMatch"
  ELSE IF ~ AnyMatches(rs.compiled_allow, url) THEN "Denied"
  ELSE IF FirstAllow(rs.compiled_allow, url).bypass_ip_check
       THEN "AllowedBypassIp"
       ELSE "Allowed"

-----------------------------------------------------------------------------
\* Reference meaning of a path pattern: the path can be cut into consecutive
\* pieces, one per pattern segment, of length one except for "**".
RefPathMatch(pattern, path) ==
  \E cut \in [0 .. Len(pattern) -> 0 .. Len(path)] :
     /\ cut[0] = 0 /\ cut[Len(pattern)] = Len(path)
     /\ \A i \in 1 .. Len(pattern) :
          /\ cut[i - 1] <= cut[i]
          /\ pattern[i] # "**" =>
               /\ cut[i] = cut[i - 1] + 1
               /\ pattern[i] \in {"*", path[cut[i]]}

RefRuleMatches(rule, url) ==
  IF rule.regex # {} THEN \E r \in rule.regex : url \in r.matches
  ELSE /\ rule.scheme \in {{}, url.scheme}
       /\ \A h \in rule.host : Len(h) = Len(url.host)
             /\ {i \in DOMAIN h : h[i] # url.host[i]} \subseteq {i \in DOMAIN h : h[i] = "*"}
       /\ \A p \in rule.path : RefPathMatch(p, url.path)
=============================================================================
