---------------------------- MODULE UriValidator ----------------------------
(***************************************************************************)
(* The URI validator of crates/ressrf-core/src/uri_validator.rs: a builder *)
(* that collects domain suffixes, and ordered checks of a URL's text.      *)
(*                                                                         *)
(* A URL is a sequence of tokens (HostText).  White space around it is     *)
(* taken off.  Validating changes nothing (it takes &self), so it is an    *)
(* operator of the validator's fields and no action.  The policy is the    *)
(* set of literal addresses it permits, or none is given.                  *)
(***************************************************************************)
EXTENDS HostText

CONSTANTS
  SuffixArgs,   \* slices of suffixes passed to add_*_suffixes
  Providers,    \* [provider -> [denied, trusted]], the suffixes cloud/ has
  Policies,     \* [given, permits], the second argument of validate_url
  UrlParts,     \* the URLs asked about, in the pieces RFC 3986 names
  MaxSuffixes   \* bound: number of suffixes, trusted and denied together

VARIABLE validator    \* the fields of UriValidator

Allowed == {"http", "https", "ws", "wss"}   \* DEFAULT_ALLOWED_SCHEMES

Default == [trusted_domain_suffixes      |-> <<>>,
            denied_domain_suffixes       |-> <<>>,
            reject_double_dash_hostnames |-> TRUE]

-----------------------------------------------------------------------------
\* Where "://" starts first; 0 if it does not occur.
SchemeEnd(url) ==
  LET at == {i \in DOMAIN url : /\ i + 2 <= Len(url)
                                /\ SubSeq(url, i, i + 2) = <<":", "/", "/">>}
  IN IF at = {} THEN 0 ELSE CHOOSE i \in at : \A j \in at : i <= j

BehindScheme(url) ==
  IF SchemeEnd(url) = 0 THEN url ELSE SubSeq(url, SchemeEnd(url) + 3, Len(url))

\* Backslashes behind the scheme are slashes for parse_url_parts.
Normalised(text) == [i \in DOMAIN text |-> IF text[i] = "\\" THEN "/" ELSE text[i]]

\* Mutated form: a query ends nothing.
AuthorityPastQuery(text) == Before(text, {"/", "#"})

\* The text up to the first slash, question mark or hash.
Authority(text) == Before(text, {"/", "?", "#"})

\* The host with its port taken off; a port is digits behind the last colon.
WithoutPort(text) ==
  LET colon == SelectLastInSeq(text, LAMBDA token : token = ":")
      port  == SubSeq(text, colon + 1, Len(text))
      close == SelectInSeq(text, LAMBDA token : token = "]")
  IN IF text # <<>> /\ text[1] = "["
     THEN IF close = 0 THEN text ELSE SubSeq(text, 1, close)
     ELSE IF colon > 0 /\ port # <<>>
               /\ \A i \in DOMAIN port : Kind(port[i]) \in {"dec", "octal"}
          THEN SubSeq(text, 1, colon - 1) ELSE text

\* parse_url_parts: the host it finds.
HostOf(url) ==
  WithoutPort(BehindLast(Authority(Normalised(BehindScheme(url))), "@"))

Has(text, tokens) == \E i \in DOMAIN text : text[i] \in tokens

EmptyOrUnc(url) == url = <<>> \/ IsPrefix(<<"\\", "\\">>, url)

\* "NUL" stands for NUL, CR and LF, "%00" for what encodes them.
HasProhibitedControlChars(text) == Has(text, {"NUL"})
HostHasProhibitedChars(host)    == Has(host, {"NUL", "%00"})

\* pseudo_scheme: letters, digits, dots and dashes before the first colon, and
\* no slash before it.
HasPseudoScheme(url) ==
  LET candidate == Before(url, {":"})
  IN /\ Has(url, {":"}) /\ candidate # <<>>
     /\ Kind(candidate[1]) \in {"name", "xn", "dash"}
     /\ \A i \in DOMAIN candidate :
           candidate[i] = "." \/ Kind(candidate[i]) \notin {"mark", "v6"}

SchemeAllowed(url) ==
  SchemeEnd(url) = 2 /\ Lower(url)[1] \in Allowed

\* has_userinfo_bypass: an encoded "@" next to a real one, or in front of what
\* may be a host.  It reads the URL as it was given, backslashes included.
HasUserinfoBypass(url) ==
  LET authority == Authority(BehindScheme(url))
      encoded   == SelectInSeq(authority, LAMBDA token : token = "%40")
      after     == BehindLast(SubSeq(authority, encoded + 1, Len(authority)), "@")
  IN /\ encoded > 0
     /\ Has(authority, {"@"}) \/ Has(after, {"."}) \/ HasColon(after)

\* Some label has "--" and does not start with "xn--".
DoubleDash(host) == \E i \in DOMAIN host : Kind(host[i]) = "dash"

MatchesSome(suffixes, host) ==
  \E i \in DOMAIN suffixes : DomainMatchesSuffix(host, suffixes[i])

\* The checks of validate_url, in order, and the reason each one gives.
Checks(v, url, policy) ==
  LET found == HostOf(url)
      host  == TrimDots(found)
      lower == Lower(host)
      check(fails, reason) == [fails |-> fails, reason |-> reason]
  IN << check(EmptyOrUnc(url), "UrlParseError"),
        check(HasProhibitedControlChars(url), "HostnameInvalid"),
        check(found = <<>>, "UrlParseError"),
        check(HostHasProhibitedChars(found), "HostnameInvalid"),
        check(SchemeEnd(url) > 0 /\ ~ SchemeAllowed(url), "SchemeNotAllowed"),
        check(SchemeEnd(url) = 0 /\ HasPseudoScheme(url), "SchemeNotAllowed"),
        check(SchemeEnd(url) = 0, "SchemeRequired"),
        check(host = <<>>, "UrlParseError"),
        check(IsAmbiguousIp(host), "AmbiguousIpEncoding"),
        check(/\ IsIpLiteral(host) /\ policy.given
              /\ IpOf(Unbracketed(host)) \notin policy.permits,
              "BareIpDeniedBeforeScheme"),
        check(HasUserinfoBypass(url), "UserinfoBypassAttempt"),
        check(v.reject_double_dash_hostnames /\ DoubleDash(host), "HostnameInvalid"),
        check(MatchesSome(v.denied_domain_suffixes, lower), "DomainSuffixDenied"),
        check(/\ v.trusted_domain_suffixes # <<>> /\ ~ IsIpLiteral(host)
              /\ ~ MatchesSome(v.trusted_domain_suffixes, lower),
              "DomainNotInAllowList") >>

Failing(v, url, policy) ==
  LET checks == Checks(v, url, policy)
  IN {k \in DOMAIN checks : checks[k].fails}

\* validate_url: the first check that fails gives the reason.
Passes(v, url, policy) == Failing(v, url, policy) = {}

ValidateUrl(v, url, policy) ==
  IF Passes(v, url, policy) THEN "Allowed"
  ELSE Checks(v, url, policy)[CHOOSE k \in Failing(v, url, policy) :
                                \A j \in Failing(v, url, policy) : k <= j].reason

IsTrustedDomain(v, host) == MatchesSome(v.trusted_domain_suffixes, Lower(TrimDots(host)))

-----------------------------------------------------------------------------
Lowered(suffixes) == [i \in DOMAIN suffixes |-> Lower(suffixes[i])]

WithTrusted(v, suffixes) == [v EXCEPT !.trusted_domain_suffixes = @ \o Lowered(suffixes)]

\* Mutated form: the suffixes of an earlier call are forgotten.
WithOnlyDenied(v, suffixes) == [v EXCEPT !.denied_domain_suffixes = Lowered(suffixes)]

WithDenied(v, suffixes) == [v EXCEPT !.denied_domain_suffixes = @ \o Lowered(suffixes)]

Init == validator = Default

BuilderCall(v) ==
  /\ Len(v.trusted_domain_suffixes) + Len(v.denied_domain_suffixes) <= MaxSuffixes
  /\ validator' = v

AddTrustedSuffixes(suffixes) == BuilderCall(WithTrusted(validator, suffixes))
AddDeniedSuffixes(suffixes)  == BuilderCall(WithDenied(validator, suffixes))
RejectDoubleDash(reject) ==
  BuilderCall([validator EXCEPT !.reject_double_dash_hostnames = reject])
WithCloudProvider(provider) ==
  BuilderCall(WithTrusted(WithDenied(validator, Providers[provider].denied),
                          Providers[provider].trusted))

Next ==
  \/ \E suffixes \in SuffixArgs :
        AddTrustedSuffixes(suffixes) \/ AddDeniedSuffixes(suffixes)
  \/ \E reject \in BOOLEAN : RejectDoubleDash(reject)
  \/ \E provider \in DOMAIN Providers : WithCloudProvider(provider)

Spec == Init /\ [][Next]_validator

\* Suffixes are texts.
ASSUME SuffixAssumption ==
  /\ \A suffixes \in SuffixArgs : suffixes \in Seq(Seq(Tokens))
  /\ \A p \in DOMAIN Providers : /\ Providers[p].denied \in Seq(Seq(Tokens))
                                 /\ Providers[p].trusted \in Seq(Seq(Tokens))
  /\ MaxSuffixes \in Nat

-----------------------------------------------------------------------------
(***************************************************************************)
(* Reference: a URL put together from the pieces RFC 3986 names.           *)
(*   scheme, userinfo, port, tail : texts with their delimiters            *)
(*   labels : the labels of the host; v6 : it is one bracketed address     *)
(*   dots   : dots behind the host                                         *)
(***************************************************************************)
\* Labels with a dot between each two.
Joined(labels) ==
  [i \in 1 .. 2 * Len(labels) - 1 |-> IF i % 2 = 0 THEN "." ELSE labels[(i + 1) \div 2]]

Dots(n) == [i \in 1 .. n |-> "."]

HostTokens(p) ==
  IF p.v6 THEN <<"[">> \o p.labels \o <<"]">> ELSE Joined(p.labels) \o Dots(p.dots)

UrlText(p) == p.scheme \o p.userinfo \o HostTokens(p) \o p.port \o p.tail

\* What the pieces may be.  A userinfo whose "@" is encoded is one only to a
\* reader that decodes it; the host then has a dot or a colon.
ASSUME UrlAssumption ==
  \A p \in UrlParts :
     /\ p.scheme \in {<<>>, <<"\\", "\\">>}
                      \cup UNION {{<<w, ":">>, <<w, ":", "/", "/">>} : w \in DOMAIN Words}
     /\ p.userinfo \in Seq(Tokens \ {"/", "\\", "?", "#", "NUL"})
     /\ p.userinfo # <<>> =>
          \/ p.userinfo[Len(p.userinfo)] = "@"
          \/ p.userinfo[Len(p.userinfo)] = "%40" /\ (p.v6 \/ Len(p.labels) > 1)
     /\ p.labels \in Seq(DOMAIN Words \cup {"%00"}) /\ p.labels # <<>>
     /\ p.v6 \in BOOLEAN /\ p.dots \in Nat
     /\ IF p.v6 THEN Len(p.labels) = 1 /\ Kind(p.labels[1]) = "v6"
                ELSE \A k \in DOMAIN p.labels : Kind(p.labels[k]) # "v6"
     /\ p.port \in Seq(Tokens)
     /\ p.port # <<>> =>
          /\ p.port[1] = ":" /\ Len(p.port) > 1
          /\ \A i \in 2 .. Len(p.port) : Kind(p.port[i]) \in {"dec", "octal"}
     /\ p.tail \in Seq(Tokens)
     /\ p.tail # <<>> => p.tail[1] \in {"/", "\\", "?", "#"}

\* What the host ends with, cut at a dot; nothing in brackets is cut.
Ends(p) ==
  IF p.v6 THEN {Lower(HostTokens(p))}
  ELSE {Joined(SubSeq(Lower(p.labels), k, Len(p.labels))) : k \in DOMAIN p.labels}

\* The suffix is an end of the host, with a dot in front or not, and any dots
\* behind.
Under(p, suffix) ==
  \E end \in Ends(p), front \in {<<>>, <<".">>}, n \in 0 .. Len(suffix) :
     suffix = front \o end \o Dots(n)

UnderSome(p, suffixes) == \E i \in DOMAIN suffixes : Under(p, suffixes[i])

\* What the last of two, three or four numbers stays below.
Room == [n \in 2 .. 4 |-> CASE n = 2 -> 16777216 [] n = 3 -> 65536 [] n = 4 -> 256]

\* inet_aton reads the labels: one to four numbers, the last of which fills
\* the octets that are left (one alone may have any 32 bits).
ReadAsAddress(labels) ==
  /\ Len(labels) \in 1 .. 4
  /\ \A k \in DOMAIN labels :
        /\ Kind(labels[k]) \in {"dec", "octal", "hex"}
        /\ \/ Len(labels) = 1
           \/ Words[labels[k]].value < IF k = Len(labels) THEN Room[Len(labels)] ELSE 256

Canonical(labels) ==
  Len(labels) = 4 /\ \A k \in 1 .. 4 : Kind(labels[k]) = "dec"

RefIp(p) == [k \in DOMAIN p.labels |-> Words[p.labels[k]].value]

IsAddress(p) == p.v6 \/ ReadAsAddress(p.labels)

\* What the checks are for, said of the pieces.
Judged(v, p, policy) ==
  /\ p.scheme # <<>> /\ SubSeq(p.scheme, 2, Len(p.scheme)) = <<":", "/", "/">>
  /\ Lower(p.scheme)[1] \in Allowed
  /\ IsAddress(p) => /\ p.v6 \/ Canonical(p.labels)
                     /\ policy.given => RefIp(p) \in policy.permits
  /\ ~ Has(p.userinfo, {"%40"})
  /\ v.reject_double_dash_hostnames => ~ DoubleDash(p.labels)
  /\ ~ UnderSome(p, v.denied_domain_suffixes)
  /\ v.trusted_domain_suffixes # <<>> /\ ~ IsAddress(p) =>
       UnderSome(p, v.trusted_domain_suffixes)

\* Pieces nothing can be held against but what Judged says: no prohibited
\* character, no encoded "@" behind a backslash, which some read as userinfo, and
\* a host that is an address or not made of numbers.
Plain(p) ==
  /\ ~ Has(p.tail, {"NUL"}) /\ ~ Has(p.labels, {"%00"})
  /\ p.tail # <<>> /\ p.tail[1] = "\\" => ~ Has(p.tail, {"%40"})
  /\ \/ IsAddress(p)
     \/ LET kinds == {Kind(p.labels[k]) : k \in DOMAIN p.labels}
        IN "hex" \notin kinds /\ ~ kinds \subseteq {"dec", "octal"}

-----------------------------------------------------------------------------
(***************************************************************************)
(* Properties.                                                             *)
(***************************************************************************)
\* A URL passes only if the host it names, with the scheme it names, meets
\* every condition: no userinfo, port, path, query, case or trailing dot makes
\* validate_url look at another host, no suffix matches half a label, and
\* is_trusted_domain, asked for the host alone, agrees.
PassMeansJudged ==
  \A p \in UrlParts, policy \in Policies :
     Passes(validator, UrlText(p), policy) =>
       /\ Judged(validator, p, policy)
       /\ validator.trusted_domain_suffixes # <<>> /\ ~ IsAddress(p) =>
            IsTrustedDomain(validator, HostTokens(p))

\* Nothing else is refused: what surrounds the host of a plain URL changes no
\* verdict.
PlainUrlPasses ==
  \A p \in UrlParts, policy \in Policies :
     Plain(p) /\ Judged(validator, p, policy) => Passes(validator, UrlText(p), policy)

\* A text inet_aton reads as an address never gets as far as a name: it is
\* refused as ambiguous, before policy and suffixes are asked, unless it is the
\* canonical spelling, which the policy then judges.
AddressTextIsRecognised ==
  \A p \in UrlParts, policy \in Policies :
     /\ ~ p.v6 /\ ReadAsAddress(p.labels)
     /\ SchemeAllowed(UrlText(p)) /\ ~ Has(p.userinfo \o p.tail, {"%40", "NUL"})
     => (ValidateUrl(validator, UrlText(p), policy) = "AmbiguousIpEncoding"
           <=> ~ Canonical(p.labels))

BareUrls   == {p \in UrlParts : p.userinfo \o p.port \o p.tail = <<>>}
PassSet(v) == {q \in BareUrls \X Policies : Passes(v, UrlText(q[1]), q[2])}

\* A call that leaves the trusted suffixes and the double-dash check alone
\* opens no URL; trusting one more suffix closes none, once there is one.
CallsMoveOneWay ==
  [][/\ /\ validator'.trusted_domain_suffixes = validator.trusted_domain_suffixes
        /\ validator'.reject_double_dash_hostnames = validator.reject_double_dash_hostnames
        => PassSet(validator') \subseteq PassSet(validator)
     /\ /\ validator'.denied_domain_suffixes = validator.denied_domain_suffixes
        /\ validator'.reject_double_dash_hostnames = validator.reject_double_dash_hostnames
        /\ validator.trusted_domain_suffixes # <<>>
        => PassSet(validator) \subseteq PassSet(validator')]_validator
=============================================================================
