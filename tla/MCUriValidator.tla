--------------------------- MODULE MCUriValidator ---------------------------
(***************************************************************************)
(* Small instances of UriValidator: 26 hosts, each plain and behind        *)
(* userinfo; six of them in all the surroundings below.                    *)
(***************************************************************************)
EXTENDS UriValidator

word(kind, lower, value) ==
  [kind |-> kind, lower |-> lower, value |-> value, tails |-> {}]
name(lower) == word("name", lower, 0)

MCWords ==
  [w \in {"http", "ftp", "api", "db", "core", "internal", "user", "path"} |-> name(w)]
    @@ [w \in {"HTTPS"} |-> name("https")] @@ [w \in {"Internal"} |-> name("internal")]
    @@ [w \in {"notcore"} |-> [name("notcore") EXCEPT !.tails = {"core"}]]
    @@ [w \in {"a--b"} |-> word("dash", w, 0)] @@ [w \in {"xn--a"} |-> word("xn", w, 0)]
    @@ [w \in {"0"} |-> word("dec", w, 0)] @@ [w \in {"1"} |-> word("dec", w, 1)]
    @@ [w \in {"8"} |-> word("dec", w, 8)] @@ [w \in {"10"} |-> word("dec", w, 10)]
    @@ [w \in {"80"} |-> word("dec", w, 80)] @@ [w \in {"300"} |-> word("dec", w, 300)]
    @@ [w \in {"012"} |-> word("octal", w, 10)] @@ [w \in {"0xa"} |-> word("hex", w, 10)]
    @@ [w \in {"::1"} |-> word("v6", w, -1)] @@ [w \in {"2001::1"} |-> word("v6", w, -2)]

MCSuffixArgs == { <<<<"Internal">>>>, <<<<".", "core">>>>, <<<<"[", "::1", "]">>, <<"db", ".", "internal", ".">>>> }

MCProviders ==
  [w \in {"aws"} |-> [denied  |-> << <<".", "internal">> >>,
                      trusted |-> << <<"core">>, <<"api", ".", "internal">> >>]]

MCPolicies ==
  { [given |-> FALSE, permits |-> {}],
    [given |-> TRUE, permits |-> {<<8, 8, 8, 8>>, <<-2>>, <<10, 8, 0, 300>>}] }

Names ==
  { <<"api", "core">>, <<"api", "notcore">>, <<"notcore">>, <<"core">>, <<"db", "Internal">>,
    <<"api", "internal">>, <<"core", "db">>, <<"a--b", "core">>, <<"xn--a", "core">>,
    <<"api", "%00">>, <<"0xa", "core">>, <<"1", "core">> }
Addresses ==
  { <<"10", "0", "0", "1">>, <<"8", "8", "8", "8">>, <<"10", "1">>, <<"10", "0", "300">>,
    <<"300">>, <<"10", "8", "0", "300">>, <<"012", "0", "0", "1">>, <<"0xa">>,
    <<"0xa", "8", "012", "1">>, <<"1", "0", "0", "0", "1">> }

host(labels, dots) == [labels |-> labels, v6 |-> FALSE, dots |-> dots]
Hosts ==
  {host(labels, 0) : labels \in Names \cup Addresses}
    \cup {host(<<"db", "Internal">>, 1), host(<<"10", "1">>, 2)}
    \cup {[labels |-> <<w>>, v6 |-> TRUE, dots |-> 0] : w \in {"::1", "2001::1"}}

around(scheme, userinfo, port, tail) ==
  [scheme |-> scheme, userinfo |-> userinfo, port |-> port, tail |-> tail]
http == <<"http", ":", "/", "/">>
MCAround ==
  { around(http, <<>>, <<>>, <<>>),
    around(http, <<"user", "@">>, <<":", "80">>, <<"\\", "user", "@", "core">>),
    around(http, <<"user", ":", "80", "@", "core", "@">>, <<>>, <<"/", "NUL">>),
    around(http, <<"user", "%40", "core", "@">>, <<>>, <<"/", "path">>),
    around(<<"HTTPS", ":", "/", "/">>, <<>>, <<>>, <<"?", "@", "db", ".", "internal">>),
    around(http, <<>>, <<":", "80">>, <<"#", "%40", "db", ".", "core">>),
    around(http, <<>>, <<>>, <<"/", "path", ":", "/", "/", "core", "@", "db">>),
    around(<<"ftp", ":", "/", "/">>, <<>>, <<>>, <<>>),
    around(<<"http", ":">>, <<>>, <<>>, <<>>),
    around(<<"\\", "\\">>, <<>>, <<>>, <<>>),
    around(<<>>, <<>>, <<>>, <<"/", "path", ":", "/", "/", "core">>) }

url(h, a) == [scheme |-> a.scheme, userinfo |-> a.userinfo, labels |-> h.labels,
              v6 |-> h.v6, dots |-> h.dots, port |-> a.port, tail |-> a.tail]
Telling ==
  {h \in Hosts : \/ h.labels \in { <<"api", "core">>, <<"notcore">>, <<"10", "0", "0", "1">>,
                                   <<"8", "8", "8", "8">>, <<"0xa">> }
                 \/ h.v6 /\ h.labels = <<"2001::1">>}
MCUrlParts ==
  {url(h, a) : h \in Telling, a \in MCAround}
    \cup {url(h, a) : h \in Hosts,
                     a \in {b \in MCAround : /\ b.scheme = http /\ b.port = <<>>
                                             /\ Has(b.tail, {"NUL"}) \/ b.tail = <<>>}}
    \cup {url(h, around(http, <<"core", "%40">>, <<>>, <<>>)) :
            h \in {g \in Hosts : Len(g.labels) = 2}}
=============================================================================
