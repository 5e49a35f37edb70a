------------------------------ MODULE MCGoHost ------------------------------
(***************************************************************************)
(* Two goroutines and two requests with different verdicts; memory for     *)
(* two inputs beside the configuration, of which the second leaves no      *)
(* block for its result, and after which no call can be made.              *)
(***************************************************************************)
EXTENDS GoHost

config(decodes, compiles, network, rules, literals) ==
  [decodes |-> decodes, compiles |-> compiles, network |-> network,
   rules |-> rules, literals |-> literals]
request(ask, decodes, subject) == [ask |-> ask, decodes |-> decodes, subject |-> subject]

MCConfigs ==
  { config(TRUE, TRUE, {"public"}, [u \in {"ftp", "https"} |-> "NoMatch"], {"ftp", "https"}),
    config(FALSE, FALSE, {}, <<>>, {}), config(TRUE, FALSE, {}, <<>>, {}) }
MCRequests   == {request("network", TRUE, "public"), request("request", TRUE, "ftp")}
MCStructural == {"https"}
=============================================================================
