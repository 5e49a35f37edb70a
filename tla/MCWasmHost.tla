----------------------------- MODULE MCWasmHost -----------------------------
(***************************************************************************)
(* Two configurations that decide differently, one whose URL rules do not  *)
(* compile, and questions that tell them apart.  "ftp" fails the           *)
(* structural checks.                                                      *)
(***************************************************************************)
EXTENDS WasmHost, TLC

config(decodes, compiles, network, rules, literals) ==
  [decodes |-> decodes, compiles |-> compiles, network |-> network,
   rules |-> rules, literals |-> literals]
request(ask, decodes, subject) == [ask |-> ask, decodes |-> decodes, subject |-> subject]

MCConfigs ==
  { config(TRUE, TRUE, {"public"}, [u \in {"ftp", "https"} |-> "NoMatch"], {"ftp", "https"}),
    config(TRUE, TRUE, {"private"}, [u \in {"ftp", "https"} |->
       IF u = "ftp" THEN "AllowedBypassIp" ELSE "Denied"], {"https"}),
    config(TRUE, FALSE, {}, <<>>, {}) }

MCRequests ==
  { request("network", TRUE, "public"), request("request", TRUE, "https"),
    request("request", TRUE, "ftp"), request("domain", TRUE, "https"),
    request("network", FALSE, "public") }

MCStructural == {"https"}
PtrSymmetry == Permutations(Ptrs)
=============================================================================
