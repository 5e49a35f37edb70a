-------------------------- MODULE MCGoPolicyEngine --------------------------
(***************************************************************************)
(* Small instance of GoPolicyEngine: 16 IPv6 and 4 IPv4 addresses, texts   *)
(* of which one list cannot be parsed, shipped texts that all parse.  The  *)
(* texts of a provider are a list its name stands for, which a caller of   *)
(* the Rust builder passes like any other.                                 *)
(***************************************************************************)
EXTENDS GoPolicyEngine, MCPolicyEngine

MCCloudTexts == [aws |-> <<text(v4(1), 2), text(w6(1, 1), 4)>>]

\* A provider in two spellings, and a name that is none's.
MCToLower == [aws |-> "aws", AWS |-> "aws", other |-> "other"]

\* A range given twice, once as IPv6, so that prefixes repeat; a range across
\* the edge of the mapped space; one with a text that does not parse.
MCParityTextLists ==
  { MCCloudTexts["aws"],
    <<text(v4(3), 1)>>,
    <<text(w6(3, 2), 3), text(w6(0, 0), 1)>>,
    <<text(w6(3, 1), 1), text(v4(1), 2)>>,
    <<text(v4(0), 0), text(v4(1), 3)>> }

MCParityDefaultTexts ==
  [iana_v4      |-> <<text(v4(2), 1)>>,
   iana_v6      |-> <<text(w6(2, 0), 2)>>,
   override     |-> <<text(w6(0, 0), 2)>>,
   csp_metadata |-> <<text(v4(1), 2)>>]

MCParityRules ==
  { Glob({<<"api", "ex">>}, {<<"v1", "*">>}, TRUE), Glob({}, {<<"**", "v1">>}, FALSE),
    MCPlainHttp }
=============================================================================
