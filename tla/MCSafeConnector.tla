--------------------------- MODULE MCSafeConnector ---------------------------
(***************************************************************************)
(* Three addresses, one of them denied; answers that are empty, mixed,     *)
(* wholly denied, and hold an address twice; budgets of none and two ticks.*)
(***************************************************************************)
EXTENDS SafeConnector

MCAnswers ==
  {<<>>, <<"deny">>, <<"a", "deny", "b">>, <<"deny", "a", "a">>, <<"b">>}

(***************************************************************************)
(* Names with two addresses the policy lets through, and peers that drop   *)
(* every packet: a dial neither connects nor fails before its timer.       *)
(***************************************************************************)
MCPairs == {<<"a", "b">>, <<"a", "deny", "b">>}

SilentNext ==
  \/ Tick
  \/ \E c \in Calls :
        \/ \E host \in Hosts, timeout \in Timeouts : Connect(c, host, timeout)
        \/ \E answer \in Answers : DnsAnswer(c, answer)
        \/ Loop(c)
        \/ DialTimeout(c)

SilentSpec == Init /\ [][SilentNext]_vars
=============================================================================
