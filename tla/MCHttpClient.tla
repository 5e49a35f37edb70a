---------------------------- MODULE MCHttpClient ----------------------------
(***************************************************************************)
(* A validator used as documented and a clone used freely, two chains, a   *)
(* counter that wraps, and targets of every form.  The name moves between  *)
(* a permitted and a denied address.                                       *)
(***************************************************************************)
EXTENDS HttpClient

target(scheme, form, at) == [scheme |-> scheme, form |-> form, at |-> at]

MCAnswers == [n \in {"name"} |-> {{"open"}, {"shut"}, {"open", "shut"}, {}}]
MCTargets ==
  { target("https", "name", "name"), target("http", "name", "name"),
    target("https", "ip", "open"), target("https", "ip", "shut"),
    target("https", "bracketed", "shut"),
    target("https", "ambiguous", "shut") }
MCAccepted == {t \in MCTargets : HopAccepts(t)}
=============================================================================
