----------------------------- MODULE HttpClient -----------------------------
(***************************************************************************)
(* A client that follows redirects, put together as the crates describe:   *)
(* SsrfLayer of crates/ressrf-http/src/layer.rs in front of the first      *)
(* request, RedirectValidator as the redirect hook, SafeConnector of       *)
(* crates/ressrf-tcp as the transport of every hop.  The layer sees one    *)
(* request of a chain, the hook sees texts only, and a name is resolved    *)
(* anew at each connect; a connect is one step here, as SafeConnector      *)
(* implements PinnedDial.                                                  *)
(*                                                                         *)
(* A target is [scheme, form, at]: the form of its host is "ip" (an IPv4   *)
(* literal), "bracketed" (an IPv6 one), "ambiguous", "name", or "none",    *)
(* and at is the address it spells or the name.                            *)
(***************************************************************************)
EXTENDS RedirectValidator

CONSTANTS
  Permitted,    \* addresses the policy lets through
  Answers,      \* [name -> sets of addresses a lookup may return]
  PlaintextOk,  \* ~ require_https /\ allow_plaintext_http
  NoPeer        \* no address

VARIABLE link   \* per chain: where its request is, its target, and its peer

httpVars == <<hops, chain, asked, granted, link>>

NoTarget == [scheme |-> "none", form |-> "none", at |-> NoPeer]
Link(stage, target, peer) == [stage |-> stage, target |-> target, peer |-> peer]

\* Policy::validate_scheme.
SchemeOk(target) == target.scheme = "http" => PlaintextOk

Spells(target, forms) == target.form \in forms => target.at \in Permitted

\* validate_request.  http::Uri keeps the brackets of an IPv6 host, which then
\* does not parse as an address: it is left to the connector.
ValidateRequest(target) ==
  target.form # "none" /\ SchemeOk(target) /\ Spells(target, {"ip"})

\* Mutated form: names and addresses alike are left to the connector.
AcceptsByScheme(target) == target.scheme \in {"http", "https"} /\ SchemeOk(target)

\* What validate_hop asks of a target: UriValidator::validate_url with the
\* policy, then validate_scheme.
HopAccepts(target) ==
  /\ target.scheme \in {"http", "https"} /\ SchemeOk(target)
  /\ target.form \notin {"none", "ambiguous"}
  /\ Spells(target, {"ip", "bracketed"})

ASSUME HttpAssumption == Accepted = {t \in Targets : HopAccepts(t)}

\* The addresses SafeConnector may end up with.
Resolved(target) ==
  CASE target.form = "name"                 -> Answers[target.at]
    [] target.form \in {"ip", "bracketed"}  -> {{target.at}}
    [] OTHER                                -> {{}}

-----------------------------------------------------------------------------
HttpInit ==
  /\ Init
  /\ link = [c \in Chains |-> Link("idle", NoTarget, NoPeer)]

\* SsrfService::call forwards the request to the inner client ...
Send(c, v, reset, target) ==
  /\ ValidateRequest(target)
  /\ StartChain(c, v, reset)
  /\ link' = [link EXCEPT ![c] = Link("connecting", target, NoPeer)]

\* ... or is a future that is ready with the error.
Rejected(c, target) ==
  /\ ~ ValidateRequest(target)
  /\ chain[c].pc # "running"
  /\ link' = [link EXCEPT ![c] = Link("rejected", NoTarget, NoPeer)]
  /\ UNCHANGED vars

\* Mutated form: a transport with a resolver of its own.
ConnectUnpinned(c) ==
  /\ link[c].stage = "connecting"
  /\ \E answer \in Resolved(link[c].target) : \E a \in answer :
        link' = [link EXCEPT ![c].stage = "open", ![c].peer = a]
  /\ UNCHANGED vars

Connect(c) ==
  /\ link[c].stage = "connecting"
  /\ \E answer \in Resolved(link[c].target) : \E a \in answer \cap Permitted :
        link' = [link EXCEPT ![c].stage = "open", ![c].peer = a]
  /\ UNCHANGED vars

\* No address of the answer is permitted, or none of those connects.
ConnectFails(c) ==
  /\ link[c].stage = "connecting"
  /\ FinishChain(c)
  /\ link' = [link EXCEPT ![c] = Link("failed", NoTarget, NoPeer)]

\* The server answers with a redirect: the hook is asked.
Redirect(c, target) ==
  /\ link[c].stage = "open"
  /\ ValidateHop(c, target)
  /\ link' = [link EXCEPT ![c] =
       IF chain'[c].pc = "running" THEN Link("connecting", target, NoPeer)
       ELSE Link("idle", NoTarget, NoPeer)]

Respond(c) ==
  /\ link[c].stage = "open"
  /\ FinishChain(c)
  /\ link' = [link EXCEPT ![c] = Link("idle", NoTarget, NoPeer)]

GoOn(c) == \/ Connect(c) \/ ConnectFails(c) \/ Respond(c)
           \/ \E target \in Targets : Redirect(c, target)

HttpNext ==
  \/ \E v, w \in Validators : Clone(v, w) /\ UNCHANGED link
  \/ \E c \in Chains, target \in Targets :
        \/ Rejected(c, target)
        \/ \E v \in Validators, reset \in BOOLEAN : Send(c, v, reset, target)
  \/ \E c \in Chains : GoOn(c)

\* A connect ends (SafeConnector's budget), and a server answers.
HttpSpec == HttpInit /\ [][HttpNext]_httpVars /\ \A c \in Chains : WF_httpVars(GoOn(c))

-----------------------------------------------------------------------------
(***************************************************************************)
(* Properties.                                                             *)
(***************************************************************************)
\* Whatever a name resolves to by the time of the connect, and however a server
\* redirects: each connection of each hop ends at a permitted address, the one
\* its URL spells if it spells one, and is not in plain text unless the policy
\* allows that.
EachHopIsJudged ==
  \A c \in Chains :
     link[c].stage = "open" =>
       /\ link[c].peer \in Permitted
       /\ link[c].target.form \in {"ip", "bracketed"} => link[c].peer = link[c].target.at
       /\ PerHop \/ chain[c].followed = 0 => SchemeOk(link[c].target)

\* Layer and hook leave nothing but lookups to the connector: a request is
\* refused there for its addresses only if they come from a name, or from the
\* brackets the layer does not take off.
OnlyNamesAreLeft ==
  \A c \in Chains :
     link[c].stage = "connecting" /\ (PerHop \/ chain[c].followed = 0) =>
       Spells(link[c].target, IF chain[c].followed = 0 THEN {"ip"} ELSE {"ip", "bracketed"})
=============================================================================
