------------------------- MODULE MCRedirectValidator -------------------------
(***************************************************************************)
(* Two validators, two chains, a counter of two bits: it wraps two calls   *)
(* after the limit of two redirects is reached.                            *)
(***************************************************************************)
EXTENDS RedirectValidator
=============================================================================
