------------------------------ MODULE WasmAbi ------------------------------
(***************************************************************************)
(* The guest side of crates/ressrf-wasm/src/lib.rs: the table of policies, *)
(* the audit flag and the blocks of linear memory, with one operator per   *)
(* exported function.  WasmHost and GoHost are two hosts that call them.   *)
(*                                                                         *)
(* A policy is what its configuration decides (PolicyEngine):              *)
(*   decodes  : the JSON decodes and the preset is known                   *)
(*   compiles : the regexes of its URL rules do; build() panics otherwise  *)
(*   network  : the lists of addresses that pass                           *)
(*   rules    : [url -> decision of the URL rules]                         *)
(*   literals : the URLs whose host is no address the policy denies        *)
(* A request: [ask, decodes, subject], where decodes says that the JSON    *)
(* and the addresses in it parse.  Handle h of the program is index h + 1  *)
(* here; u32::MAX is NoHandle.                                             *)
(*                                                                         *)
(* A guest without a free block fails in two ways: Rust's own allocations  *)
(* trap, which the host sees as an error of the call, and ressrf_alloc     *)
(* returns the null pointer, which a host checks for its inputs and        *)
(* serialize_result for its result does not.  The null pointer is address  *)
(* 0 of linear memory: a write there is undefined for Rust and a store     *)
(* like any other in the release build of build_wasm.sh, into the far end  *)
(* of a stack that the linker puts first.                                  *)
(***************************************************************************)
EXTENDS Integers, Sequences, FiniteSets

CONSTANTS
  Configs,      \* configurations passed to ressrf_policy_new
  Requests,     \* questions asked
  Structural,   \* URLs that pass UriValidator::default() without a policy
  InDomains,    \* URIs that pass ressrf_uri_in_domain
  Ptrs          \* addresses of blocks

Null == 0     \* the null pointer

ASSUME PtrAssumption == Null \notin Ptrs

VARIABLES
  policies,       \* POLICIES: what each handle stands for
  audit_enabled,  \* AUDIT_ENABLED
  heap            \* the blocks in use, and what was written at Null

guest == <<policies, audit_enabled, heap>>

NoHandle == 0
NoPolicy == [live |-> FALSE]                          \* None
Slot(config, sink) == [live |-> TRUE, config |-> config, sink |-> sink]

GuestInit == policies = <<>> /\ audit_enabled = FALSE /\ heap = <<>>

-----------------------------------------------------------------------------
\* ressrf_alloc for an input or an event, and the write into the block.
FreePtrs == Ptrs \ DOMAIN heap
With(blocks, p, content) ==
  [q \in DOMAIN blocks \cup {p} |-> IF q = p THEN content ELSE blocks[q]]

\* ressrf_alloc for a result, whose pointer nobody looks at.
ResultPtrs == IF FreePtrs = {} THEN {Null} ELSE FreePtrs

\* ressrf_dealloc, which does nothing at the null pointer.
Without(blocks, p) == [q \in DOMAIN blocks \ ({p} \ {Null}) |-> blocks[q]]

\* Mutated form: the slot of a freed policy is used again.
NewHandleInFreeSlot(table) ==
  IF \E h \in DOMAIN table : ~ table[h].live
  THEN CHOOSE h \in DOMAIN table : ~ table[h].live
  ELSE Len(table) + 1

\* store_policy: policies.len() is the handle, and the policy is pushed.
NewHandle(table) == Len(table) + 1
StorePolicy(table, slot) ==
  [h \in DOMAIN table \cup {NewHandle(table)} |->
     IF h = NewHandle(table) THEN slot ELSE table[h]]

\* remove_policy and get_policy.
\* Mutated form: only what was asked last is let go.
RemoveLastPolicy(table, h) ==
  IF h = Len(table) THEN [table EXCEPT ![h] = NoPolicy] ELSE table

RemovePolicy(table, h) ==
  IF h \in DOMAIN table THEN [table EXCEPT ![h] = NoPolicy] ELSE table

IsLive(table, h) == h \in DOMAIN table /\ table[h].live

-----------------------------------------------------------------------------
\* ressrf_policy_new gets past its early returns and through build().
Builds(config) == config.decodes /\ config.compiles

\* validate_url_rules, then the structural checks with the policy.
RequestPasses(config, url) ==
  \/ config.rules[url] = "AllowedBypassIp"
  \/ /\ config.rules[url] \in {"Allowed", "NoMatch"}
     /\ url \in Structural \cap config.literals

Passes(config, request) ==
  CASE request.ask = "network" -> request.subject \in config.network
    [] request.ask = "request" -> RequestPasses(config, request.subject)

\* ressrf_policy_is_network_allowed, ressrf_policy_is_request_allowed,
\* ressrf_uri_in_domain: the "allowed" of the result.  No error allows.
Answer(table, h, request) ==
  IF request.ask = "domain"
  THEN request.decodes /\ request.subject \in InDomains
  ELSE IsLive(table, h) /\ request.decodes /\ Passes(table[h].config, request)
=============================================================================
