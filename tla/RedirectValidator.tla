-------------------------- MODULE RedirectValidator --------------------------
(***************************************************************************)
(* RedirectValidator of crates/ressrf-http/src/redirect.rs, as the redirect*)
(* hook of an HTTP client: each request chain calls validate_hop for every *)
(* redirect it is answered with, and follows it if the call returns Ok.    *)
(* The validator counts hops in one atomic u32 for all its chains.         *)
(*                                                                         *)
(* How it is used is a parameter.  A serial validator is used as the       *)
(* comment on reset() asks: for one chain at a time, after a reset.  The   *)
(* others are reset before a chain or not, as in the example of the type,  *)
(* and their chains may overlap, as validate_hop takes &self.              *)
(***************************************************************************)
EXTENDS Integers, FiniteSets

CONSTANTS
  Validators,     \* validators: First is made by new(), the others by clone()
  First,
  Chains,         \* request chains of the client
  Targets,        \* redirect targets a server may answer with
  Accepted,       \* those validate_url and validate_scheme let through
  MaxRedirects,   \* RedirectPolicy::max_redirects
  PerHop,         \* RedirectPolicy::validate_per_hop
  Modulus,        \* the counter wraps here (2^32 in the program)
  Serial          \* validators reset before each chain, for one at a time

ASSUME RedirectAssumption ==
  /\ First \in Validators
  /\ Modulus \in Nat /\ MaxRedirects \in 0 .. (Modulus - 1)
  /\ Accepted \subseteq Targets /\ Serial \subseteq Validators
  /\ PerHop \in BOOLEAN

VARIABLES
  hops,      \* the counter of each validator; -1 until the validator exists
  chain,     \* the state of each chain
  asked,     \* history: validate_hop calls since the last reset, up to a cap
  granted    \* history: those that returned Ok, up to a cap

vars == <<hops, chain, asked, granted>>

\* History counts stop where no property tells larger counts apart.
CapAsked    == Modulus + 1
CapGranted  == MaxRedirects + 1
CountTo(n, cap) == IF n < cap THEN n + 1 ELSE n

Exists(v) == hops[v] >= 0
Running   == {c \in Chains : chain[c].pc = "running"}

\* followed: redirects the chain followed.  parity: of its hook calls, so that a
\* redirect is a step even where the counts have stopped.
NewChain(pc, v) == [pc |-> pc, via |-> v, followed |-> 0, parity |-> 0]

-----------------------------------------------------------------------------
Init ==
  /\ hops = [v \in Validators |-> IF v = First THEN 0 ELSE -1]
  /\ chain = [c \in Chains |-> NewChain("idle", First)]
  /\ asked = [v \in Validators |-> 0]
  /\ granted = [v \in Validators |-> 0]

\* Mutated form: a clone starts from zero.
CloneFresh(v, w) ==
  /\ Exists(v) /\ ~ Exists(w)
  /\ hops' = [hops EXCEPT ![w] = 0]
  /\ asked' = [asked EXCEPT ![w] = asked[v]]
  /\ granted' = [granted EXCEPT ![w] = granted[v]]
  /\ UNCHANGED chain

\* Clone: a counter of its own that starts from the count of the original.
Clone(v, w) ==
  /\ Exists(v) /\ ~ Exists(w)
  /\ hops' = [hops EXCEPT ![w] = hops[v]]
  /\ asked' = [asked EXCEPT ![w] = asked[v]]
  /\ granted' = [granted EXCEPT ![w] = granted[v]]
  /\ UNCHANGED chain

Reset(v) ==
  /\ hops' = [hops EXCEPT ![v] = 0]
  /\ asked' = [asked EXCEPT ![v] = 0]
  /\ granted' = [granted EXCEPT ![v] = 0]

\* The client sends the first request of a chain.
StartChain(c, v, reset) ==
  /\ chain[c].pc # "running"
  /\ Exists(v)
  /\ v \in Serial => reset /\ \A d \in Running : chain[d].via # v
  /\ chain' = [chain EXCEPT ![c] = NewChain("running", v)]
  /\ IF reset THEN Reset(v) ELSE UNCHANGED <<hops, asked, granted>>

\* The server's answer is no redirect.
FinishChain(c) ==
  /\ chain[c].pc = "running"
  /\ chain' = [chain EXCEPT ![c].pc = "idle"]
  /\ UNCHANGED <<hops, asked, granted>>

\* Mutated forms: one redirect too many, one too few.
TooManyOffByOne(hop) == hop > MaxRedirects
TooManyAfterAdd(hop) == hop + 1 >= MaxRedirects

TooMany(hop) == hop >= MaxRedirects

\* Mutated form: the counter stops before the limit.
CountBelowLimit(hop) == IF hop < MaxRedirects - 1 THEN hop + 1 ELSE hop

\* fetch_add on the AtomicU32 wraps.
FetchAdd(hop) == (hop + 1) % Modulus

\* The outcome of validate_hop on a target, for the value fetch_add returned.
HopVerdict(hop, target) ==
  IF TooMany(hop) THEN "too_many"
  ELSE IF PerHop /\ target \notin Accepted THEN "blocked" ELSE "ok"

\* validate_hop, and the hook: follow on Ok, stop on Err.
ValidateHop(c, target) ==
  LET v       == chain[c].via
      verdict == HopVerdict(hops[v], target)
  IN /\ chain[c].pc = "running"
     /\ hops' = [hops EXCEPT ![v] = FetchAdd(@)]
     /\ asked' = [asked EXCEPT ![v] = CountTo(@, CapAsked)]
     /\ IF verdict = "ok"
        THEN /\ granted' = [granted EXCEPT ![v] = CountTo(@, CapGranted)]
             /\ chain' = [chain EXCEPT ![c].followed = CountTo(@, CapGranted),
                                       ![c].parity = 1 - @]
        ELSE /\ chain' = [chain EXCEPT ![c].pc = verdict,
                                       ![c].parity = 1 - @]
             /\ UNCHANGED granted

Advance(c) == FinishChain(c) \/ \E target \in Targets : ValidateHop(c, target)

Next ==
  \/ \E v, w \in Validators : Clone(v, w)
  \/ \E c \in Chains : Advance(c)
                       \/ \E v \in Validators, reset \in BOOLEAN : StartChain(c, v, reset)

\* A server answers every request, by a redirect or not.
Fairness == \A c \in Chains : WF_vars(Advance(c))

Spec     == Init /\ [][Next]_vars
FairSpec == Spec /\ Fairness

-----------------------------------------------------------------------------
ChainState == [pc : {"idle", "running", "too_many", "blocked"}, via : Validators,
               followed : 0 .. CapGranted, parity : {0, 1}]

TypeOK ==
  /\ hops \in [Validators -> -1 .. (Modulus - 1)]
  /\ chain \in [Chains -> ChainState]
  /\ asked \in [Validators -> 0 .. CapAsked]
  /\ granted \in [Validators -> 0 .. CapGranted]
  /\ \A c \in Chains : Exists(chain[c].via)

-----------------------------------------------------------------------------
\* However chains, clones and resets interleave, the hops granted on a counter
\* since its last reset, those of the chains before it was cloned included,
\* stay within max_redirects for as long as the u32 has not wrapped.
GrantsStayInBudget ==
  \A v \in Validators : asked[v] <= Modulus => granted[v] <= MaxRedirects

\* redirect.rs:10, "maximum number of redirects to follow", read per chain: a
\* chain of a serial validator follows no more than that, whatever the chains
\* of its clones do.
SerialChainFollowsAtMostMax ==
  \A c \in Chains : chain[c].via \in Serial => chain[c].followed <= MaxRedirects

\* A chain of a serial validator is refused for too many redirects only after
\* max_redirects redirects of its own.
SerialRefusalIsEarned ==
  \A c \in Chains :
     chain[c].via \in Serial /\ chain[c].pc = "too_many" => chain[c].followed >= MaxRedirects

\* README.md:18 of the crate calls the validator a "per-request redirect chain
\* state machine", whoever uses it: no chain is refused for redirects of others.
RefusalIsEarned ==
  \A c \in Chains : chain[c].pc = "too_many" => chain[c].followed >= MaxRedirects

\* A chain of a serial validator that is redirected for ever is stopped.  (On
\* another validator the resets of other chains can keep it going.)
RedirectLoopEnds ==
  \A c \in Chains :
     chain[c].via \in Serial /\ chain[c].pc = "running" ~> chain[c].pc # "running"
=============================================================================
