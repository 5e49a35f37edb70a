------------------------------- MODULE GoHost -------------------------------
(***************************************************************************)
(* The Go binding of go/ressrf (policy.go, wasm.go) over the guest of      *)
(* crates/ressrf-wasm: goroutines ask one policy, whose calls into the     *)
(* guest are serialised by two mutexes, while Close takes neither.         *)
(*                                                                         *)
(* The guest's memory cannot be entered twice at once: should that happen, *)
(* "torn" says so and its results are anything from then on.  wazero is    *)
(* external: a call into a closed runtime ends in an error, and so does a  *)
(* call during which the runtime was closed.                               *)
(***************************************************************************)
EXTENDS WasmAbi

CONSTANTS
  Threads,   \* goroutines
  NoOne,     \* the owner of a mutex nobody holds
  NoBlock    \* no block, no request

ASSUME GoAssumption == NoOne \notin Threads /\ NoBlock \notin Ptrs /\ NoBlock \notin Requests

VARIABLES
  phase,     \* "none", "built", "failed": what Build has come to
  open,      \* the runtime is not closed
  disabled,  \* ressrftest.DisableForTests is in force
  p_mu,      \* Policy.mu
  inst_mu,   \* instance.mu
  running,   \* the goroutine that executes in the guest
  torn,      \* two have executed in it at once
  pc,        \* where each goroutine's call is
  call,      \* its request, its two blocks, and whether it began after Close
  outcome    \* what its call returned: nil is "allowed", or "bypassed" in tests

vars == <<policies, audit_enabled, heap, phase, open, disabled, p_mu, inst_mu,
          running, torn, pc, call, outcome>>

Handle == 1          \* the first and only policy of the instance

Stages  == {"idle", "lock_policy", "lock_instance", "write", "call", "guest", "read"}
NoCall  == [request |-> NoBlock, input |-> NoBlock, block |-> NoBlock, closed |-> FALSE]

Init ==
  /\ GuestInit
  /\ phase = "none" /\ open = TRUE /\ disabled \in BOOLEAN
  /\ p_mu = NoOne /\ inst_mu = NoOne
  /\ running = NoOne /\ torn = FALSE
  /\ pc = [t \in Threads |-> "idle"]
  /\ call = [t \in Threads |-> NoCall]
  /\ outcome = [t \in Threads |-> "none"]

-----------------------------------------------------------------------------
\* PolicyBuilder.Build: newInstance, which turns the audit flag on for a sink,
\* then writeBytes and ressrf_policy_new.  Nothing else has the instance yet.
Build(config, sink) ==
  /\ phase = "none"
  /\ audit_enabled' = sink
  /\ \E p \in FreePtrs : heap' = With(heap, p, config)
  /\ IF Builds(config)
     THEN /\ phase' = "built" /\ open' = open
          /\ policies' = StorePolicy(policies, Slot(config, sink))
     ELSE /\ phase' = "failed" /\ open' = FALSE
          /\ UNCHANGED policies
  /\ UNCHANGED <<disabled, p_mu, inst_mu, running, torn, pc, call, outcome>>

\* IsAllowed and IsNetworkAllowed are called; the bypass returns at once.
Ask(t, request) ==
  /\ phase = "built" /\ pc[t] = "idle"
  /\ call' = [call EXCEPT ![t] =
       [request |-> request, input |-> NoBlock, block |-> NoBlock, closed |-> ~ open]]
  /\ IF disabled
     THEN /\ outcome' = [outcome EXCEPT ![t] = "bypassed"]
          /\ UNCHANGED pc
     ELSE /\ outcome' = [outcome EXCEPT ![t] = "none"]
          /\ pc' = [pc EXCEPT ![t] = "lock_policy"]
  /\ UNCHANGED <<policies, audit_enabled, heap, phase, open, disabled,
                 p_mu, inst_mu, running, torn>>

LockPolicy(t) ==
  /\ pc[t] = "lock_policy" /\ p_mu = NoOne
  /\ p_mu' = t
  /\ pc' = [pc EXCEPT ![t] = "lock_instance"]
  /\ UNCHANGED <<policies, audit_enabled, heap, phase, open, disabled,
                 inst_mu, running, torn, call, outcome>>

LockInstance(t) ==
  /\ pc[t] = "lock_instance" /\ inst_mu = NoOne
  /\ inst_mu' = t
  /\ pc' = [pc EXCEPT ![t] = "write"]
  /\ UNCHANGED <<policies, audit_enabled, heap, phase, open, disabled,
                 p_mu, running, torn, call, outcome>>

\* A short call into the guest: it tears memory another goroutine works in.
EnterShortly(t) == torn' = (torn \/ running \notin {NoOne, t})

\* The call returns; the deferred unlocks run.
Return(t, result) ==
  /\ outcome' = [outcome EXCEPT ![t] = result]
  /\ call' = [call EXCEPT ![t].input = NoBlock, ![t].block = NoBlock]
  /\ pc' = [pc EXCEPT ![t] = "idle"]
  /\ p_mu' = NoOne
  /\ inst_mu' = NoOne

\* Mutated form: the mutexes guard the copy of the input and no more.
WriteBytesUnlocks(t) ==
  /\ pc[t] = "write" /\ open
  /\ \E p \in FreePtrs :
        /\ heap' = With(heap, p, call[t].request)
        /\ call' = [call EXCEPT ![t].input = p]
  /\ pc' = [pc EXCEPT ![t] = "call"]
  /\ p_mu' = NoOne /\ inst_mu' = NoOne
  /\ EnterShortly(t)
  /\ UNCHANGED <<policies, audit_enabled, phase, open, disabled, running, outcome>>

\* writeBytes: ressrf_alloc and the copy.
WriteBytes(t) ==
  /\ pc[t] = "write" /\ open
  /\ \E p \in FreePtrs :
        /\ heap' = With(heap, p, call[t].request)
        /\ call' = [call EXCEPT ![t].input = p]
  /\ pc' = [pc EXCEPT ![t] = "call"]
  /\ EnterShortly(t)
  /\ UNCHANGED <<policies, audit_enabled, phase, open, disabled, p_mu, inst_mu,
                 running, outcome>>

\* Mutated form: an early return that forgets the mutexes.
WriteFailsLocked(t) ==
  /\ pc[t] = "write"
  /\ ~ open \/ FreePtrs = {}
  /\ outcome' = [outcome EXCEPT ![t] = "error"]
  /\ pc' = [pc EXCEPT ![t] = "idle"]
  /\ UNCHANGED <<policies, audit_enabled, heap, phase, open, disabled, p_mu, inst_mu,
                 running, torn, call>>

\* Mutated form: an early return without the error.
WriteFailsAllowed(t) ==
  /\ pc[t] = "write"
  /\ ~ open \/ FreePtrs = {}
  /\ Return(t, "allowed")
  /\ UNCHANGED <<policies, audit_enabled, heap, phase, open, disabled,
                 running, torn>>

\* The runtime is closed, or there is no block for the input.
WriteFails(t) ==
  /\ pc[t] = "write"
  /\ ~ open \/ FreePtrs = {}
  /\ Return(t, "error")
  /\ UNCHANGED <<policies, audit_enabled, heap, phase, open, disabled,
                 running, torn>>

EnterGuest(t) ==
  /\ pc[t] = "call"
  /\ running' = t
  /\ EnterShortly(t)
  /\ pc' = [pc EXCEPT ![t] = "guest"]
  /\ UNCHANGED <<policies, audit_enabled, heap, phase, open, disabled,
                 p_mu, inst_mu, call, outcome>>

\* The guest has answered into a block of its own, or at the null pointer.
GuestAnswers(t) ==
  /\ pc[t] = "guest" /\ open
  /\ \E p \in ResultPtrs, allowed \in BOOLEAN :
        /\ torn \/ allowed = Answer(policies, Handle, heap[call[t].input])
        /\ heap' = With(heap, p, [allowed |-> allowed])
        /\ call' = [call EXCEPT ![t].block = p]
  /\ running' = IF running = t THEN NoOne ELSE running
  /\ pc' = [pc EXCEPT ![t] = "read"]
  /\ UNCHANGED <<policies, audit_enabled, phase, open, disabled, p_mu, inst_mu,
                 torn, outcome>>

\* The runtime was closed before the guest was done, or an allocation of the
\* guest's own has failed and it traps.
GuestFails(t) ==
  /\ pc[t] = "guest"
  /\ ~ open \/ FreePtrs = {}
  /\ running' = IF running = t THEN NoOne ELSE running
  /\ Return(t, "error")
  /\ UNCHANGED <<policies, audit_enabled, heap, phase, open, disabled, torn>>

ResultOf(t) == IF heap[call[t].block].allowed THEN "allowed" ELSE "denied"

\* readResult: length and body, then ressrf_dealloc, whose failure is returned.
ReadResult(t) ==
  /\ pc[t] = "read" /\ open
  /\ heap' = Without(heap, call[t].block)
  /\ EnterShortly(t)
  /\ Return(t, ResultOf(t))
  /\ UNCHANGED <<policies, audit_enabled, phase, open, disabled, running>>

ReadFails(t) ==
  /\ pc[t] = "read" /\ ~ open
  /\ Return(t, "error")
  /\ UNCHANGED <<policies, audit_enabled, heap, phase, open, disabled,
                 running, torn>>

\* Close: the runtime goes, whoever is in it.
Close ==
  /\ phase = "built"
  /\ open' = FALSE
  /\ UNCHANGED <<policies, audit_enabled, heap, phase, disabled, p_mu, inst_mu,
                 running, torn, pc, call, outcome>>

\* ressrftest turns the bypass on and off.
SetDisabled(value) ==
  /\ disabled' = value
  /\ UNCHANGED <<policies, audit_enabled, heap, phase, open, p_mu, inst_mu,
                 running, torn, pc, call, outcome>>

Lock(t)     == LockPolicy(t) \/ LockInstance(t)
Progress(t) == \/ WriteBytes(t) \/ WriteFails(t) \/ EnterGuest(t)
               \/ GuestAnswers(t) \/ GuestFails(t) \/ ReadResult(t) \/ ReadFails(t)

Next ==
  \/ \E config \in Configs, sink \in BOOLEAN : Build(config, sink)
  \/ \E t \in Threads : \/ \E request \in Requests : Ask(t, request)
                        \/ Lock(t) \/ Progress(t)
  \/ Close
  \/ \E value \in BOOLEAN : SetDisabled(value)

\* A goroutine that can run does; sync.Mutex hands the lock to a waiter in the
\* end (its starvation mode); a call into the guest ends.
Fairness ==
  \A t \in Threads : /\ SF_vars(LockPolicy(t)) /\ WF_vars(LockInstance(t))
                     /\ WF_vars(Progress(t))

Spec     == Init /\ [][Next]_vars
FairSpec == Spec /\ Fairness

-----------------------------------------------------------------------------
\* What a caller is told is a request: it carries its own fields.
ASSUME RequestAssumption ==
  /\ \A r \in Requests : r.decodes \in BOOLEAN
  /\ \A c \in Configs : c.decodes \in BOOLEAN /\ c.compiles \in BOOLEAN

Owners == Threads \cup {NoOne}
Blocks == Ptrs \cup {Null, NoBlock}
Calls  == [request : Requests \cup {NoBlock}, input : Blocks, block : Blocks, closed : BOOLEAN]

TypeOK ==
  /\ phase \in {"none", "built", "failed"}
  /\ open \in BOOLEAN /\ disabled \in BOOLEAN /\ torn \in BOOLEAN
  /\ p_mu \in Owners /\ inst_mu \in Owners /\ running \in Owners
  /\ pc \in [Threads -> Stages]
  /\ call \in [Threads -> Calls]
  /\ outcome \in [Threads -> {"none", "bypassed", "allowed", "denied", "error"}]
  /\ DOMAIN heap \subseteq Ptrs \cup {Null}

-----------------------------------------------------------------------------
(***************************************************************************)
(* Properties.                                                             *)
(***************************************************************************)
\* Whatever the other goroutines ask, and whenever the policy is closed, a
\* verdict a goroutine gets is the policy's on its own request, one the guest
\* wrote at the null pointer included.
AnswerIsOwn ==
  \A t \in Threads :
     outcome[t] \in {"allowed", "denied"} =>
       (outcome[t] = "allowed" <=> Answer(policies, Handle, call[t].request))

\* A call that began after Close allows nothing but by the test bypass.
ClosedNeverAllows ==
  \A t \in Threads : call[t].closed => outcome[t] # "allowed"

\* Each call returns: no error path keeps a mutex, and no order of the two
\* blocks two goroutines on one another.
EveryCallReturns == \A t \in Threads : pc[t] # "idle" ~> pc[t] = "idle"
=============================================================================
