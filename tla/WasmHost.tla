------------------------------ MODULE WasmHost ------------------------------
(***************************************************************************)
(* A host with one thread over the guest of crates/ressrf-wasm, as a       *)
(* JavaScript host is.  A call is three steps: the host writes its input   *)
(* into a block it allocates, the guest runs, the host reads the result    *)
(* and frees it.  Nothing comes between the steps but one thing: a policy  *)
(* with an audit sink emits while it is built, and the host's callback may *)
(* make whole calls of its own before ressrf_policy_new goes on.  "frames" *)
(* are the calls in progress, the innermost last.                          *)
(***************************************************************************)
EXTENDS WasmAbi

CONSTANTS
  MaxDepth,     \* bound: calls inside one another
  MaxHandles    \* bound: policies ever made

VARIABLES
  frames,    \* the host's calls in progress
  made,      \* history: [handle, config, announced, freed] per handle given out
  events,    \* history: configurations of the PolicyCreated events received
  answer     \* what the last call came to: [handle, request, allowed, freed]

vars == <<policies, audit_enabled, heap, frames, made, events, answer>>

NoAnswer == [handle |-> NoHandle, request |-> <<>>, allowed |-> FALSE, freed |-> FALSE]

Init ==
  /\ GuestInit
  /\ frames = <<>> /\ made = <<>> /\ events = <<>>
  /\ answer = NoAnswer

Top       == frames[Len(frames)]
Outer     == SubSeq(frames, 1, Len(frames) - 1)
SetTop(f) == Append(Outer, f)

\* The host's code runs: outside of all calls, or in the audit callback.
HostRuns == frames # <<>> => Top.stage = "callback"

At(stage, kind) == frames # <<>> /\ Top.stage = stage /\ Top.kind = kind

-----------------------------------------------------------------------------

\* writeJSON.
Write(frame, content) ==
  /\ HostRuns
  /\ Len(frames) < MaxDepth
  /\ \E p \in FreePtrs :
        /\ heap' = With(heap, p, content)
        /\ frames' = Append(frames, [frame EXCEPT !.input = p])
  /\ UNCHANGED <<policies, audit_enabled, made, events, answer>>

\* writeJSON throws: there is no block for the input, and no call is made.
WriteFails ==
  /\ HostRuns
  /\ Len(frames) < MaxDepth
  /\ FreePtrs = {}
  /\ answer' = NoAnswer
  /\ UNCHANGED <<policies, audit_enabled, heap, frames, made, events>>

Frame(kind, handle) ==
  [kind |-> kind, stage |-> "written", handle |-> handle, sink |-> FALSE,
   input |-> NoHandle, block |-> NoHandle]

WriteConfig(config) ==
  /\ Len(made) + Len(frames) < MaxHandles
  /\ Write(Frame("new", NoHandle), config)
WriteRequest(h, request) == Write(Frame("ask", h), request)

\* ressrf_policy_new returns u32::MAX (bad JSON or an unknown preset) or traps
\* (a regex of the URL rules does not compile, or memory runs out).  Neither
\* stores a policy or emits an event, and the host throws.
PolicyNewFails ==
  /\ At("written", "new")
  /\ ~ Builds(heap[Top.input]) \/ FreePtrs = {}
  /\ frames' = Outer
  /\ UNCHANGED <<policies, audit_enabled, heap, made, events, answer>>

\* The policy is built; with a sink, its event is handed to the host first, in
\* a block of the guest's.
PolicyNewEmits ==
  /\ At("written", "new")
  /\ Builds(heap[Top.input]) /\ audit_enabled
  /\ \E p \in FreePtrs :
        /\ heap' = With(heap, p, [event |-> heap[Top.input]])
        /\ frames' = SetTop([Top EXCEPT !.stage = "callback", !.sink = TRUE, !.block = p])
  /\ events' = Append(events, heap[Top.input])
  /\ UNCHANGED <<policies, audit_enabled, made, answer>>

Store(config, sink) ==
  /\ policies' = StorePolicy(policies, Slot(config, sink))
  /\ made' = Append(made, [handle |-> NewHandle(policies), config |-> config,
                           announced |-> Top.stage = "callback", freed |-> FALSE])
  /\ frames' = Outer

PolicyNewSilent ==
  /\ At("written", "new")
  /\ Builds(heap[Top.input]) /\ ~ audit_enabled
  /\ Store(heap[Top.input], FALSE)
  /\ UNCHANGED <<audit_enabled, heap, events, answer>>

\* Mutated form: the flag is read when the policy is stored.
CallbackReturnsFlagLate ==
  /\ frames # <<>> /\ Top.stage = "callback"
  /\ heap' = Without(heap, Top.block)
  /\ Store(heap[Top.input], audit_enabled)
  /\ UNCHANGED <<audit_enabled, events, answer>>

\* The callback is back: the guest frees the event and stores the policy.
CallbackReturns ==
  /\ frames # <<>> /\ Top.stage = "callback"
  /\ heap' = Without(heap, Top.block)
  /\ Store(heap[Top.input], Top.sink)
  /\ UNCHANGED <<audit_enabled, events, answer>>

\* The guest answers into a block of its own, or at the null pointer
\* (serialize_result).
GuestAnswers ==
  /\ At("written", "ask")
  /\ \E p \in ResultPtrs :
        /\ heap' = With(heap, p, [allowed |-> Answer(policies, Top.handle, heap[Top.input])])
        /\ frames' = SetTop([Top EXCEPT !.stage = "answered", !.block = p])
  /\ UNCHANGED <<policies, audit_enabled, made, events, answer>>

Freed(h) == \E i \in DOMAIN made : made[i].handle = h /\ made[i].freed

\* What the innermost call comes to.
Outcome(allowed) == [handle |-> Top.handle, request |-> heap[Top.input],
                     allowed |-> allowed, freed |-> Freed(Top.handle)]

\* An allocation of the guest's own fails on the way to the answer: it traps,
\* and the host gets an exception.
GuestTraps ==
  /\ At("written", "ask")
  /\ FreePtrs = {}
  /\ answer' = Outcome(FALSE)
  /\ frames' = Outer
  /\ UNCHANGED <<policies, audit_enabled, heap, made, events>>

\* Mutated form: the result's block is not given back.
ReadResultAndKeep ==
  /\ At("answered", "ask")
  /\ answer' = Outcome(heap[Top.block].allowed)
  /\ frames' = Outer
  /\ UNCHANGED <<policies, audit_enabled, heap, made, events>>

\* readResult: length, body, then ressrf_dealloc of both.
ReadResult ==
  /\ At("answered", "ask")
  /\ answer' = Outcome(heap[Top.block].allowed)
  /\ heap' = Without(heap, Top.block)
  /\ frames' = Outer
  /\ UNCHANGED <<policies, audit_enabled, made, events>>

\* ressrf_policy_free, of any handle the host was ever given.
PolicyFree(h) ==
  /\ HostRuns
  /\ policies' = RemovePolicy(policies, h)
  /\ made' = [i \in DOMAIN made |->
                 IF made[i].handle = h THEN [made[i] EXCEPT !.freed = TRUE] ELSE made[i]]
  /\ UNCHANGED <<audit_enabled, heap, frames, events, answer>>

SetAuditCallback(enabled) ==
  /\ HostRuns
  /\ audit_enabled' = enabled
  /\ UNCHANGED <<policies, heap, frames, made, events, answer>>

Given == {made[i].handle : i \in DOMAIN made}

Next ==
  \/ \E config \in Configs : WriteConfig(config)
  \/ \E request \in Requests, h \in Given \cup {NoHandle} : WriteRequest(h, request)
  \/ PolicyNewFails \/ PolicyNewEmits \/ PolicyNewSilent
  \/ CallbackReturns
  \/ WriteFails
  \/ GuestAnswers \/ GuestTraps \/ ReadResult
  \/ \E h \in Given : PolicyFree(h)
  \/ \E enabled \in BOOLEAN : SetAuditCallback(enabled)

Spec == Init /\ [][Next]_vars

-----------------------------------------------------------------------------
TypeOK ==
  /\ policies \in Seq({NoPolicy} \cup {Slot(c, s) : c \in Configs, s \in BOOLEAN})
  /\ audit_enabled \in BOOLEAN
  /\ DOMAIN heap \subseteq Ptrs \cup {Null}
  /\ \A i \in DOMAIN frames :
        /\ frames[i].kind \in {"new", "ask"}
        /\ frames[i].stage \in {"written", "callback", "answered"}
        /\ frames[i].input \in Ptrs
  /\ made \in Seq([handle : Nat \ {NoHandle}, config : Configs, announced : BOOLEAN,
                  freed : BOOLEAN])
  /\ events \in Seq(Configs)

-----------------------------------------------------------------------------
(***************************************************************************)
(* Properties.                                                             *)
(***************************************************************************)
\* A handle stands for the one configuration it was given out for until it is
\* freed, and then for nothing: no later policy takes its place, not even one
\* made inside the audit callback of another.
HandleKeepsItsPolicy ==
  \A i \in DOMAIN made :
     /\ \A j \in DOMAIN made : made[i].handle = made[j].handle => i = j
     /\ made[i].handle \in DOMAIN policies
     /\ LET slot == policies[made[i].handle]
        IN /\ slot.live <=> ~ made[i].freed
           /\ slot.live => slot.config = made[i].config

\* What the host reads is the verdict of its handle on its own request: an
\* "allowed" for a policy comes from the configuration the handle was given
\* out for, and never from a handle that was freed.  This is so for a result
\* at the null pointer too, since nothing comes between the guest's write and
\* the host's read; a call that fails allows nothing.
AllowedByItsPolicy ==
  answer.allowed /\ answer.request.ask # "domain" =>
    /\ ~ answer.freed
    /\ \E i \in DOMAIN made : /\ made[i].handle = answer.handle
                              /\ Passes(made[i].config, answer.request)

\* A policy has a sink exactly if its creation was announced, and no event is
\* lost or doubled: those of the policies made and of the builds that wait for
\* their callback.  The callback may turn the flag, and build, in between.
EventsMatchPolicies ==
  /\ \A i \in DOMAIN made :
        LET slot == policies[made[i].handle]
        IN slot.live => slot.sink = made[i].announced
  /\ Len(events) = Cardinality({i \in DOMAIN made : made[i].announced})
                     + Cardinality({i \in DOMAIN frames : frames[i].stage = "callback"})

\* Each block the guest allocated for a result or an event belongs to one call
\* in progress; between calls only inputs are left.  What was written at the
\* null pointer stays, but in no block.
GuestBlocksAreFreed ==
  LET inputs == {p \in Ptrs \cap DOMAIN heap : heap[p] \in Configs \cup Requests}
      blocks == {i \in DOMAIN frames : frames[i].stage # "written"}
  IN /\ \A i \in blocks : frames[i].block \in DOMAIN heap
     /\ \A i, j \in blocks : frames[i].block = frames[j].block => i = j
     /\ \A p \in (Ptrs \cap DOMAIN heap) \ inputs : \E i \in blocks : frames[i].block = p
=============================================================================
