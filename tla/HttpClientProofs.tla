-------------------------- MODULE HttpClientProofs --------------------------
(***************************************************************************)
(* Theorems about RedirectValidator, for any number of validators, chains  *)
(* and targets, any limit and any counter width, and then about HttpClient.*)
(* Seen from the redirect hook, the client is one of the users             *)
(* RedirectValidator allows for, so what is proved of the validator holds  *)
(* of the client; the judgement of every hop is an invariant of its own.   *)
(***************************************************************************)
EXTENDS HttpClient, TLAPS

\* Every step keeps the type.
LEMMA TypeIsInductive == TypeOK /\ [Next]_vars => TypeOK'
  <1> SUFFICES ASSUME TypeOK, [Next]_vars PROVE TypeOK'
    OBVIOUS
  <1> USE RedirectAssumption DEF TypeOK, ChainState, CapAsked, CapGranted, Exists
  <1>1. ASSUME NEW v \in Validators, NEW w \in Validators, Clone(v, w)
        PROVE  TypeOK'
    BY <1>1 DEF Clone
  <1>2. ASSUME NEW c \in Chains, FinishChain(c) PROVE TypeOK'
    BY <1>2 DEF FinishChain
  <1>3. ASSUME NEW c \in Chains, NEW target \in Targets, ValidateHop(c, target)
        PROVE  TypeOK'
    <2> DEFINE v == chain[c].via
    <2>1. v \in Validators /\ hops[v] \in 0 .. (Modulus - 1)
      OBVIOUS
    <2>2. FetchAdd(hops[v]) \in 0 .. (Modulus - 1)
      BY <2>1 DEF FetchAdd
    <2>3. hops' = [hops EXCEPT ![v] = FetchAdd(hops[v])]
      BY <1>3 DEF ValidateHop
    <2>4. /\ hops' \in [Validators -> -1 .. (Modulus - 1)]
          /\ \A u \in Validators : Exists(u) => Exists(u)'
      BY <2>1, <2>2, <2>3
    <2>5. /\ asked' \in [Validators -> 0 .. CapAsked]
          /\ granted' \in [Validators -> 0 .. CapGranted]
      BY <1>3, <2>1 DEF ValidateHop, CountTo
    <2>6. HopVerdict(hops[v], target) \in {"ok", "too_many", "blocked"}
      BY DEF HopVerdict
    <2>7. chain' \in [Chains -> ChainState] /\ \A d \in Chains : chain'[d].via = chain[d].via
      <3> DEFINE f == CountTo(chain[c].followed, CapGranted)
                 b == 1 - chain[c].parity
      <3>1. f \in 0 .. CapGranted /\ b \in {0, 1}
        BY DEF CountTo
      <3>2. \/ chain' = [chain EXCEPT ![c].followed = f, ![c].parity = b]
            \/ \E verdict \in {"ok", "too_many", "blocked"} :
                 verdict # "ok" /\ chain' = [chain EXCEPT ![c].pc = verdict, ![c].parity = b]
        BY <1>3, <2>6 DEF ValidateHop
      <3> HIDE DEF f, b
      <3> QED BY <3>1, <3>2
    <2> QED BY <2>4, <2>5, <2>7
  <1>4. ASSUME NEW c \in Chains, NEW v \in Validators, NEW reset \in BOOLEAN,
               StartChain(c, v, reset)
        PROVE  TypeOK'
    <2>1. chain' = [chain EXCEPT ![c] = NewChain("running", v)] /\ Exists(v)
      BY <1>4 DEF StartChain
    <2>2. NewChain("running", v) \in ChainState /\ NewChain("running", v).via = v
      BY DEF NewChain
    <2>3. chain' \in [Chains -> ChainState]
      BY <2>1, <2>2
    <2>4. /\ hops' \in [Validators -> -1 .. (Modulus - 1)]
          /\ asked' \in [Validators -> 0 .. CapAsked]
          /\ granted' \in [Validators -> 0 .. CapGranted]
          /\ \A u \in Validators : Exists(u) => Exists(u)'
      BY <1>4 DEF StartChain, Reset
    <2>5. \A d \in Chains : Exists(chain'[d].via)
      BY <2>1, <2>2
    <2> QED BY <2>3, <2>4, <2>5
  <1>5. CASE UNCHANGED vars
    BY <1>5 DEF vars
  <1> QED BY <1>1, <1>2, <1>3, <1>4, <1>5 DEF Next, Advance

\* The state keeps its type: the counter stays in its width, and a chain only
\* ever uses a validator that exists.
THEOREM TypeCorrect == Spec => []TypeOK
  <1>1. Init => TypeOK
    BY RedirectAssumption
       DEF Init, TypeOK, NewChain, ChainState, CapAsked, CapGranted, Exists
  <1> QED BY <1>1, TypeIsInductive, PTL DEF Spec

-----------------------------------------------------------------------------
\* Until the counter wraps it is the number of calls since the last reset, and
\* no more of those were granted than there were.
CounterCounts ==
  \A v \in Validators :
    /\ asked[v] < Modulus /\ Exists(v) => hops[v] = asked[v] /\ granted[v] <= asked[v]
    /\ asked[v] <= Modulus => granted[v] <= MaxRedirects

\* Every step keeps CounterCounts.
LEMMA CountIsInductive ==
  TypeOK /\ CounterCounts /\ [Next]_vars => CounterCounts'
  <1> SUFFICES ASSUME TypeOK, CounterCounts, [Next]_vars PROVE CounterCounts'
    OBVIOUS
  <1> USE RedirectAssumption DEF TypeOK, ChainState, CapAsked, CapGranted, Exists,
                                 CounterCounts
  <1>1. ASSUME NEW v \in Validators, NEW w \in Validators, Clone(v, w)
        PROVE  CounterCounts'
    BY <1>1 DEF Clone
  <1>2. ASSUME NEW c \in Chains, FinishChain(c) PROVE CounterCounts'
    BY <1>2 DEF FinishChain
  <1>3. ASSUME NEW c \in Chains, NEW target \in Targets, ValidateHop(c, target)
        PROVE  CounterCounts'
    <2> DEFINE v == chain[c].via
    <2>1. v \in Validators /\ hops[v] \in 0 .. (Modulus - 1)
      OBVIOUS
    <2>2. /\ hops' = [hops EXCEPT ![v] = FetchAdd(hops[v])]
          /\ asked' = [asked EXCEPT ![v] = CountTo(asked[v], CapAsked)]
      BY <1>3 DEF ValidateHop
    <2>3. \/ granted' = granted
          \/ /\ ~ TooMany(hops[v])
             /\ granted' = [granted EXCEPT ![v] = CountTo(granted[v], CapGranted)]
      BY <1>3 DEF ValidateHop, HopVerdict
    <2>4. asked[v] < Modulus - 1 => FetchAdd(hops[v]) = asked[v] + 1
      <3>1. asked[v] \in Nat /\ Modulus \in Nat
        BY <2>1
      <3>2. asked[v] < Modulus => hops[v] = asked[v]
        BY <2>1
      <3> QED BY ONLY <3>1, <3>2 DEF FetchAdd
    <2> QED BY <2>1, <2>2, <2>3, <2>4 DEF CountTo, TooMany
  <1>4. ASSUME NEW c \in Chains, NEW v \in Validators, NEW reset \in BOOLEAN,
               StartChain(c, v, reset)
        PROVE  CounterCounts'
    BY <1>4 DEF StartChain, Reset
  <1>5. CASE UNCHANGED vars
    BY <1>5 DEF vars
  <1> QED BY <1>1, <1>2, <1>3, <1>4, <1>5 DEF Next, Advance

\* However chains, clones and resets interleave, no more than max_redirects
\* hops are granted between two resets of a counter that has not wrapped.
THEOREM BudgetIsKept == Spec => []GrantsStayInBudget
  <1>1. Init => CounterCounts
    BY RedirectAssumption DEF Init, CounterCounts, Exists
  <1>2. CounterCounts => GrantsStayInBudget
    BY DEF CounterCounts, GrantsStayInBudget
  <1> QED BY <1>1, <1>2, CountIsInductive, TypeCorrect, PTL DEF Spec

-----------------------------------------------------------------------------
\* The one chain that runs on a serial validator owns its counter.
OwnCounter ==
  /\ \A c, d \in Running : chain[c].via = chain[d].via /\ chain[c].via \in Serial => c = d
  /\ \A c \in Running : chain[c].via \in Serial =>
        hops[chain[c].via] = chain[c].followed /\ chain[c].followed <= MaxRedirects
  /\ SerialChainFollowsAtMostMax
  /\ SerialRefusalIsEarned

\* Every step keeps OwnCounter.
LEMMA OwnIsInductive ==
  ASSUME TypeOK, OwnCounter, [Next]_vars PROVE OwnCounter'
  <1> USE RedirectAssumption
      DEF TypeOK, ChainState, CapAsked, CapGranted, Exists, OwnCounter, Running,
          SerialChainFollowsAtMostMax, SerialRefusalIsEarned
  <1>1. ASSUME NEW v \in Validators, NEW w \in Validators, Clone(v, w)
        PROVE  OwnCounter'
    BY <1>1 DEF Clone
  <1>2. ASSUME NEW c \in Chains, FinishChain(c) PROVE OwnCounter'
    BY <1>2 DEF FinishChain
  <1>3. ASSUME NEW c \in Chains, NEW target \in Targets, ValidateHop(c, target)
        PROVE  OwnCounter'
    <2> DEFINE v   == chain[c].via
               hop == hops[v]
    <2>1. /\ c \in Running /\ v \in Validators
          /\ hops' = [hops EXCEPT ![v] = FetchAdd(hop)]
      BY <1>3 DEF ValidateHop
    <2>2. \A d \in Chains \ {c} : chain'[d] = chain[d]
      BY <1>3 DEF ValidateHop
    <2>3. chain'[c].via = v
      BY <1>3 DEF ValidateHop
    <2>4. v \in Serial => /\ hop = chain[c].followed /\ hop \in 0 .. MaxRedirects
                          /\ \A d \in Running \ {c} : chain[d].via # v
      BY <2>1
    <2>5. chain'[c].pc = "running" =>
            /\ HopVerdict(hop, target) = "ok"
            /\ chain'[c].followed = CountTo(chain[c].followed, CapGranted)
      BY <1>3 DEF ValidateHop, HopVerdict
    <2>6. chain'[c].pc # "running" => /\ chain'[c].followed = chain[c].followed
                                      /\ chain'[c].pc = HopVerdict(hop, target)
      BY <1>3 DEF ValidateHop
    <2>7. CASE v \in Serial
      <3>1. CASE chain'[c].pc = "running"
        <4>1. hop < MaxRedirects
          BY <2>4, <2>5, <3>1 DEF HopVerdict, TooMany
        <4>2. chain'[c].followed = hop + 1
          BY <2>4, <2>5, <2>7, <3>1, <4>1 DEF CountTo
        <4>3. FetchAdd(hop) = hop + 1
          <5>1. hop \in Nat /\ Modulus \in Nat /\ hop + 1 < Modulus
            BY <2>4, <2>7, <4>1
          <5> QED BY ONLY <5>1 DEF FetchAdd
        <4>4. hops'[v] = chain'[c].followed /\ chain'[c].followed <= MaxRedirects
          BY <2>1, <2>4, <2>7, <4>1, <4>2, <4>3
        <4> QED BY <2>1, <2>2, <2>3, <2>4, <2>7, <3>1, <4>4
      <3>2. CASE chain'[c].pc # "running"
        <4>1. chain'[c].pc = "too_many" => chain'[c].followed >= MaxRedirects
          BY <2>4, <2>6, <2>7, <3>2 DEF HopVerdict, TooMany
        <4> QED BY <2>1, <2>2, <2>3, <2>4, <2>6, <2>7, <3>2, <4>1
      <3> QED BY <3>1, <3>2
    <2>8. CASE v \notin Serial
      BY <2>1, <2>2, <2>3, <2>8
    <2> QED BY <2>7, <2>8
  <1>4. ASSUME NEW c \in Chains, NEW v \in Validators, NEW reset \in BOOLEAN,
               StartChain(c, v, reset)
        PROVE  OwnCounter'
    <2>1. /\ v \in Serial => reset /\ \A d \in Running : chain[d].via # v
          /\ chain' = [chain EXCEPT ![c] = NewChain("running", v)]
          /\ IF reset THEN hops' = [hops EXCEPT ![v] = 0] ELSE hops' = hops
      BY <1>4 DEF StartChain, Reset
    <2> QED BY <2>1 DEF NewChain
  <1>5. CASE UNCHANGED vars
    BY <1>5 DEF vars
  <1> QED BY <1>1, <1>2, <1>3, <1>4, <1>5 DEF Next, Advance

\* A chain of a validator used as documented follows at most max_redirects
\* redirects, whatever happens on the other validators.
THEOREM SerialChainIsBounded == Spec => []SerialChainFollowsAtMostMax
  <1>1. Init => OwnCounter
    BY RedirectAssumption
       DEF Init, OwnCounter, Running, NewChain, SerialChainFollowsAtMostMax,
           SerialRefusalIsEarned
  <1>2. TypeOK /\ OwnCounter /\ [Next]_vars => OwnCounter'
    BY OwnIsInductive
  <1>3. OwnCounter => SerialChainFollowsAtMostMax
    BY DEF OwnCounter
  <1> QED BY <1>1, <1>2, <1>3, TypeCorrect, PTL DEF Spec

\* A chain of such a validator is refused only after that many redirects.
THEOREM SerialChainEarnsItsRefusal == Spec => []SerialRefusalIsEarned
  <1>1. Init => OwnCounter
    BY RedirectAssumption
       DEF Init, OwnCounter, Running, NewChain, SerialChainFollowsAtMostMax,
           SerialRefusalIsEarned
  <1>2. TypeOK /\ OwnCounter /\ [Next]_vars => OwnCounter'
    BY OwnIsInductive
  <1>3. OwnCounter => SerialRefusalIsEarned
    BY DEF OwnCounter
  <1> QED BY <1>1, <1>2, <1>3, TypeCorrect, PTL DEF Spec
-----------------------------------------------------------------------------

\* The client implements RedirectValidator: each step of it is a step of the
\* validator's, or none.
THEOREM ClientUsesValidator == HttpSpec => Spec
  <1>1. HttpInit => Init
    BY DEF HttpInit
  <1>2. [HttpNext]_httpVars => [Next]_vars
    <2> SUFFICES ASSUME [HttpNext]_httpVars PROVE [Next]_vars
      OBVIOUS
    <2>1. ASSUME NEW v \in Validators, NEW w \in Validators, Clone(v, w) PROVE Next
      BY <2>1 DEF Next
    <2>2. ASSUME NEW c \in Chains, NEW target \in Targets, Rejected(c, target)
          PROVE  UNCHANGED vars
      BY <2>2 DEF Rejected
    <2>3. ASSUME NEW c \in Chains, NEW target \in Targets, NEW v \in Validators,
                 NEW reset \in BOOLEAN, Send(c, v, reset, target)
          PROVE  Next
      BY <2>3 DEF Send, Next
    <2>4. ASSUME NEW c \in Chains, Connect(c) PROVE UNCHANGED vars
      BY <2>4 DEF Connect
    <2>5. ASSUME NEW c \in Chains, ConnectFails(c) \/ Respond(c) PROVE Next
      BY <2>5 DEF ConnectFails, Respond, Next, Advance
    <2>6. ASSUME NEW c \in Chains, NEW target \in Targets, Redirect(c, target) PROVE Next
      BY <2>6 DEF Redirect, Next, Advance
    <2>7. CASE UNCHANGED httpVars
      BY <2>7 DEF httpVars, vars
    <2> QED BY <2>1, <2>2, <2>3, <2>4, <2>5, <2>6, <2>7 DEF HttpNext, GoOn
  <1> QED BY <1>1, <1>2, PTL DEF HttpSpec, Spec

\* Hops granted stay within the budget in a whole client as well.
THEOREM ClientKeepsBudget == HttpSpec => []GrantsStayInBudget
  BY ClientUsesValidator, BudgetIsKept, PTL

\* A chain of a serial validator follows at most max_redirects redirects.
THEOREM ClientChainIsBounded == HttpSpec => []SerialChainFollowsAtMostMax
  BY ClientUsesValidator, SerialChainIsBounded, PTL

\* Such a chain is refused only after max_redirects redirects of its own.
THEOREM ClientChainEarnsItsRefusal == HttpSpec => []SerialRefusalIsEarned
  BY ClientUsesValidator, SerialChainEarnsItsRefusal, PTL

-----------------------------------------------------------------------------
\* What a request on its way, or one connected, has passed.
Passed(c) ==
  LET t == link[c].target
  IN /\ chain[c].pc = "running"
     /\ chain[c].followed = 0 => ValidateRequest(t)
     /\ chain[c].followed # 0 /\ PerHop => HopAccepts(t)

OnItsWay(c)  == link[c].stage = "connecting" => Passed(c)
\* The peer is of an answer of the lookup, and permitted.
AtItsPeer(c) ==
  link[c].stage = "open" =>
    /\ Passed(c)
    /\ link[c].peer \in Permitted
    /\ \E answer \in Resolved(link[c].target) : link[c].peer \in answer

LinkTyped == link \in [Chains -> [stage  : {"idle", "connecting", "open", "rejected", "failed"},
                                 target : Targets \cup {NoTarget},
                                 peer   : Permitted \cup {NoPeer}]]

HInv == /\ TypeOK /\ LinkTyped
        /\ \A c \in Chains : OnItsWay(c) /\ AtItsPeer(c)

\* A redirect that is followed has been counted, and accepted by the hook.
LEMMA FollowedIsAccepted ==
  ASSUME TypeOK, NEW c \in Chains, NEW target \in Targets, ValidateHop(c, target),
         chain'[c].pc = "running"
  PROVE  chain'[c].followed # 0 /\ (PerHop => HopAccepts(target))
  <1> USE RedirectAssumption DEF TypeOK, ChainState
  <1>1. HopVerdict(hops[chain[c].via], target) = "ok"
    BY DEF ValidateHop, HopVerdict
  <1>2. PerHop => target \in Accepted
    BY <1>1 DEF HopVerdict
  <1>3. chain'[c].followed = CountTo(chain[c].followed, CapGranted)
    BY <1>1 DEF ValidateHop
  <1>4. chain[c].followed \in 0 .. CapGranted /\ CapGranted \in Nat \ {0}
    BY DEF CapGranted
  <1> QED BY <1>2, <1>3, <1>4, HttpAssumption DEF CountTo

\* Every step keeps the type of link.
LEMMA LinkIsTyped == LinkTyped /\ [HttpNext]_httpVars => LinkTyped'
  <1> SUFFICES ASSUME LinkTyped, [HttpNext]_httpVars PROVE LinkTyped'
    OBVIOUS
  <1> USE DEF LinkTyped, Link
  <1>1. ASSUME NEW c \in Chains, NEW target \in Targets, Rejected(c, target)
        PROVE  LinkTyped'
    BY <1>1 DEF Rejected
  <1>2. ASSUME NEW c \in Chains, NEW target \in Targets, NEW v \in Validators,
               NEW reset \in BOOLEAN, Send(c, v, reset, target)
        PROVE  LinkTyped'
    BY <1>2 DEF Send
  <1>3. ASSUME NEW c \in Chains, Connect(c) PROVE LinkTyped'
    <2>1. PICK a \in Permitted :
             link' = [link EXCEPT ![c].stage = "open", ![c].peer = a]
      BY <1>3 DEF Connect
    <2> QED BY <2>1
  <1>4. ASSUME NEW c \in Chains, ConnectFails(c) \/ Respond(c) PROVE LinkTyped'
    BY <1>4 DEF ConnectFails, Respond
  <1>5. ASSUME NEW c \in Chains, NEW target \in Targets, Redirect(c, target)
        PROVE  LinkTyped'
    BY <1>5 DEF Redirect
  <1>6. CASE UNCHANGED link
    BY <1>6
  <1> QED BY <1>1, <1>2, <1>3, <1>4, <1>5, <1>6 DEF HttpNext, GoOn, httpVars

\* A step of one chain leaves what is said of another alone.
LEMMA OthersKeepTheirs ==
  ASSUME NEW c \in Chains, OnItsWay(c), AtItsPeer(c),
         chain'[c] = chain[c], link'[c] = link[c]
  PROVE  OnItsWay(c)' /\ AtItsPeer(c)'
  BY DEF OnItsWay, AtItsPeer, Passed

\* Every step keeps what a request has passed.
LEMMA PassedIsInductive ==
  HInv /\ [HttpNext]_httpVars => \A c \in Chains : OnItsWay(c)' /\ AtItsPeer(c)'
  <1> SUFFICES ASSUME HInv, [HttpNext]_httpVars, NEW d \in Chains
               PROVE  OnItsWay(d)' /\ AtItsPeer(d)'
    OBVIOUS
  <1> USE DEF HInv, LinkTyped, TypeOK, ChainState
  <1>1. ASSUME NEW c \in Chains, NEW target \in Targets, Rejected(c, target)
        PROVE  OnItsWay(d)' /\ AtItsPeer(d)'
    <2>1. CASE d = c
      BY <1>1, <2>1 DEF Rejected, Link, OnItsWay, AtItsPeer
    <2>2. CASE d # c
      BY <1>1, <2>2, OthersKeepTheirs DEF Rejected, vars
    <2> QED BY <2>1, <2>2
  <1>2. ASSUME NEW c \in Chains, NEW target \in Targets, NEW v \in Validators,
               NEW reset \in BOOLEAN, Send(c, v, reset, target)
        PROVE  OnItsWay(d)' /\ AtItsPeer(d)'
    <2>1. CASE d = c
      <3>1. link'[c] = Link("connecting", target, NoPeer) /\ ValidateRequest(target)
        BY <1>2 DEF Send
      <3>2. chain'[c] = NewChain("running", v)
        BY <1>2 DEF Send, StartChain
      <3> QED BY <2>1, <3>1, <3>2 DEF Link, NewChain, OnItsWay, AtItsPeer, Passed
    <2>2. CASE d # c
      <3>1. link'[d] = link[d] /\ chain'[d] = chain[d]
        BY <1>2, <2>2 DEF Send, StartChain
      <3> QED BY <3>1, OthersKeepTheirs
    <2> QED BY <2>1, <2>2
  <1>3. ASSUME NEW c \in Chains, Connect(c) PROVE OnItsWay(d)' /\ AtItsPeer(d)'
    <2>1. CASE d = c
      <3>1. PICK answer \in Resolved(link[c].target) : \E a \in answer \cap Permitted :
                link' = [link EXCEPT ![c].stage = "open", ![c].peer = a]
        BY <1>3 DEF Connect
      <3>2. PICK a \in answer \cap Permitted :
                link' = [link EXCEPT ![c].stage = "open", ![c].peer = a]
        BY <3>1
      <3>3. link'[c].stage = "open" /\ link'[c].peer = a /\ link'[c].target = link[c].target
        BY <3>2
      <3>4. Passed(c) /\ chain' = chain
        BY <1>3 DEF Connect, OnItsWay, vars
      <3>5. OnItsWay(c)'
        BY <3>3 DEF OnItsWay
      <3>6. AtItsPeer(c)'
        BY <3>1, <3>2, <3>3, <3>4 DEF AtItsPeer, Passed
      <3> QED BY <2>1, <3>5, <3>6
    <2>2. CASE d # c
      BY <1>3, <2>2, OthersKeepTheirs DEF Connect, vars
    <2> QED BY <2>1, <2>2
  <1>4. ASSUME NEW c \in Chains, ConnectFails(c) \/ Respond(c)
        PROVE  OnItsWay(d)' /\ AtItsPeer(d)'
    <2>1. CASE d = c
      BY <1>4, <2>1 DEF ConnectFails, Respond, Link, OnItsWay, AtItsPeer
    <2>2. CASE d # c
      BY <1>4, <2>2, OthersKeepTheirs DEF ConnectFails, Respond, FinishChain
    <2> QED BY <2>1, <2>2
  <1>5. ASSUME NEW c \in Chains, NEW target \in Targets, Redirect(c, target)
        PROVE  OnItsWay(d)' /\ AtItsPeer(d)'
    <2>1. CASE d = c
      <3>1. CASE chain'[c].pc = "running"
        <4>1. link'[c] = Link("connecting", target, NoPeer)
          BY <1>5, <3>1 DEF Redirect
        <4>2. chain'[c].followed # 0 /\ (PerHop => HopAccepts(target))
          BY <1>5, <3>1, FollowedIsAccepted DEF Redirect
        <4> QED BY <2>1, <3>1, <4>1, <4>2 DEF Link, OnItsWay, AtItsPeer, Passed
      <3>2. CASE chain'[c].pc # "running"
        BY <1>5, <2>1, <3>2 DEF Redirect, Link, OnItsWay, AtItsPeer
      <3> QED BY <3>1, <3>2
    <2>2. CASE d # c
      <3>1. link'[d] = link[d] /\ chain'[d] = chain[d]
        BY <1>5, <2>2 DEF Redirect, ValidateHop
      <3> QED BY <3>1, OthersKeepTheirs
    <2> QED BY <2>1, <2>2
  <1>6. CASE UNCHANGED <<chain, link>>
    BY <1>6, OthersKeepTheirs
  <1> QED BY <1>1, <1>2, <1>3, <1>4, <1>5, <1>6 DEF HttpNext, GoOn, httpVars, Clone

\* The invariant of the client holds in every state.
LEMMA ClientInvariant == HttpSpec => []HInv
  <1>1. HttpInit => LinkTyped /\ \A c \in Chains : OnItsWay(c) /\ AtItsPeer(c)
    BY DEF HttpInit, LinkTyped, Link, OnItsWay, AtItsPeer
  <1> DEFINE L == LinkTyped /\ \A c \in Chains : OnItsWay(c) /\ AtItsPeer(c)
  <1>2. TypeOK /\ L /\ [HttpNext]_httpVars => L'
    BY LinkIsTyped, PassedIsInductive DEF HInv
  <1>3. HttpSpec => []TypeOK
    BY ClientUsesValidator, TypeCorrect, PTL
  <1>4. HttpInit => L
    BY <1>1
  <1> HIDE DEF L
  <1>5. HttpSpec => []L
    BY <1>2, <1>3, <1>4, PTL DEF HttpSpec
  <1>6. TypeOK /\ L => HInv
    BY DEF L, HInv
  <1> QED BY <1>3, <1>5, <1>6, PTL

\* Whatever a name resolves to when its hop is connected, and however servers
\* redirect, a connection ends at a permitted address, the one the URL spells if
\* it spells one (redirect.rs:108-124).
THEOREM HopsAreJudged == HttpSpec => []EachHopIsJudged
  <1>1. HInv => EachHopIsJudged
    BY DEF HInv, AtItsPeer, Passed, EachHopIsJudged, ValidateRequest, HopAccepts, Resolved
  <1> QED BY <1>1, ClientInvariant, PTL

\* What layer and hook let through is a name, but for the brackets the layer
\* leaves on (layer.rs:124).
THEOREM NamesAreLeft == HttpSpec => []OnlyNamesAreLeft
  <1>1. HInv => OnlyNamesAreLeft
    BY DEF HInv, OnItsWay, Passed, OnlyNamesAreLeft, ValidateRequest, HopAccepts
  <1> QED BY <1>1, ClientInvariant, PTL
=============================================================================
