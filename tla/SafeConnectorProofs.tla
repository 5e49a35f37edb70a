------------------------- MODULE SafeConnectorProofs -------------------------
(***************************************************************************)
(* Theorems about SafeConnector, for any calls, addresses, policy, answers *)
(* and budgets.                                                            *)
(***************************************************************************)
EXTENDS SafeConnector, TLAPS

\* What a step does to the call it is about; the other calls are left alone.
LEMMA UpdateOne ==
  ASSUME NEW c \in Calls, NEW new, Update(c, new), TypeOK
  PROVE  /\ call'[c] = new
         /\ \A d \in Calls \ {c} : call'[d] = call[d]
         /\ new \in CallState => call' \in [Calls -> CallState]
         /\ clock' = clock
  BY DEF Update, TypeOK

\* The steps of a call keep its type.
LEMMA StepType ==
  ASSUME TypeOK, NEW c \in Calls,
         \/ \E host \in Hosts, timeout \in Timeouts : Connect(c, host, timeout)
         \/ \E answer \in Answers : DnsAnswer(c, answer)
         \/ DnsFailure(c) \/ Loop(c) \/ DialOk(c) \/ DialError(c) \/ DialTimeout(c)
  PROVE  TypeOK'
  <1> DEFINE s == call[c]
  <1>0. s \in CallState /\ clock \in Nat
    BY DEF TypeOK
  <1> SUFFICES \E new \in CallState : Update(c, new)
    BY UpdateOne DEF TypeOK
  <1> USE <1>0, ConnectorAssumption DEF Return, Outcome, CallState, OutcomeSet, Errors
  <1>1. ASSUME NEW host \in Hosts, NEW timeout \in Timeouts, Connect(c, host, timeout)
        PROVE  \E new \in CallState : Update(c, new)
    <2> DEFINE new == [s EXCEPT !.host = host, !.start = clock, !.timeout = timeout]
    <2>1. new \in CallState
      OBVIOUS
    <2>2. CASE host.kind = "malformed"
      BY <1>1, <2>1, <2>2 DEF Connect
    <2>3. CASE host.kind = "ambiguous"
      BY <1>1, <2>1, <2>3 DEF Connect
    <2>4. CASE host.kind = "name"
      <3> HIDE DEF new
      <3>0. new.lookups + 1 \in Nat
        BY <2>1
      <3>1. [new EXCEPT !.pc = "resolving", !.lookups = @ + 1] \in CallState
        BY ONLY <2>1, <3>0 DEF CallState
      <3>2. Update(c, [new EXCEPT !.pc = "resolving", !.lookups = @ + 1])
        BY <1>1, <2>4 DEF Connect, new
      <3> QED BY <3>1, <3>2
    <2>5. CASE host.kind = "literal"
      <3>1. host.ip \in Addr
        BY <2>5 DEF Hosts
      <3>2. <<host.ip>> \in Seq(Addr) /\ {1} \in SUBSET (Nat \ {0})
        BY <3>1
      <3> QED BY <1>1, <2>1, <2>5, <3>2 DEF Connect
    <2> QED BY <2>2, <2>3, <2>4, <2>5 DEF Hosts
  <1>2. ASSUME NEW answer \in Answers, DnsAnswer(c, answer)
        PROVE  \E new \in CallState : Update(c, new)
    <2> DEFINE new == [s EXCEPT !.answer = answer, !.kept = Kept(answer)]
    <2>1. answer \in Seq(Addr) /\ Kept(answer) \in SUBSET (Nat \ {0})
      BY DEF Kept
    <2>2. new \in CallState
      BY <2>1
    <2> QED BY <1>2, <2>2 DEF DnsAnswer
  <1>3. ASSUME DnsFailure(c) PROVE \E new \in CallState : Update(c, new)
    BY <1>3 DEF DnsFailure
  <1>4. ASSUME Loop(c) PROVE \E new \in CallState : Update(c, new)
    <2>1. ASSUME NEW i \in DOMAIN s.answer, TryNext(c, i)
          PROVE  \E new \in CallState : Update(c, new)
      <3> DEFINE dial == [pos |-> i, addr |-> s.answer[i], at |-> clock]
      <3>1. i \in Nat /\ dial \in DialSet
        BY DEF DialSet
      <3>2. Append(s.dialled, dial) \in Seq(DialSet)
        BY <3>1
      <3> QED BY <2>1, <3>1, <3>2 DEF TryNext, Target
    <2>2. CASE GiveUp(c)
      BY <2>2 DEF GiveUp
    <2> QED BY <1>4, <2>1, <2>2 DEF Loop
  <1>5. ASSUME DialOk(c) PROVE \E new \in CallState : Update(c, new)
    BY <1>5 DEF DialOk
  <1>6. ASSUME DialError(c) \/ DialTimeout(c)
        PROVE  \E new \in CallState : Update(c, new)
    BY <1>6 DEF DialError, DialTimeout
  <1> QED BY <1>1, <1>2, <1>3, <1>4, <1>5, <1>6

\* The state keeps its type.
THEOREM TypeCorrect == Spec => []TypeOK
  <1>1. Init => TypeOK
    BY ConnectorAssumption
       DEF Init, TypeOK, NotCalled, NoOutcome, Outcome, CallState, OutcomeSet, Hosts
  <1>2. TypeOK /\ [Next]_vars => TypeOK'
    <2> SUFFICES ASSUME TypeOK, [Next]_vars PROVE TypeOK'
      OBVIOUS
    <2>1. CASE Tick
      BY <2>1 DEF Tick, TypeOK
    <2>2. CASE UNCHANGED vars
      BY <2>2 DEF vars, TypeOK
    <2> QED BY <2>1, <2>2, StepType DEF Next
  <1> QED BY <1>1, <1>2, PTL DEF Spec

-----------------------------------------------------------------------------
\* What is known of a call with state s at time now.
Tried(s) == {s.dialled[k].pos : k \in DOMAIN s.dialled}

Stage(s) ==
  /\ s.kept = Kept(s.answer)
  /\ s.pc \in {"idle", "resolving"} =>
       s.answer = <<>> /\ s.cursor = 0 /\ s.dialled = <<>>
  /\ s.lookups <= (IF s.pc = "idle" THEN 0 ELSE 1)
  /\ s.pc = "done" <=> s.outcome.kind # "none"
  /\ s.last_err.kind \in {"none", "ConnectError", "Timeout"}
  /\ s.pc = "connecting" /\ s.cursor > 0 => s.last_err.kind # "none"
  /\ s.pc = "connecting" /\ s.cursor = 0 => s.kept # {}
  /\ s.pc = "dialling" => s.dialled # <<>>

\* The positions dialled are the kept ones up to the cursor, in order; once the
\* budget is spent the cursor goes on without dialling.
Dials(s, now) ==
  /\ \A k \in DOMAIN s.dialled :
       LET d == s.dialled[k]
       IN /\ d.pos \in s.kept /\ d.pos <= s.cursor
          /\ d.addr = s.answer[d.pos]
          /\ d.at < s.start + s.timeout
          /\ \A i \in s.kept : i < d.pos => \E m \in 1 .. (k - 1) : s.dialled[m].pos = i
          /\ \A m \in 1 .. (k - 1) : s.dialled[m].pos < d.pos
  /\ now < s.start + s.timeout =>
       \A i \in s.kept : i <= s.cursor => i \in Tried(s)

CallsInv == \A c \in Calls : Stage(call[c]) /\ Dials(call[c], clock)

\* Dials looks at six fields only.
LEMMA SameDials ==
  ASSUME NEW s, NEW t, NEW now,
         t.dialled = s.dialled, t.kept = s.kept, t.cursor = s.cursor,
         t.answer = s.answer, t.start = s.start, t.timeout = s.timeout, Dials(s, now)
  PROVE  Dials(t, now)
  BY DEF Dials, Tried

\* A connect that starts the loop or ends at once.
LEMMA ConnectInv ==
  ASSUME TypeOK, CallsInv, NEW c \in Calls, NEW host \in Hosts,
         NEW timeout \in Timeouts, Connect(c, host, timeout)
  PROVE  Stage(call'[c]) /\ Dials(call'[c], clock)
  <1> DEFINE s == call[c]
             t == call'[c]
  <1>1. s \in CallState /\ Stage(s) /\ s.pc = "idle"
    BY DEF TypeOK, CallsInv, Connect
  <1>2. s.answer = <<>> /\ s.kept = {} /\ s.cursor = 0 /\ s.dialled = <<>> /\ s.lookups = 0
    BY <1>1 DEF Stage, Kept, CallState
  <1>3. /\ t.dialled = <<>> /\ t.cursor = 0 /\ t.last_err = s.last_err
        /\ \/ /\ t.pc = "done" /\ t.answer = <<>> /\ t.kept = {} /\ t.lookups = 0
              /\ t.outcome.kind \in {"InvalidAddress", "AmbiguousIpEncoding", "Blocked"}
           \/ /\ t.pc = "resolving" /\ t.answer = <<>> /\ t.kept = {} /\ t.lookups = 1
              /\ t.outcome = s.outcome
           \/ /\ t.pc = "connecting" /\ host.ip \in Allowed /\ t.answer = <<host.ip>>
              /\ t.kept = {1} /\ t.lookups = 0 /\ t.outcome = s.outcome
    <2> DEFINE new == [s EXCEPT !.host = host, !.start = clock, !.timeout = timeout]
    <2>1. CASE host.kind = "malformed"
      <3>1. t = [new EXCEPT !.pc = "done", !.outcome = Outcome("InvalidAddress", clock)]
        BY <2>1, UpdateOne DEF Connect, Return
      <3> QED BY <1>1, <1>2, <2>1, <3>1 DEF CallState, Outcome
    <2>2. CASE host.kind = "ambiguous"
      <3>1. t = [new EXCEPT !.pc = "done", !.outcome = Outcome("AmbiguousIpEncoding", clock)]
        BY <2>2, UpdateOne DEF Connect, Return
      <3> QED BY <1>1, <1>2, <2>2, <3>1 DEF CallState, Outcome
    <2>3. CASE host.kind = "name"
      <3>1. t = [new EXCEPT !.pc = "resolving", !.lookups = @ + 1]
        BY <2>3, UpdateOne DEF Connect, Return
      <3> QED BY <1>1, <1>2, <2>3, <3>1 DEF CallState, Outcome
    <2>4. CASE host.kind = "literal" /\ host.ip \in Allowed
      <3>1. t = [new EXCEPT !.pc = "connecting",
                             !.answer = <<host.ip>>, !.kept = {1}]
        BY <2>4, UpdateOne DEF Connect, Return
      <3> QED BY <1>1, <1>2, <2>4, <3>1 DEF CallState, Outcome
    <2>5. CASE host.kind = "literal" /\ host.ip \notin Allowed
      <3>1. t = [new EXCEPT !.pc = "done", !.outcome = Outcome("Blocked", clock)]
        BY <2>5, UpdateOne DEF Connect, Return
      <3> QED BY <1>1, <1>2, <2>5, <3>1 DEF CallState, Outcome
    <2> QED BY <2>1, <2>2, <2>3, <2>4, <2>5 DEF Hosts
  <1>4. t.kept = Kept(t.answer)
    <2>1. Kept(<<>>) = {} /\ (host.ip \in Allowed => Kept(<<host.ip>>) = {1})
      BY DEF Kept
    <2> QED BY <1>3, <2>1
  <1>5. Stage(t)
    BY <1>1, <1>3, <1>4 DEF Stage
  <1>6. t.kept \in {{}, {1}}
    BY <1>3
  <1>7. Dials(t, clock)
    BY <1>3, <1>6 DEF Dials
  <1> QED BY <1>5, <1>7

\* The return of the lookup.
LEMMA LookupInv ==
  ASSUME TypeOK, CallsInv, NEW c \in Calls,
         DnsFailure(c) \/ \E answer \in Answers : DnsAnswer(c, answer)
  PROVE  Stage(call'[c]) /\ Dials(call'[c], clock)
  <1> DEFINE s == call[c]
             t == call'[c]
  <1>1. s \in CallState /\ Stage(s) /\ s.pc = "resolving"
    BY DEF TypeOK, CallsInv, DnsFailure, DnsAnswer
  <1>2. s.answer = <<>> /\ s.kept = {} /\ s.cursor = 0 /\ s.dialled = <<>> /\ s.lookups <= 1
    BY <1>1 DEF Stage, Kept, CallState
  <1>3. /\ t.dialled = <<>> /\ t.cursor = 0 /\ t.last_err = s.last_err
        /\ t.lookups = s.lookups /\ t.kept = Kept(t.answer)
        /\ \/ t.pc = "done" /\ t.outcome.kind \in {"DnsError", "AllBlocked"}
           \/ t.pc = "connecting" /\ t.kept # {} /\ t.outcome = s.outcome
    <2>1. CASE DnsFailure(c)
      <3>1. t = [s EXCEPT !.pc = "done", !.outcome = Outcome("DnsError", clock)]
        BY <2>1, UpdateOne DEF DnsFailure, Return
      <3> QED BY <1>1, <1>2, <3>1 DEF CallState, Outcome, Stage
    <2>2. CASE \E answer \in Answers : DnsAnswer(c, answer)
      <3> PICK answer \in Answers : DnsAnswer(c, answer)
        BY <2>2
      <3> DEFINE new == [s EXCEPT !.answer = answer, !.kept = Kept(answer)]
      <3>1. /\ new.pc = s.pc /\ new.answer = answer /\ new.kept = Kept(answer)
            /\ new.dialled = s.dialled /\ new.cursor = s.cursor
            /\ new.last_err = s.last_err /\ new.lookups = s.lookups
            /\ new.outcome = s.outcome
        BY <1>1 DEF CallState
      <3>2. \/ t = [new EXCEPT !.pc = "done", !.outcome = Outcome("DnsError", clock)]
            \/ t = [new EXCEPT !.pc = "done", !.outcome = Outcome("AllBlocked", clock)]
            \/ Kept(answer) # {} /\ t = [new EXCEPT !.pc = "connecting"]
        <4>1. \/ Update(c, [new EXCEPT !.pc = "done", !.outcome = Outcome("DnsError", clock)])
              \/ Update(c, [new EXCEPT !.pc = "done", !.outcome = Outcome("AllBlocked", clock)])
              \/ Kept(answer) # {} /\ Update(c, [new EXCEPT !.pc = "connecting"])
          BY Zenon DEF DnsAnswer, Return
        <4> QED BY <4>1, UpdateOne
      <3>3. CASE t = [new EXCEPT !.pc = "done", !.outcome = Outcome("DnsError", clock)]
        BY <1>1, <1>2, <3>3 DEF CallState, Outcome
      <3>4. CASE t = [new EXCEPT !.pc = "done", !.outcome = Outcome("AllBlocked", clock)]
        BY <1>1, <1>2, <3>4 DEF CallState, Outcome
      <3>5. CASE Kept(answer) # {} /\ t = [new EXCEPT !.pc = "connecting"]
        BY <1>1, <1>2, <3>5 DEF CallState
      <3> QED BY <3>2, <3>3, <3>4, <3>5
    <2> QED BY <2>1, <2>2
  <1>4. t.kept \subseteq Nat \ {0}
    <2>1. TypeOK'
      BY StepType
    <2> QED BY <2>1 DEF TypeOK, CallState
  <1>5. Stage(t)
    BY <1>1, <1>2, <1>3 DEF Stage
  <1>6. Dials(t, clock)
    BY <1>3, <1>4 DEF Dials
  <1> QED BY <1>5, <1>6

\* A turn of the loop.
LEMMA TurnInv ==
  ASSUME TypeOK, CallsInv, NEW c \in Calls, NEW i \in DOMAIN call[c].answer, TryNext(c, i)
  PROVE  Stage(call'[c]) /\ Dials(call'[c], clock)
  <1> DEFINE s    == call[c]
             t    == call'[c]
             dial == [pos |-> i, addr |-> s.answer[i], at |-> clock]
             n    == Len(s.dialled)
  <1>1. /\ s \in CallState /\ Stage(s) /\ Dials(s, clock) /\ s.pc = "connecting"
        /\ i \in s.kept /\ i > s.cursor
        /\ \A j \in s.kept : j > s.cursor => i <= j
    BY DEF TypeOK, CallsInv, TryNext, Remaining
  <1>2. /\ i \in Nat /\ s.kept \subseteq Nat /\ s.cursor \in Nat /\ clock \in Nat
        /\ s.start \in Nat /\ s.timeout \in Nat /\ s.dialled \in Seq(DialSet)
        /\ \A j \in s.kept : j < i <=> j <= s.cursor
    BY <1>1 DEF CallState, TypeOK
  <1>3. CASE Expired(c)
    <2>1. t = [s EXCEPT !.cursor = i, !.last_err = Outcome("Timeout", clock)]
      BY <1>3, UpdateOne DEF TryNext
    <2>2. /\ t.cursor = i /\ t.last_err.kind = "Timeout" /\ t.pc = s.pc
          /\ t.dialled = s.dialled /\ t.kept = s.kept /\ t.answer = s.answer
          /\ t.start = s.start /\ t.timeout = s.timeout /\ t.outcome = s.outcome
          /\ t.lookups = s.lookups
      BY <1>1, <2>1 DEF CallState, Outcome
    <2>3. ~ (clock < s.start + s.timeout)
      BY <1>2, <1>3 DEF Expired, Elapsed
    <2>4. Stage(t)
      BY <1>1, <1>2, <2>2 DEF Stage
    <2>5. \A k \in DOMAIN s.dialled : s.dialled[k].pos \in Nat /\ s.dialled[k].pos <= i
      <3>1. \A k \in DOMAIN s.dialled : s.dialled[k].pos \in s.kept /\ s.dialled[k].pos <= s.cursor
        BY <1>1 DEF Dials
      <3> QED BY ONLY <1>1, <1>2, <3>1
    <2>6. Dials(t, clock)
      BY <1>1, <2>2, <2>3, <2>5 DEF Dials
    <2> QED BY <2>4, <2>6
  <1>4. CASE ~ Expired(c)
    <2>1. t = [s EXCEPT !.cursor = i, !.pc = "dialling", !.dialled = Append(@, dial)]
      BY <1>4, UpdateOne DEF TryNext, Target
    <2>2. /\ t.cursor = i /\ t.last_err = s.last_err /\ t.pc = "dialling"
          /\ t.dialled = Append(s.dialled, dial) /\ t.kept = s.kept
          /\ t.answer = s.answer /\ t.start = s.start /\ t.timeout = s.timeout
          /\ t.outcome = s.outcome /\ t.lookups = s.lookups
      BY <1>1, <2>1 DEF CallState
    <2>3. /\ n \in Nat /\ DOMAIN s.dialled = 1 .. n /\ DOMAIN t.dialled = 1 .. (n + 1)
          /\ \A k \in 1 .. n : t.dialled[k] = s.dialled[k]
          /\ t.dialled[n + 1] = dial
      BY <1>2, <2>2
    <2>4. clock < s.start + s.timeout
      BY <1>2, <1>4 DEF Expired, Elapsed
    <2>5. Stage(t)
      <3>1. t.dialled # <<>>
        BY <2>3
      <3> QED BY <1>1, <2>2, <3>1 DEF Stage
    <2>6. \A j \in s.kept : j <= s.cursor => \E m \in 1 .. n : s.dialled[m].pos = j
      <3>1. \A j \in s.kept : j <= s.cursor => j \in Tried(s)
        BY <1>1, <2>4 DEF Dials
      <3> QED BY <2>3, <3>1 DEF Tried
    <2>7. \A k \in 1 .. n :
            /\ s.dialled[k].pos \in s.kept /\ s.dialled[k].pos <= s.cursor
            /\ s.dialled[k].addr = s.answer[s.dialled[k].pos]
            /\ s.dialled[k].at < s.start + s.timeout
            /\ \A j \in s.kept : j < s.dialled[k].pos =>
                 \E m \in 1 .. (k - 1) : s.dialled[m].pos = j
            /\ \A m \in 1 .. (k - 1) : s.dialled[m].pos < s.dialled[k].pos
      BY <1>1, <2>3 DEF Dials
    <2>8. ASSUME NEW k \in 1 .. (n + 1)
          PROVE  /\ t.dialled[k].pos \in t.kept /\ t.dialled[k].pos <= t.cursor
                 /\ t.dialled[k].addr = t.answer[t.dialled[k].pos]
                 /\ t.dialled[k].at < t.start + t.timeout
                 /\ \A j \in t.kept : j < t.dialled[k].pos =>
                      \E m \in 1 .. (k - 1) : t.dialled[m].pos = j
                 /\ \A m \in 1 .. (k - 1) : t.dialled[m].pos < t.dialled[k].pos
      <3>1. CASE k \in 1 .. n
        <4>1. t.dialled[k] = s.dialled[k] /\ \A m \in 1 .. (k - 1) : t.dialled[m] = s.dialled[m]
          BY <2>3, <3>1
        <4>2. s.dialled[k].pos <= i
          BY <1>1, <1>2, <2>7, <3>1
        <4>3. /\ s.dialled[k].pos \in s.kept
              /\ s.dialled[k].addr = s.answer[s.dialled[k].pos]
              /\ s.dialled[k].at < s.start + s.timeout
              /\ \A j \in s.kept : j < s.dialled[k].pos =>
                   \E m \in 1 .. (k - 1) : s.dialled[m].pos = j
              /\ \A m \in 1 .. (k - 1) : s.dialled[m].pos < s.dialled[k].pos
          BY ONLY <2>7, <3>1
        <4>4. \A j \in s.kept : j < s.dialled[k].pos =>
                   \E m \in 1 .. (k - 1) : t.dialled[m].pos = j
          BY ONLY <4>1, <4>3
        <4> HIDE DEF t, s, dial
        <4> QED BY ONLY <2>2, <4>1, <4>2, <4>3, <4>4
      <3>2. CASE k = n + 1
        <4>1. /\ t.dialled[k] = dial /\ k - 1 = n
              /\ \A m \in 1 .. n : t.dialled[m] = s.dialled[m]
          BY <2>3, <3>2
        <4>2. \A m \in 1 .. n : s.dialled[m].pos < i
          BY <1>1, <1>2, <2>7
        <4>3. \A j \in s.kept : j < i => \E m \in 1 .. n : s.dialled[m].pos = j
          BY <1>2, <2>6
        <4> QED BY <1>1, <1>2, <2>2, <2>4, <4>1, <4>2, <4>3
      <3> QED BY <2>3, <3>1, <3>2
    <2>9. \A j \in s.kept : j <= i => \E k \in 1 .. (n + 1) : t.dialled[k].pos = j
      <3>1. \A j \in s.kept : j <= i => j <= s.cursor \/ j = i
        BY <1>2
      <3>2. t.dialled[n + 1].pos = i
        BY <2>3
      <3> SUFFICES ASSUME NEW j \in s.kept, j <= i
                   PROVE  \E k \in 1 .. (n + 1) : t.dialled[k].pos = j
        OBVIOUS
      <3>3. CASE j = i
        BY <2>3, <3>2, <3>3
      <3>4. CASE j # i
        <4>1. PICK m \in 1 .. n : s.dialled[m].pos = j
          BY <2>6, <3>1, <3>4
        <4>2. m \in 1 .. (n + 1) /\ t.dialled[m].pos = j
          BY <2>3, <4>1
        <4> QED BY <4>2
      <3> QED BY <3>3, <3>4
    <2>10. Dials(t, clock)
      BY <2>2, <2>3, <2>8, <2>9 DEF Dials, Tried
    <2> QED BY <2>5, <2>10
  <1> QED BY <1>3, <1>4

\* The other steps of a call dial nothing.
LEMMA OutcomeInv ==
  ASSUME TypeOK, CallsInv, NEW c \in Calls,
         GiveUp(c) \/ DialOk(c) \/ DialError(c) \/ DialTimeout(c)
  PROVE  Stage(call'[c]) /\ Dials(call'[c], clock)
  <1> DEFINE s == call[c]
             t == call'[c]
  <1>1. s \in CallState /\ Stage(s) /\ Dials(s, clock)
    BY DEF TypeOK, CallsInv
  <1>2. /\ t.dialled = s.dialled /\ t.kept = s.kept /\ t.cursor = s.cursor
        /\ t.answer = s.answer /\ t.start = s.start /\ t.timeout = s.timeout
        /\ t.lookups = s.lookups /\ s.pc \notin {"idle", "resolving", "done"}
        /\ \/ /\ t.pc = "done" /\ t.last_err = s.last_err
              /\ t.outcome.kind # "none"
           \/ /\ t.pc = "connecting" /\ t.outcome = s.outcome
              /\ s.pc = "dialling" /\ t.last_err.kind \in {"ConnectError", "Timeout"}
    <2>1. CASE GiveUp(c)
      <3>1. t = [s EXCEPT !.pc = "done", !.outcome = s.last_err] /\ s.pc = "connecting"
        BY <2>1, UpdateOne DEF GiveUp
      <3>2. s.cursor > 0
        <4>1. s.kept \subseteq Nat \ {0} /\ s.cursor \in Nat
          BY <1>1 DEF CallState
        <4>2. \A i \in s.kept : ~ (i > s.cursor)
          BY <2>1 DEF GiveUp, Remaining
        <4> QED BY <1>1, <3>1, <4>1, <4>2 DEF Stage
      <3> QED BY <1>1, <3>1, <3>2 DEF CallState, Stage
    <2>2. CASE DialOk(c)
      <3>1. /\ s.pc = "dialling"
            /\ t = [s EXCEPT !.pc = "done", !.outcome = Outcome("Connected", clock)]
        BY <2>2, UpdateOne DEF DialOk, Return
      <3> QED BY <1>1, <3>1 DEF CallState, Outcome
    <2>3. CASE DialError(c)
      <3>1. /\ s.pc = "dialling"
            /\ t = [s EXCEPT !.pc = "connecting", !.last_err = Outcome("ConnectError", clock)]
        BY <2>3, UpdateOne DEF DialError
      <3> QED BY <1>1, <3>1 DEF CallState, Outcome
    <2>4. CASE DialTimeout(c)
      <3>1. /\ s.pc = "dialling"
            /\ t = [s EXCEPT !.pc = "connecting", !.last_err = Outcome("Timeout", clock)]
        BY <2>4, UpdateOne DEF DialTimeout
      <3> QED BY <1>1, <3>1 DEF CallState, Outcome
    <2> QED BY <2>1, <2>2, <2>3, <2>4
  <1>3. t.pc = "connecting" => t.cursor > 0
    <2>1. s.pc = "dialling" => s.dialled # <<>>
      BY <1>1 DEF Stage
    <2>2. s.dialled # <<>> => 1 \in DOMAIN s.dialled
      BY <1>1 DEF CallState
    <2>3. \A i \in s.kept : i \in Nat \ {0}
      BY <1>1 DEF CallState
    <2>4. s.dialled # <<>> => s.cursor > 0
      BY <1>1, <2>2, <2>3 DEF Dials, CallState
    <2> QED BY <1>2, <2>1, <2>4
  <1>4. Stage(t)
    BY <1>1, <1>2, <1>3 DEF Stage
  <1>5. Dials(t, clock)
    BY <1>1, <1>2, SameDials
  <1> QED BY <1>4, <1>5

\* CallsInv is inductive.
LEMMA CallsInvInductive == TypeOK /\ CallsInv /\ [Next]_vars => CallsInv'
  <1> SUFFICES ASSUME TypeOK, CallsInv, [Next]_vars PROVE CallsInv'
    OBVIOUS
  <1>1. CASE Tick
    <2>1. call' = call /\ clock' = clock + 1 /\ clock \in Nat
      BY <1>1 DEF Tick, TypeOK
    <2> SUFFICES ASSUME NEW c \in Calls
                 PROVE  Dials(call[c], clock + 1)
      BY <2>1 DEF CallsInv
    <2>2. call[c].start \in Nat /\ call[c].timeout \in Nat /\ Dials(call[c], clock)
      BY DEF TypeOK, CallState, CallsInv
    <2> QED BY <2>1, <2>2 DEF Dials
  <1>2. CASE UNCHANGED vars
    BY <1>2 DEF vars, CallsInv
  <1>3. ASSUME NEW c \in Calls, NEW new, Update(c, new),
               Stage(call'[c]) /\ Dials(call'[c], clock)
        PROVE  CallsInv'
    BY <1>3, UpdateOne DEF CallsInv
  <1>4. ASSUME NEW c \in Calls, NEW host \in Hosts, NEW timeout \in Timeouts,
               Connect(c, host, timeout)
        PROVE  CallsInv'
    <2>1. \E new : Update(c, new)
      BY <1>4 DEF Connect, Return, Hosts
    <2> QED BY <1>3, <1>4, <2>1, ConnectInv
  <1>5. ASSUME NEW c \in Calls, DnsFailure(c) \/ \E answer \in Answers : DnsAnswer(c, answer)
        PROVE  CallsInv'
    <2>1. \E new : Update(c, new)
      BY <1>5 DEF DnsFailure, DnsAnswer, Return
    <2> QED BY <1>3, <1>5, <2>1, LookupInv
  <1>6. ASSUME NEW c \in Calls, NEW i \in DOMAIN call[c].answer, TryNext(c, i)
        PROVE  CallsInv'
    <2>1. \E new : Update(c, new)
      BY <1>6 DEF TryNext
    <2> QED BY <1>3, <1>6, <2>1, TurnInv
  <1>7. ASSUME NEW c \in Calls, GiveUp(c) \/ DialOk(c) \/ DialError(c) \/ DialTimeout(c)
        PROVE  CallsInv'
    <2>1. \E new : Update(c, new)
      BY <1>7 DEF GiveUp, DialOk, DialError, DialTimeout, Return
    <2> QED BY <1>3, <1>7, <2>1, OutcomeInv
  <1> QED BY <1>1, <1>2, <1>4, <1>5, <1>6, <1>7 DEF Next, Loop

\* CallsInv holds in every state.
LEMMA CallsInvHolds == Spec => [](TypeOK /\ CallsInv)
  <1>1. Init => CallsInv
    BY DEF Init, CallsInv, NotCalled, NoOutcome, Outcome, Stage, Dials, Tried, Kept
  <1> QED BY <1>1, CallsInvInductive, TypeCorrect, PTL DEF Spec

-----------------------------------------------------------------------------
\* A call looks its host up at most once and dials, in the order of the answer
\* and without skipping one, the addresses the policy lets through.
THEOREM DialsInOrder == Spec => []DialsItsAnswerInOrder
  <1>1. TypeOK /\ CallsInv => DialsItsAnswerInOrder
    <2> SUFFICES ASSUME TypeOK, CallsInv, NEW c \in Calls
                 PROVE  LET s == call[c]
                        IN /\ s.lookups <= 1
                           /\ \A k \in DOMAIN s.dialled :
                                LET d == s.dialled[k]
                                IN /\ d.pos \in DOMAIN s.answer
                                   /\ d.addr = s.answer[d.pos]
                                   /\ d.addr \in Allowed
                                   /\ \A i \in 1 .. (d.pos - 1) :
                                        s.answer[i] \in Allowed <=>
                                          \E m \in 1 .. (k - 1) : s.dialled[m].pos = i
      BY DEF DialsItsAnswerInOrder
    <2> DEFINE s == call[c]
    <2>1. s \in CallState /\ Stage(s) /\ Dials(s, clock)
      BY DEF TypeOK, CallsInv
    <2>2. s.lookups <= 1
      BY <2>1 DEF Stage, CallState
    <2>3. /\ s.answer \in Seq(Addr) /\ s.dialled \in Seq(DialSet)
          /\ s.kept = {i \in DOMAIN s.answer : s.answer[i] \in Allowed}
      BY <2>1 DEF Stage, CallState, Kept
    <2>4. ASSUME NEW k \in DOMAIN s.dialled
          PROVE  LET d == s.dialled[k]
                 IN /\ d.pos \in DOMAIN s.answer
                    /\ d.addr = s.answer[d.pos]
                    /\ d.addr \in Allowed
                    /\ \A i \in 1 .. (d.pos - 1) :
                         s.answer[i] \in Allowed <=>
                           \E m \in 1 .. (k - 1) : s.dialled[m].pos = i
      <3> DEFINE d == s.dialled[k]
      <3>1. /\ d.pos \in s.kept /\ d.addr = s.answer[d.pos]
            /\ \A i \in s.kept : i < d.pos => \E m \in 1 .. (k - 1) : s.dialled[m].pos = i
        BY <2>1 DEF Dials
      <3>2. d.pos \in DOMAIN s.answer /\ d.addr \in Allowed
        BY <2>3, <3>1
      <3>3. \A m \in 1 .. (k - 1) : s.dialled[m].pos \in s.kept
        <4>1. \A m \in 1 .. (k - 1) : m \in DOMAIN s.dialled
          BY <2>3
        <4> QED BY <2>1, <4>1 DEF Dials
      <3>4. ASSUME NEW i \in 1 .. (d.pos - 1)
            PROVE  s.answer[i] \in Allowed <=> \E m \in 1 .. (k - 1) : s.dialled[m].pos = i
        <4>1. i \in DOMAIN s.answer /\ i < d.pos
          BY <2>3, <3>2
        <4>2. s.answer[i] \in Allowed <=> i \in s.kept
          BY <2>3, <4>1
        <4> QED BY <3>1, <3>3, <4>1, <4>2
      <3> QED BY <3>1, <3>2, <3>4
    <2> QED BY <2>2, <2>4
  <1> QED BY <1>1, CallsInvHolds, PTL

\* No TCP connect begins once the budget that started with the call is spent.
THEOREM BudgetIsKept == Spec => []NoDialPastTheBudget
  <1>1. CallsInv => NoDialPastTheBudget
    BY DEF CallsInv, Dials, NoDialPastTheBudget
  <1> QED BY <1>1, CallsInvHolds, PTL

-----------------------------------------------------------------------------
\* What a call will be able to say: of which positions, up to the cursor, it
\* knows that they were dialled, and that a Timeout is past the deadline.
AllTried(s) == \A i \in s.kept : i <= s.cursor => i \in Tried(s)

Refusals == {"AllBlocked", "Blocked", "AmbiguousIpEncoding", "DnsError", "InvalidAddress"}

Said(s) ==
  /\ s.outcome.kind = "ConnectError" => \A i \in s.kept : i \in Tried(s)
  /\ s.outcome.kind = "Timeout" => s.outcome.at >= s.start + s.timeout
  /\ s.outcome.kind \in Refusals => s.kept = {} /\ s.dialled = <<>>
  /\ s.outcome.kind = "Connected" => s.dialled # <<>>

Report(s) ==
  /\ s.pc \in {"idle", "resolving"} => s.last_err.kind = "none"
  /\ s.pc = "dialling" => AllTried(s)
  /\ s.pc = "connecting" /\ s.last_err.kind # "Timeout" => AllTried(s)
  /\ s.last_err.kind = "Timeout" => s.last_err.at >= s.start + s.timeout
  /\ s.pc = "done" => Said(s)

Reports == \A c \in Calls : Report(call[c])

\* A call that ends before its loop kept and dialled nothing.
LEMMA RefusedReport ==
  ASSUME NEW t, t.pc = "done", t.outcome.kind \in Refusals, t.kept = {}, t.dialled = <<>>,
         t.last_err.kind = "none"
  PROVE  Report(t)
  BY DEF Report, Said, Refusals

\* A call that gets addresses is at the start of its loop.
LEMMA StartedReport ==
  ASSUME NEW t, t.pc = "connecting", t.cursor = 0, t.kept \subseteq Nat \ {0},
         t.last_err.kind = "none"
  PROVE  Report(t)
  BY DEF Report, AllTried

\* A connect that ends at once dialled nothing.
LEMMA ConnectReport ==
  ASSUME TypeOK, CallsInv, Reports, NEW c \in Calls, NEW host \in Hosts,
         NEW timeout \in Timeouts, Connect(c, host, timeout)
  PROVE  Report(call'[c])
  <1> DEFINE s   == call[c]
             new == [s EXCEPT !.host = host, !.start = clock, !.timeout = timeout]
  <1>1. /\ s \in CallState /\ s.pc = "idle" /\ s.kept = {} /\ s.dialled = <<>>
        /\ s.cursor = 0 /\ s.last_err.kind = "none"
    <2>1. s \in CallState /\ Stage(s) /\ Report(s) /\ s.pc = "idle"
      BY DEF TypeOK, CallsInv, Reports, Connect
    <2> QED BY <2>1 DEF Stage, Report, Kept
  <1>2. /\ new \in CallState /\ new.kept = {} /\ new.dialled = <<>>
        /\ new.cursor = 0 /\ new.last_err = s.last_err
    BY <1>1, ConnectorAssumption DEF CallState, TypeOK
  <1> HIDE DEF new
  <1>3. ASSUME NEW kind \in Refusals, Return(c, new, kind) PROVE Report(call'[c])
    <2>1. Update(c, [new EXCEPT !.pc = "done", !.outcome = Outcome(kind, clock)])
      BY <1>3 DEF Return
    <2>2. call'[c] = [new EXCEPT !.pc = "done", !.outcome = Outcome(kind, clock)]
      BY <2>1, UpdateOne
    <2>3. /\ call'[c].pc = "done" /\ call'[c].outcome.kind = kind /\ call'[c].kept = {}
          /\ call'[c].dialled = <<>> /\ call'[c].last_err.kind = "none"
      BY <1>1, <1>2, <2>2 DEF CallState, Outcome
    <2> QED BY <2>3, RefusedReport
  <1>4. CASE host.kind \in {"malformed", "ambiguous"}
    BY <1>3, <1>4 DEF Connect, Refusals, new
  <1>5. CASE host.kind = "name"
    <2>1. Update(c, [new EXCEPT !.pc = "resolving", !.lookups = @ + 1])
      BY <1>5 DEF Connect, new
    <2>2. call'[c] = [new EXCEPT !.pc = "resolving", !.lookups = @ + 1]
      BY <2>1, UpdateOne
    <2> QED BY <1>1, <1>2, <2>2 DEF CallState, Report
  <1>6. CASE host.kind = "literal" /\ host.ip \notin Allowed
    BY <1>3, <1>6 DEF Connect, Refusals, new
  <1>7. CASE host.kind = "literal" /\ host.ip \in Allowed
    <2>1. Update(c, [new EXCEPT !.pc = "connecting", !.answer = <<host.ip>>, !.kept = {1}])
      BY <1>7 DEF Connect, new
    <2>2. call'[c] = [new EXCEPT !.pc = "connecting", !.answer = <<host.ip>>, !.kept = {1}]
      BY <2>1, UpdateOne
    <2>3. /\ call'[c].pc = "connecting" /\ call'[c].cursor = 0 /\ call'[c].kept = {1}
          /\ call'[c].last_err.kind = "none"
      BY <1>1, <1>2, <2>2 DEF CallState
    <2> QED BY <2>3, StartedReport
  <1> QED BY <1>4, <1>5, <1>6, <1>7 DEF Hosts

\* Nor did one whose lookup gave no address to dial.
LEMMA LookupReport ==
  ASSUME TypeOK, CallsInv, Reports, NEW c \in Calls,
         DnsFailure(c) \/ \E answer \in Answers : DnsAnswer(c, answer)
  PROVE  Report(call'[c])
  <1> DEFINE s == call[c]
  <1>1. /\ s \in CallState /\ s.pc = "resolving" /\ s.kept = {} /\ s.dialled = <<>>
        /\ s.cursor = 0 /\ s.last_err.kind = "none"
    <2>1. s \in CallState /\ Stage(s) /\ Report(s) /\ s.pc = "resolving"
      BY DEF TypeOK, CallsInv, Reports, DnsFailure, DnsAnswer
    <2> QED BY <2>1 DEF Stage, Report, Kept
  <1>2. CASE DnsFailure(c)
    <2>1. Update(c, [s EXCEPT !.pc = "done", !.outcome = Outcome("DnsError", clock)])
      BY <1>2 DEF DnsFailure, Return
    <2>2. call'[c] = [s EXCEPT !.pc = "done", !.outcome = Outcome("DnsError", clock)]
      BY <2>1, UpdateOne
    <2>3. /\ call'[c].pc = "done" /\ call'[c].outcome.kind = "DnsError" /\ call'[c].kept = {}
          /\ call'[c].dialled = <<>> /\ call'[c].last_err.kind = "none"
      BY <1>1, <2>2 DEF CallState, Outcome
    <2> QED BY <2>3, RefusedReport DEF Refusals
  <1>3. ASSUME NEW answer \in Answers, DnsAnswer(c, answer) PROVE Report(call'[c])
    <2> DEFINE new == [s EXCEPT !.answer = answer, !.kept = Kept(answer)]
    <2>1. answer \in Seq(Addr) /\ Kept(answer) \subseteq Nat \ {0}
      BY ConnectorAssumption DEF Kept
    <2>2. /\ new \in CallState /\ new.kept = Kept(answer) /\ new.dialled = <<>>
          /\ new.cursor = 0 /\ new.last_err = s.last_err
      BY <1>1, <2>1 DEF CallState
    <2>3. answer = <<>> => Kept(answer) = {}
      BY DEF Kept
    <2> HIDE DEF new
    <2>4. ASSUME NEW kind \in Refusals, Return(c, new, kind), Kept(answer) = {}
          PROVE  Report(call'[c])
      <3>1. Update(c, [new EXCEPT !.pc = "done", !.outcome = Outcome(kind, clock)])
        BY <2>4 DEF Return
      <3>2. call'[c] = [new EXCEPT !.pc = "done", !.outcome = Outcome(kind, clock)]
        BY <3>1, UpdateOne
      <3>3. /\ call'[c].pc = "done" /\ call'[c].outcome.kind = kind /\ call'[c].kept = {}
            /\ call'[c].dialled = <<>> /\ call'[c].last_err.kind = "none"
        BY <1>1, <2>2, <2>4, <3>2 DEF CallState, Outcome
      <3> QED BY <3>3, RefusedReport
    <2>5. ASSUME Update(c, [new EXCEPT !.pc = "connecting"]) PROVE Report(call'[c])
      <3>1. call'[c] = [new EXCEPT !.pc = "connecting"]
        BY <2>5, UpdateOne
      <3>2. /\ call'[c].pc = "connecting" /\ call'[c].cursor = 0
            /\ call'[c].kept \subseteq Nat \ {0} /\ call'[c].last_err.kind = "none"
        BY <1>1, <2>1, <2>2, <3>1 DEF CallState
      <3> QED BY <3>2, StartedReport
    <2> QED BY <1>3, <2>3, <2>4, <2>5 DEF DnsAnswer, Refusals, new
  <1> QED BY <1>2, <1>3

\* A turn of the loop dials while the budget lasts, when all up to the cursor
\* was dialled; else it notes a Timeout.
LEMMA TurnReport ==
  ASSUME TypeOK, CallsInv, Reports, NEW c \in Calls, NEW i \in DOMAIN call[c].answer,
         TryNext(c, i)
  PROVE  Report(call'[c])
  <1> DEFINE s == call[c]
             t == call'[c]
             dial == [pos |-> i, addr |-> s.answer[i], at |-> clock]
  <1>1. /\ s \in CallState /\ s.pc = "connecting" /\ Report(s)
        /\ Dials(t, clock) /\ clock \in Nat
    BY TurnInv DEF TypeOK, CallsInv, Reports, TryNext
  <1>2. CASE Expired(c)
    <2>1. t = [s EXCEPT !.cursor = i, !.last_err = Outcome("Timeout", clock)]
      BY <1>2, UpdateOne DEF TryNext
    <2>2. /\ t.pc = "connecting" /\ t.last_err.kind = "Timeout" /\ t.last_err.at = clock
          /\ t.start = s.start /\ t.timeout = s.timeout
      BY <1>1, <2>1 DEF CallState, Outcome
    <2>3. clock >= s.start + s.timeout
      BY <1>1, <1>2 DEF Expired, Elapsed, CallState
    <2> QED BY <2>2, <2>3 DEF Report
  <1>3. CASE ~ Expired(c)
    <2>1. t = [s EXCEPT !.cursor = i, !.pc = "dialling", !.dialled = Append(@, dial)]
      BY <1>3, UpdateOne DEF TryNext, Target
    <2>2. /\ t.pc = "dialling" /\ t.last_err = s.last_err
          /\ t.start = s.start /\ t.timeout = s.timeout
      BY <1>1, <2>1 DEF CallState
    <2>3. clock < t.start + t.timeout
      BY <1>1, <1>3, <2>2 DEF Expired, Elapsed, CallState
    <2>4. AllTried(t)
      BY <1>1, <2>3 DEF Dials, AllTried
    <2> QED BY <1>1, <2>2, <2>4 DEF Report
  <1> QED BY <1>2, <1>3

\* The steps that end a dial or the call say what they know.
LEMMA OutcomeReport ==
  ASSUME TypeOK, CallsInv, Reports, NEW c \in Calls,
         GiveUp(c) \/ DialOk(c) \/ DialError(c) \/ DialTimeout(c)
  PROVE  Report(call'[c])
  <1> DEFINE s == call[c]
             t == call'[c]
  <1>1. s \in CallState /\ Stage(s) /\ Report(s) /\ clock \in Nat
    BY DEF TypeOK, CallsInv, Reports
  <1>2. CASE GiveUp(c)
    <2>1. t = [s EXCEPT !.pc = "done", !.outcome = s.last_err] /\ s.pc = "connecting"
      BY <1>2, UpdateOne DEF GiveUp
    <2>2. /\ t.pc = "done" /\ t.outcome = s.last_err /\ t.last_err = s.last_err
          /\ t.kept = s.kept /\ t.dialled = s.dialled
          /\ t.start = s.start /\ t.timeout = s.timeout
      BY <1>1, <2>1 DEF CallState
    <2>3. \A i \in s.kept : i <= s.cursor
      BY <1>1, <1>2 DEF GiveUp, Remaining, CallState
    <2>4. s.last_err.kind # "Timeout" => \A i \in s.kept : i \in Tried(s)
      BY <1>1, <2>1, <2>3 DEF Report, AllTried
    <2>5. s.last_err.kind \in {"none", "ConnectError", "Timeout"}
      BY <1>1 DEF Stage
    <2>6. s.last_err.kind = "Timeout" => s.last_err.at >= s.start + s.timeout
      BY <1>1 DEF Report
    <2> HIDE DEF s
    <2>7. Said(t)
      BY <2>2, <2>4, <2>5, <2>6 DEF Said, Tried, Refusals
    <2> QED BY <2>2, <2>6, <2>7 DEF Report
  <1>3. CASE DialOk(c)
    <2>1. t = [s EXCEPT !.pc = "done", !.outcome = Outcome("Connected", clock)]
          /\ s.pc = "dialling"
      BY <1>3, UpdateOne DEF DialOk, Return
    <2>2. /\ t.pc = "done" /\ t.outcome.kind = "Connected" /\ t.last_err = s.last_err
          /\ t.dialled = s.dialled /\ t.start = s.start /\ t.timeout = s.timeout
          /\ s.dialled # <<>>
      BY <1>1, <2>1 DEF CallState, Outcome, Stage
    <2>3. s.last_err.kind = "Timeout" => s.last_err.at >= s.start + s.timeout
      BY <1>1 DEF Report
    <2> HIDE DEF s
    <2> QED BY <2>2, <2>3 DEF Report, Said, Refusals
  <1>4. CASE DialError(c)
    <2>1. t = [s EXCEPT !.pc = "connecting", !.last_err = Outcome("ConnectError", clock)]
          /\ s.pc = "dialling"
      BY <1>4, UpdateOne DEF DialError
    <2>2. /\ t.pc = "connecting" /\ t.last_err.kind = "ConnectError"
          /\ t.dialled = s.dialled /\ t.kept = s.kept /\ t.cursor = s.cursor
      BY <1>1, <2>1 DEF CallState, Outcome
    <2>3. AllTried(s)
      BY <1>1, <2>1 DEF Report
    <2> HIDE DEF s
    <2> QED BY <2>2, <2>3 DEF Report, AllTried, Tried
  <1>5. CASE DialTimeout(c)
    <2>1. t = [s EXCEPT !.pc = "connecting", !.last_err = Outcome("Timeout", clock)]
      BY <1>5, UpdateOne DEF DialTimeout
    <2>2. /\ t.pc = "connecting" /\ t.last_err.kind = "Timeout" /\ t.last_err.at = clock
          /\ t.start = s.start /\ t.timeout = s.timeout
      BY <1>1, <2>1 DEF CallState, Outcome
    <2>3. clock >= s.start + s.timeout
      BY <1>1, <1>5 DEF DialTimeout, Expired, Elapsed, CallState
    <2> QED BY <2>2, <2>3 DEF Report
  <1> QED BY <1>2, <1>3, <1>4, <1>5

\* Reports is inductive, given the invariants above.
LEMMA ReportsInductive == TypeOK /\ CallsInv /\ Reports /\ [Next]_vars => Reports'
  <1> SUFFICES ASSUME TypeOK, CallsInv, Reports, [Next]_vars PROVE Reports'
    OBVIOUS
  <1>1. CASE Tick \/ UNCHANGED vars
    BY <1>1 DEF Tick, vars, Reports
  <1>2. ASSUME NEW c \in Calls, NEW new, Update(c, new), Report(call'[c])
        PROVE  Reports'
    BY <1>2, UpdateOne DEF Reports
  <1>3. ASSUME NEW c \in Calls, NEW host \in Hosts, NEW timeout \in Timeouts,
               Connect(c, host, timeout)
        PROVE  Reports'
    <2>1. \E new : Update(c, new)
      BY <1>3 DEF Connect, Return, Hosts
    <2> QED BY <1>2, <1>3, <2>1, ConnectReport
  <1>4. ASSUME NEW c \in Calls, DnsFailure(c) \/ \E answer \in Answers : DnsAnswer(c, answer)
        PROVE  Reports'
    <2>1. \E new : Update(c, new)
      BY <1>4 DEF DnsFailure, DnsAnswer, Return
    <2> QED BY <1>2, <1>4, <2>1, LookupReport
  <1>5. ASSUME NEW c \in Calls, NEW i \in DOMAIN call[c].answer, TryNext(c, i)
        PROVE  Reports'
    <2>1. \E new : Update(c, new)
      BY <1>5 DEF TryNext
    <2> QED BY <1>2, <1>5, <2>1, TurnReport
  <1>6. ASSUME NEW c \in Calls, GiveUp(c) \/ DialOk(c) \/ DialError(c) \/ DialTimeout(c)
        PROVE  Reports'
    <2>1. \E new : Update(c, new)
      BY <1>6 DEF GiveUp, DialOk, DialError, DialTimeout, Return
    <2> QED BY <1>2, <1>6, <2>1, OutcomeReport
  <1> QED BY <1>1, <1>3, <1>4, <1>5, <1>6 DEF Next, Loop

\* What the caller is told is what happened: ConnectError only after every kept
\* address was dialled, Timeout only past the budget, a refusal only if no
\* address passed (connector.rs:74-137).
THEOREM OutcomesTellWhatHappened == Spec => []OutcomeTellsWhatHappened
  <1>1. Init => Reports
    BY DEF Init, Reports, Report, NotCalled, NoOutcome, Outcome
  <1>2. TypeOK /\ CallsInv /\ Reports => OutcomeTellsWhatHappened
    <2> SUFFICES ASSUME TypeOK, CallsInv, Reports, NEW c \in Calls, call[c].pc = "done"
                 PROVE  LET s     == call[c]
                            kind  == s.outcome.kind
                            good  == {i \in DOMAIN s.answer : s.answer[i] \in Allowed}
                        IN /\ kind # "none"
                           /\ kind = "ConnectError" => Tried(s) = good
                           /\ kind = "Timeout" => s.outcome.at >= s.start + s.timeout
                           /\ kind \in Refusals => good = {} /\ Tried(s) = {}
                           /\ kind = "Connected" => Tried(s) # {}
                           /\ Tried(s) # {} => kind \in {"Connected", "ConnectError", "Timeout"}
      BY DEF OutcomeTellsWhatHappened, Tried, Refusals
    <2> DEFINE s == call[c]
    <2>1. /\ s \in CallState /\ Said(s) /\ s.outcome.kind # "none"
          /\ s.kept = {i \in DOMAIN s.answer : s.answer[i] \in Allowed}
          /\ \A k \in DOMAIN s.dialled : s.dialled[k].pos \in s.kept
      BY DEF TypeOK, CallsInv, Reports, Stage, Kept, Report, Dials
    <2>2. s.outcome.kind \in {"Connected"} \cup Errors
      BY <2>1 DEF CallState, OutcomeSet
    <2>3. Tried(s) \subseteq s.kept
      BY <2>1 DEF Tried
    <2>4. Tried(s) # {} <=> s.dialled # <<>>
      <3>1. s.dialled \in Seq(DialSet)
        BY <2>1 DEF CallState
      <3>2. Len(s.dialled) \in Nat /\ DOMAIN s.dialled = 1 .. Len(s.dialled)
        BY <3>1
      <3>3. s.dialled # <<>> <=> Len(s.dialled) > 0
        BY <3>1, <3>2
      <3> HIDE DEF s
      <3>4. s.dialled # <<>> <=> 1 \in DOMAIN s.dialled
        BY <3>2, <3>3
      <3>5. s.dialled = <<>> => DOMAIN s.dialled = {}
        BY <3>2, <3>3
      <3> QED BY <3>4, <3>5 DEF Tried
    <2> HIDE DEF s
    <2> QED BY <2>1, <2>2, <2>3, <2>4 DEF Said, Refusals, Errors, s
  <1> QED BY <1>1, <1>2, ReportsInductive, CallsInvHolds, PTL DEF Spec

-----------------------------------------------------------------------------
\* How one step of a call may change what the call is mapped to.
Mapped(s, t) ==
  \/ /\ PinnedOf(t) = PinnedOf(s) /\ DialledOf(t) = DialledOf(s)
     /\ ResultOf(t) \in {ResultOf(s), "refused"}
  \/ /\ PinnedOf(s) = {} /\ PinnedOf(t) \subseteq Addr \cap Allowed
     /\ DialledOf(t) = DialledOf(s) /\ ResultOf(t) = ResultOf(s)
  \/ /\ PinnedOf(t) = PinnedOf(s) /\ ResultOf(t) = ResultOf(s)
     /\ \E a \in PinnedOf(s) : DialledOf(t) = Append(DialledOf(s), a)
  \/ /\ PinnedOf(t) = PinnedOf(s) /\ DialledOf(t) = DialledOf(s)
     /\ DialledOf(s) # <<>> /\ ResultOf(t) = "connected"

\* A step whose change is of that kind is a step of PinnedDial or stutters.
LEMMA MappedStep ==
  ASSUME TypeOK, NEW c \in Calls, NEW t, Update(c, t),
         ResultOf(call[c]) = "pending", Mapped(call[c], t)
  PROVE  [Pinned!PinNext]_(Pinned!pinVars)
  <1> DEFINE s       == call[c]
             pinned  == [d \in Calls |-> PinnedOf(call[d])]
             dialled == [d \in Calls |-> DialledOf(call[d])]
             result  == [d \in Calls |-> ResultOf(call[d])]
             pinnedN  == [d \in Calls |-> PinnedOf(call'[d])]
             dialledN == [d \in Calls |-> DialledOf(call'[d])]
             resultN  == [d \in Calls |-> ResultOf(call'[d])]
  <1>1. /\ pinnedN  = [pinned EXCEPT ![c] = PinnedOf(t)]
        /\ dialledN = [dialled EXCEPT ![c] = DialledOf(t)]
        /\ resultN  = [result EXCEPT ![c] = ResultOf(t)]
    BY UpdateOne
  <1>2. /\ pinned[c] = PinnedOf(s) /\ dialled[c] = DialledOf(s)
        /\ result[c] = ResultOf(s) /\ result[c] = "pending"
    OBVIOUS
  <1>3. /\ PinnedOf(t) = PinnedOf(s) => pinnedN = pinned
        /\ DialledOf(t) = DialledOf(s) => dialledN = dialled
        /\ ResultOf(t) = ResultOf(s) => resultN = result
    BY <1>1
  <1> HIDE DEF pinned, dialled, result, pinnedN, dialledN, resultN
  <1>4. \/ Pinned!Pin(c) \/ Pinned!Dial(c) \/ Pinned!Succeed(c) \/ Pinned!Refuse(c)
        \/ UNCHANGED (Pinned!pinVars)
    <2> USE DEF Pinned!Pin, Pinned!Dial, Pinned!Succeed, Pinned!Refuse, Pinned!pinVars
    <2>1. CASE /\ PinnedOf(t) = PinnedOf(s) /\ DialledOf(t) = DialledOf(s)
               /\ ResultOf(t) = ResultOf(s)
      BY <1>3, <2>1 DEF pinned, dialled, result, pinnedN, dialledN, resultN
    <2>2. CASE /\ PinnedOf(t) = PinnedOf(s) /\ DialledOf(t) = DialledOf(s)
               /\ ResultOf(t) = "refused"
      <3>1. resultN = [result EXCEPT ![c] = "refused"] /\ pinnedN = pinned /\ dialledN = dialled
        BY <1>1, <1>3, <2>2
      <3> QED BY <1>2, <3>1 DEF pinned, dialled, result, pinnedN, dialledN, resultN
    <2>3. CASE /\ PinnedOf(s) = {} /\ PinnedOf(t) \subseteq Addr \cap Allowed
               /\ DialledOf(t) = DialledOf(s) /\ ResultOf(t) = ResultOf(s)
      <3>1. /\ pinnedN = [pinned EXCEPT ![c] = PinnedOf(t)] /\ pinned[c] = {}
            /\ resultN = result /\ dialledN = dialled
        BY <1>1, <1>2, <1>3, <2>3
      <3> QED BY <1>2, <2>3, <3>1 DEF pinned, dialled, result, pinnedN, dialledN, resultN
    <2>4. CASE /\ PinnedOf(t) = PinnedOf(s) /\ ResultOf(t) = ResultOf(s)
               /\ \E a \in PinnedOf(s) : DialledOf(t) = Append(DialledOf(s), a)
      <3>1. PICK a \in PinnedOf(s) : DialledOf(t) = Append(DialledOf(s), a)
        BY <2>4
      <3>2. /\ dialledN = [dialled EXCEPT ![c] = Append(dialled[c], a)]
            /\ a \in pinned[c] /\ pinnedN = pinned /\ resultN = result
        BY <1>1, <1>2, <1>3, <2>4, <3>1
      <3> QED BY <1>2, <3>2 DEF pinned, dialled, result, pinnedN, dialledN, resultN
    <2>5. CASE /\ PinnedOf(t) = PinnedOf(s) /\ DialledOf(t) = DialledOf(s)
               /\ DialledOf(s) # <<>> /\ ResultOf(t) = "connected"
      <3>1. /\ resultN = [result EXCEPT ![c] = "connected"] /\ dialled[c] # <<>>
            /\ pinnedN = pinned /\ dialledN = dialled
        BY <1>1, <1>2, <1>3, <2>5
      <3> QED BY <1>2, <3>1 DEF pinned, dialled, result, pinnedN, dialledN, resultN
    <2> QED BY <2>1, <2>2, <2>3, <2>4, <2>5 DEF Mapped
  <1> QED BY <1>4 DEF Pinned!PinNext

\* connect: an address that passed pins itself, the other hosts pin nothing yet.
LEMMA ConnectMaps ==
  ASSUME TypeOK, CallsInv, NEW c \in Calls, NEW host \in Hosts,
         NEW timeout \in Timeouts, Connect(c, host, timeout)
  PROVE  [Pinned!PinNext]_(Pinned!pinVars)
  <1> DEFINE s   == call[c]
             new == [s EXCEPT !.host = host, !.start = clock, !.timeout = timeout]
  <1>1. /\ s \in CallState /\ s.pc = "idle" /\ s.outcome.kind = "none"
        /\ s.answer = <<>> /\ s.kept = {} /\ s.dialled = <<>>
    BY DEF TypeOK, CallsInv, Connect, Stage, Kept, CallState
  <1>2. ResultOf(s) = "pending" /\ PinnedOf(s) = {}
    BY <1>1 DEF ResultOf, PinnedOf
  <1>3. ASSUME NEW kind \in Errors, Return(c, new, kind)
        PROVE  [Pinned!PinNext]_(Pinned!pinVars)
    <2> DEFINE t == [new EXCEPT !.pc = "done", !.outcome = Outcome(kind, clock)]
    <2>1. Update(c, t)
      BY <1>3 DEF Return
    <2>2. /\ t.dialled = s.dialled /\ t.kept = s.kept /\ t.answer = s.answer
          /\ t.outcome.kind = kind
      BY <1>1 DEF CallState, Outcome
    <2> HIDE DEF t
    <2>3. ResultOf(t) = "refused"
      BY <2>2 DEF ResultOf, Errors
    <2>4. Mapped(s, t)
      BY <2>2, <2>3 DEF Mapped, PinnedOf, DialledOf
    <2> QED BY <1>2, <2>1, <2>4, MappedStep
  <1>4. CASE host.kind \in {"malformed", "ambiguous"}
    BY <1>3, <1>4 DEF Connect, Errors
  <1>5. CASE host.kind = "name"
    <2> DEFINE t == [new EXCEPT !.pc = "resolving", !.lookups = @ + 1]
    <2>1. Update(c, t)
      BY <1>5 DEF Connect
    <2>2. /\ t.dialled = s.dialled /\ t.kept = s.kept /\ t.answer = s.answer
          /\ t.outcome = s.outcome
      BY <1>1 DEF CallState
    <2> HIDE DEF t
    <2>3. Mapped(s, t)
      BY <2>2 DEF Mapped, PinnedOf, DialledOf, ResultOf
    <2> QED BY <1>2, <2>1, <2>3, MappedStep
  <1>6. CASE host.kind = "literal" /\ host.ip \notin Allowed
    BY <1>3, <1>6 DEF Connect, Errors
  <1>7. CASE host.kind = "literal" /\ host.ip \in Allowed
    <2> DEFINE t == [new EXCEPT !.pc = "connecting", !.answer = <<host.ip>>, !.kept = {1}]
    <2>1. Update(c, t)
      BY <1>7 DEF Connect
    <2>2. /\ t.dialled = s.dialled /\ t.kept = {1} /\ t.answer = <<host.ip>>
          /\ t.outcome = s.outcome
      BY <1>1 DEF CallState
    <2> HIDE DEF t
    <2>3. host.ip \in Addr
      BY <1>7 DEF Hosts
    <2>4. PinnedOf(t) \subseteq Addr \cap Allowed
      BY <1>7, <2>2, <2>3 DEF PinnedOf
    <2>5. Mapped(s, t)
      BY <1>2, <2>2, <2>4 DEF Mapped, DialledOf, ResultOf
    <2> QED BY <1>2, <2>1, <2>5, MappedStep
  <1> QED BY <1>4, <1>5, <1>6, <1>7 DEF Hosts

\* The return of the lookup: the kept addresses are pinned.
LEMMA LookupMaps ==
  ASSUME TypeOK, CallsInv, NEW c \in Calls,
         DnsFailure(c) \/ \E answer \in Answers : DnsAnswer(c, answer)
  PROVE  [Pinned!PinNext]_(Pinned!pinVars)
  <1> DEFINE s == call[c]
  <1>1. /\ s \in CallState /\ s.pc = "resolving" /\ s.outcome.kind = "none"
        /\ s.answer = <<>> /\ s.kept = {} /\ s.dialled = <<>>
    <2>1. s \in CallState /\ Stage(s) /\ s.pc = "resolving"
      BY DEF TypeOK, CallsInv, DnsAnswer, DnsFailure
    <2> QED BY <2>1 DEF Stage, Kept, CallState
  <1>2. ResultOf(s) = "pending" /\ PinnedOf(s) = {}
    BY <1>1 DEF ResultOf, PinnedOf
  <1>3. CASE DnsFailure(c)
    <2> DEFINE t == [s EXCEPT !.pc = "done", !.outcome = Outcome("DnsError", clock)]
    <2>1. Update(c, t)
      BY <1>3 DEF DnsFailure, Return
    <2>2. /\ t.dialled = s.dialled /\ t.kept = s.kept /\ t.answer = s.answer
          /\ t.outcome.kind = "DnsError"
      BY <1>1 DEF CallState, Outcome
    <2> HIDE DEF t
    <2>3. Mapped(s, t)
      BY <2>2 DEF Mapped, PinnedOf, DialledOf, ResultOf
    <2> QED BY <1>2, <2>1, <2>3, MappedStep
  <1>4. ASSUME NEW answer \in Answers, DnsAnswer(c, answer)
        PROVE  [Pinned!PinNext]_(Pinned!pinVars)
    <2> DEFINE new == [s EXCEPT !.answer = answer, !.kept = Kept(answer)]
    <2>1. answer \in Seq(Addr) /\ Kept(answer) = {i \in DOMAIN answer : answer[i] \in Allowed}
      BY ConnectorAssumption DEF Kept
    <2>2. ASSUME NEW kind \in {"DnsError", "AllBlocked"}, Return(c, new, kind), Kept(answer) = {}
          PROVE  [Pinned!PinNext]_(Pinned!pinVars)
      <3> DEFINE t == [new EXCEPT !.pc = "done", !.outcome = Outcome(kind, clock)]
      <3>1. Update(c, t)
        BY <2>2 DEF Return
      <3>2. t.dialled = s.dialled /\ t.kept = {} /\ t.outcome.kind = kind
        BY <1>1, <2>2 DEF CallState, Outcome
      <3> HIDE DEF t
      <3>3. PinnedOf(t) = {} /\ ResultOf(t) = "refused"
        BY <3>2 DEF PinnedOf, ResultOf
      <3>4. Mapped(s, t)
        BY <1>2, <3>2, <3>3 DEF Mapped, DialledOf
      <3> QED BY <1>2, <3>1, <3>4, MappedStep
    <2>3. ASSUME Update(c, [new EXCEPT !.pc = "connecting"])
          PROVE  [Pinned!PinNext]_(Pinned!pinVars)
      <3> DEFINE t == [new EXCEPT !.pc = "connecting"]
      <3>1. /\ t.dialled = s.dialled /\ t.kept = Kept(answer) /\ t.answer = answer
            /\ t.outcome = s.outcome
        BY <1>1 DEF CallState
      <3>2. Update(c, t)
        BY <2>3
      <3> HIDE DEF t
      <3>3. PinnedOf(t) \subseteq Addr \cap Allowed
        BY <2>1, <3>1 DEF PinnedOf
      <3>4. Mapped(s, t)
        BY <1>2, <3>1, <3>3 DEF Mapped, DialledOf, ResultOf
      <3> QED BY <1>2, <3>2, <3>4, MappedStep
    <2>4. answer = <<>> => Kept(answer) = {}
      BY <2>1
    <2> QED BY <1>4, <2>2, <2>3, <2>4 DEF DnsAnswer
  <1> QED BY <1>3, <1>4

\* A turn of the loop dials a pinned address or nothing.
LEMMA TurnMaps ==
  ASSUME TypeOK, CallsInv, NEW c \in Calls, NEW i \in DOMAIN call[c].answer, TryNext(c, i)
  PROVE  [Pinned!PinNext]_(Pinned!pinVars)
  <1> DEFINE s    == call[c]
             dial == [pos |-> i, addr |-> s.answer[i], at |-> clock]
  <1>1. /\ s \in CallState /\ s.outcome.kind = "none" /\ i \in s.kept
        /\ s.dialled \in Seq(DialSet)
    BY DEF TypeOK, CallsInv, TryNext, Stage, CallState, Remaining
  <1>2. ResultOf(s) = "pending"
    BY <1>1 DEF ResultOf
  <1>3. CASE Expired(c)
    <2> DEFINE t == [s EXCEPT !.cursor = i, !.last_err = Outcome("Timeout", clock)]
    <2>1. Update(c, t)
      BY <1>3 DEF TryNext
    <2>2. /\ t.dialled = s.dialled /\ t.kept = s.kept /\ t.answer = s.answer
          /\ t.outcome = s.outcome
      BY <1>1 DEF CallState
    <2> HIDE DEF t
    <2>3. Mapped(s, t)
      BY <2>2 DEF Mapped, PinnedOf, DialledOf, ResultOf
    <2> QED BY <1>2, <2>1, <2>3, MappedStep
  <1>4. CASE ~ Expired(c)
    <2> DEFINE t == [s EXCEPT !.cursor = i, !.pc = "dialling", !.dialled = Append(@, dial)]
    <2>1. Update(c, t)
      BY <1>4 DEF TryNext, Target
    <2>2. /\ t.dialled = Append(s.dialled, dial) /\ t.kept = s.kept /\ t.answer = s.answer
          /\ t.outcome = s.outcome
      BY <1>1 DEF CallState
    <2> HIDE DEF t
    <2>3. DialledOf(t) = Append(DialledOf(s), s.answer[i])
      BY <1>1, <2>2 DEF DialledOf
    <2>4. s.answer[i] \in PinnedOf(s)
      BY <1>1 DEF PinnedOf
    <2>5. Mapped(s, t)
      BY <2>2, <2>3, <2>4 DEF Mapped, PinnedOf, ResultOf
    <2> QED BY <1>2, <2>1, <2>5, MappedStep
  <1> QED BY <1>3, <1>4

\* The other steps settle the result or change nothing that is mapped.
LEMMA OutcomeMaps ==
  ASSUME TypeOK, CallsInv, NEW c \in Calls,
         GiveUp(c) \/ DialOk(c) \/ DialError(c) \/ DialTimeout(c)
  PROVE  [Pinned!PinNext]_(Pinned!pinVars)
  <1> DEFINE s == call[c]
  <1>1. s \in CallState /\ Stage(s) /\ s.pc \in {"connecting", "dialling"}
    BY DEF TypeOK, CallsInv, GiveUp, DialOk, DialError, DialTimeout
  <1>2. ResultOf(s) = "pending"
    BY <1>1 DEF Stage, ResultOf
  <1>3. CASE GiveUp(c)
    <2> DEFINE t == [s EXCEPT !.pc = "done", !.outcome = s.last_err]
    <2>1. Update(c, t)
      BY <1>3 DEF GiveUp
    <2>2. /\ t.dialled = s.dialled /\ t.kept = s.kept /\ t.answer = s.answer
          /\ t.outcome.kind \in {"none", "ConnectError", "Timeout"}
      BY <1>1 DEF CallState, Stage
    <2> HIDE DEF t
    <2>3. ResultOf(t) \in {"pending", "refused"}
      BY <2>2 DEF ResultOf
    <2>4. Mapped(s, t)
      BY <1>2, <2>2, <2>3 DEF Mapped, PinnedOf, DialledOf
    <2> QED BY <1>2, <2>1, <2>4, MappedStep
  <1>4. CASE DialOk(c)
    <2> DEFINE t == [s EXCEPT !.pc = "done", !.outcome = Outcome("Connected", clock)]
    <2>1. Update(c, t) /\ s.pc = "dialling"
      BY <1>4 DEF DialOk, Return
    <2>2. /\ t.dialled = s.dialled /\ t.kept = s.kept /\ t.answer = s.answer
          /\ t.outcome.kind = "Connected"
      BY <1>1 DEF CallState, Outcome
    <2> HIDE DEF t
    <2>3. DialledOf(s) # <<>>
      <3>1. s.dialled # <<>> /\ s.dialled \in Seq(DialSet)
        BY <1>1, <2>1 DEF Stage, CallState
      <3> QED BY <3>1 DEF DialledOf
    <2>4. Mapped(s, t)
      BY <2>2, <2>3 DEF Mapped, PinnedOf, DialledOf, ResultOf
    <2> QED BY <1>2, <2>1, <2>4, MappedStep
  <1>5. ASSUME NEW kind, Update(c, [s EXCEPT !.pc = "connecting", !.last_err = Outcome(kind, clock)])
        PROVE  [Pinned!PinNext]_(Pinned!pinVars)
    <2> DEFINE t == [s EXCEPT !.pc = "connecting", !.last_err = Outcome(kind, clock)]
    <2>1. /\ t.dialled = s.dialled /\ t.kept = s.kept /\ t.answer = s.answer
          /\ t.outcome = s.outcome
      BY <1>1 DEF CallState
    <2>2. Update(c, t)
      BY <1>5
    <2> HIDE DEF t
    <2>3. Mapped(s, t)
      BY <2>1 DEF Mapped, PinnedOf, DialledOf, ResultOf
    <2> QED BY <1>2, <2>2, <2>3, MappedStep
  <1> QED BY <1>3, <1>4, <1>5 DEF DialError, DialTimeout

\* The connector implements PinnedDial: whatever DNS and the peers do, a call
\* dials only addresses the policy let through, from one list fixed once.
THEOREM ConnectorImplementsPinnedDial == Spec => ImplementsPinnedDial
  <1>1. Init => Pinned!PinInit
    BY DEF Init, NotCalled, NoOutcome, Outcome, Pinned!PinInit,
           PinnedOf, DialledOf, ResultOf
  <1>2. TypeOK /\ CallsInv /\ [Next]_vars => [Pinned!PinNext]_(Pinned!pinVars)
    <2> SUFFICES ASSUME TypeOK, CallsInv, [Next]_vars
                 PROVE  [Pinned!PinNext]_(Pinned!pinVars)
      OBVIOUS
    <2>1. CASE Tick \/ UNCHANGED vars
      BY <2>1 DEF Tick, vars, Pinned!pinVars
    <2> QED BY <2>1, ConnectMaps, LookupMaps, TurnMaps, OutcomeMaps DEF Next, Loop
  <1> QED BY <1>1, <1>2, CallsInvHolds, PTL DEF Spec, ImplementsPinnedDial, Pinned!PinSpec
=============================================================================
