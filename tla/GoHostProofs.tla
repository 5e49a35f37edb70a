---------------------------- MODULE GoHostProofs ----------------------------
(***************************************************************************)
(* Proofs about GoHost: a verdict a goroutine gets is the policy's on its  *)
(* own request, for any number of goroutines, requests and blocks.  The    *)
(* argument is that of two locks taken one inside the other: who is past   *)
(* the second one is alone with the guest's memory.                        *)
(***************************************************************************)
EXTENDS GoHost, TLAPS

Inside   == {"lock_instance", "write", "call", "guest", "read"}
InMemory == Inside \ {"lock_instance"}

\* Each mutex is held by the goroutine whose call is behind it, and the guest
\* is entered by no other.
Locked ==
  /\ \A t \in Threads : pc[t] \in Inside => p_mu = t
  /\ \A t \in Threads : pc[t] \in InMemory => inst_mu = t
  /\ \A t \in Threads : running = t => pc[t] = "guest"
  /\ torn = FALSE

\* What a goroutine finds in its blocks is its own.
OwnInput(t) ==
  pc[t] \in {"call", "guest"} =>
    call[t].input \in DOMAIN heap /\ heap[call[t].input] = call[t].request

OwnResult(t) ==
  pc[t] = "read" =>
    /\ call[t].block \in DOMAIN heap
    /\ heap[call[t].block].allowed = Answer(policies, Handle, call[t].request)

OwnBlocks == \A t \in Threads : OwnInput(t) /\ OwnResult(t)

\* Before Build there are no calls, and a call that began after Close finds the
\* runtime closed.
Unbuilt  == phase = "none" => \A t \in Threads : pc[t] = "idle" /\ outcome[t] = "none"
KnowsEnd == \A t \in Threads : call[t].closed => ~ open

IInv == TypeOK /\ Locked /\ OwnBlocks /\ Unbuilt /\ KnowsEnd

-----------------------------------------------------------------------------
\* The memory has blocks at its addresses only, beside what is written at Null.
LEMMA MemoryKept ==
  ASSUME DOMAIN heap \subseteq Ptrs \cup {Null}, NEW p \in FreePtrs \cup ResultPtrs,
         NEW content
  PROVE  DOMAIN With(heap, p, content) \subseteq Ptrs \cup {Null}
  BY DEF With, FreePtrs, ResultPtrs

\* A call keeps its type when it lets its blocks go.
LEMMA CallKept ==
  ASSUME call \in [Threads -> Calls], NEW t \in Threads
  PROVE  [call EXCEPT ![t].input = NoBlock, ![t].block = NoBlock] \in [Threads -> Calls]
  BY DEF Calls, Blocks

\* Every step keeps the type.
LEMMA TypeIsInductive == TypeOK /\ [Next]_vars => TypeOK'
  <1> SUFFICES ASSUME TypeOK, [Next]_vars PROVE TypeOK'
    OBVIOUS
  <1> USE GoAssumption DEF TypeOK, Stages, Owners, Blocks
  <1>1. ASSUME NEW config \in Configs, NEW sink \in BOOLEAN, Build(config, sink)
        PROVE  TypeOK'
    <2>1. DOMAIN heap' \subseteq Ptrs \cup {Null}
      BY <1>1, MemoryKept DEF Build
    <2> QED BY <1>1, <2>1 DEF Build
  <1>2. ASSUME NEW t \in Threads, NEW request \in Requests, Ask(t, request)
        PROVE  TypeOK'
    BY <1>2 DEF Ask, Calls
  <1>3. ASSUME NEW t \in Threads, Lock(t) PROVE TypeOK'
    BY <1>3 DEF Lock, LockPolicy, LockInstance
  <1>4. ASSUME NEW t \in Threads, Progress(t) PROVE TypeOK'
    <2>1. CASE WriteBytes(t)
      <3>1. DOMAIN heap' \subseteq Ptrs \cup {Null}
        BY <2>1, MemoryKept DEF WriteBytes
      <3>2. call' \in [Threads -> Calls]
        BY <2>1 DEF WriteBytes, FreePtrs, Calls
      <3> QED BY <2>1, <3>1, <3>2 DEF WriteBytes, EnterShortly
    <2>2. CASE WriteFails(t)
      BY <2>2, CallKept DEF WriteFails, Return
    <2>3. CASE EnterGuest(t)
      BY <2>3 DEF EnterGuest, EnterShortly
    <2>4. CASE GuestAnswers(t)
      <3>1. DOMAIN heap' \subseteq Ptrs \cup {Null}
        BY <2>4, MemoryKept DEF GuestAnswers
      <3>2. call' \in [Threads -> Calls]
        BY <2>4 DEF GuestAnswers, FreePtrs, ResultPtrs, Calls
      <3> QED BY <2>4, <3>1, <3>2 DEF GuestAnswers
    <2>5. CASE GuestFails(t)
      BY <2>5, CallKept DEF GuestFails, Return
    <2>6. CASE ReadResult(t)
      <3>1. DOMAIN heap' \subseteq Ptrs \cup {Null}
        BY <2>6 DEF ReadResult, Without
      <3>2. call' \in [Threads -> Calls]
        BY <2>6, CallKept DEF ReadResult, Return
      <3>3. torn' \in BOOLEAN
        BY <2>6 DEF ReadResult, EnterShortly
      <3>4. ResultOf(t) \in {"allowed", "denied"}
        BY DEF ResultOf
      <3> QED BY <2>6, <3>1, <3>2, <3>3, <3>4 DEF ReadResult, Return
    <2>7. CASE ReadFails(t)
      BY <2>7, CallKept DEF ReadFails, Return
    <2> QED BY <1>4, <2>1, <2>2, <2>3, <2>4, <2>5, <2>6, <2>7 DEF Progress
  <1>5. CASE Close
    BY <1>5 DEF Close
  <1>6. ASSUME NEW value \in BOOLEAN, SetDisabled(value) PROVE TypeOK'
    BY <1>6 DEF SetDisabled
  <1>7. CASE UNCHANGED vars
    BY <1>7 DEF vars
  <1> QED BY <1>1, <1>2, <1>3, <1>4, <1>5, <1>6, <1>7 DEF Next

\* A goroutine behind both mutexes is alone with the memory.
LEMMA AloneInMemory ==
  ASSUME TypeOK, Locked, NEW t \in Threads, pc[t] \in InMemory, EnterShortly(t)
  PROVE  torn' = FALSE
  <1>1. running \in {NoOne, t}
    BY DEF TypeOK, Owners, Locked, InMemory, Inside
  <1>2. torn' = (torn \/ FALSE)
    BY <1>1 DEF EnterShortly
  <1> QED BY <1>2 DEF Locked

\* The locks nest: every step keeps Locked.
LEMMA LocksNest == TypeOK /\ Locked /\ [Next]_vars => Locked'
  <1> SUFFICES ASSUME TypeOK, Locked, [Next]_vars PROVE Locked'
    OBVIOUS
  <1> USE GoAssumption DEF TypeOK, Owners, Stages, Locked, Inside, InMemory
  <1>1. ASSUME NEW config \in Configs, NEW sink \in BOOLEAN, Build(config, sink)
        PROVE  Locked'
    BY <1>1 DEF Build
  <1>2. ASSUME NEW t \in Threads, NEW request \in Requests, Ask(t, request)
        PROVE  Locked'
    BY <1>2 DEF Ask
  <1>3. ASSUME NEW t \in Threads, Lock(t) PROVE Locked'
    BY <1>3 DEF Lock, LockPolicy, LockInstance
  <1>4. ASSUME NEW t \in Threads, Progress(t) PROVE Locked'
    <2>1. CASE WriteBytes(t)
      BY <2>1, AloneInMemory DEF WriteBytes
    <2>2. CASE WriteFails(t)
      BY <2>2 DEF WriteFails, Return
    <2>3. CASE EnterGuest(t)
      BY <2>3, AloneInMemory DEF EnterGuest
    <2>4. CASE GuestAnswers(t)
      BY <2>4 DEF GuestAnswers
    <2>5. CASE GuestFails(t)
      BY <2>5 DEF GuestFails, Return
    <2>6. CASE ReadResult(t)
      BY <2>6, AloneInMemory DEF ReadResult, Return
    <2>7. CASE ReadFails(t)
      BY <2>7 DEF ReadFails, Return
    <2> QED BY <1>4, <2>1, <2>2, <2>3, <2>4, <2>5, <2>6, <2>7 DEF Progress
  <1>5. CASE Close
    BY <1>5 DEF Close
  <1>6. ASSUME NEW value \in BOOLEAN, SetDisabled(value) PROVE Locked'
    BY <1>6 DEF SetDisabled
  <1>7. CASE UNCHANGED vars
    BY <1>7 DEF vars
  <1> QED BY <1>1, <1>2, <1>3, <1>4, <1>5, <1>6, <1>7 DEF Next

\* Only one goroutine is past the second mutex.
LEMMA OneInMemory ==
  ASSUME TypeOK, Locked, NEW t \in Threads, NEW u \in Threads,
         pc[t] \in InMemory, pc[u] \in InMemory
  PROVE  t = u
  BY DEF Locked

\* Every step keeps OwnBlocks: a block is written, read and freed by the only
\* goroutine that can have any.
LEMMA BlocksStayOwn ==
  TypeOK /\ Locked /\ OwnBlocks /\ Unbuilt /\ [Next]_vars => OwnBlocks'
  <1> SUFFICES ASSUME TypeOK, Locked, OwnBlocks, Unbuilt, [Next]_vars,
                      NEW u \in Threads
               PROVE  OwnInput(u)' /\ OwnResult(u)'
    BY DEF OwnBlocks
  <1> USE DEF TypeOK, Stages, OwnBlocks, OwnInput, OwnResult
  <1>1. ASSUME NEW config \in Configs, NEW sink \in BOOLEAN, Build(config, sink)
        PROVE  OwnInput(u)' /\ OwnResult(u)'
    BY <1>1 DEF Build, Unbuilt
  <1>2. ASSUME NEW t \in Threads, NEW request \in Requests, Ask(t, request)
        PROVE  OwnInput(u)' /\ OwnResult(u)'
    BY <1>2 DEF Ask
  <1>3. ASSUME NEW t \in Threads, Lock(t)
        PROVE  OwnInput(u)' /\ OwnResult(u)'
    BY <1>3 DEF Lock, LockPolicy, LockInstance
  <1>4. ASSUME NEW t \in Threads, Progress(t)
        PROVE  OwnInput(u)' /\ OwnResult(u)'
    <2>1. u # t => pc[u] \notin InMemory
      BY <1>4, OneInMemory
         DEF Progress, WriteBytes, WriteFails, EnterGuest, GuestAnswers, GuestFails,
             ReadResult, ReadFails, InMemory, Inside
    <2>2. u # t => pc'[u] = pc[u]
      BY <1>4
         DEF Progress, WriteBytes, WriteFails, EnterGuest, GuestAnswers, GuestFails,
             ReadResult, ReadFails, Return
    <2>3. CASE u # t
      BY <2>1, <2>2, <2>3 DEF InMemory, Inside
    <2>4. CASE u = t
      <3> USE <2>4
      <3>1. CASE WriteBytes(t)
        BY <3>1 DEF WriteBytes, With, Calls
      <3>2. CASE WriteFails(t) \/ GuestFails(t) \/ ReadResult(t) \/ ReadFails(t)
        BY <3>2 DEF WriteFails, GuestFails, ReadResult, ReadFails, Return
      <3>3. CASE EnterGuest(t)
        BY <3>3 DEF EnterGuest
      <3>4. CASE GuestAnswers(t)
        BY <3>4 DEF GuestAnswers, With, Calls, Locked
      <3> QED BY <1>4, <3>1, <3>2, <3>3, <3>4 DEF Progress
    <2> QED BY <2>3, <2>4
  <1>5. CASE Close
    BY <1>5 DEF Close
  <1>6. ASSUME NEW value \in BOOLEAN, SetDisabled(value)
        PROVE  OwnInput(u)' /\ OwnResult(u)'
    BY <1>6 DEF SetDisabled
  <1>7. CASE UNCHANGED vars
    BY <1>7 DEF vars
  <1> QED BY <1>1, <1>2, <1>3, <1>4, <1>5, <1>6, <1>7 DEF Next

\* Every step keeps Unbuilt and KnowsEnd.
LEMMA EndsAreKnown ==
  TypeOK /\ Unbuilt /\ KnowsEnd /\ [Next]_vars => Unbuilt' /\ KnowsEnd'
  <1> SUFFICES ASSUME TypeOK, Unbuilt, KnowsEnd, [Next]_vars
               PROVE  Unbuilt' /\ KnowsEnd'
    OBVIOUS
  <1> USE DEF TypeOK, Stages, Calls, Unbuilt, KnowsEnd
  <1>1. ASSUME NEW config \in Configs, NEW sink \in BOOLEAN, Build(config, sink)
        PROVE  Unbuilt' /\ KnowsEnd'
    BY <1>1 DEF Build
  <1>2. ASSUME NEW t \in Threads, NEW request \in Requests, Ask(t, request)
        PROVE  Unbuilt' /\ KnowsEnd'
    BY <1>2 DEF Ask
  <1>3. ASSUME NEW t \in Threads, Lock(t) PROVE Unbuilt' /\ KnowsEnd'
    BY <1>3 DEF Lock, LockPolicy, LockInstance
  <1>4. ASSUME NEW t \in Threads, Progress(t) PROVE Unbuilt' /\ KnowsEnd'
    <2>1. phase' = phase /\ open' = open /\ pc[t] # "idle"
      BY <1>4
         DEF Progress, WriteBytes, WriteFails, EnterGuest, GuestAnswers, GuestFails,
             ReadResult, ReadFails
    <2>2. \A u \in Threads : call'[u].closed = call[u].closed
      <3>1. CASE WriteBytes(t)
        BY <3>1 DEF WriteBytes
      <3>2. CASE WriteFails(t) \/ GuestFails(t) \/ ReadResult(t) \/ ReadFails(t)
        <4>1. call' = [call EXCEPT ![t].input = NoBlock, ![t].block = NoBlock]
          BY <3>2 DEF WriteFails, GuestFails, ReadResult, ReadFails, Return
        <4> QED BY <4>1
      <3>3. CASE EnterGuest(t)
        BY <3>3 DEF EnterGuest
      <3>4. CASE GuestAnswers(t)
        BY <3>4 DEF GuestAnswers
      <3> QED BY <1>4, <3>1, <3>2, <3>3, <3>4 DEF Progress
    <2> QED BY <2>1, <2>2
  <1>5. CASE Close
    BY <1>5 DEF Close
  <1>6. ASSUME NEW value \in BOOLEAN, SetDisabled(value)
        PROVE  Unbuilt' /\ KnowsEnd'
    BY <1>6 DEF SetDisabled
  <1>7. CASE UNCHANGED vars
    BY <1>7 DEF vars
  <1> QED BY <1>1, <1>2, <1>3, <1>4, <1>5, <1>6, <1>7 DEF Next

-----------------------------------------------------------------------------
\* Every step keeps AnswerIsOwn and ClosedNeverAllows.
LEMMA AnswersStayOwn ==
  IInv /\ AnswerIsOwn /\ ClosedNeverAllows /\ [Next]_vars
    => AnswerIsOwn' /\ ClosedNeverAllows'
  <1> SUFFICES ASSUME IInv, AnswerIsOwn, ClosedNeverAllows, [Next]_vars
               PROVE  AnswerIsOwn' /\ ClosedNeverAllows'
    OBVIOUS
  <1> USE DEF IInv, TypeOK, Stages, Calls, AnswerIsOwn, ClosedNeverAllows
  <1>1. ASSUME NEW config \in Configs, NEW sink \in BOOLEAN, Build(config, sink)
        PROVE  AnswerIsOwn' /\ ClosedNeverAllows'
    BY <1>1 DEF Build, Unbuilt
  <1>2. ASSUME NEW t \in Threads, NEW request \in Requests, Ask(t, request)
        PROVE  AnswerIsOwn' /\ ClosedNeverAllows'
    BY <1>2 DEF Ask
  <1>3. ASSUME NEW t \in Threads, Lock(t) PROVE AnswerIsOwn' /\ ClosedNeverAllows'
    BY <1>3 DEF Lock, LockPolicy, LockInstance
  <1>4. ASSUME NEW t \in Threads, Progress(t)
        PROVE  AnswerIsOwn' /\ ClosedNeverAllows'
    <2>1. CASE WriteBytes(t)
      BY <2>1 DEF WriteBytes
    <2>2. CASE WriteFails(t) \/ GuestFails(t) \/ ReadFails(t)
      BY <2>2 DEF WriteFails, GuestFails, ReadFails, Return
    <2>3. CASE EnterGuest(t)
      BY <2>3 DEF EnterGuest
    <2>4. CASE GuestAnswers(t)
      BY <2>4 DEF GuestAnswers
    <2>5. CASE ReadResult(t)
      <3>1. heap[call[t].block].allowed = Answer(policies, Handle, call[t].request)
        BY <2>5 DEF ReadResult, OwnBlocks, OwnResult
      <3>2. ~ call[t].closed
        BY <2>5 DEF ReadResult, KnowsEnd
      <3>3. /\ outcome' = [outcome EXCEPT ![t] = ResultOf(t)]
            /\ call' = [call EXCEPT ![t].input = NoBlock, ![t].block = NoBlock]
            /\ policies' = policies
        BY <2>5 DEF ReadResult, Return
      <3>4. \A u \in Threads : /\ call'[u].request = call[u].request
                               /\ call'[u].closed = call[u].closed
        BY <3>3
      <3>5. ResultOf(t) = "allowed" <=> Answer(policies, Handle, call[t].request)
        BY <3>1 DEF ResultOf
      <3> HIDE DEF TypeOK
      <3>6. ASSUME NEW u \in Threads, u # t PROVE outcome'[u] = outcome[u]
        BY <3>3, <3>6 DEF TypeOK
      <3>7. outcome'[t] = ResultOf(t)
        BY <3>3 DEF TypeOK
      <3>8. AnswerIsOwn'
        BY <3>3, <3>4, <3>5, <3>6, <3>7
      <3>9. ClosedNeverAllows'
        BY <3>2, <3>4, <3>6, <3>7
      <3> QED BY <3>8, <3>9
    <2> QED BY <1>4, <2>1, <2>2, <2>3, <2>4, <2>5 DEF Progress
  <1>5. CASE Close
    BY <1>5 DEF Close
  <1>6. ASSUME NEW value \in BOOLEAN, SetDisabled(value)
        PROVE  AnswerIsOwn' /\ ClosedNeverAllows'
    BY <1>6 DEF SetDisabled
  <1>7. CASE UNCHANGED vars
    BY <1>7 DEF vars
  <1> QED BY <1>1, <1>2, <1>3, <1>4, <1>5, <1>6, <1>7 DEF Next

\* The invariant holds, with the two properties it is for.
LEMMA Invariant == Spec => [](IInv /\ AnswerIsOwn /\ ClosedNeverAllows)
  <1>1. Init => IInv /\ AnswerIsOwn /\ ClosedNeverAllows
    <2> SUFFICES ASSUME Init PROVE IInv /\ AnswerIsOwn /\ ClosedNeverAllows
      OBVIOUS
    <2>1. TypeOK
      <3>1. DOMAIN heap = {}
        BY DEF Init, GuestInit
      <3>2. call \in [Threads -> Calls]
        BY DEF Init, NoCall, Calls, Blocks
      <3> QED BY <3>1, <3>2 DEF Init, TypeOK, Stages, Owners
    <2>2. Locked /\ OwnBlocks
      BY GoAssumption DEF Init, Locked, Inside, InMemory, OwnBlocks, OwnInput, OwnResult
    <2>3. Unbuilt /\ KnowsEnd /\ AnswerIsOwn /\ ClosedNeverAllows
      BY DEF Init, NoCall, Unbuilt, KnowsEnd, AnswerIsOwn, ClosedNeverAllows
    <2> QED BY <2>1, <2>2, <2>3 DEF IInv
  <1>2. IInv /\ AnswerIsOwn /\ ClosedNeverAllows /\ [Next]_vars
          => (IInv /\ AnswerIsOwn /\ ClosedNeverAllows)'
    BY TypeIsInductive, LocksNest, BlocksStayOwn, EndsAreKnown, AnswersStayOwn DEF IInv
  <1> QED BY <1>1, <1>2, PTL DEF Spec

\* However goroutines interleave and whenever the policy is closed, a verdict is
\* the policy's on the caller's own request (policy.go:161, wasm.go:105).
THEOREM AnswersAreOwn == Spec => []AnswerIsOwn
  BY Invariant, PTL

\* A call that began after Close allows nothing (policy.go:261).
THEOREM ClosedPolicyAllowsNothing == Spec => []ClosedNeverAllows
  BY Invariant, PTL

\* The guest's memory is never entered by two goroutines at once, though Close
\* may come between any two steps of them.
THEOREM NeverTorn == Spec => [](torn = FALSE)
  <1>1. IInv => torn = FALSE
    BY DEF IInv, Locked
  <1> QED BY <1>1, Invariant, PTL
=============================================================================
