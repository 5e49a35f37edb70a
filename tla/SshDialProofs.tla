---------------------------- MODULE SshDialProofs ----------------------------
(***************************************************************************)
(* Proofs about SshDial, for any budgets and however long the clock runs.  *)
(* The invariant says for each place of Dial what the socket, the callback *)
(* and the mux loop, which move on their own, may have come to by then.    *)
(***************************************************************************)
EXTENDS SshDial, TLAPS

\* The callback runs only if the context is over, and a deadline that is set is
\* that of the call.
CallbackIsCtx == after \in {"running", "ran"} => ctx = "done"

\* The only way the socket of a finished handshake closes by itself.
MuxMetDeadline == mux = "ended" /\ now >= deadline

BeforeSocket ==
  pc \in {"idle", "connect"} =>
    conn = "none" /\ limit = NoLimit /\ after = "none" /\ mux = "none" /\ ~ drained

AtSetLimit ==
  pc = "limit" =>
    conn = "open" /\ limit = NoLimit /\ after = "none" /\ mux = "none" /\ ~ drained

AtWatch ==
  pc = "watch" =>
    conn = "open" /\ limit = deadline /\ after = "none" /\ mux = "none" /\ ~ drained

AtHandshake ==
  pc = "handshake" =>
    /\ limit = deadline /\ mux = "none" /\ ~ drained
    /\ after \in {"armed", "running", "ran"}
    /\ conn = "closed" => after = "ran"

AtStop ==
  pc = "stop" =>
    /\ limit = deadline /\ ~ drained
    /\ after \in {"armed", "running", "ran"}
    /\ err = "closed" => after = "ran"
    /\ err = "timeout" => now >= deadline
    /\ err # "none" => conn = "closed" /\ mux = "none"
    /\ err = "none" /\ conn = "closed" => after = "ran" \/ MuxMetDeadline

AtClear ==
  pc = "clear" =>
    /\ limit = deadline /\ drained /\ after = "stopped"
    /\ conn = "closed" => MuxMetDeadline

AtDone ==
  /\ pc # "done" => outcome = "none"
  /\ ClientIsLeftAlone /\ NoSocketIsLeft /\ ErrorIsTheCause

Places ==
  BeforeSocket /\ AtSetLimit /\ AtWatch /\ AtHandshake /\ AtStop /\ AtClear /\ AtDone
IInv   == TypeOK /\ CallbackIsCtx /\ Places

\* Every step keeps the type.
LEMMA TypeIsInductive == TypeOK /\ [Next]_vars => TypeOK'
  <1> SUFFICES ASSUME TypeOK, [Next]_vars PROVE TypeOK'
    OBVIOUS
  <1> USE DialAssumption DEF TypeOK, Return, sock, loop
  <1>1. CASE Refused
    BY <1>1 DEF Refused
  <1>2. ASSUME NEW timeout \in Timeouts, Dial(timeout) PROVE TypeOK'
    BY <1>2 DEF Dial
  <1>3. CASE Connected \/ ConnectRefused \/ ConnectTimesOut \/ ConnectCancelled
    BY <1>3 DEF Connected, ConnectRefused, ConnectTimesOut, ConnectCancelled
  <1>4. CASE SetLimit \/ SetLimitFails \/ Watch
    BY <1>4 DEF SetLimit, SetLimitFails, Watch
  <1>5. CASE HandshakeDone
    BY <1>5 DEF HandshakeDone
  <1>6. ASSUME NEW reason \in Reasons, HandshakeFails(reason) PROVE TypeOK'
    BY <1>6 DEF HandshakeFails, Reasons
  <1>7. CASE Stopped \/ StoppedTooLate
    BY <1>7 DEF Stopped, StoppedTooLate
  <1>8. CASE ClearLimit \/ ClearLimitFails
    BY <1>8 DEF ClearLimit, ClearLimitFails
  <1>9. CASE Tick \/ CtxEnds \/ CallbackCloses
    BY <1>9 DEF Tick, CtxEnds, CallbackCloses
  <1>10. CASE MuxWaits \/ MuxGoesOn \/ MuxEnds
    BY <1>10 DEF MuxWaits, MuxGoesOn, MuxEnds
  <1>11. CASE UNCHANGED vars
    BY <1>11 DEF vars
  <1> QED
    BY <1>1, <1>2, <1>3, <1>4, <1>5, <1>6, <1>7, <1>8, <1>9, <1>10, <1>11 DEF Next

\* Every step keeps what is said of each place.
LEMMA PlacesAreInductive == IInv /\ [Next]_vars => CallbackIsCtx' /\ Places'
  <1> SUFFICES ASSUME IInv, [Next]_vars PROVE CallbackIsCtx' /\ Places'
    OBVIOUS
  <1> USE DialAssumption
      DEF IInv, TypeOK, CallbackIsCtx, MuxMetDeadline, Places, BeforeSocket, AtSetLimit,
          AtWatch, AtHandshake, AtStop, AtClear, AtDone, ClientIsLeftAlone, NoSocketIsLeft,
          ErrorIsTheCause, Return, sock, loop, AtLimit, PastLimit
  <1>1. CASE Refused
    BY <1>1 DEF Refused
  <1>2. ASSUME NEW timeout \in Timeouts, Dial(timeout)
        PROVE  CallbackIsCtx' /\ Places'
    BY <1>2 DEF Dial
  <1>3. CASE Connected \/ ConnectRefused \/ ConnectTimesOut \/ ConnectCancelled
    BY <1>3 DEF Connected, ConnectRefused, ConnectTimesOut, ConnectCancelled
  <1>4. CASE SetLimit \/ SetLimitFails \/ Watch
    <2>1. CASE SetLimit
      BY <2>1 DEF SetLimit
    <2>2. CASE SetLimitFails
      BY <2>2 DEF SetLimitFails
    <2>3. CASE Watch
      BY <2>3 DEF Watch
    <2> QED BY <1>4, <2>1, <2>2, <2>3
  <1>5. CASE HandshakeDone
    BY <1>5 DEF HandshakeDone
  <1>6. ASSUME NEW reason \in Reasons, HandshakeFails(reason)
        PROVE  CallbackIsCtx' /\ Places'
    BY <1>6 DEF HandshakeFails, Reasons
  <1>7. CASE Stopped
    <2>1. CASE err = "none"
      BY <1>7, <2>1 DEF Stopped
    <2>2. CASE err # "none"
      <3>1. pc' = "done" /\ outcome' = err /\ after' = "stopped"
        BY <1>7, <2>2 DEF Stopped
      <3>2. err # "closed" /\ err # "client" /\ err # "ctx" /\ conn = "closed"
        BY <1>7, <2>2 DEF Stopped, Reasons
      <3>3. UNCHANGED <<now, ctx, deadline, conn, err>>
        BY <1>7 DEF Stopped
      <3>4. err = "timeout" => now >= deadline
        BY <1>7 DEF Stopped
      <3> QED BY <3>1, <3>2, <3>3, <3>4
    <2> QED BY <2>1, <2>2
  <1>8. CASE StoppedTooLate
    BY <1>8 DEF StoppedTooLate
  <1>9. CASE ClearLimit \/ ClearLimitFails
    BY <1>9 DEF ClearLimit, ClearLimitFails
  <1>10. CASE Tick
    BY <1>10 DEF Tick
  <1>11. CASE CtxEnds \/ CallbackCloses
    <2>1. CASE CtxEnds
      BY <2>1 DEF CtxEnds
    <2>2. CASE CallbackCloses
      BY <2>2 DEF CallbackCloses
    <2> QED BY <1>11, <2>1, <2>2
  <1>12. CASE MuxWaits \/ MuxGoesOn
    BY <1>12 DEF MuxWaits, MuxGoesOn
  <1>13. CASE MuxEnds
    BY <1>13 DEF MuxEnds
  <1>14. CASE UNCHANGED vars
    BY <1>14 DEF vars
  <1> QED
    BY <1>1, <1>2, <1>3, <1>4, <1>5, <1>6, <1>7, <1>8, <1>9, <1>10, <1>11, <1>12,
       <1>13, <1>14 DEF Next

\* The invariant holds in every state.
LEMMA Invariant == Spec => []IInv
  <1>1. Init => IInv
    <2> SUFFICES ASSUME Init PROVE IInv
      OBVIOUS
    <2>1. TypeOK
      <3>1. 0 \in 0 .. MaxClock
        BY DialAssumption
      <3> QED BY <3>1, Zenon DEF Init, TypeOK
    <2>2. CallbackIsCtx /\ Places
      BY DEF Init, CallbackIsCtx, Places, BeforeSocket, AtSetLimit, AtWatch, AtHandshake,
             AtStop, AtClear, AtDone, ClientIsLeftAlone, NoSocketIsLeft, ErrorIsTheCause
    <2> QED BY <2>1, <2>2 DEF IInv
  <1>2. IInv /\ [Next]_vars => IInv'
    BY TypeIsInductive, PlacesAreInductive DEF IInv
  <1> QED BY <1>1, <1>2, PTL DEF Spec

-----------------------------------------------------------------------------
\* A client that Dial returned is closed by nothing Dial left behind but a mux
\* loop that met the deadline before it was taken off (dial.go:88-110).
THEOREM ClientsAreLeftAlone == Spec => []ClientIsLeftAlone
  <1>1. IInv => ClientIsLeftAlone
    BY DEF IInv, Places, AtDone
  <1> QED BY <1>1, Invariant, PTL

\* No error path leaves its socket open.
THEOREM NoSocketStays == Spec => []NoSocketIsLeft
  <1>1. IInv => NoSocketIsLeft
    BY DEF IInv, Places, AtDone
  <1> QED BY <1>1, Invariant, PTL

\* What ended the call is what the caller is told.
THEOREM ErrorsNameTheirCause == Spec => []ErrorIsTheCause
  <1>1. IInv => ErrorIsTheCause
    BY DEF IInv, Places, AtDone
  <1> QED BY <1>1, Invariant, PTL

\* Connect and handshake share the one budget the call began with.
THEOREM BudgetIsOne == Spec => BudgetIsTotal
  <1> DEFINE InTime == pc = "handshake" /\ pc' = "stop" /\ err' = "none" => now <= deadline
  <1>1. IInv /\ [Next]_vars => [InTime]_vars
    <2> SUFFICES ASSUME IInv, Next, pc = "handshake", pc' = "stop", err' = "none"
                 PROVE  now <= deadline
      OBVIOUS
    <2>1. limit = deadline /\ now \in Nat /\ deadline \in Nat
      BY DialAssumption DEF IInv, TypeOK, Places, AtHandshake
    <2>2. ~ PastLimit
      BY DEF Next, Refused, Dial, Connected, ConnectRefused, ConnectTimesOut,
             ConnectCancelled, SetLimit, SetLimitFails, Watch, HandshakeDone, HandshakeFails,
             Stopped, StoppedTooLate, ClearLimit, ClearLimitFails, Tick, CtxEnds,
             CallbackCloses, MuxWaits, MuxGoesOn, MuxEnds, Return, Reasons
    <2> QED BY <2>1, <2>2, DialAssumption DEF PastLimit
  <1> QED BY <1>1, Invariant, PTL DEF Spec, BudgetIsTotal
=============================================================================
