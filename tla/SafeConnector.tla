---------------------------- MODULE SafeConnector ----------------------------
(***************************************************************************)
(* SafeConnector::connect and SafeResolver of crates/ressrf-tcp: resolve a *)
(* host once, keep the addresses the policy lets through, dial those in    *)
(* order under one time budget that started with the call.                 *)
(*                                                                         *)
(* Calls run concurrently (connect takes &self) and share nothing but the  *)
(* clock.  The Vec of kept addresses is the answer together with the set   *)
(* of its positions that were kept; the loop over the Vec visits them in   *)
(* increasing order.                                                       *)
(***************************************************************************)
EXTENDS Integers, Sequences, FiniteSets

CONSTANTS
  Calls,      \* connect calls
  Addr,       \* addresses
  Allowed,    \* addresses that pass Policy::is_network_allowed
  Answers,    \* what a DNS lookup may return: sequences of addresses
  Timeouts,   \* budgets a connector may be built with, in clock ticks
  MaxClock    \* bound: last tick of the clock

ASSUME ConnectorAssumption ==
  /\ Answers \subseteq Seq(Addr)
  /\ Timeouts \subseteq Nat
  /\ MaxClock \in Nat

VARIABLES
  clock,      \* tokio's monotonic clock
  call        \* the state of each call's future

vars == <<clock, call>>

\* A host as the caller writes it: a literal address, text libc would read as
\* an address, a name to look up, or a "host:port" text that has no port.
Hosts == [kind : {"literal"}, ip : Addr]
           \cup [kind : {"ambiguous", "name", "malformed"}]

Errors == {"InvalidAddress", "AmbiguousIpEncoding", "Blocked", "DnsError",
           "AllBlocked", "ConnectError", "Timeout"}

Outcome(kind, at) == [kind |-> kind, at |-> at]
NoOutcome         == Outcome("none", 0)

NotCalled ==
  [pc       |-> "idle",
   host     |-> [kind |-> "name"],
   start    |-> 0,
   timeout  |-> 0,
   answer   |-> <<>>,       \* addresses to try, as DNS returned them
   kept     |-> {},         \* positions of the answer the policy let through
   cursor   |-> 0,          \* position the loop is at
   last_err |-> NoOutcome,
   outcome  |-> NoOutcome,
   lookups  |-> 0,          \* history: DNS lookups made
   dialled  |-> <<>>]       \* history: [pos, addr, at] of each TCP connect

Elapsed(c) == clock - call[c].start
Expired(c) == Elapsed(c) >= call[c].timeout

\* Positions of the loop still to come.
Remaining(c)  == {i \in call[c].kept : i > call[c].cursor}

\* Mutated forms: one allowed address lets the whole answer through; positions
\* counted from zero.
KeptIfAny(answer) ==
  IF \E i \in DOMAIN answer : answer[i] \in Allowed THEN DOMAIN answer ELSE {}
KeptFromZero(answer) == {i \in 0 .. Len(answer) - 1 : answer[i + 1] \in Allowed}

\* SafeResolver::resolve asks the policy about each address alone.
Kept(answer) == {i \in DOMAIN answer : answer[i] \in Allowed}

Update(c, new)      == call' = [call EXCEPT ![c] = new] /\ UNCHANGED clock
Return(c, was, kind) ==
  Update(c, [was EXCEPT !.pc = "done", !.outcome = Outcome(kind, clock)])

-----------------------------------------------------------------------------
Init ==
  /\ clock = 0
  /\ call = [c \in Calls |-> NotCalled]

\* Time passes whenever a future waits.
Tick ==
  /\ clock < MaxClock
  /\ clock' = clock + 1
  /\ UNCHANGED call

\* connect, up to its first await.  The bound on the clock leaves room for the
\* whole budget.
Connect(c, host, timeout) ==
  LET new == [call[c] EXCEPT !.host = host, !.start = clock, !.timeout = timeout]
  IN /\ call[c].pc = "idle"
     /\ clock + timeout <= MaxClock
     /\ CASE host.kind = "malformed" -> Return(c, new, "InvalidAddress")
          [] host.kind = "ambiguous" -> Return(c, new, "AmbiguousIpEncoding")
          [] host.kind = "name" ->
               Update(c, [new EXCEPT !.pc = "resolving", !.lookups = @ + 1])
          [] host.kind = "literal" ->
               IF host.ip \in Allowed
               THEN Update(c, [new EXCEPT !.pc = "connecting",
                                          !.answer = <<host.ip>>, !.kept = {1}])
               ELSE Return(c, new, "Blocked")

\* The lookup returns: SafeResolver::resolve after its await.  Nothing bounds
\* the time it took.
DnsAnswer(c, answer) ==
  LET new == [call[c] EXCEPT !.answer = answer, !.kept = Kept(answer)]
  IN /\ call[c].pc = "resolving"
     /\ \/ answer = <<>> /\ Return(c, new, "DnsError")
        \/ answer # <<>> /\ Kept(answer) = {} /\ Return(c, new, "AllBlocked")
        \/ Kept(answer) # {} /\ Update(c, [new EXCEPT !.pc = "connecting"])

DnsFailure(c) ==
  /\ call[c].pc = "resolving"
  /\ Return(c, call[c], "DnsError")

\* Mutated form: the socket is given the name, which is looked up again.
TargetByName(c, i) ==
  IF call[c].host.kind = "name" THEN {answer[1] : answer \in Answers \ {<<>>}}
                                ELSE {call[c].answer[i]}

\* The address a TCP connect goes to: the one that was checked.
Target(c, i) == {call[c].answer[i]}

\* Mutated form: every address gets the whole budget.
RestartBudget(c, i) ==
  /\ call[c].pc = "connecting"
  /\ i \in Remaining(c) /\ \A j \in Remaining(c) : i <= j
  /\ \E a \in Target(c, i) :
        Update(c, [call[c] EXCEPT
                     !.cursor = i, !.pc = "dialling",
                     !.dialled = Append(@, [pos |-> i, addr |-> a, at |-> clock])])

\* One turn of the loop: connect_addr up to its await.
TryNext(c, i) ==
  /\ call[c].pc = "connecting"
  /\ i \in Remaining(c) /\ \A j \in Remaining(c) : i <= j
  /\ IF Expired(c)
     THEN Update(c, [call[c] EXCEPT !.cursor = i,
                                    !.last_err = Outcome("Timeout", clock)])
     ELSE \E a \in Target(c, i) :
            Update(c, [call[c] EXCEPT
                         !.cursor = i, !.pc = "dialling",
                         !.dialled = Append(@, [pos |-> i, addr |-> a, at |-> clock])])

\* The loop is over: the last error is the answer.
GiveUp(c) ==
  /\ call[c].pc = "connecting"
  /\ Remaining(c) = {}
  /\ Update(c, [call[c] EXCEPT !.pc = "done", !.outcome = call[c].last_err])

DialOk(c) ==
  /\ call[c].pc = "dialling"
  /\ Return(c, call[c], "Connected")

\* Mutated form: the first refused connection ends the call.
DialErrorReturns(c) ==
  /\ call[c].pc = "dialling"
  /\ Return(c, call[c], "ConnectError")

DialError(c) ==
  /\ call[c].pc = "dialling"
  /\ Update(c, [call[c] EXCEPT !.pc = "connecting",
                               !.last_err = Outcome("ConnectError", clock)])

\* Mutated form: the TCP connect is awaited without a timer.
DialWithoutTimer(c) == FALSE /\ UNCHANGED vars

\* tokio's timer fires at the deadline or later; a connection that is ready by
\* then may still win.
DialTimeout(c) ==
  /\ call[c].pc = "dialling"
  /\ Expired(c)
  /\ Update(c, [call[c] EXCEPT !.pc = "connecting",
                               !.last_err = Outcome("Timeout", clock)])

Loop(c) == (\E i \in DOMAIN call[c].answer : TryNext(c, i)) \/ GiveUp(c)

Next ==
  \/ Tick
  \/ \E c \in Calls :
        \/ \E host \in Hosts, timeout \in Timeouts : Connect(c, host, timeout)
        \/ \E answer \in Answers : DnsAnswer(c, answer)
        \/ DnsFailure(c)
        \/ Loop(c)
        \/ DialOk(c)
        \/ DialError(c)
        \/ DialTimeout(c)

\* Time goes on, the executor polls a future that is ready, timers fire.  DNS
\* and the peer owe nothing.
Fairness ==
  /\ WF_vars(Tick)
  /\ \A c \in Calls : WF_vars(Loop(c)) /\ WF_vars(DialTimeout(c))

Spec     == Init /\ [][Next]_vars
FairSpec == Spec /\ Fairness

-----------------------------------------------------------------------------
OutcomeSet == [kind : {"none", "Connected"} \cup Errors, at : Nat]
DialSet    == [pos : Nat, addr : Addr, at : Nat]
CallState  ==
  [pc       : {"idle", "resolving", "connecting", "dialling", "done"},
   host     : Hosts, start : Nat, timeout : Nat,
   answer   : Seq(Addr), kept : SUBSET (Nat \ {0}), cursor : Nat,
   last_err : OutcomeSet, outcome : OutcomeSet,
   lookups  : Nat, dialled : Seq(DialSet)]

TypeOK ==
  /\ clock \in Nat
  /\ call \in [Calls -> CallState]

-----------------------------------------------------------------------------
\* A call dials, in the order of its one answer, addresses the policy lets
\* through, and skips none: resolve() pins, connect() never looks up again.
DialsItsAnswerInOrder ==
  \A c \in Calls :
    LET s == call[c]
    IN /\ s.lookups <= 1
       /\ \A k \in DOMAIN s.dialled :
            LET d == s.dialled[k]
            IN /\ d.pos \in DOMAIN s.answer
               /\ d.addr = s.answer[d.pos]
               /\ d.addr \in Allowed
               /\ \A i \in 1 .. (d.pos - 1) :
                    s.answer[i] \in Allowed <=> \E m \in 1 .. (k - 1) : s.dialled[m].pos = i

\* No TCP connect is begun once the budget of the call, counted from its very
\* start and so including the lookup, is spent.
NoDialPastTheBudget ==
  \A c \in Calls :
    \A k \in DOMAIN call[c].dialled :
       call[c].dialled[k].at < call[c].start + call[c].timeout

\* What the caller is told is what happened: ConnectError only after every
\* kept address was dialled, Timeout only when the budget was spent, a denial
\* only if no address passed, and nothing was dialled after it.
OutcomeTellsWhatHappened ==
  \A c \in Calls :
    LET s    == call[c]
        kind == s.outcome.kind
        tried == {s.dialled[k].pos : k \in DOMAIN s.dialled}
        good == {i \in DOMAIN s.answer : s.answer[i] \in Allowed}
    IN s.pc = "done" =>
         /\ kind # "none"
         /\ kind = "ConnectError" => tried = good
         /\ kind = "Timeout" => s.outcome.at >= s.start + s.timeout
         /\ kind \in {"AllBlocked", "Blocked", "AmbiguousIpEncoding",
                      "DnsError", "InvalidAddress"} => good = {} /\ tried = {}
         /\ kind = "Connected" => tried # {}
         /\ tried # {} => kind \in {"Connected", "ConnectError", "Timeout"}

\* Once the addresses are known the caller gets an answer, whatever the peers
\* do: a peer that never answers costs at most the budget.
AnswerIsEventuallyGiven ==
  \A c \in Calls : call[c].pc = "connecting" ~> call[c].pc = "done"

-----------------------------------------------------------------------------
(***************************************************************************)
(* Refinement: a call pins the addresses it kept.                          *)
(***************************************************************************)
PinnedOf(s)  == {s.answer[i] : i \in s.kept}
DialledOf(s) == [k \in DOMAIN s.dialled |-> s.dialled[k].addr]
ResultOf(s)  == IF s.outcome.kind \in {"none", "Connected"}
                THEN IF s.outcome.kind = "none" THEN "pending" ELSE "connected"
                ELSE "refused"

Pinned == INSTANCE PinnedDial WITH
  pinned  <- [c \in Calls |-> PinnedOf(call[c])],
  dialled <- [c \in Calls |-> DialledOf(call[c])],
  result  <- [c \in Calls |-> ResultOf(call[c])]

\* The connector keeps the promise of PinnedDial.
ImplementsPinnedDial == Pinned!PinSpec

-----------------------------------------------------------------------------
\* connector.rs:72-73 says "each validated address is tried in order until one
\* connects": a call that dials and connects nowhere has dialled each address
\* the policy let through.  A first address that stays silent spends the budget
\* of the later ones, so they are not tried.
EachValidatedAddressIsTried ==
  \A c \in Calls :
    /\ call[c].pc = "done" /\ call[c].outcome.kind # "Connected"
    /\ call[c].dialled # <<>>
    => \A i \in call[c].kept : \E k \in DOMAIN call[c].dialled : call[c].dialled[k].pos = i
=============================================================================
