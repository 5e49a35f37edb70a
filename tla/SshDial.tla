------------------------------- MODULE SshDial -------------------------------
(***************************************************************************)
(* sshx.Dial of go-native/ressrf/sshx/dial.go: connect, handshake, and     *)
(* three ways to be stopped: the socket's deadline, the context, whose     *)
(* callback closes the socket in a goroutine of its own, and the peer.     *)
(* ssh.NewClientConn leaves a goroutine behind, the mux loop, that reads   *)
(* the connection until it is closed, and waits when the peer opens more   *)
(* channels than anyone takes.                                             *)
(***************************************************************************)
EXTENDS Integers

CONSTANTS
  Timeouts,    \* config.Timeout, or DefaultDialTimeout where it is zero
  MaxClock,    \* bound of the clock
  NoLimit      \* no deadline on the socket

ASSUME DialAssumption ==
  /\ Timeouts \subseteq Nat \ {0} /\ MaxClock \in Nat
  /\ NoLimit \notin Nat

VARIABLES
  now,        \* time
  ctx,        \* "live" or "done"
  pc,         \* where Dial is
  deadline,   \* the end of the budget
  conn,       \* the socket: "none", "open", "closed"
  limit,      \* its deadline
  after,      \* the context's callback: "none", "armed", "stopped", "running", "ran"
  err,        \* what NewClientConn returned: "none", "peer", "timeout", "closed"
  mux,        \* the mux loop: "none", "reading", "waiting", "ended"
  drained,    \* ssh.NewClient's goroutines take what the mux hands out
  outcome     \* what Dial returned

vars == <<now, ctx, pc, deadline, conn, limit, after, err, mux, drained, outcome>>
sock == <<conn, limit>>
loop == <<mux, drained>>

Init ==
  /\ now = 0 /\ ctx = "live" /\ pc = "idle" /\ deadline = 0
  /\ conn = "none" /\ limit = NoLimit /\ after = "none" /\ err = "none"
  /\ mux = "none" /\ drained = FALSE /\ outcome = "none"

\* A read or write fails from the deadline on; at it, it may have succeeded.
AtLimit   == IF limit = NoLimit THEN FALSE ELSE now >= limit
PastLimit == IF limit = NoLimit THEN FALSE ELSE now > limit

Return(result) == pc' = "done" /\ outcome' = result

-----------------------------------------------------------------------------
\* A nil configuration, or the gate on the URL, before anything is dialled.
Refused ==
  /\ pc = "idle"
  /\ \E result \in {"config", "blocked"} : Return(result)
  /\ UNCHANGED <<now, ctx, deadline, sock, after, err, loop>>

\* The deadline of the whole operation.
Dial(timeout) ==
  /\ pc = "idle" /\ now + timeout <= MaxClock
  /\ deadline' = now + timeout
  /\ pc' = "connect"
  /\ UNCHANGED <<now, ctx, sock, after, err, loop, outcome>>

\* dialer.DialContext.  A connection may still come up as the context ends.
Connected ==
  /\ pc = "connect" /\ now <= deadline
  /\ conn' = "open" /\ pc' = "limit"
  /\ UNCHANGED <<now, ctx, deadline, limit, after, err, loop, outcome>>

\* Refused by the peer or by the control hook; timed out; cancelled.
ConnectRefused ==
  /\ pc = "connect"
  /\ Return("dial")
  /\ UNCHANGED <<now, ctx, deadline, sock, after, err, loop>>

ConnectTimesOut ==
  /\ pc = "connect" /\ now >= deadline
  /\ Return("dial")
  /\ UNCHANGED <<now, ctx, deadline, sock, after, err, loop>>

ConnectCancelled ==
  /\ pc = "connect" /\ ctx = "done"
  /\ Return("ctx")
  /\ UNCHANGED <<now, ctx, deadline, sock, after, err, loop>>

\* Mutated form: the handshake gets a budget of its own.
SetLimitPerPhase ==
  /\ pc = "limit"
  /\ limit' = now + deadline /\ pc' = "watch"
  /\ UNCHANGED <<now, ctx, deadline, conn, after, err, loop, outcome>>

\* Mutated form: the handshake has no deadline.
SetNoLimit ==
  /\ pc = "limit"
  /\ pc' = "watch"
  /\ UNCHANGED <<now, ctx, deadline, sock, after, err, loop, outcome>>

\* conn.SetDeadline.
SetLimit ==
  /\ pc = "limit"
  /\ limit' = deadline /\ pc' = "watch"
  /\ UNCHANGED <<now, ctx, deadline, conn, after, err, loop, outcome>>

\* Mutated form: the error path forgets the socket.
SetLimitFailsOpen ==
  /\ pc = "limit"
  /\ Return("limit")
  /\ UNCHANGED <<now, ctx, deadline, sock, after, err, loop>>

SetLimitFails ==
  /\ pc = "limit"
  /\ conn' = "closed"
  /\ Return("limit")
  /\ UNCHANGED <<now, ctx, deadline, limit, after, err, loop>>

\* context.AfterFunc, whose function starts at once if the context is over.
Watch ==
  /\ pc = "watch"
  /\ after' = IF ctx = "done" THEN "running" ELSE "armed"
  /\ pc' = "handshake"
  /\ UNCHANGED <<now, ctx, deadline, sock, err, loop, outcome>>

-----------------------------------------------------------------------------
\* ssh.NewClientConn.  On failure it has closed the connection.
HandshakeDone ==
  /\ pc = "handshake" /\ conn = "open" /\ ~ PastLimit
  /\ err' = "none" /\ mux' = "reading" /\ pc' = "stop"
  /\ UNCHANGED <<now, ctx, deadline, sock, after, drained, outcome>>

HandshakeFails(reason) ==
  /\ pc = "handshake"
  /\ reason = "timeout" => conn = "open" /\ AtLimit
  /\ reason = "closed"  => conn = "closed"
  /\ reason = "peer"    => conn = "open"
  /\ err' = reason /\ conn' = "closed" /\ pc' = "stop"
  /\ UNCHANGED <<now, ctx, deadline, limit, after, loop, outcome>>

\* Mutated form: the error is looked at before the context.
StoppedAnyway ==
  /\ pc = "stop"
  /\ after' = IF after = "armed" THEN "stopped" ELSE after
  /\ IF err = "none"
     THEN drained' = TRUE /\ pc' = "clear" /\ UNCHANGED outcome
     ELSE Return(err) /\ UNCHANGED drained
  /\ UNCHANGED <<now, ctx, deadline, sock, err, mux>>

\* stopHandshakeCancel() is true: the callback will never run.
Stopped ==
  /\ pc = "stop" /\ after = "armed"
  /\ after' = "stopped"
  /\ IF err = "none"
     THEN drained' = TRUE /\ pc' = "clear" /\ UNCHANGED outcome     \* NewClient
     ELSE Return(err) /\ UNCHANGED drained
  /\ UNCHANGED <<now, ctx, deadline, sock, err, mux>>

\* Mutated form: c.Close(), which leaves the mux without takers.
StoppedTooLateUndrained ==
  /\ pc = "stop" /\ after \in {"running", "ran"}
  /\ conn' = "closed"
  /\ Return("ctx")
  /\ UNCHANGED <<now, ctx, deadline, limit, after, err, loop>>

\* It is false: a finished handshake is given up, through ssh.NewClient.
StoppedTooLate ==
  /\ pc = "stop" /\ after \in {"running", "ran"}
  /\ IF err = "none"
     THEN drained' = TRUE /\ conn' = "closed"
     ELSE UNCHANGED <<drained, conn>>
  /\ Return("ctx")
  /\ UNCHANGED <<now, ctx, deadline, limit, after, err, mux>>

ClearLimit ==
  /\ pc = "clear"
  /\ limit' = NoLimit
  /\ Return("client")
  /\ UNCHANGED <<now, ctx, deadline, conn, after, err, loop>>

ClearLimitFails ==
  /\ pc = "clear"
  /\ conn' = "closed"
  /\ Return("limit")
  /\ UNCHANGED <<now, ctx, deadline, limit, after, err, loop>>

-----------------------------------------------------------------------------
\* Around Dial: time, the caller's context, its callback, and the mux loop.
Tick ==
  /\ now < MaxClock
  /\ now' = now + 1
  /\ UNCHANGED <<ctx, pc, deadline, sock, after, err, loop, outcome>>

CtxEnds ==
  /\ ctx = "live"
  /\ ctx' = "done"
  /\ after' = IF after = "armed" THEN "running" ELSE after
  /\ UNCHANGED <<now, pc, deadline, sock, err, loop, outcome>>

CallbackCloses ==
  /\ after = "running"
  /\ after' = "ran" /\ conn' = "closed"
  /\ UNCHANGED <<now, ctx, pc, deadline, limit, err, loop, outcome>>

\* The peer opens channels nobody takes.
MuxWaits ==
  /\ mux = "reading" /\ conn = "open" /\ ~ drained
  /\ mux' = "waiting"
  /\ UNCHANGED <<now, ctx, pc, deadline, sock, after, err, drained, outcome>>

MuxGoesOn ==
  /\ mux = "waiting" /\ drained
  /\ mux' = "reading"
  /\ UNCHANGED <<now, ctx, pc, deadline, sock, after, err, drained, outcome>>

\* A read fails: the socket is closed, or past its deadline.
MuxEnds ==
  /\ mux = "reading"
  /\ conn = "closed" \/ AtLimit
  /\ mux' = "ended" /\ conn' = "closed"
  /\ UNCHANGED <<now, ctx, pc, deadline, limit, after, err, drained, outcome>>

Reasons == {"peer", "timeout", "closed"}

Next ==
  \/ Refused \/ \E timeout \in Timeouts : Dial(timeout)
  \/ Connected \/ ConnectRefused \/ ConnectTimesOut \/ ConnectCancelled
  \/ SetLimit \/ SetLimitFails \/ Watch
  \/ HandshakeDone \/ \E reason \in Reasons : HandshakeFails(reason)
  \/ Stopped \/ StoppedTooLate \/ ClearLimit \/ ClearLimitFails
  \/ Tick \/ CtxEnds \/ CallbackCloses
  \/ MuxWaits \/ MuxGoesOn \/ MuxEnds

Spec == Init /\ [][Next]_vars

\* Time goes on, timers fire, goroutines that can run do.  Peers owe nothing.
Fairness ==
  /\ WF_vars(Tick)
  /\ WF_vars(ConnectTimesOut)
  /\ WF_vars(SetLimit \/ SetLimitFails)
  /\ WF_vars(Watch)
  /\ WF_vars(HandshakeFails("timeout") \/ HandshakeFails("closed"))
  /\ WF_vars(Stopped \/ StoppedTooLate)
  /\ WF_vars(ClearLimit \/ ClearLimitFails)
  /\ WF_vars(CallbackCloses)
  /\ WF_vars(MuxGoesOn) /\ WF_vars(MuxEnds)

FairSpec == Spec /\ Fairness

TypeOK ==
  /\ now \in 0 .. MaxClock /\ ctx \in {"live", "done"}
  /\ pc \in {"idle", "connect", "limit", "watch", "handshake", "stop", "clear", "done"}
  /\ deadline \in 0 .. MaxClock
  /\ conn \in {"none", "open", "closed"} /\ limit \in (0 .. MaxClock) \cup {NoLimit}
  /\ after \in {"none", "armed", "stopped", "running", "ran"}
  /\ err \in Reasons \cup {"none"}
  /\ mux \in {"none", "reading", "waiting", "ended"} /\ drained \in BOOLEAN
  /\ outcome \in Reasons \cup {"none", "config", "blocked", "dial", "limit", "ctx", "client"}

-----------------------------------------------------------------------------
(***************************************************************************)
(* Properties.                                                             *)
(***************************************************************************)
\* Nothing Dial leaves behind closes a client it returned: the callback is
\* out, no deadline is left, and the only way its socket is closed is that the
\* mux loop met the deadline in the moment before it was taken off.
ClientIsLeftAlone ==
  outcome = "client" =>
    /\ after = "stopped" /\ limit = NoLimit /\ drained
    /\ conn = "closed" => now >= deadline /\ mux = "ended"

\* An error leaves no socket open.
NoSocketIsLeft == pc = "done" /\ outcome # "client" => conn # "open"

\* What ended the call is what the caller is told: the close by the context's
\* callback is never reported as a failed handshake, the context is blamed only
\* when it is over, and a deadline only when it is reached.
ErrorIsTheCause ==
  /\ outcome # "closed"
  /\ outcome = "ctx" => ctx = "done"
  /\ outcome = "timeout" => now >= deadline

\* The budget is one for all phases: however late the connection came up, a
\* handshake is done before the deadline the call began with, or not at all.
BudgetIsTotal ==
  [][pc = "handshake" /\ pc' = "stop" /\ err' = "none" => now <= deadline]_vars

\* Dial returns by the deadline or by the end of the context, whatever the
\* peer does or leaves undone in any phase.
DialReturns == pc # "idle" ~> pc = "done"

\* A handshake that is given up leaves no goroutine behind, even if the peer
\* has the mux loop waiting for someone to take a channel.
MuxLoopEnds ==
  pc = "done" /\ outcome # "client" /\ mux # "none" ~> mux = "ended"
=============================================================================
