------------------------------ MODULE PinnedDial ------------------------------
(***************************************************************************)
(* What a connect call promises about the addresses it dials, without      *)
(* names, DNS or time: a call fixes a set of allowed addresses at most     *)
(* once, dials only addresses of that set, and is connected only to the    *)
(* address it dialled last.  SafeConnector is shown to implement it.       *)
(***************************************************************************)
EXTENDS Integers, Sequences

CONSTANTS
  Calls,      \* connect calls
  Addr,       \* addresses
  Allowed     \* addresses the policy lets through

VARIABLES
  pinned,     \* the addresses a call may dial, {} until they are fixed
  dialled,    \* the addresses it has dialled, in order
  result      \* "pending", "refused", or "connected"

pinVars == <<pinned, dialled, result>>

PinInit ==
  /\ pinned  = [c \in Calls |-> {}]
  /\ dialled = [c \in Calls |-> <<>>]
  /\ result  = [c \in Calls |-> "pending"]

Pin(c) ==
  /\ result[c] = "pending" /\ pinned[c] = {}
  /\ \E set \in SUBSET (Addr \cap Allowed) : pinned' = [pinned EXCEPT ![c] = set]
  /\ UNCHANGED <<dialled, result>>

Dial(c) ==
  /\ result[c] = "pending"
  /\ \E a \in pinned[c] : dialled' = [dialled EXCEPT ![c] = Append(@, a)]
  /\ UNCHANGED <<pinned, result>>

Succeed(c) ==
  /\ result[c] = "pending" /\ dialled[c] # <<>>
  /\ result' = [result EXCEPT ![c] = "connected"]
  /\ UNCHANGED <<pinned, dialled>>

Refuse(c) ==
  /\ result[c] = "pending"
  /\ result' = [result EXCEPT ![c] = "refused"]
  /\ UNCHANGED <<pinned, dialled>>

PinNext == \E c \in Calls : Pin(c) \/ Dial(c) \/ Succeed(c) \/ Refuse(c)

PinSpec == PinInit /\ [][PinNext]_pinVars
=============================================================================
