------------------------------ MODULE MCSshDial ------------------------------
(***************************************************************************)
(* One call, budgets of one and two ticks, and time beyond the longest.    *)
(***************************************************************************)
EXTENDS SshDial
=============================================================================
