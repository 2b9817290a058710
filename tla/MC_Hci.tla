------------------------------- MODULE MC_Hci -------------------------------
(* The instance of Hci that TLC checks: where the control registers are.   *)
EXTENDS Hci

ControlRegisters == [hi |-> 1, mid |-> 0, lo |-> 0]
=============================================================================
