---------------------------- MODULE MCTxSchedule ----------------------------
(* Values of TxSchedule's constants for TLC. *)
EXTENDS TxSchedule

Never == -1

\* The theorem about the limits speaks of this instance.
ASSUME InstanceFits == CapFits
=============================================================================
