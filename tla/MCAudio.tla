------------------------------- MODULE MCAudio -------------------------------
(* An instance of Audio: the epochs a sender may be off by are inside and    *)
(* outside the guards, and a stalled relay is just in time.                  *)
EXTENDS Audio

MCPeriod == [audio |-> 3, video |-> 1]
MCMaxLag == [audio |-> 1, video |-> 1]
MCSane == [audio |-> 9, video |-> 3]
MCEpochs == [audio |-> {0, 20, 60}, video |-> {0, 24}]

ASSUME InstanceInTime == HealthyNetwork /\ RelayInTime
=============================================================================
