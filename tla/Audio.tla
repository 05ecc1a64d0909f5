-------------------------------- MODULE Audio --------------------------------
(* The two ways audio takes, one after the other: the relay beside the      *)
(* video, and the operators of the stand-alone chain.                       *)
EXTENDS AudioRelay, AudioOps

VARIABLE way \* the one that is taken

AudioInit ==
  /\ way \in {"relay", "operators"} /\ Init /\ OpsInit
  /\ way = "operators" => epoch = [s \in Streams |-> 0]

AudioNext ==
  /\ UNCHANGED way
  /\ \/ way = "relay" /\ Next /\ UNCHANGED opsVars
     \/ way = "operators" /\ OpsNext /\ UNCHANGED vars

AudioSpec ==
  /\ AudioInit /\ [][AudioNext]_<<way, vars, opsVars>>
  /\ way = "relay" => WF_vars(Elapse) /\ WF_vars(Arrives) /\ WF_vars(RelayStep)

(* Neither way loses audio: a relay that is scheduled in time drops nothing, *)
(* and the blocks of the stand-alone chain keep their order and their        *)
(* samples.                                                                  *)
AudioKept == NothingDropped /\ BlocksKept
=============================================================================
